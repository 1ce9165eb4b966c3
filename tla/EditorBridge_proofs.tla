------------------------ MODULE EditorBridge_proofs ------------------------
(***************************************************************************)
(* Proofs about EditorBridge, for any files, modes, texts and bounds.      *)
(*                                                                         *)
(* Column and page each act on what the other said last, and messages of   *)
(* both are under way. So an invariant says what the page will show when   *)
(* it has taken the messages on their way: it runs them over what the page *)
(* shows now, and what comes out is what the column takes to be shown.     *)
(***************************************************************************)
EXTENDS EditorBridge, FiniteSetTheorems, SequenceTheorems, WellFoundedInduction, TLAPS

-----------------------------------------------------------------------------
(* Types                                                                   *)

Maps(S, T) == UNION {[paths -> T] : paths \in SUBSET S}

Entry == [value : Texts, cleanValue : Texts]
Models == Maps(Files, Entry)
Original == [path : Files, mode : Modes]
GroupDrawn == [path : Modes, loading : BOOLEAN]
FileDrawn == [path : Files, original : Original, text : Texts]
Saving == [content : Texts, count : Nat \ {0}]
Saves == Maps(Files, Saving)
Asked == Paths \cup {None}

\* What the page says, and what the column says.
Dirty == [type : {"dirty"}, path : Files, isDirty : BOOLEAN]
Save == [type : {"save"}, path : Files, content : Texts]
Selection == [type : {"selection"}, path : Files \cup {None}]
ToSwift == Dirty \cup Save \cup Selection \cup [type : {"monacoReady"}]

OpenFile == [type : {"openFile"}, path : Files, content : Texts, activate : BOOLEAN]
OfFile == [type : {"switchTab", "closeTab", "markSaved", "goToLine"}, path : Files]
EnterFile == {m \in [type : {"enterDiff"}, path : Files, original : Original] : m.original.path = m.path}
EnterGroup == [type : {"enterDiffGroup"}, path : Modes, loading : BOOLEAN]
Plain == [type : {"exitDiff", "getSelection"}]
SavesAll == [type : {"saveAll"}, skipPaths : SUBSET Files]
ToPage == OpenFile \cup OfFile \cup EnterFile \cup EnterGroup \cup Plain \cup SavesAll

PageState ==
    [models : Models, currentPath : Files \cup {None},
     diffMode : {None, "monaco", "pierre", "pierre-group"},
     original : {NoDiff} \cup Original, drawn : {NoDiff} \cup FileDrawn \cup GroupDrawn,
     redraws : BOOLEAN, pendingSaves : Saves, out : Seq(ToSwift)]

\* A page of these parts.
Page(models, currentPath, diffMode, original, drawn, redraws, pendingSaves, out) ==
    [models |-> models, currentPath |-> currentPath, diffMode |-> diffMode, original |-> original,
     drawn |-> drawn, redraws |-> redraws, pendingSaves |-> pendingSaves, out |-> out]

\* A page shows a file it has, or none; it waits for saves of files it has; a diff is
\* of the file it shows, with its text once it is drawn. A page that has died and came
\* back may be told to close a file while the diff of it shows.
PageFits(alive, js) ==
    /\ js.currentPath \in DOMAIN js.models \cup {None}
    /\ DOMAIN js.pendingSaves \subseteq DOMAIN js.models
    /\ IF ShowsDiff(js)
         THEN /\ js.original \in Original
              /\ js.currentPath = js.original.path \/ (~alive /\ js.currentPath = None)
              /\ js.drawn # NoDiff => js.drawn.path = js.original.path
              /\ js.currentPath # None /\ ~js.redraws => js.drawn = Drawing(js)
         ELSE js.original = NoDiff /\ ~js.redraws
    /\ js.diffMode = "pierre-group" => js.drawn \in GroupDrawn
    /\ js.diffMode = None => js.drawn = NoDiff

Load == {NoLoad} \cup [kind : {"file"}, path : Paths, mode : Modes]
          \cup {l \in [kind : {"group"}, path : Modes, mode : Modes] : l.path = l.mode}

ColumnState ==
    [tabPaths : Seq(Paths), activePath : Asked,
     dirtyByPath : SUBSET Files, diskModifiedWhileDirty : SUBSET Files,
     diffActivePath : Files \cup {None}, diffActiveMode : Modes \cup {None},
     diffModeByPath : Maps(Paths, Modes), diffGroupTabs : Maps(Modes, {"loading", "shown"}),
     load : Load, out : Seq(ToPage)]

-----------------------------------------------------------------------------
(* What the page shows, and will show                                      *)

\* What a page shows: the files it has, the one in front, the diff over it or the
\* collection instead; and the requests for the selection the page has yet to answer.
\* Once the page left a collection by itself (not "fresh"), collections don't count.
Viewed ==
    {v \in [models : SUBSET Files, path : Files \cup {None}, mode : {"none", "file", "group"},
            original : {NoDiff} \cup Original, drawn : {NoDiff} \cup GroupDrawn, due : Seq(Asked)] :
       v.path \in v.models \cup {None}}

Shown(models, path, mode, original, drawn, due) ==
    [models |-> models, path |-> path, mode |-> mode, original |-> original, drawn |-> drawn, due |-> due]

View(fresh, js, due) ==
    LET group == fresh /\ js.diffMode = "pierre-group" IN
    Shown(DOMAIN js.models, js.currentPath,
          IF ShowsDiff(js) THEN "file" ELSE IF group THEN "group" ELSE "none",
          js.original, IF group THEN js.drawn ELSE NoDiff, due)

NoDiffIn(v) == Shown(v.models, v.path, "none", NoDiff, NoDiff, v.due)
FileShown(v, path) == Shown(v.models, path, "none", NoDiff, NoDiff, v.due)
Opened(v, path) == Shown(v.models \cup {path}, v.path, v.mode, v.original, v.drawn, v.due)
ClosedIn(v, path) ==
    Shown(v.models \ {path}, IF v.path = path THEN None ELSE v.path, v.mode, v.original, v.drawn, v.due)
FileDiffIn(v, original) == Shown(v.models, v.path, "file", original, NoDiff, v.due)
GroupIn(fresh, v, m) ==
    IF fresh THEN Shown(v.models, v.path, "group", NoDiff, [path |-> m.path, loading |-> m.loading], v.due)
    ELSE NoDiffIn(v)
Answered(v) == Shown(v.models, v.path, v.mode, v.original, v.drawn, Tail(v.due))

\* A message changes what is shown so.
Sees(fresh, v, m) ==
    CASE m.type = "openFile" -> IF m.activate THEN FileShown(Opened(v, m.path), m.path) ELSE Opened(v, m.path)
      [] m.type = "switchTab" -> IF m.path \in v.models THEN FileShown(v, m.path) ELSE v
      [] m.type = "goToLine" -> IF m.path \in v.models /\ v.path # m.path THEN FileShown(v, m.path) ELSE v
      [] m.type = "closeTab" -> ClosedIn(v, m.path)
      [] m.type = "enterDiff" -> IF m.path \in v.models THEN FileDiffIn(v, m.original) ELSE v
      [] m.type = "enterDiffGroup" -> GroupIn(fresh, v, m)
      [] m.type = "exitDiff" -> NoDiffIn(v)
      [] m.type = "getSelection" -> Answered(v)
      [] OTHER -> v

\* The message comes at the right time: a diff when its file is in front, the end of
\* a file when no diff of it is shown, a request when what it asks of is in front.
Timely(alive, fresh, v, m) ==
    /\ m.type = "enterDiff" => (m.path \in v.models => v.path = m.path)
    /\ m.type = "closeTab" /\ alive => ~(v.mode = "file" /\ v.path = m.path)
    /\ m.type = "getSelection" =>
         /\ v.due # <<>>
         /\ fresh => v.mode = "group" \/ v.path \in {None, Head(v.due)}

\* Messages lead from one to the other, each in its time.
Follows(alive, fresh, v, ms, w) ==
    \E run \in [0..Len(ms) -> Viewed] :
      /\ run[0] = v /\ run[Len(ms)] = w
      /\ \A i \in 1..Len(ms) :
           Timely(alive, fresh, run[i - 1], ms[i]) /\ run[i] = Sees(fresh, run[i - 1], ms[i])

\* Messages lead from one state to another, each by a step <<before, message, after>>.
Leads(S, step, v, ms, w) ==
    \E run \in [0..Len(ms) -> S] :
      /\ run[0] = v /\ run[Len(ms)] = w
      /\ \A i \in 1..Len(ms) : <<run[i - 1], ms[i], run[i]>> \in step

\* The selections under way answer the first requests; those left are due.
Answer(fresh) ==
    {t \in Seq(Asked) \X ToSwift \X Seq(Asked) :
       IF t[2].type = "selection"
         THEN /\ t[1] # <<>> /\ t[3] = Tail(t[1])
              /\ fresh => t[2].path \in {None, Head(t[1])}
         ELSE t[3] = t[1]}
Answers(fresh, asked, ms, due) == Leads(Seq(Asked), Answer(fresh), asked, ms, due)

\* Of the messages in R, the last is in A; there is none.
LastIn(ms, A, R) ==
    \E i \in 1..Len(ms) : ms[i] \in A /\ \A j \in 1..Len(ms) : j > i => ms[j] \notin R
NoneIn(ms, R) == \A i \in 1..Len(ms) : ms[i] \notin R

\* What a page says of the text of a file.
DirtyOf(path) == {m \in ToSwift : m.type = "dirty" /\ m.path = path}
DirtyTold(path) == {m \in DirtyOf(path) : m.isDirty}

\* Taking a message the page says of a text that got dirty that it is.
Told(before, after) ==
    \A p \in DOMAIN after.models : IsDirty(after.models[p]) =>
      \/ LastIn(after.out, DirtyTold(p), DirtyOf(p))
      \/ /\ NoneIn(after.out, DirtyOf(p))
         /\ p \in DOMAIN before.models /\ IsDirty(before.models[p])

\* The page acted and shows v now.
Becomes(alive, fresh, due, before, after, v) ==
    /\ after \in PageState /\ PageFits(alive, after) /\ Told(before, after)
    /\ \E left \in Seq(Asked) : Answers(fresh, due, after.out, left) /\ View(fresh, after, left) = v

\* The page took a message: it shows what the message makes of what it showed.
Taken(alive, fresh, due, before, m, after) ==
    Becomes(alive, fresh, due, before, after, Sees(fresh, View(fresh, before, due), m))

-----------------------------------------------------------------------------
(* Messages                                                                *)

LEMMA NamesApart ==
  /\ Files \cap Modes = {} /\ None \notin Files /\ None \notin Modes
  /\ Paths = Files \cup Modes
  BY EditorAssumption DEF Paths

LEMMA FilesFinite == IsFiniteSet(Files)
  BY EditorAssumption

LEMMA PageMessage ==
  ASSUME NEW m \in ToPage
  PROVE  /\ m.type \in {"openFile", "switchTab", "closeTab", "markSaved", "goToLine", "enterDiff",
                        "enterDiffGroup", "exitDiff", "getSelection", "saveAll"}
         /\ m.type = "openFile" => m.path \in Files /\ m.content \in Texts /\ m.activate \in BOOLEAN
         /\ m.type \in {"switchTab", "closeTab", "markSaved", "goToLine"} => m.path \in Files
         /\ m.type = "enterDiff" => m.path \in Files /\ m.original \in Original /\ m.original.path = m.path
         /\ m.type = "enterDiffGroup" => m.path \in Modes /\ m.loading \in BOOLEAN
         /\ m.type = "saveAll" => m.skipPaths \in SUBSET Files
  <1>1. CASE m \in OpenFile
    BY <1>1 DEF OpenFile
  <1>2. CASE m \in OfFile
    BY <1>2 DEF OfFile
  <1>3. CASE m \in EnterFile
    BY <1>3 DEF EnterFile
  <1>4. CASE m \in EnterGroup
    BY <1>4 DEF EnterGroup
  <1>5. CASE m \in Plain
    BY <1>5 DEF Plain
  <1>6. CASE m \in SavesAll
    BY <1>6 DEF SavesAll
  <1> QED BY <1>1, <1>2, <1>3, <1>4, <1>5, <1>6 DEF ToPage

LEMMA ColumnMessage ==
  ASSUME NEW m \in ToSwift
  PROVE  /\ m.type \in {"dirty", "save", "selection", "monacoReady"}
         /\ m.type = "dirty" => m.path \in Files /\ m.isDirty \in BOOLEAN
         /\ m.type = "save" => m.path \in Files /\ m.content \in Texts
         /\ m.type = "selection" => m.path \in Files \cup {None}
  <1>1. CASE m \in Dirty
    BY <1>1 DEF Dirty
  <1>2. CASE m \in Save
    BY <1>2 DEF Save
  <1>3. CASE m \in Selection
    BY <1>3 DEF Selection
  <1>4. CASE m \in [type : {"monacoReady"}]
    BY <1>4
  <1> QED BY <1>1, <1>2, <1>3, <1>4 DEF ToSwift

-----------------------------------------------------------------------------
(* What is shown after a message                                           *)

LEMMA ViewedIs ==
  ASSUME NEW v \in Viewed
  PROVE  /\ v.models \in SUBSET Files /\ v.path \in v.models \cup {None}
         /\ v.path \in Files \cup {None}
         /\ v.mode \in {"none", "file", "group"}
         /\ v.original \in {NoDiff} \cup Original /\ v.drawn \in {NoDiff} \cup GroupDrawn
         /\ v.due \in Seq(Asked)
         /\ v = [models |-> v.models, path |-> v.path, mode |-> v.mode, original |-> v.original,
                 drawn |-> v.drawn, due |-> v.due]
  BY DEF Viewed

LEMMA SeesTyped ==
  ASSUME NEW fresh \in BOOLEAN, NEW v \in Viewed, NEW m \in ToPage,
         m.type = "getSelection" => v.due # <<>>
  PROVE  Sees(fresh, v, m) \in Viewed
  <1> USE PageMessage, ViewedIs
  <1>0. \A path \in Files : Opened(v, path) \in Viewed /\ path \in Opened(v, path).models
    BY DEF Opened, Viewed, Shown
  <1>1. \A u \in Viewed : \A path \in u.models : FileShown(u, path) \in Viewed
    BY DEF FileShown, NoDiffIn, Viewed, Shown
  <1>2. NoDiffIn(v) \in Viewed
    BY DEF NoDiffIn, Viewed, Shown
  <1>3. CASE m.type = "openFile"
    <2>1. Sees(fresh, v, m) \in {FileShown(Opened(v, m.path), m.path), Opened(v, m.path)}
      BY <1>3 DEF Sees
    <2> QED BY <2>1, <1>0, <1>1, <1>3
  <1>4. CASE m.type \in {"switchTab", "goToLine"}
    BY <1>1, <1>4 DEF Sees
  <1>5. CASE m.type = "closeTab"
    <2>1. Sees(fresh, v, m) = ClosedIn(v, m.path)
      BY <1>5 DEF Sees
    <2> QED BY <2>1, <1>5 DEF ClosedIn, Viewed, Shown
  <1>6. CASE m.type = "enterDiff"
    BY <1>6 DEF Sees, FileDiffIn, Viewed, Shown
  <1>7. CASE m.type = "enterDiffGroup"
    <2>1. Sees(fresh, v, m) = GroupIn(fresh, v, m)
      BY <1>7 DEF Sees
    <2>2. [path |-> m.path, loading |-> m.loading] \in GroupDrawn
      BY <1>7 DEF GroupDrawn
    <2>3. fresh => GroupIn(fresh, v, m) =
                     [models |-> v.models, path |-> v.path, mode |-> "group", original |-> NoDiff,
                      drawn |-> [path |-> m.path, loading |-> m.loading], due |-> v.due]
      BY DEF GroupIn, Viewed, Shown
    <2>4. fresh => GroupIn(fresh, v, m) \in Viewed
      BY <2>2, <2>3 DEF Viewed
    <2> QED BY <2>1, <2>4, <1>2 DEF GroupIn, Shown
  <1>8. CASE m.type = "exitDiff"
    BY <1>2, <1>8 DEF Sees
  <1>9. CASE m.type = "getSelection"
    <2>1. Tail(v.due) \in Seq(Asked)
      BY <1>9, HeadTailProperties
    <2>2. Sees(fresh, v, m) = Answered(v)
      BY <1>9 DEF Sees
    <2> QED BY <2>1, <2>2 DEF Answered, Viewed, Shown
  <1>10. CASE m.type \in {"markSaved", "saveAll"}
    BY <1>10 DEF Sees
  <1> QED BY <1>3, <1>4, <1>5, <1>6, <1>7, <1>8, <1>9, <1>10

LEMMA NothingFollows ==
  ASSUME NEW alive, NEW fresh, NEW v \in Viewed
  PROVE  Follows(alive, fresh, v, <<>>, v)
  <1> DEFINE run == [i \in 0..Len(<<>>) |-> v]
  <1>1. Len(<<>>) = 0
    OBVIOUS
  <1>2. run \in [0..Len(<<>>) -> Viewed] /\ run[0] = v /\ run[Len(<<>>)] = v
    BY <1>1
  <1>3. \A i \in 1..Len(<<>>) : FALSE
    BY <1>1
  <1> HIDE DEF run
  <1> QED BY <1>2, <1>3 DEF Follows

\* One message more.
LEMMA OneMoreFollows ==
  ASSUME NEW alive, NEW fresh \in BOOLEAN, NEW v, NEW w, NEW ms \in Seq(ToPage), NEW m \in ToPage,
         Follows(alive, fresh, v, ms, w), Timely(alive, fresh, w, m)
  PROVE  /\ Follows(alive, fresh, v, Append(ms, m), Sees(fresh, w, m))
         /\ w \in Viewed /\ Sees(fresh, w, m) \in Viewed
  <1>1. PICK run \in [0..Len(ms) -> Viewed] :
          /\ run[0] = v /\ run[Len(ms)] = w
          /\ \A i \in 1..Len(ms) :
               Timely(alive, fresh, run[i - 1], ms[i]) /\ run[i] = Sees(fresh, run[i - 1], ms[i])
    BY DEF Follows
  <1>2. Len(ms) \in Nat
    BY LenProperties
  <1>3. w \in Viewed
    BY <1>1, <1>2
  <1>4. Sees(fresh, w, m) \in Viewed
    BY <1>3, SeesTyped DEF Timely
  <1>5. PICK n : n = Len(ms)
    OBVIOUS
  <1>6. PICK more : more = Append(ms, m)
    OBVIOUS
  <1>7. Len(more) = n + 1 /\ more[n + 1] = m /\ \A i \in 1..n : more[i] = ms[i]
    BY <1>5, <1>6, AppendProperties
  <1>8. PICK u : u = Sees(fresh, w, m)
    OBVIOUS
  <1> DEFINE longer == [i \in 0..(n + 1) |-> IF i = n + 1 THEN u ELSE run[i]]
  <1>9. longer \in [0..(n + 1) -> Viewed] /\ longer[0] = v /\ longer[n + 1] = u
    BY <1>1, <1>2, <1>4, <1>5, <1>8
  <1>10. ASSUME NEW i \in 1..(n + 1)
         PROVE  Timely(alive, fresh, longer[i - 1], more[i]) /\ longer[i] = Sees(fresh, longer[i - 1], more[i])
    <2>1. CASE i = n + 1
      <3>1. longer[i - 1] = w /\ longer[i] = u /\ more[i] = m
        BY <1>1, <1>2, <1>5, <1>7, <2>1
      <3> QED BY <3>1, <1>8
    <2>2. CASE i # n + 1
      <3>1. i \in 1..n /\ longer[i - 1] = run[i - 1] /\ longer[i] = run[i] /\ more[i] = ms[i]
        BY <1>2, <1>5, <1>7, <2>2
      <3> QED BY <3>1, <1>1, <1>5
    <2> QED BY <2>1, <2>2
  <1>11. Follows(alive, fresh, v, more, u)
    <2> HIDE DEF longer
    <2> QED BY <1>7, <1>9, <1>10 DEF Follows
  <1> QED BY <1>3, <1>4, <1>6, <1>8, <1>11

\* The first is taken.
LEMMA RestFollows ==
  ASSUME NEW alive, NEW fresh \in BOOLEAN, NEW v, NEW w, NEW ms \in Seq(ToPage), ms # <<>>,
         Follows(alive, fresh, v, ms, w)
  PROVE  /\ v \in Viewed /\ Timely(alive, fresh, v, Head(ms))
         /\ Follows(alive, fresh, Sees(fresh, v, Head(ms)), Tail(ms), w)
  <1>1. PICK run \in [0..Len(ms) -> Viewed] :
          /\ run[0] = v /\ run[Len(ms)] = w
          /\ \A i \in 1..Len(ms) :
               Timely(alive, fresh, run[i - 1], ms[i]) /\ run[i] = Sees(fresh, run[i - 1], ms[i])
    BY DEF Follows
  <1>2. PICK n : n = Len(ms)
    OBVIOUS
  <1>3. n \in Nat \ {0} /\ Head(ms) = ms[1]
    BY <1>2, EmptySeq
  <1>4. PICK rest : rest = Tail(ms)
    OBVIOUS
  <1>5. Len(rest) = n - 1 /\ \A i \in 1..(n - 1) : rest[i] = ms[i + 1]
    BY <1>2, <1>4, HeadTailProperties
  <1>6. v \in Viewed /\ Timely(alive, fresh, v, ms[1]) /\ run[1] = Sees(fresh, v, ms[1])
    BY <1>1, <1>2, <1>3
  <1> DEFINE shorter == [i \in 0..(n - 1) |-> run[i + 1]]
  <1>7. shorter \in [0..(n - 1) -> Viewed] /\ shorter[0] = run[1] /\ shorter[n - 1] = w
    BY <1>1, <1>2, <1>3
  <1>8. ASSUME NEW i \in 1..(n - 1)
        PROVE  Timely(alive, fresh, shorter[i - 1], rest[i]) /\ shorter[i] = Sees(fresh, shorter[i - 1], rest[i])
    <2>1. i + 1 \in 1..n /\ shorter[i - 1] = run[i] /\ shorter[i] = run[i + 1] /\ rest[i] = ms[i + 1]
      BY <1>3, <1>5
    <2>2. Timely(alive, fresh, run[(i + 1) - 1], ms[i + 1]) /\ run[i + 1] = Sees(fresh, run[(i + 1) - 1], ms[i + 1])
      BY <1>1, <1>2, <2>1
    <2> QED BY <2>1, <2>2
  <1>9. Follows(alive, fresh, run[1], rest, w)
    <2> HIDE DEF shorter
    <2> QED BY <1>5, <1>7, <1>8 DEF Follows
  <1> QED BY <1>3, <1>4, <1>6, <1>9

LEMMA FollowsTyped ==
  ASSUME NEW alive, NEW fresh, NEW v, NEW w, NEW ms \in Seq(ToPage), Follows(alive, fresh, v, ms, w)
  PROVE  v \in Viewed /\ w \in Viewed
  <1>1. Len(ms) \in Nat
    BY LenProperties
  <1> QED BY <1>1 DEF Follows

\* Without collections.
NoGroup(v) ==
    Shown(v.models, v.path, IF v.mode = "group" THEN "none" ELSE v.mode,
          IF v.mode = "group" THEN NoDiff ELSE v.original, NoDiff, v.due)

LEMMA NoGroupTyped ==
  ASSUME NEW v \in Viewed
  PROVE  /\ NoGroup(v) \in Viewed
         /\ NoGroup(v).models = v.models /\ NoGroup(v).path = v.path /\ NoGroup(v).due = v.due
         /\ NoGroup(v).mode = IF v.mode = "group" THEN "none" ELSE v.mode
  BY DEF NoGroup, NoDiffIn, Viewed, Shown

LEMMA SeesNoGroup ==
  ASSUME NEW v \in Viewed, NEW m \in ToPage, m.type = "getSelection" => v.due # <<>>
  PROVE  NoGroup(Sees(TRUE, v, m)) = Sees(FALSE, NoGroup(v), m)
  <1> USE PageMessage, ViewedIs, NoGroupTyped
  <1>1. \A path \in Files \cup {None} : NoGroup(FileShown(v, path)) = FileShown(NoGroup(v), path)
    BY DEF NoGroup, FileShown, NoDiffIn, Viewed, Shown
  <1>2. \A path \in Files : NoGroup(Opened(v, path)) = Opened(NoGroup(v), path)
    BY DEF NoGroup, Opened, NoDiffIn, Viewed, Shown
  <1>3. CASE m.type = "openFile"
    <2>1. CASE m.activate
      <3>1. PICK u : u = Opened(v, m.path)
        OBVIOUS
      <3>2. u \in Viewed
        BY <3>1, <1>3 DEF Opened, Viewed, Shown
      <3>3. NoGroup(FileShown(u, m.path)) = FileShown(NoGroup(u), m.path)
        BY <3>2, <1>3 DEF NoGroup, FileShown, NoDiffIn, Viewed, Shown
      <3>4. Sees(TRUE, v, m) = FileShown(u, m.path)
        BY <1>3, <2>1, <3>1 DEF Sees
      <3>5. Sees(FALSE, NoGroup(v), m) = FileShown(Opened(NoGroup(v), m.path), m.path)
        BY <1>3, <2>1 DEF Sees
      <3> QED BY <1>2, <1>3, <3>1, <3>3, <3>4, <3>5
    <2>2. CASE ~m.activate
      <3>1. Sees(TRUE, v, m) = Opened(v, m.path) /\ Sees(FALSE, NoGroup(v), m) = Opened(NoGroup(v), m.path)
        BY <1>3, <2>2 DEF Sees
      <3> QED BY <3>1, <1>2, <1>3
    <2> QED BY <2>1, <2>2
  <1>4. CASE m.type = "switchTab"
    BY <1>1, <1>4 DEF Sees
  <1>5. CASE m.type = "goToLine"
    BY <1>1, <1>5 DEF Sees
  <1>6. CASE m.type = "closeTab"
    <2>1. Sees(TRUE, v, m) = ClosedIn(v, m.path) /\ Sees(FALSE, NoGroup(v), m) = ClosedIn(NoGroup(v), m.path)
      BY <1>6 DEF Sees
    <2>2. NoGroup(ClosedIn(v, m.path)) = ClosedIn(NoGroup(v), m.path)
      BY <1>6 DEF NoGroup, ClosedIn, NoDiffIn, Viewed, Shown
    <2> QED BY <2>1, <2>2
  <1>7. CASE m.type = "enterDiff"
    <2>1. CASE m.path \in v.models
      <3>1. Sees(TRUE, v, m) = FileDiffIn(v, m.original) /\ Sees(FALSE, NoGroup(v), m) = FileDiffIn(NoGroup(v), m.original)
        BY <1>7, <2>1 DEF Sees
      <3>2. NoGroup(FileDiffIn(v, m.original)) = FileDiffIn(NoGroup(v), m.original)
        BY DEF NoGroup, FileDiffIn, NoDiffIn, Viewed, Shown
      <3> QED BY <3>1, <3>2
    <2>2. CASE m.path \notin v.models
      BY <1>7, <2>2 DEF Sees
    <2> QED BY <2>1, <2>2
  <1>8. CASE m.type = "enterDiffGroup"
    <2>1. Sees(TRUE, v, m) = GroupIn(TRUE, v, m) /\ Sees(FALSE, NoGroup(v), m) = NoDiffIn(NoGroup(v))
      BY <1>8 DEF Sees, GroupIn, Shown
    <2>2. NoGroup(GroupIn(TRUE, v, m)) = NoDiffIn(NoGroup(v))
      BY DEF NoGroup, GroupIn, NoDiffIn, Viewed, Shown
    <2> QED BY <2>1, <2>2
  <1>9. CASE m.type = "exitDiff"
    <2>1. NoGroup(NoDiffIn(v)) = NoDiffIn(NoGroup(v))
      BY DEF NoGroup, NoDiffIn, Viewed, Shown
    <2> QED BY <2>1, <1>9 DEF Sees
  <1>10. CASE m.type = "getSelection"
    <2>1. NoGroup(Answered(v)) = Answered(NoGroup(v))
      BY DEF NoGroup, Answered, NoDiffIn, Viewed, Shown
    <2> QED BY <2>1, <1>10 DEF Sees
  <1>11. CASE m.type \in {"markSaved", "saveAll"}
    BY <1>11 DEF Sees
  <1> QED BY <1>3, <1>4, <1>5, <1>6, <1>7, <1>8, <1>9, <1>10, <1>11

LEMMA FollowsNoGroup ==
  ASSUME NEW alive \in BOOLEAN, NEW v, NEW w, NEW ms \in Seq(ToPage), Follows(alive, TRUE, v, ms, w)
  PROVE  Follows(alive, FALSE, NoGroup(v), ms, NoGroup(w))
  <1>1. PICK run \in [0..Len(ms) -> Viewed] :
          /\ run[0] = v /\ run[Len(ms)] = w
          /\ \A i \in 1..Len(ms) :
               Timely(alive, TRUE, run[i - 1], ms[i]) /\ run[i] = Sees(TRUE, run[i - 1], ms[i])
    BY DEF Follows
  <1>2. PICK n : n = Len(ms)
    OBVIOUS
  <1>3. n \in Nat /\ \A i \in 1..n : ms[i] \in ToPage
    BY <1>2, ElementOfSeq, LenProperties
  <1> DEFINE plain == [i \in 0..n |-> NoGroup(run[i])]
  <1>4. plain \in [0..n -> Viewed] /\ plain[0] = NoGroup(v) /\ plain[n] = NoGroup(w)
    BY <1>1, <1>2, <1>3, NoGroupTyped
  <1>5. ASSUME NEW i \in 1..n
        PROVE  Timely(alive, FALSE, plain[i - 1], ms[i]) /\ plain[i] = Sees(FALSE, plain[i - 1], ms[i])
    <2>1. i - 1 \in 0..n /\ i \in 0..n
      BY <1>3
    <2>2. Timely(alive, TRUE, run[i - 1], ms[i]) /\ run[i] = Sees(TRUE, run[i - 1], ms[i])
      BY <1>1, <1>2
    <2>3. run[i - 1] \in Viewed /\ ms[i] \in ToPage
      BY <1>1, <1>2, <1>3, <2>1
    <2>4. PICK u : u = run[i - 1]
      OBVIOUS
    <2>5. u \in Viewed /\ Timely(alive, TRUE, u, ms[i]) /\ plain[i - 1] = NoGroup(u) /\ plain[i] = NoGroup(Sees(TRUE, u, ms[i]))
      BY <2>1, <2>2, <2>3, <2>4
    <2>6. plain[i] = Sees(FALSE, NoGroup(u), ms[i])
      BY <2>3, <2>5, SeesNoGroup DEF Timely
    <2>7. Timely(alive, FALSE, NoGroup(u), ms[i])
      BY <2>5, NoGroupTyped DEF Timely
    <2> QED BY <2>5, <2>6, <2>7
  <1> HIDE DEF plain
  <1> QED BY <1>2, <1>4, <1>5 DEF Follows

\* One request more to answer.
Owes(v, path) == Shown(v.models, v.path, v.mode, v.original, v.drawn, Append(v.due, path))

LEMMA OwesTyped ==
  ASSUME NEW v \in Viewed, NEW path \in Asked
  PROVE  /\ Owes(v, path) \in Viewed /\ Owes(v, path).due = Append(v.due, path)
         /\ Owes(v, path).models = v.models /\ Owes(v, path).path = v.path /\ Owes(v, path).mode = v.mode
         /\ Owes(v, path).original = v.original /\ Owes(v, path).drawn = v.drawn
  <1>1. Append(v.due, path) \in Seq(Asked)
    BY ViewedIs, AppendProperties
  <1> QED BY <1>1 DEF Owes, Viewed, Shown

LEMMA TailAppend ==
  ASSUME NEW S, NEW s \in Seq(S), NEW e \in S, s # <<>>
  PROVE  /\ Tail(Append(s, e)) = Append(Tail(s), e) /\ Head(Append(s, e)) = Head(s)
         /\ Append(s, e) # <<>>
  <1>1. PICK more : more = Append(s, e)
    OBVIOUS
  <1>2. PICK n : n = Len(s)
    OBVIOUS
  <1>3. n \in Nat \ {0} /\ more \in Seq(S) /\ Len(more) = n + 1
    BY <1>1, <1>2, EmptySeq, AppendProperties
  <1>4. more[n + 1] = e /\ \A i \in 1..n : more[i] = s[i]
    BY <1>1, <1>2, AppendProperties
  <1>5. more # <<>>
    BY <1>3, EmptySeq
  <1>6. PICK a : a = Tail(more)
    OBVIOUS
  <1>7. PICK t : t = Tail(s)
    OBVIOUS
  <1>8. PICK b : b = Append(t, e)
    OBVIOUS
  <1>9. a \in Seq(S) /\ Len(a) = n /\ \A i \in 1..n : a[i] = more[i + 1]
    BY <1>3, <1>5, <1>6, HeadTailProperties
  <1>10. t \in Seq(S) /\ Len(t) = n - 1 /\ \A i \in 1..(n - 1) : t[i] = s[i + 1]
    BY <1>2, <1>3, <1>7, HeadTailProperties
  <1>11. b \in Seq(S) /\ Len(b) = n /\ b[n] = e /\ \A i \in 1..(n - 1) : b[i] = t[i]
    <2>1. /\ b \in Seq(S) /\ Len(b) = Len(t) + 1 /\ b[Len(t) + 1] = e
          /\ \A i \in 1..Len(t) : b[i] = t[i]
      BY <1>8, <1>10, AppendProperties
    <2> QED BY <2>1, <1>3, <1>10
  <1>12. ASSUME NEW i \in 1..n PROVE a[i] = b[i]
    <2>1. CASE i = n
      BY <2>1, <1>3, <1>4, <1>9, <1>11
    <2>2. CASE i # n
      <3>1. i \in 1..(n - 1) /\ i + 1 \in 1..n
        BY <2>2, <1>3
      <3> QED BY <3>1, <1>4, <1>9, <1>10, <1>11
    <2> QED BY <2>1, <2>2
  <1>13. a = b
    BY <1>9, <1>11, <1>12, SeqEqual
  <1>14. Head(more) = Head(s)
    <2>1. Head(more) = more[1] /\ Head(s) = s[1] /\ 1 \in 1..n
      BY <1>3
    <2> QED BY <2>1, <1>4
  <1> QED BY <1>1, <1>5, <1>6, <1>7, <1>8, <1>13, <1>14

LEMMA TailOwes ==
  ASSUME NEW d \in Seq(Asked), NEW path \in Asked, d # <<>>
  PROVE  Tail(Append(d, path)) = Append(Tail(d), path)
  BY TailAppend

LEMMA SeesOwes ==
  ASSUME NEW fresh \in BOOLEAN, NEW v \in Viewed, NEW m \in ToPage, NEW path \in Asked,
         m.type = "getSelection" => v.due # <<>>
  PROVE  Owes(Sees(fresh, v, m), path) = Sees(fresh, Owes(v, path), m)
  <1> USE PageMessage, ViewedIs, OwesTyped
  <1>1. CASE m.type = "openFile"
    BY <1>1 DEF Sees, Owes, FileShown, NoDiffIn, Opened, Viewed, Shown
  <1>2. CASE m.type \in {"switchTab", "goToLine"}
    BY <1>2 DEF Sees, Owes, FileShown, NoDiffIn, Viewed, Shown
  <1>3. CASE m.type = "closeTab"
    BY <1>3 DEF Sees, Owes, ClosedIn, Viewed, Shown
  <1>4. CASE m.type = "enterDiff"
    BY <1>4 DEF Sees, Owes, FileDiffIn, Viewed, Shown
  <1>5. CASE m.type = "enterDiffGroup"
    BY <1>5 DEF Sees, Owes, GroupIn, NoDiffIn, Viewed, Shown
  <1>6. CASE m.type = "exitDiff"
    BY <1>6 DEF Sees, Owes, NoDiffIn, Viewed, Shown
  <1>7. CASE m.type = "getSelection"
    <2>1. PICK d : d = v.due
      OBVIOUS
    <2>2. d \in Seq(Asked) /\ d # <<>>
      BY <1>7, <2>1, ViewedIs
    <2>3. Tail(Append(d, path)) = Append(Tail(d), path)
      BY <2>2, TailOwes
    <2>4. Sees(fresh, v, m) = Answered(v) /\ Sees(fresh, Owes(v, path), m) = Answered(Owes(v, path))
      BY <1>7 DEF Sees
    <2>5. Answered(v).due = Tail(d) /\ Owes(v, path).due = Append(d, path)
      BY <2>1 DEF Answered, Owes, Shown
    <2>6. Owes(Answered(v), path) = Shown(v.models, v.path, v.mode, v.original, v.drawn, Append(Tail(d), path))
      BY <2>5 DEF Answered, Owes, Shown
    <2>7. Answered(Owes(v, path)) = Shown(v.models, v.path, v.mode, v.original, v.drawn, Tail(Append(d, path)))
      BY <2>5 DEF Answered, Owes, Shown
    <2> QED BY <2>3, <2>4, <2>6, <2>7
  <1>8. CASE m.type \in {"markSaved", "saveAll"}
    BY <1>8 DEF Sees
  <1> QED BY <1>1, <1>2, <1>3, <1>4, <1>5, <1>6, <1>7, <1>8

LEMMA FollowsOwes ==
  ASSUME NEW alive \in BOOLEAN, NEW fresh \in BOOLEAN, NEW v, NEW w, NEW ms \in Seq(ToPage), NEW path \in Asked,
         Follows(alive, fresh, v, ms, w)
  PROVE  Follows(alive, fresh, Owes(v, path), ms, Owes(w, path))
  <1>1. PICK run \in [0..Len(ms) -> Viewed] :
          /\ run[0] = v /\ run[Len(ms)] = w
          /\ \A i \in 1..Len(ms) :
               Timely(alive, fresh, run[i - 1], ms[i]) /\ run[i] = Sees(fresh, run[i - 1], ms[i])
    BY DEF Follows
  <1>2. PICK n : n = Len(ms)
    OBVIOUS
  <1>3. n \in Nat /\ \A i \in 1..n : ms[i] \in ToPage
    BY <1>2, ElementOfSeq, LenProperties
  <1> DEFINE owing == [i \in 0..n |-> Owes(run[i], path)]
  <1>4. owing \in [0..n -> Viewed] /\ owing[0] = Owes(v, path) /\ owing[n] = Owes(w, path)
    BY <1>1, <1>2, <1>3, OwesTyped
  <1>5. ASSUME NEW i \in 1..n
        PROVE  Timely(alive, fresh, owing[i - 1], ms[i]) /\ owing[i] = Sees(fresh, owing[i - 1], ms[i])
    <2>1. i - 1 \in 0..n /\ i \in 0..n
      BY <1>3
    <2>2. Timely(alive, fresh, run[i - 1], ms[i]) /\ run[i] = Sees(fresh, run[i - 1], ms[i])
      BY <1>1, <1>2
    <2>3. run[i - 1] \in Viewed /\ ms[i] \in ToPage
      BY <1>1, <1>2, <1>3, <2>1
    <2>4. PICK u : u = run[i - 1]
      OBVIOUS
    <2>5. u \in Viewed /\ Timely(alive, fresh, u, ms[i]) /\ owing[i - 1] = Owes(u, path)
          /\ owing[i] = Owes(Sees(fresh, u, ms[i]), path)
      BY <2>1, <2>2, <2>3, <2>4
    <2>6. owing[i] = Sees(fresh, Owes(u, path), ms[i])
      BY <2>3, <2>5, SeesOwes DEF Timely
    <2>7. PICK d : d = u.due
      OBVIOUS
    <2>8. d \in Seq(Asked) /\ (d # <<>> => Head(Append(d, path)) = Head(d) /\ Append(d, path) # <<>>)
      <3>1. d \in Seq(Asked)
        BY <2>5, <2>7, ViewedIs
      <3> QED BY <3>1, TailAppend
    <2>9. Timely(alive, fresh, Owes(u, path), ms[i])
      BY <2>5, <2>7, <2>8, OwesTyped DEF Timely
    <2> QED BY <2>5, <2>6, <2>9
  <1> HIDE DEF owing
  <1> QED BY <1>2, <1>4, <1>5 DEF Follows

\* More messages, that lead on.
LEMMA FollowsOn ==
  ASSUME NEW alive, NEW fresh \in BOOLEAN, NEW v, NEW w, NEW u,
         NEW ms \in Seq(ToPage), NEW more \in Seq(ToPage),
         Follows(alive, fresh, v, ms, w), Follows(alive, fresh, w, more, u)
  PROVE  Follows(alive, fresh, v, ms \o more, u)
  <1>1. PICK run \in [0..Len(ms) -> Viewed] :
          /\ run[0] = v /\ run[Len(ms)] = w
          /\ \A i \in 1..Len(ms) :
               Timely(alive, fresh, run[i - 1], ms[i]) /\ run[i] = Sees(fresh, run[i - 1], ms[i])
    BY DEF Follows
  <1>2. PICK next \in [0..Len(more) -> Viewed] :
          /\ next[0] = w /\ next[Len(more)] = u
          /\ \A i \in 1..Len(more) :
               Timely(alive, fresh, next[i - 1], more[i]) /\ next[i] = Sees(fresh, next[i - 1], more[i])
    BY DEF Follows
  <1>3. PICK n, k : n = Len(ms) /\ k = Len(more)
    OBVIOUS
  <1>4. n \in Nat /\ k \in Nat
    BY <1>3, LenProperties
  <1>5. PICK all : all = ms \o more
    OBVIOUS
  <1>6. Len(all) = n + k /\ \A i \in 1..(n + k) : all[i] = IF i <= n THEN ms[i] ELSE more[i - n]
    BY <1>3, <1>4, <1>5, ConcatProperties
  <1> DEFINE whole == [i \in 0..(n + k) |-> IF i <= n THEN run[i] ELSE next[i - n]]
  <1>7. whole \in [0..(n + k) -> Viewed] /\ whole[0] = v /\ whole[n + k] = u
    BY <1>1, <1>2, <1>3, <1>4
  <1>8. ASSUME NEW i \in 1..(n + k)
        PROVE  Timely(alive, fresh, whole[i - 1], all[i]) /\ whole[i] = Sees(fresh, whole[i - 1], all[i])
    <2>1. CASE i <= n
      <3>1. i \in 1..n /\ whole[i - 1] = run[i - 1] /\ whole[i] = run[i] /\ all[i] = ms[i]
        BY <1>4, <1>6, <2>1
      <3> QED BY <3>1, <1>1, <1>3
    <2>2. CASE i > n
      <3>1. PICK j : j = i - n
        OBVIOUS
      <3>2. j \in 1..k /\ whole[i] = next[j] /\ all[i] = more[j]
        BY <1>4, <1>6, <2>2, <3>1
      <3>3. whole[i - 1] = next[j - 1]
        <4>1. CASE j = 1
          <5>1. i - 1 = n /\ n \in 0..(n + k) /\ n <= n /\ j - 1 = 0
            BY <4>1, <1>4, <3>1
          <5>2. whole[n] = run[n]
            BY <5>1
          <5>3. run[n] = w /\ next[0] = w
            BY <1>1, <1>2, <1>3
          <5> QED BY <5>1, <5>2, <5>3
        <4>2. CASE j # 1
          <5>1. i - 1 \in 0..(n + k) /\ ~(i - 1 <= n) /\ (i - 1) - n = j - 1
            BY <4>2, <1>4, <3>1, <3>2
          <5> QED BY <5>1
        <4> QED BY <4>1, <4>2
      <3>4. Timely(alive, fresh, next[j - 1], more[j]) /\ next[j] = Sees(fresh, next[j - 1], more[j])
        BY <1>2, <1>3, <3>2
      <3> QED BY <3>2, <3>3, <3>4
    <2> QED BY <2>1, <2>2, <1>4
  <1> HIDE DEF whole
  <1> QED BY <1>5, <1>6, <1>7, <1>8 DEF Follows

-----------------------------------------------------------------------------
(* Messages that lead on                                                   *)

LEMMA NothingLeads ==
  ASSUME NEW S, NEW step, NEW v \in S
  PROVE  Leads(S, step, v, <<>>, v)
  <1> DEFINE run == [i \in 0..Len(<<>>) |-> v]
  <1>1. Len(<<>>) = 0
    OBVIOUS
  <1>2. run \in [0..Len(<<>>) -> S] /\ run[0] = v /\ run[Len(<<>>)] = v
    BY <1>1
  <1>3. \A i \in 1..Len(<<>>) : FALSE
    BY <1>1
  <1> HIDE DEF run
  <1> QED BY <1>2, <1>3 DEF Leads

LEMMA LeadsTyped ==
  ASSUME NEW M, NEW S, NEW step, NEW v, NEW w, NEW ms \in Seq(M), Leads(S, step, v, ms, w)
  PROVE  v \in S /\ w \in S
  <1>1. Len(ms) \in Nat
    BY LenProperties
  <1> QED BY <1>1 DEF Leads

LEMMA LeadsOn ==
  ASSUME NEW M, NEW S, NEW step, NEW v, NEW w, NEW u, NEW ms \in Seq(M), NEW more \in Seq(M),
         Leads(S, step, v, ms, w), Leads(S, step, w, more, u)
  PROVE  Leads(S, step, v, ms \o more, u)
  <1>1. PICK run \in [0..Len(ms) -> S] :
          /\ run[0] = v /\ run[Len(ms)] = w
          /\ \A i \in 1..Len(ms) : <<run[i - 1], ms[i], run[i]>> \in step
    BY DEF Leads
  <1>2. PICK next \in [0..Len(more) -> S] :
          /\ next[0] = w /\ next[Len(more)] = u
          /\ \A i \in 1..Len(more) : <<next[i - 1], more[i], next[i]>> \in step
    BY DEF Leads
  <1>3. PICK n, k : n = Len(ms) /\ k = Len(more)
    OBVIOUS
  <1>4. n \in Nat /\ k \in Nat
    BY <1>3, LenProperties
  <1>5. PICK all : all = ms \o more
    OBVIOUS
  <1>6. Len(all) = n + k /\ \A i \in 1..(n + k) : all[i] = IF i <= n THEN ms[i] ELSE more[i - n]
    BY <1>3, <1>4, <1>5, ConcatProperties
  <1> DEFINE whole == [i \in 0..(n + k) |-> IF i <= n THEN run[i] ELSE next[i - n]]
  <1>7. whole \in [0..(n + k) -> S] /\ whole[0] = v /\ whole[n + k] = u
    BY <1>1, <1>2, <1>3, <1>4
  <1>8. ASSUME NEW i \in 1..(n + k) PROVE <<whole[i - 1], all[i], whole[i]>> \in step
    <2>1. CASE i <= n
      <3>1. i \in 1..n /\ whole[i - 1] = run[i - 1] /\ whole[i] = run[i] /\ all[i] = ms[i]
        BY <1>4, <1>6, <2>1
      <3> QED BY <3>1, <1>1, <1>3
    <2>2. CASE i > n
      <3>1. PICK j : j = i - n
        OBVIOUS
      <3>2. j \in 1..k /\ whole[i] = next[j] /\ all[i] = more[j]
        BY <1>4, <1>6, <2>2, <3>1
      <3>3. whole[i - 1] = next[j - 1]
        <4>1. CASE j = 1
          <5>1. i - 1 = n /\ n \in 0..(n + k) /\ n <= n /\ j - 1 = 0
            BY <4>1, <1>4, <3>1
          <5>2. whole[n] = run[n]
            BY <5>1
          <5>3. run[n] = w /\ next[0] = w
            BY <1>1, <1>2, <1>3
          <5> QED BY <5>1, <5>2, <5>3
        <4>2. CASE j # 1
          <5>1. i - 1 \in 0..(n + k) /\ ~(i - 1 <= n) /\ (i - 1) - n = j - 1
            BY <4>2, <1>4, <3>1, <3>2
          <5> QED BY <5>1
        <4> QED BY <4>1, <4>2
      <3>4. <<next[j - 1], more[j], next[j]>> \in step
        BY <1>2, <1>3, <3>2
      <3> QED BY <3>2, <3>3, <3>4
    <2> QED BY <2>1, <2>2, <1>4
  <1> HIDE DEF whole
  <1> QED BY <1>5, <1>6, <1>7, <1>8 DEF Leads

LEMMA OneLeads ==
  ASSUME NEW S, NEW step, NEW v \in S, NEW w \in S, NEW m, <<v, m, w>> \in step
  PROVE  Leads(S, step, v, <<m>>, w)
  <1> DEFINE run == [i \in 0..1 |-> IF i = 0 THEN v ELSE w]
  <1>1. Len(<<m>>) = 1 /\ <<m>>[1] = m
    OBVIOUS
  <1>2. run \in [0..1 -> S] /\ run[0] = v /\ run[1] = w
    OBVIOUS
  <1>3. \A i \in 1..1 : <<run[i - 1], <<m>>[i], run[i]>> \in step
    BY <1>1, <1>2
  <1> HIDE DEF run
  <1> QED BY <1>1, <1>2, <1>3 DEF Leads

LEMMA OneMoreLeads ==
  ASSUME NEW M, NEW S, NEW step, NEW v, NEW w, NEW u \in S, NEW ms \in Seq(M), NEW m \in M,
         Leads(S, step, v, ms, w), <<w, m, u>> \in step
  PROVE  Leads(S, step, v, Append(ms, m), u)
  <1>1. w \in S
    BY LeadsTyped
  <1>2. Leads(S, step, w, <<m>>, u)
    BY <1>1, OneLeads
  <1>3. <<m>> \in Seq(M) /\ ms \o <<m>> = Append(ms, m)
    OBVIOUS
  <1>4. Leads(S, step, v, ms \o <<m>>, u)
    BY <1>2, <1>3, LeadsOn
  <1> QED BY <1>3, <1>4

LEMMA RestLeads ==
  ASSUME NEW M, NEW S, NEW step, NEW v, NEW w, NEW ms \in Seq(M), ms # <<>>,
         Leads(S, step, v, ms, w)
  PROVE  \E u \in S : <<v, Head(ms), u>> \in step /\ Leads(S, step, u, Tail(ms), w)
  <1>1. PICK run \in [0..Len(ms) -> S] :
          /\ run[0] = v /\ run[Len(ms)] = w
          /\ \A i \in 1..Len(ms) : <<run[i - 1], ms[i], run[i]>> \in step
    BY DEF Leads
  <1>2. PICK n : n = Len(ms)
    OBVIOUS
  <1>3. n \in Nat \ {0} /\ Head(ms) = ms[1]
    BY <1>2, EmptySeq
  <1>4. PICK rest : rest = Tail(ms)
    OBVIOUS
  <1>5. Len(rest) = n - 1 /\ \A i \in 1..(n - 1) : rest[i] = ms[i + 1]
    BY <1>2, <1>4, HeadTailProperties
  <1>6. run[1] \in S /\ <<v, ms[1], run[1]>> \in step
    BY <1>1, <1>2, <1>3
  <1> DEFINE shorter == [i \in 0..(n - 1) |-> run[i + 1]]
  <1>7. shorter \in [0..(n - 1) -> S] /\ shorter[0] = run[1] /\ shorter[n - 1] = w
    BY <1>1, <1>2, <1>3
  <1>8. ASSUME NEW i \in 1..(n - 1) PROVE <<shorter[i - 1], rest[i], shorter[i]>> \in step
    <2>1. i + 1 \in 1..n /\ shorter[i - 1] = run[i] /\ shorter[i] = run[i + 1] /\ rest[i] = ms[i + 1]
      BY <1>3, <1>5
    <2>2. PICK j : j = i + 1
      OBVIOUS
    <2>3. j \in 1..n /\ j - 1 = i
      BY <2>1, <2>2
    <2>4. <<run[j - 1], ms[j], run[j]>> \in step
      BY <1>1, <1>2, <2>3
    <2> QED BY <2>1, <2>2, <2>3, <2>4
  <1>9. Leads(S, step, run[1], rest, w)
    <2> HIDE DEF shorter
    <2> QED BY <1>5, <1>7, <1>8 DEF Leads
  <1> QED BY <1>3, <1>4, <1>6, <1>9

\* The same messages lead what stands for the states.
LEMMA MappedLeads ==
  ASSUME NEW M, NEW S, NEW step, NEW v, NEW w, NEW ms \in Seq(M), Leads(S, step, v, ms, w),
         NEW T, NEW other, NEW f \in [S -> T],
         \A a \in S : \A b \in S : \A m \in M : <<a, m, b>> \in step => <<f[a], m, f[b]>> \in other
  PROVE  Leads(T, other, f[v], ms, f[w])
  <1>1. PICK run \in [0..Len(ms) -> S] :
          /\ run[0] = v /\ run[Len(ms)] = w
          /\ \A i \in 1..Len(ms) : <<run[i - 1], ms[i], run[i]>> \in step
    BY DEF Leads
  <1>2. PICK n : n = Len(ms)
    OBVIOUS
  <1>3. n \in Nat /\ \A i \in 1..n : ms[i] \in M
    BY <1>2, ElementOfSeq, LenProperties
  <1> DEFINE mapped == [i \in 0..n |-> f[run[i]]]
  <1>4. mapped \in [0..n -> T] /\ mapped[0] = f[v] /\ mapped[n] = f[w]
    BY <1>1, <1>2, <1>3
  <1>5. ASSUME NEW i \in 1..n PROVE <<mapped[i - 1], ms[i], mapped[i]>> \in other
    <2>1. i - 1 \in 0..n /\ i \in 0..n
      BY <1>3
    <2>2. run[i - 1] \in S /\ run[i] \in S /\ ms[i] \in M /\ <<run[i - 1], ms[i], run[i]>> \in step
      BY <1>1, <1>2, <1>3, <2>1
    <2>3. mapped[i - 1] = f[run[i - 1]] /\ mapped[i] = f[run[i]]
      BY <2>1
    <2> QED BY <2>2, <2>3
  <1> HIDE DEF mapped
  <1> QED BY <1>2, <1>4, <1>5 DEF Leads

-----------------------------------------------------------------------------
(* Requests for the selection and their answers                            *)

LEMMA AnswerIs ==
  ASSUME NEW fresh \in BOOLEAN, NEW a \in Seq(Asked), NEW m \in ToSwift, NEW b \in Seq(Asked)
  PROVE  /\ m.type # "selection" => (<<a, m, b>> \in Answer(fresh) <=> b = a)
         /\ m.type = "selection" =>
              (<<a, m, b>> \in Answer(fresh) <=>
                 a # <<>> /\ b = Tail(a) /\ (fresh => m.path \in {None, Head(a)}))
  BY DEF Answer

LEMMA AnswersSame ==
  ASSUME NEW fresh \in BOOLEAN, NEW asked, NEW ms \in Seq(ToSwift), NEW due, NEW m \in ToSwift,
         Answers(fresh, asked, ms, due), m.type # "selection"
  PROVE  Answers(fresh, asked, Append(ms, m), due)
  <1>1. due \in Seq(Asked)
    BY LeadsTyped DEF Answers
  <1>2. <<due, m, due>> \in Answer(fresh)
    BY <1>1, AnswerIs
  <1> QED BY <1>1, <1>2, OneMoreLeads DEF Answers

LEMMA AnswersOne ==
  ASSUME NEW fresh \in BOOLEAN, NEW asked, NEW ms \in Seq(ToSwift), NEW due, NEW m \in ToSwift,
         Answers(fresh, asked, ms, due), m.type = "selection", due # <<>>,
         fresh => m.path \in {None, Head(due)}
  PROVE  Answers(fresh, asked, Append(ms, m), Tail(due))
  <1>1. due \in Seq(Asked)
    BY LeadsTyped DEF Answers
  <1>2. Tail(due) \in Seq(Asked)
    BY <1>1, HeadTailProperties
  <1>3. <<due, m, Tail(due)>> \in Answer(fresh)
    BY <1>1, <1>2, AnswerIs
  <1> QED BY <1>2, <1>3, OneMoreLeads DEF Answers

LEMMA AnswersRest ==
  ASSUME NEW fresh \in BOOLEAN, NEW asked, NEW ms \in Seq(ToSwift), NEW due,
         Answers(fresh, asked, ms, due), ms # <<>>
  PROVE  IF Head(ms).type = "selection"
           THEN /\ asked # <<>> /\ (fresh => Head(ms).path \in {None, Head(asked)})
                /\ Answers(fresh, Tail(asked), Tail(ms), due)
           ELSE Answers(fresh, asked, Tail(ms), due)
  <1>1. asked \in Seq(Asked)
    BY LeadsTyped DEF Answers
  <1>2. PICK u \in Seq(Asked) : <<asked, Head(ms), u>> \in Answer(fresh)
                                /\ Leads(Seq(Asked), Answer(fresh), u, Tail(ms), due)
    BY RestLeads DEF Answers
  <1>3. PICK h : h = Head(ms)
    OBVIOUS
  <1>4. h \in ToSwift /\ <<asked, h, u>> \in Answer(fresh)
    BY <1>2, <1>3, HeadTailProperties
  <1>5. CASE h.type = "selection"
    <2>1. asked # <<>> /\ u = Tail(asked) /\ (fresh => h.path \in {None, Head(asked)})
      BY <1>1, <1>4, <1>5, AnswerIs
    <2> QED BY <1>2, <1>3, <1>5, <2>1 DEF Answers
  <1>6. CASE h.type # "selection"
    <2>1. u = asked
      BY <1>1, <1>4, <1>6, AnswerIs
    <2> QED BY <1>2, <1>3, <1>6, <2>1 DEF Answers
  <1> QED BY <1>5, <1>6

LEMMA AnswersAsked ==
  ASSUME NEW fresh \in BOOLEAN, NEW asked, NEW ms \in Seq(ToSwift), NEW due, NEW path \in Asked,
         Answers(fresh, asked, ms, due)
  PROVE  Answers(fresh, Append(asked, path), ms, Append(due, path))
  <1> DEFINE f == [d \in Seq(Asked) |-> Append(d, path)]
  <1>1. asked \in Seq(Asked) /\ due \in Seq(Asked)
    BY LeadsTyped DEF Answers
  <1>2. f \in [Seq(Asked) -> Seq(Asked)]
    BY AppendProperties
  <1>3. \A d \in Seq(Asked) : f[d] = Append(d, path)
    OBVIOUS
  <1>4. ASSUME NEW a \in Seq(Asked), NEW b \in Seq(Asked), NEW m \in ToSwift, <<a, m, b>> \in Answer(fresh)
        PROVE  <<f[a], m, f[b]>> \in Answer(fresh)
    <2>1. f[a] \in Seq(Asked) /\ f[b] \in Seq(Asked) /\ f[a] = Append(a, path) /\ f[b] = Append(b, path)
      BY <1>2, <1>3
    <2>2. CASE m.type = "selection"
      <3>1. a # <<>> /\ b = Tail(a) /\ (fresh => m.path \in {None, Head(a)})
        BY <1>4, <2>2, AnswerIs
      <3>2. Tail(Append(a, path)) = Append(Tail(a), path) /\ Head(Append(a, path)) = Head(a) /\ Append(a, path) # <<>>
        BY <3>1, TailAppend
      <3>3. f[a] # <<>> /\ f[b] = Tail(f[a]) /\ (fresh => m.path \in {None, Head(f[a])})
        BY <2>1, <3>1, <3>2
      <3> HIDE DEF f
      <3> QED BY <2>1, <2>2, <3>3, AnswerIs
    <2>3. CASE m.type # "selection"
      <3>1. f[a] = f[b]
        BY <1>4, <2>3, AnswerIs
      <3> HIDE DEF f
      <3> QED BY <2>1, <2>3, <3>1, AnswerIs
    <2> QED BY <2>2, <2>3
  <1>5. f[asked] = Append(asked, path) /\ f[due] = Append(due, path)
    BY <1>1, <1>3
  <1>6. Leads(Seq(Asked), Answer(fresh), f[asked], ms, f[due])
    <2> HIDE DEF f
    <2> QED BY <1>2, <1>4, MappedLeads DEF Answers
  <1> HIDE DEF f
  <1> QED BY <1>5, <1>6 DEF Answers

LEMMA AnswersStale ==
  ASSUME NEW asked, NEW ms \in Seq(ToSwift), NEW due, Answers(TRUE, asked, ms, due)
  PROVE  Answers(FALSE, asked, ms, due)
  <1> DEFINE f == [d \in Seq(Asked) |-> d]
  <1>1. asked \in Seq(Asked) /\ due \in Seq(Asked)
    BY LeadsTyped DEF Answers
  <1>2. f \in [Seq(Asked) -> Seq(Asked)] /\ \A d \in Seq(Asked) : f[d] = d
    OBVIOUS
  <1> HIDE DEF f
  <1>3. ASSUME NEW a \in Seq(Asked), NEW b \in Seq(Asked), NEW m \in ToSwift, <<a, m, b>> \in Answer(TRUE)
        PROVE  <<f[a], m, f[b]>> \in Answer(FALSE)
    BY <1>2, <1>3 DEF Answer
  <1>4. Leads(Seq(Asked), Answer(FALSE), f[asked], ms, f[due])
    <2>1. Leads(Seq(Asked), Answer(TRUE), asked, ms, due)
      BY DEF Answers
    <2>2. PICK step, other : step = Answer(TRUE) /\ other = Answer(FALSE)
      OBVIOUS
    <2>3. Leads(Seq(Asked), step, asked, ms, due)
      BY <2>1, <2>2
    <2>4. Leads(Seq(Asked), other, f[asked], ms, f[due])
      BY <1>2, <1>3, <2>2, <2>3, MappedLeads, ZenonT(40)
    <2> QED BY <2>2, <2>4
  <1>5. f[asked] = asked /\ f[due] = due
    BY <1>1, <1>2
  <1>6. Leads(Seq(Asked), Answer(FALSE), asked, ms, due)
    BY <1>4, <1>5
  <1> QED BY <1>6 DEF Answers

-----------------------------------------------------------------------------
(* The last message of a kind                                              *)

LEMMA NoneInNothing ==
  ASSUME NEW R
  PROVE  NoneIn(<<>>, R)
  BY DEF NoneIn

LEMMA NoneInOn ==
  ASSUME NEW M, NEW ms \in Seq(M), NEW more \in Seq(M), NEW R
  PROVE  NoneIn(ms \o more, R) <=> NoneIn(ms, R) /\ NoneIn(more, R)
  <1>1. PICK n, k, all : n = Len(ms) /\ k = Len(more) /\ all = ms \o more
    OBVIOUS
  <1>2. n \in Nat /\ k \in Nat /\ Len(all) = n + k
        /\ \A i \in 1..(n + k) : all[i] = IF i <= n THEN ms[i] ELSE more[i - n]
    BY <1>1, LenProperties, ConcatProperties
  <1>3. ASSUME NoneIn(all, R) PROVE NoneIn(ms, R) /\ NoneIn(more, R)
    <2>1. ASSUME NEW i \in 1..n PROVE ms[i] \notin R
      BY <1>2, <1>3 DEF NoneIn
    <2>2. ASSUME NEW i \in 1..k PROVE more[i] \notin R
      <3>1. PICK j : j = n + i
        OBVIOUS
      <3>2. j \in 1..(n + k) /\ all[j] = more[i]
        BY <1>2, <3>1
      <3> QED BY <1>2, <1>3, <3>2 DEF NoneIn
    <2> QED BY <1>1, <2>1, <2>2 DEF NoneIn
  <1>4. ASSUME NoneIn(ms, R), NoneIn(more, R) PROVE NoneIn(all, R)
    <2>1. ASSUME NEW i \in 1..(n + k) PROVE all[i] \notin R
      <3>1. i > n => i - n \in 1..k
        BY <1>2
      <3> QED BY <1>1, <1>2, <1>4, <3>1 DEF NoneIn
    <2> QED BY <1>2, <2>1 DEF NoneIn
  <1> QED BY <1>1, <1>3, <1>4

LEMMA LastInOn ==
  ASSUME NEW M, NEW ms \in Seq(M), NEW more \in Seq(M), NEW A, NEW R,
         LastIn(more, A, R) \/ (LastIn(ms, A, R) /\ NoneIn(more, R))
  PROVE  LastIn(ms \o more, A, R)
  <1>1. PICK n, k, all : n = Len(ms) /\ k = Len(more) /\ all = ms \o more
    OBVIOUS
  <1>2. n \in Nat /\ k \in Nat /\ Len(all) = n + k
        /\ \A i \in 1..(n + k) : all[i] = IF i <= n THEN ms[i] ELSE more[i - n]
    BY <1>1, LenProperties, ConcatProperties
  <1>3. ASSUME LastIn(more, A, R) PROVE LastIn(all, A, R)
    <2>1. PICK i \in 1..k : more[i] \in A /\ \A j \in 1..k : j > i => more[j] \notin R
      BY <1>1, <1>3 DEF LastIn
    <2>2. PICK l : l = n + i
      OBVIOUS
    <2>3. l \in 1..(n + k) /\ all[l] \in A
      BY <1>2, <2>1, <2>2
    <2>4. ASSUME NEW j \in 1..(n + k), j > l PROVE all[j] \notin R
      <3>1. j - n \in 1..k /\ j - n > i /\ all[j] = more[j - n]
        BY <1>2, <2>2, <2>4
      <3> QED BY <2>1, <3>1
    <2> QED BY <1>2, <2>3, <2>4 DEF LastIn
  <1>4. ASSUME LastIn(ms, A, R), NoneIn(more, R) PROVE LastIn(all, A, R)
    <2>1. PICK i \in 1..n : ms[i] \in A /\ \A j \in 1..n : j > i => ms[j] \notin R
      BY <1>1, <1>4 DEF LastIn
    <2>2. i \in 1..(n + k) /\ all[i] \in A
      BY <1>2, <2>1
    <2>3. ASSUME NEW j \in 1..(n + k), j > i PROVE all[j] \notin R
      <3>1. CASE j <= n
        BY <1>2, <2>1, <2>3, <3>1
      <3>2. CASE j > n
        <4>1. j - n \in 1..k /\ all[j] = more[j - n]
          BY <1>2, <3>2
        <4> QED BY <1>1, <1>4, <4>1 DEF NoneIn
      <3> QED BY <3>1, <3>2, <1>2
    <2> QED BY <1>2, <2>2, <2>3 DEF LastIn
  <1> QED BY <1>1, <1>3, <1>4

LEMMA OneIsLast ==
  ASSUME NEW A, NEW R, NEW m
  PROVE  /\ m \in A => LastIn(<<m>>, A, R)
         /\ m \notin R <=> NoneIn(<<m>>, R)
  BY DEF LastIn, NoneIn

LEMMA LastInMore ==
  ASSUME NEW M, NEW ms \in Seq(M), NEW m \in M, NEW A, NEW R
  PROVE  /\ m \in A => LastIn(Append(ms, m), A, R)
         /\ m \notin R /\ LastIn(ms, A, R) => LastIn(Append(ms, m), A, R)
         /\ NoneIn(Append(ms, m), R) <=> NoneIn(ms, R) /\ m \notin R
  <1>1. <<m>> \in Seq(M) /\ ms \o <<m>> = Append(ms, m)
    OBVIOUS
  <1>2. m \in A => LastIn(ms \o <<m>>, A, R)
    BY <1>1, OneIsLast, LastInOn
  <1>3. m \notin R /\ LastIn(ms, A, R) => LastIn(ms \o <<m>>, A, R)
    BY <1>1, OneIsLast, LastInOn
  <1>4. NoneIn(ms \o <<m>>, R) <=> NoneIn(ms, R) /\ m \notin R
    BY <1>1, OneIsLast, NoneInOn
  <1> QED BY <1>1, <1>2, <1>3, <1>4

LEMMA LastInRest ==
  ASSUME NEW M, NEW ms \in Seq(M), ms # <<>>, NEW A, NEW R
  PROVE  /\ NoneIn(ms, R) => NoneIn(Tail(ms), R) /\ Head(ms) \notin R
         /\ LastIn(ms, A, R) => LastIn(Tail(ms), A, R) \/ (Head(ms) \in A /\ NoneIn(Tail(ms), R))
  <1>1. PICK n, rest : n = Len(ms) /\ rest = Tail(ms)
    OBVIOUS
  <1>2. n \in Nat \ {0} /\ Head(ms) = ms[1] /\ Len(rest) = n - 1 /\ \A i \in 1..(n - 1) : rest[i] = ms[i + 1]
    BY <1>1, EmptySeq, HeadTailProperties
  <1>3. ASSUME NoneIn(ms, R) PROVE NoneIn(rest, R) /\ ms[1] \notin R
    <2>1. ASSUME NEW i \in 1..(n - 1) PROVE rest[i] \notin R
      <3>1. i + 1 \in 1..n
        BY <1>2
      <3> QED BY <1>1, <1>2, <1>3, <3>1 DEF NoneIn
    <2> QED BY <1>1, <1>2, <1>3, <2>1 DEF NoneIn
  <1>4. ASSUME LastIn(ms, A, R) PROVE LastIn(rest, A, R) \/ (ms[1] \in A /\ NoneIn(rest, R))
    <2>1. PICK i \in 1..n : ms[i] \in A /\ \A j \in 1..n : j > i => ms[j] \notin R
      BY <1>1, <1>4 DEF LastIn
    <2>2. ASSUME NEW j \in 1..(n - 1), j + 1 > i PROVE rest[j] \notin R
      <3>1. j + 1 \in 1..n /\ rest[j] = ms[j + 1]
        BY <1>2
      <3> QED BY <2>1, <2>2, <3>1
    <2>3. CASE i = 1
      <3>1. \A j \in 1..(n - 1) : rest[j] \notin R
        BY <2>2, <2>3, <1>2
      <3> QED BY <1>2, <2>1, <2>3, <3>1 DEF NoneIn
    <2>4. CASE i # 1
      <3>1. PICK l : l = i - 1
        OBVIOUS
      <3>2. l \in 1..(n - 1) /\ rest[l] = ms[l + 1] /\ l + 1 = i
        BY <1>2, <2>4, <3>1
      <3>3. rest[l] \in A
        BY <2>1, <3>2
      <3>4. \A j \in 1..(n - 1) : j > l => rest[j] \notin R
        BY <2>2, <3>2
      <3> QED BY <1>2, <3>2, <3>3, <3>4 DEF LastIn
    <2> QED BY <2>3, <2>4
  <1> QED BY <1>1, <1>2, <1>3, <1>4

-----------------------------------------------------------------------------
(* Maps                                                                    *)

LEMMA MapIs ==
  ASSUME NEW S, NEW T, NEW f
  PROVE  f \in Maps(S, T) <=>
           /\ DOMAIN f \subseteq S /\ f = [x \in DOMAIN f |-> f[x]]
           /\ \A x \in DOMAIN f : f[x] \in T
  <1>1. ASSUME f \in Maps(S, T)
        PROVE  /\ DOMAIN f \subseteq S /\ f = [x \in DOMAIN f |-> f[x]]
               /\ \A x \in DOMAIN f : f[x] \in T
    <2>1. PICK d \in SUBSET S : f \in [d -> T]
      BY <1>1 DEF Maps
    <2> QED BY <2>1
  <1>2. ASSUME DOMAIN f \subseteq S, f = [x \in DOMAIN f |-> f[x]], \A x \in DOMAIN f : f[x] \in T
        PROVE  f \in Maps(S, T)
    <2>1. PICK d : d = DOMAIN f
      OBVIOUS
    <2>2. d \in SUBSET S /\ f \in [d -> T]
      BY <1>2, <2>1
    <2> QED BY <2>2 DEF Maps
  <1> QED BY <1>1, <1>2

LEMMA EmptyIs ==
  ASSUME NEW S, NEW T
  PROVE  Empty \in Maps(S, T) /\ DOMAIN Empty = {}
  <1>1. DOMAIN Empty = {} /\ Empty \in [{} -> T]
    BY DEF Empty
  <1> QED BY <1>1 DEF Maps

LEMMA WithTyped ==
  ASSUME NEW S, NEW T, NEW f \in Maps(S, T), NEW x \in S, NEW e \in T, NEW g, g = With(f, x, e)
  PROVE  g \in Maps(S, T)
  <1>1. DOMAIN f \subseteq S /\ \A y \in DOMAIN f : f[y] \in T
    BY MapIs
  <1>2. PICK d : d = DOMAIN f \cup {x}
    OBVIOUS
  <1>3. g = [y \in d |-> IF y = x THEN e ELSE f[y]]
    BY <1>2 DEF With
  <1>4. d \in SUBSET S /\ g \in [d -> T]
    BY <1>1, <1>2, <1>3
  <1> QED BY <1>4 DEF Maps

LEMMA WithoutTyped ==
  ASSUME NEW S, NEW T, NEW f \in Maps(S, T), NEW x, NEW g, g = Without(f, x)
  PROVE  g \in Maps(S, T)
  <1>1. DOMAIN f \subseteq S /\ \A y \in DOMAIN f : f[y] \in T
    BY MapIs
  <1>2. PICK d : d = DOMAIN f \ {x}
    OBVIOUS
  <1>3. g = [y \in d |-> f[y]]
    BY <1>2 DEF Without
  <1>4. d \in SUBSET S /\ g \in [d -> T]
    BY <1>1, <1>2, <1>3
  <1> QED BY <1>4 DEF Maps

LEMMA PutIs ==
  ASSUME NEW S, NEW T, NEW f \in Maps(S, T), NEW x \in DOMAIN f, NEW e \in T
  PROVE  /\ [f EXCEPT ![x] = e] \in Maps(S, T) /\ DOMAIN [f EXCEPT ![x] = e] = DOMAIN f
         /\ [f EXCEPT ![x] = e][x] = e
         /\ \A y \in DOMAIN f : y # x => [f EXCEPT ![x] = e][y] = f[y]
  <1>1. PICK g : g = [f EXCEPT ![x] = e]
    OBVIOUS
  <1>2. DOMAIN f \subseteq S /\ \A y \in DOMAIN f : f[y] \in T
    BY MapIs
  <1>3. PICK d : d = DOMAIN f
    OBVIOUS
  <1>4. f \in [d -> T] /\ d \in SUBSET S
    BY <1>2, <1>3, MapIs
  <1>5. g \in [d -> T] /\ DOMAIN g = d /\ g[x] = e /\ \A y \in d : y # x => g[y] = f[y]
    BY <1>1, <1>3, <1>4
  <1>6. g \in Maps(S, T)
    BY <1>4, <1>5 DEF Maps
  <1> QED BY <1>1, <1>3, <1>5, <1>6

-----------------------------------------------------------------------------
(* The page's operators                                                    *)

LEMMA PageIs ==
  ASSUME NEW js \in PageState
  PROVE  /\ js.models \in Models /\ js.currentPath \in Files \cup {None}
         /\ js.diffMode \in {None, "monaco", "pierre", "pierre-group"}
         /\ js.original \in {NoDiff} \cup Original
         /\ js.drawn \in {NoDiff} \cup FileDrawn \cup GroupDrawn
         /\ js.redraws \in BOOLEAN /\ js.pendingSaves \in Saves /\ js.out \in Seq(ToSwift)
         /\ js = Page(js.models, js.currentPath, js.diffMode, js.original, js.drawn, js.redraws,
                      js.pendingSaves, js.out)
  BY DEF PageState, Page

LEMMA PageTyped ==
  ASSUME NEW models \in Models, NEW currentPath \in Files \cup {None},
         NEW diffMode \in {None, "monaco", "pierre", "pierre-group"},
         NEW original \in {NoDiff} \cup Original,
         NEW drawn \in {NoDiff} \cup FileDrawn \cup GroupDrawn,
         NEW redraws \in BOOLEAN, NEW pendingSaves \in Saves, NEW out \in Seq(ToSwift)
  PROVE  Page(models, currentPath, diffMode, original, drawn, redraws, pendingSaves, out) \in PageState
  BY DEF PageState, Page

LEMMA EntryIs ==
  ASSUME NEW models \in Models, NEW path \in DOMAIN models
  PROVE  /\ path \in Files /\ models[path] \in Entry
         /\ models[path].value \in Texts /\ models[path].cleanValue \in Texts
         /\ IsDirty(models[path]) \in BOOLEAN
         /\ IsDirty(models[path]) = (models[path].value # models[path].cleanValue)
  <1>1. path \in Files /\ models[path] \in Entry
    BY MapIs DEF Models
  <1> QED BY <1>1 DEF Entry, IsDirty

DirtyMessage(path, isDirty) == [type |-> "dirty", path |-> path, isDirty |-> isDirty]
SaveMessage(path, content) == [type |-> "save", path |-> path, content |-> content]
SelectionMessage(path) == [type |-> "selection", path |-> path]

LEMMA MessagesTyped ==
  /\ \A path \in Files : \A isDirty \in BOOLEAN : DirtyMessage(path, isDirty) \in ToSwift
  /\ \A path \in Files : \A content \in Texts : SaveMessage(path, content) \in ToSwift
  /\ \A path \in Files \cup {None} : SelectionMessage(path) \in ToSwift
  BY DEF DirtyMessage, SaveMessage, SelectionMessage, ToSwift, Dirty, Save, Selection

LEMMA PostIs ==
  ASSUME NEW js \in PageState, NEW m
  PROVE  Post(js, m) = Page(js.models, js.currentPath, js.diffMode, js.original, js.drawn, js.redraws,
                            js.pendingSaves, Append(js.out, m))
  <1>1. js = Page(js.models, js.currentPath, js.diffMode, js.original, js.drawn, js.redraws,
                  js.pendingSaves, js.out)
    BY PageIs
  <1>2. PICK out : out = Append(js.out, m)
    OBVIOUS
  <1>3. Post(js, m) = [js EXCEPT !.out = out]
    BY <1>2 DEF Post
  <1>4. [js EXCEPT !.out = out] = Page(js.models, js.currentPath, js.diffMode, js.original, js.drawn,
                                       js.redraws, js.pendingSaves, out)
    BY <1>1 DEF Page
  <1> QED BY <1>2, <1>3, <1>4

LEMMA ReportIs ==
  ASSUME NEW js \in PageState, NEW path \in DOMAIN js.models
  PROVE  ReportDirtyFor(js, path) =
           Page(js.models, js.currentPath, js.diffMode, js.original, js.drawn, js.redraws,
                js.pendingSaves, Append(js.out, DirtyMessage(path, IsDirty(js.models[path]))))
  BY PostIs DEF ReportDirtyFor, DirtyMessage

LEMMA ExitDiffIs ==
  ASSUME NEW js \in PageState
  PROVE  ExitDiff(js) = Page(js.models, js.currentPath, None, NoDiff, NoDiff, FALSE, js.pendingSaves, js.out)
  <1>1. js = Page(js.models, js.currentPath, js.diffMode, js.original, js.drawn, js.redraws,
                  js.pendingSaves, js.out)
    BY PageIs
  <1>2. PICK models, currentPath, diffMode, original, drawn, redraws, pendingSaves, out :
          js = Page(models, currentPath, diffMode, original, drawn, redraws, pendingSaves, out)
    BY <1>1
  <1>3. PICK e1 : e1 = [js EXCEPT !.diffMode = None]
    OBVIOUS
  <1>4. e1 = Page(models, currentPath, None, original, drawn, redraws, pendingSaves, out)
    BY <1>2, <1>3 DEF Page
  <1>5. PICK e2 : e2 = [e1 EXCEPT !.original = NoDiff]
    OBVIOUS
  <1>6. e2 = Page(models, currentPath, None, NoDiff, drawn, redraws, pendingSaves, out)
    BY <1>4, <1>5 DEF Page
  <1>7. PICK e3 : e3 = [e2 EXCEPT !.drawn = NoDiff]
    OBVIOUS
  <1>8. e3 = Page(models, currentPath, None, NoDiff, NoDiff, redraws, pendingSaves, out)
    BY <1>6, <1>7 DEF Page
  <1>9. PICK e4 : e4 = [e3 EXCEPT !.redraws = FALSE]
    OBVIOUS
  <1>10. e4 = Page(models, currentPath, None, NoDiff, NoDiff, FALSE, pendingSaves, out)
    BY <1>8, <1>9 DEF Page
  <1>11. ExitDiff(js) = e4
    BY <1>3, <1>5, <1>7, <1>9 DEF ExitDiff
  <1>12. js.models = models /\ js.currentPath = currentPath /\ js.pendingSaves = pendingSaves /\ js.out = out
    BY <1>2 DEF Page
  <1> QED BY <1>10, <1>11, <1>12

\* A page in front of which another file comes.
InFront(js, path) ==
    Page(js.models, path, None, NoDiff, NoDiff, FALSE, js.pendingSaves,
         Append(js.out, DirtyMessage(path, IsDirty(js.models[path]))))

LEMMA SwitchIs ==
  ASSUME NEW js \in PageState, NEW path \in DOMAIN js.models,
         js.diffMode = None => js.original = NoDiff /\ js.drawn = NoDiff /\ ~js.redraws
  PROVE  SwitchToPath(js, path) = InFront(js, path)
  <1>1. PICK left : left = IF js.diffMode # None THEN ExitDiff(js) ELSE js
    OBVIOUS
  <1>2. left = Page(js.models, js.currentPath, None, NoDiff, NoDiff, FALSE, js.pendingSaves, js.out)
    <2>1. CASE js.diffMode # None
      BY <1>1, <2>1, ExitDiffIs
    <2>2. CASE js.diffMode = None
      <3>1. js.redraws = FALSE
        BY <2>2, PageIs
      <3> QED BY <1>1, <2>2, <3>1, PageIs
    <2> QED BY <2>1, <2>2
  <1>3. PICK there : there = [left EXCEPT !.currentPath = path]
    OBVIOUS
  <1>4. there = Page(js.models, path, None, NoDiff, NoDiff, FALSE, js.pendingSaves, js.out)
    BY <1>2, <1>3 DEF Page
  <1>5. path \in Files
    BY PageIs, EntryIs
  <1>6. there \in PageState
    BY <1>4, <1>5, PageIs, PageTyped
  <1>7. there.models = js.models /\ there.pendingSaves = js.pendingSaves /\ there.out = js.out
        /\ there.currentPath = path /\ there.diffMode = None /\ there.original = NoDiff
        /\ there.drawn = NoDiff /\ there.redraws = FALSE
    BY <1>4 DEF Page
  <1>8. ReportDirtyFor(there, path) = InFront(js, path)
    BY <1>6, <1>7, ReportIs DEF InFront
  <1>9. SwitchToPath(js, path) = ReportDirtyFor(there, path)
    BY <1>1, <1>3 DEF SwitchToPath
  <1> QED BY <1>8, <1>9

CleanEntry(text) == [value |-> text, cleanValue |-> text]

\* A page whose model of a file got another text.
SetPage(js, path, text, after) ==
    \E models \in Models, redraws \in BOOLEAN :
      /\ DOMAIN models = DOMAIN js.models
      /\ models[path].value = text /\ models[path].cleanValue = js.models[path].cleanValue
      /\ \A p \in DOMAIN js.models : p # path => models[p] = js.models[p]
      /\ redraws = (js.redraws \/ (ShowsDiff(js) /\ js.currentPath = path))
      /\ after = Page(models, js.currentPath, js.diffMode, js.original, js.drawn, redraws,
                      js.pendingSaves, Append(js.out, DirtyMessage(path, IsDirty(models[path]))))

LEMMA SetValueIs ==
  ASSUME NEW js \in PageState, NEW path \in DOMAIN js.models, NEW text \in Texts
  PROVE  SetPage(js, path, text, SetValue(js, path, text))
  <1>1. js.models \in Models /\ js.models[path] \in Entry /\ path \in Files
    BY PageIs, EntryIs
  <1>2. PICK entry : entry = [js.models[path] EXCEPT !.value = text]
    OBVIOUS
  <1>3. entry \in Entry /\ entry.value = text /\ entry.cleanValue = js.models[path].cleanValue
    BY <1>1, <1>2 DEF Entry
  <1>4. PICK models : models = [js.models EXCEPT ![path] = entry]
    OBVIOUS
  <1>5. models \in Models /\ DOMAIN models = DOMAIN js.models /\ models[path] = entry
        /\ \A p \in DOMAIN js.models : p # path => models[p] = js.models[p]
    BY <1>1, <1>3, <1>4, PutIs DEF Models
  <1>6. PICK set : set = [js EXCEPT !.models[path].value = text]
    OBVIOUS
  <1>7. set = [js EXCEPT !.models = models]
    BY <1>2, <1>4, <1>6
  <1>8. set = Page(models, js.currentPath, js.diffMode, js.original, js.drawn, js.redraws, js.pendingSaves, js.out)
    BY <1>7, PageIs DEF Page
  <1>9. set \in PageState /\ set.models = models
    <2>1. set.models = models
      BY <1>8 DEF Page
    <2> QED BY <1>5, <1>8, <2>1, PageIs, PageTyped
  <1>10. set.currentPath = js.currentPath /\ set.diffMode = js.diffMode /\ set.original = js.original
         /\ set.drawn = js.drawn /\ set.redraws = js.redraws /\ set.pendingSaves = js.pendingSaves
         /\ set.out = js.out
    BY <1>8 DEF Page
  <1>11. PICK out : out = Append(js.out, DirtyMessage(path, IsDirty(models[path])))
    OBVIOUS
  <1>12. PICK reported : reported = ReportDirtyFor(set, path)
    OBVIOUS
  <1>13. reported = Page(models, js.currentPath, js.diffMode, js.original, js.drawn, js.redraws, js.pendingSaves, out)
    BY <1>5, <1>9, <1>10, <1>11, <1>12, ReportIs
  <1>14. PICK redraws : redraws = (js.redraws \/ (ShowsDiff(js) /\ js.currentPath = path))
    OBVIOUS
  <1>15. SetValue(js, path, text) =
           IF ShowsDiff(js) /\ js.currentPath = path THEN [reported EXCEPT !.redraws = TRUE] ELSE reported
    BY <1>6, <1>12 DEF SetValue
  <1>16. redraws \in BOOLEAN
    BY <1>14
  <1>17. SetValue(js, path, text) =
           Page(models, js.currentPath, js.diffMode, js.original, js.drawn, redraws, js.pendingSaves, out)
    <2>1. CASE ShowsDiff(js) /\ js.currentPath = path
      <3>1. redraws = TRUE
        BY <2>1, <1>14
      <3>2. [reported EXCEPT !.redraws = redraws] =
              Page(models, js.currentPath, js.diffMode, js.original, js.drawn, redraws, js.pendingSaves, out)
        BY <1>13 DEF Page
      <3> QED BY <2>1, <3>1, <3>2, <1>15
    <2>2. CASE ~(ShowsDiff(js) /\ js.currentPath = path)
      <3>1. redraws = js.redraws
        BY <2>2, <1>14, PageIs
      <3> QED BY <2>2, <3>1, <1>13, <1>15
    <2> QED BY <2>1, <2>2
  <1> QED BY <1>3, <1>5, <1>11, <1>14, <1>16, <1>17 DEF SetPage

\* A page with a file's new content, before it comes to the front.
OpenedPage(js, path, text, opened) ==
    \E models \in Models, redraws \in BOOLEAN, out \in Seq(ToSwift) :
      /\ DOMAIN models = DOMAIN js.models \cup {path} /\ models[path] = CleanEntry(text)
      /\ \A p \in DOMAIN js.models : p # path => models[p] = js.models[p]
      /\ redraws = (js.redraws \/ (path \in DOMAIN js.models /\ ShowsDiff(js) /\ js.currentPath = path))
      /\ out = js.out \/ \E isDirty \in BOOLEAN : out = Append(js.out, DirtyMessage(path, isDirty))
      /\ opened = Page(models, js.currentPath, js.diffMode, js.original, js.drawn, redraws,
                       js.pendingSaves, out)

LEMMA OpenIs ==
  ASSUME NEW js \in PageState, NEW path \in Files, NEW text \in Texts, NEW opened,
         opened = IF path \in DOMAIN js.models
                    THEN [SetValue(js, path, text) EXCEPT !.models[path] = CleanEntry(text)]
                    ELSE [js EXCEPT !.models = With(@, path, CleanEntry(text))]
  PROVE  OpenedPage(js, path, text, opened)
  <1> USE DEF OpenedPage
  <1>1. CleanEntry(text) \in Entry /\ js.models \in Models /\ js.redraws \in BOOLEAN /\ js.out \in Seq(ToSwift)
    BY PageIs DEF CleanEntry, Entry
  <1>2. CASE path \in DOMAIN js.models
    <2>1. PICK between \in Models, redraws \in BOOLEAN :
           /\ DOMAIN between = DOMAIN js.models
           /\ between[path].value = text /\ between[path].cleanValue = js.models[path].cleanValue
           /\ \A p \in DOMAIN js.models : p # path => between[p] = js.models[p]
           /\ redraws = (js.redraws \/ (ShowsDiff(js) /\ js.currentPath = path))
           /\ SetValue(js, path, text) =
                Page(between, js.currentPath, js.diffMode, js.original, js.drawn, redraws,
                     js.pendingSaves, Append(js.out, DirtyMessage(path, IsDirty(between[path]))))
      BY <1>2, SetValueIs DEF SetPage
    <2>3. PICK isDirty : isDirty = IsDirty(between[path])
      OBVIOUS
    <2>4. PICK out : out = Append(js.out, DirtyMessage(path, isDirty))
      OBVIOUS
    <2>5. isDirty \in BOOLEAN
      BY <1>2, <2>1, <2>3, EntryIs
    <2>6. out \in Seq(ToSwift)
      BY <1>1, <2>4, <2>5, MessagesTyped, AppendProperties
    <2>7. PICK set : set = SetValue(js, path, text)
      OBVIOUS
    <2>8. set = Page(between, js.currentPath, js.diffMode, js.original, js.drawn, redraws, js.pendingSaves, out)
      BY <2>1, <2>3, <2>4, <2>7
    <2>9. set.models = between
      BY <2>8 DEF Page
    <2>10. PICK models : models = [between EXCEPT ![path] = CleanEntry(text)]
      OBVIOUS
    <2>11. models \in Models /\ DOMAIN models = DOMAIN js.models /\ models[path] = CleanEntry(text)
           /\ \A p \in DOMAIN js.models : p # path => models[p] = js.models[p]
      <3>1. models \in Models /\ DOMAIN models = DOMAIN between /\ models[path] = CleanEntry(text)
            /\ \A p \in DOMAIN between : p # path => models[p] = between[p]
        BY <1>1, <1>2, <2>1, <2>10, PutIs DEF Models
      <3> QED BY <2>1, <3>1
    <2>12. opened = [set EXCEPT !.models[path] = CleanEntry(text)]
      BY <1>2, <2>7
    <2>13. [set EXCEPT !.models[path] = CleanEntry(text)] = [set EXCEPT !.models = models]
      BY <2>9, <2>10
    <2>14. [set EXCEPT !.models = models] = Page(models, js.currentPath, js.diffMode, js.original, js.drawn, redraws, js.pendingSaves, out)
      BY <2>8 DEF Page
    <2>15. DOMAIN models = DOMAIN js.models \cup {path}
      BY <1>2, <2>11
    <2>16. opened = Page(models, js.currentPath, js.diffMode, js.original, js.drawn, redraws, js.pendingSaves, out)
      BY <2>12, <2>13, <2>14
    <2>17. redraws = (js.redraws \/ (path \in DOMAIN js.models /\ ShowsDiff(js) /\ js.currentPath = path))
      BY <1>2, <2>1
    <2>18. out = js.out \/ \E is \in BOOLEAN : out = Append(js.out, DirtyMessage(path, is))
      BY <2>4, <2>5
    <2>19. models \in Models /\ redraws \in BOOLEAN /\ out \in Seq(ToSwift)
      BY <2>1, <2>6, <2>11
    <2> USE <2>19
    <2> WITNESS models \in Models, redraws \in BOOLEAN, out \in Seq(ToSwift)
    <2> QED BY <2>11, <2>15, <2>16, <2>17, <2>18
  <1>3. CASE path \notin DOMAIN js.models
    <2>1. PICK models : models = With(js.models, path, CleanEntry(text))
      OBVIOUS
    <2>2. models \in Models /\ DOMAIN models = DOMAIN js.models \cup {path} /\ models[path] = CleanEntry(text)
          /\ \A p \in DOMAIN js.models : p # path => models[p] = js.models[p]
      <3>1. models \in Models
        BY <1>1, <2>1, WithTyped DEF Models
      <3>2. /\ DOMAIN models = DOMAIN js.models \cup {path} /\ models[path] = CleanEntry(text)
            /\ \A y \in DOMAIN js.models : y # path => models[y] = js.models[y]
        <4>1. PICK f, e : f = js.models /\ e = CleanEntry(text)
          OBVIOUS
        <4>2. models = With(f, path, e)
          BY <2>1, <4>1
        <4>3. DOMAIN models = DOMAIN f \cup {path} /\ models[path] = e
          BY <4>2 DEF With
        <4>4. \A y \in DOMAIN f : y # path => models[y] = f[y]
          BY <4>2 DEF With
        <4> QED BY <4>1, <4>3, <4>4
      <3> QED BY <3>1, <3>2
    <2>3. opened = [js EXCEPT !.models = models]
      BY <1>3, <2>1
    <2>4. [js EXCEPT !.models = models] = Page(models, js.currentPath, js.diffMode, js.original, js.drawn, js.redraws, js.pendingSaves, js.out)
      BY PageIs DEF Page
    <2>5. js.redraws = (js.redraws \/ (path \in DOMAIN js.models /\ ShowsDiff(js) /\ js.currentPath = path))
      BY <1>1, <1>3
    <2>6. models \in Models /\ js.redraws \in BOOLEAN /\ js.out \in Seq(ToSwift)
      BY <1>1, <2>2
    <2> USE <2>6
    <2> WITNESS models \in Models, js.redraws \in BOOLEAN, js.out \in Seq(ToSwift)
    <2> QED BY <2>2, <2>3, <2>4, <2>5
  <1> QED BY <1>2, <1>3

LEMMA CloseTabIs ==
  ASSUME NEW js \in PageState, NEW path \in DOMAIN js.models
  PROVE  CloseTab(js, path) =
           Page(Without(js.models, path), IF js.currentPath = path THEN None ELSE js.currentPath,
                js.diffMode, js.original, js.drawn, js.redraws, Without(js.pendingSaves, path), js.out)
  <1>1. PICK models, saves, current :
          /\ models = Without(js.models, path) /\ saves = Without(js.pendingSaves, path)
          /\ current = IF js.currentPath = path THEN None ELSE js.currentPath
    OBVIOUS
  <1>2. PICK e1 : e1 = [js EXCEPT !.models = models]
    OBVIOUS
  <1>3. e1 = Page(models, js.currentPath, js.diffMode, js.original, js.drawn, js.redraws, js.pendingSaves, js.out)
    BY PageIs, <1>2 DEF Page
  <1>4. PICK e2 : e2 = [e1 EXCEPT !.pendingSaves = saves]
    OBVIOUS
  <1>5. e2 = Page(models, js.currentPath, js.diffMode, js.original, js.drawn, js.redraws, saves, js.out)
    BY <1>3, <1>4 DEF Page
  <1>6. PICK e3 : e3 = [e2 EXCEPT !.currentPath = current]
    OBVIOUS
  <1>7. e3 = Page(models, current, js.diffMode, js.original, js.drawn, js.redraws, saves, js.out)
    BY <1>5, <1>6 DEF Page
  <1>8. CloseTab(js, path) = e3
    BY <1>1, <1>2, <1>4, <1>6 DEF CloseTab
  <1> QED BY <1>1, <1>7, <1>8

LEMMA EnterPierreDiffIs ==
  ASSUME NEW js \in PageState, NEW m, m.path \in DOMAIN js.models, js.currentPath = m.path
  PROVE  EnterPierreDiff(js, m) =
           Page(js.models, js.currentPath, "pierre", m.original,
                [path |-> js.currentPath, original |-> m.original, text |-> js.models[js.currentPath].value],
                FALSE, js.pendingSaves, js.out)
  <1>0. PICK no : no = FALSE
    OBVIOUS
  <1>1. PICK e1 : e1 = [js EXCEPT !.diffMode = "pierre"]
    OBVIOUS
  <1>2. e1 = Page(js.models, js.currentPath, "pierre", js.original, js.drawn, js.redraws, js.pendingSaves, js.out)
    BY PageIs, <1>1 DEF Page
  <1>3. PICK e2 : e2 = [e1 EXCEPT !.original = m.original]
    OBVIOUS
  <1>4. e2 = Page(js.models, js.currentPath, "pierre", m.original, js.drawn, js.redraws, js.pendingSaves, js.out)
    BY <1>2, <1>3 DEF Page
  <1>5. PICK e3 : e3 = [e2 EXCEPT !.drawn = NoDiff]
    OBVIOUS
  <1>6. e3 = Page(js.models, js.currentPath, "pierre", m.original, NoDiff, js.redraws, js.pendingSaves, js.out)
    BY <1>4, <1>5 DEF Page
  <1>7. PICK e4 : e4 = [e3 EXCEPT !.redraws = no]
    OBVIOUS
  <1>8. e4 = Page(js.models, js.currentPath, "pierre", m.original, NoDiff, no, js.pendingSaves, js.out)
    BY <1>6, <1>7 DEF Page
  <1>9. EnterPierreDiff(js, m) = RenderDiff(e4)
    BY <1>0, <1>1, <1>3, <1>5, <1>7 DEF EnterPierreDiff
  <1>10. e4.models = js.models /\ e4.currentPath = js.currentPath /\ e4.original = m.original
    BY <1>8 DEF Page
  <1>11. RenderDiff(e4) = [e4 EXCEPT !.drawn = Drawing(e4)]
    BY <1>10 DEF RenderDiff, CanDraw
  <1>12. PICK drawn : drawn = Drawing(e4)
    OBVIOUS
  <1>13. [e4 EXCEPT !.drawn = drawn] = Page(js.models, js.currentPath, "pierre", m.original, drawn, no, js.pendingSaves, js.out)
    BY <1>8 DEF Page
  <1>14. drawn = [path |-> js.currentPath, original |-> m.original, text |-> js.models[js.currentPath].value]
    BY <1>10, <1>12 DEF Drawing
  <1> QED BY <1>0, <1>9, <1>11, <1>12, <1>13, <1>14

LEMMA EnterMonacoDiffIs ==
  ASSUME NEW js \in PageState, NEW m, m.path \in DOMAIN js.models
  PROVE  EnterMonacoDiff(js, m) =
           Page(js.models, js.currentPath, "monaco", m.original, NoDiff, TRUE, js.pendingSaves, js.out)
  <1>1. PICK e1 : e1 = [js EXCEPT !.diffMode = "monaco"]
    OBVIOUS
  <1>2. e1 = Page(js.models, js.currentPath, "monaco", js.original, js.drawn, js.redraws, js.pendingSaves, js.out)
    BY PageIs, <1>1 DEF Page
  <1>3. PICK e2 : e2 = [e1 EXCEPT !.original = m.original]
    OBVIOUS
  <1>4. e2 = Page(js.models, js.currentPath, "monaco", m.original, js.drawn, js.redraws, js.pendingSaves, js.out)
    BY <1>2, <1>3 DEF Page
  <1>5. PICK e3 : e3 = [e2 EXCEPT !.drawn = NoDiff]
    OBVIOUS
  <1>6. e3 = Page(js.models, js.currentPath, "monaco", m.original, NoDiff, js.redraws, js.pendingSaves, js.out)
    BY <1>4, <1>5 DEF Page
  <1>7. PICK e4 : e4 = [e3 EXCEPT !.redraws = TRUE]
    OBVIOUS
  <1>8. e4 = Page(js.models, js.currentPath, "monaco", m.original, NoDiff, TRUE, js.pendingSaves, js.out)
    <2>1. PICK yes : yes = TRUE
      OBVIOUS
    <2>2. [e3 EXCEPT !.redraws = yes] = Page(js.models, js.currentPath, "monaco", m.original, NoDiff, yes, js.pendingSaves, js.out)
      BY <1>6 DEF Page
    <2> QED BY <1>7, <2>1, <2>2
  <1>9. EnterMonacoDiff(js, m) = e4
    BY <1>1, <1>3, <1>5, <1>7 DEF EnterMonacoDiff
  <1> QED BY <1>8, <1>9

LEMMA EnterGroupIs ==
  ASSUME NEW js \in PageState, NEW m
  PROVE  EnterPierreDiffGroup(js, m) =
           Page(js.models, js.currentPath, "pierre-group", NoDiff, [path |-> m.path, loading |-> m.loading],
                FALSE, js.pendingSaves, js.out)
  <1>1. PICK drawn : drawn = [path |-> m.path, loading |-> m.loading]
    OBVIOUS
  <1>2. PICK e1 : e1 = [js EXCEPT !.diffMode = "pierre-group"]
    OBVIOUS
  <1>3. e1 = Page(js.models, js.currentPath, "pierre-group", js.original, js.drawn, js.redraws, js.pendingSaves, js.out)
    BY PageIs, <1>2 DEF Page
  <1>4. PICK e2 : e2 = [e1 EXCEPT !.original = NoDiff]
    OBVIOUS
  <1>5. e2 = Page(js.models, js.currentPath, "pierre-group", NoDiff, js.drawn, js.redraws, js.pendingSaves, js.out)
    BY <1>3, <1>4 DEF Page
  <1>6. PICK e3 : e3 = [e2 EXCEPT !.redraws = FALSE]
    OBVIOUS
  <1>7. e3 = Page(js.models, js.currentPath, "pierre-group", NoDiff, js.drawn, FALSE, js.pendingSaves, js.out)
    BY <1>5, <1>6 DEF Page
  <1>8. PICK e4 : e4 = [e3 EXCEPT !.drawn = drawn]
    OBVIOUS
  <1>9. e4 = Page(js.models, js.currentPath, "pierre-group", NoDiff, drawn, FALSE, js.pendingSaves, js.out)
    BY <1>7, <1>8 DEF Page
  <1>10. EnterPierreDiffGroup(js, m) = e4
    BY <1>1, <1>2, <1>4, <1>6, <1>8 DEF EnterPierreDiffGroup
  <1> QED BY <1>1, <1>9, <1>10

LEMMA RedrawIs ==
  ASSUME NEW js \in PageState
  PROVE  RenderDiff([js EXCEPT !.redraws = FALSE]) =
           Page(js.models, js.currentPath, js.diffMode, js.original,
                IF js.currentPath \in DOMAIN js.models THEN Drawing(js) ELSE js.drawn,
                FALSE, js.pendingSaves, js.out)
  <1>0. PICK no : no = FALSE
    OBVIOUS
  <1>1. PICK e : e = [js EXCEPT !.redraws = no]
    OBVIOUS
  <1>2. e = Page(js.models, js.currentPath, js.diffMode, js.original, js.drawn, no, js.pendingSaves, js.out)
    BY <1>1, PageIs DEF Page
  <1>3. e.models = js.models /\ e.currentPath = js.currentPath /\ e.original = js.original
    BY <1>2 DEF Page
  <1>4. PICK drawn : drawn = Drawing(js)
    OBVIOUS
  <1>5. Drawing(e) = drawn
    BY <1>3, <1>4 DEF Drawing
  <1>6. [e EXCEPT !.drawn = drawn] = Page(js.models, js.currentPath, js.diffMode, js.original, drawn, no, js.pendingSaves, js.out)
    BY <1>2 DEF Page
  <1>7. RenderDiff(e) = IF js.currentPath \in DOMAIN js.models THEN [e EXCEPT !.drawn = drawn] ELSE e
    BY <1>3, <1>5 DEF RenderDiff, CanDraw
  <1>8. CASE js.currentPath \in DOMAIN js.models
    BY <1>0, <1>1, <1>4, <1>6, <1>7, <1>8
  <1>9. CASE js.currentPath \notin DOMAIN js.models
    BY <1>0, <1>1, <1>2, <1>7, <1>9
  <1> QED BY <1>8, <1>9

\* How many saves of a file the page waits for.
CountOf(saves, path) == IF path \in DOMAIN saves THEN saves[path].count ELSE 0

LEMMA SavingIs ==
  ASSUME NEW saves \in Saves
  PROVE  /\ \A path \in DOMAIN saves : /\ saves[path].content \in Texts /\ saves[path].count \in Nat \ {0}
                                     /\ saves[path] \in Saving
         /\ \A path \in Files : CountOf(saves, path) \in Nat
         /\ DOMAIN saves \subseteq Files
  <1>1. saves \in Maps(Files, Saving)
    BY DEF Saves
  <1>2. DOMAIN saves \subseteq Files /\ \A path \in DOMAIN saves : saves[path] \in Saving
    BY <1>1, MapIs
  <1> QED BY <1>2 DEF Saving, CountOf

LEMMA OneSaveLessIs ==
  ASSUME NEW old \in Saves, NEW path \in DOMAIN old, NEW saves, saves = OneSaveLess(old, path)
  PROVE  /\ saves \in Saves /\ CountOf(saves, path) = CountOf(old, path) - 1
         /\ DOMAIN saves \subseteq DOMAIN old
         /\ path \in DOMAIN saves => saves[path].content = old[path].content
         /\ \A p \in DOMAIN old : p # path => p \in DOMAIN saves /\ saves[p] = old[p]
  <1>1. old \in Maps(Files, Saving) /\ old[path] \in Saving /\ path \in Files
        /\ old[path].count \in Nat \ {0} /\ old[path].content \in Texts
    BY SavingIs DEF Saves
  <1>2. CASE old[path].count = 1
    <2>1. saves = Without(old, path)
      BY <1>2 DEF OneSaveLess
    <2>2. saves \in Saves
      BY <1>1, <2>1, WithoutTyped DEF Saves
    <2>3. DOMAIN saves = DOMAIN old \ {path} /\ \A p \in DOMAIN old : p # path => saves[p] = old[p]
      BY <2>1 DEF Without
    <2> QED BY <1>2, <2>2, <2>3 DEF CountOf
  <1>3. CASE old[path].count # 1
    <2>1. PICK less : less = [old[path] EXCEPT !.count = old[path].count - 1]
      OBVIOUS
    <2>2. less \in Saving /\ less.content = old[path].content /\ less.count = old[path].count - 1
      BY <1>1, <1>3, <2>1 DEF Saving
    <2>3. saves = [old EXCEPT ![path] = less]
      BY <1>3, <2>1 DEF OneSaveLess
    <2>4. saves \in Saves /\ DOMAIN saves = DOMAIN old /\ saves[path] = less
          /\ \A p \in DOMAIN old : p # path => saves[p] = old[p]
      <3>1. PICK f : f = old
        OBVIOUS
      <3>2. f \in Maps(Files, Saving) /\ path \in DOMAIN f
        BY <1>1, <3>1
      <3>3. [f EXCEPT ![path] = less] \in Maps(Files, Saving)
        BY <2>2, <3>2, PutIs, Zenon
      <3>4. saves \in Maps(Files, Saving) /\ DOMAIN saves = DOMAIN f /\ saves[path] = less
            /\ \A p \in DOMAIN f : p # path => saves[p] = f[p]
        BY <2>3, <3>1, <3>2, <3>3
      <3> QED BY <3>1, <3>4 DEF Saves
    <2> QED BY <2>2, <2>4 DEF CountOf
  <1> QED BY <1>2, <1>3

LEMMA MarkSavedIs ==
  ASSUME NEW js \in PageState, NEW path \in DOMAIN js.models
  PROVE  \E models \in Models, saves \in Saves :
           /\ DOMAIN models = DOMAIN js.models /\ models[path].value = js.models[path].value
           /\ models[path].cleanValue = IF path \in DOMAIN js.pendingSaves THEN js.pendingSaves[path].content
                                        ELSE js.models[path].value
           /\ \A p \in DOMAIN js.models : p # path => models[p] = js.models[p]
           /\ DOMAIN saves \subseteq DOMAIN js.pendingSaves
           /\ path \in DOMAIN js.pendingSaves => CountOf(saves, path) = CountOf(js.pendingSaves, path) - 1
           /\ path \in DOMAIN saves => saves[path].content = js.pendingSaves[path].content
           /\ \A p \in DOMAIN js.pendingSaves : p # path => p \in DOMAIN saves /\ saves[p] = js.pendingSaves[p]
           /\ MarkSaved(js, path) =
                Page(models, js.currentPath, js.diffMode, js.original, js.drawn, js.redraws, saves,
                     Append(js.out, DirtyMessage(path, IsDirty(models[path]))))
  <1>1. js.models \in Models /\ js.models[path] \in Entry /\ path \in Files /\ js.pendingSaves \in Saves
        /\ js.models[path].value \in Texts
    BY PageIs, EntryIs
  <1>2. PICK clean : clean = IF path \in DOMAIN js.pendingSaves THEN js.pendingSaves[path].content
                             ELSE js.models[path].value
    OBVIOUS
  <1>3. clean \in Texts
    BY <1>1, <1>2, SavingIs
  <1>4. PICK entry : entry = [js.models[path] EXCEPT !.cleanValue = clean]
    OBVIOUS
  <1>5. entry \in Entry /\ entry.value = js.models[path].value /\ entry.cleanValue = clean
    BY <1>1, <1>3, <1>4 DEF Entry
  <1>6. PICK models : models = [js.models EXCEPT ![path] = entry]
    OBVIOUS
  <1>7. models \in Models /\ DOMAIN models = DOMAIN js.models /\ models[path] = entry
        /\ \A p \in DOMAIN js.models : p # path => models[p] = js.models[p]
    BY <1>1, <1>5, <1>6, PutIs DEF Models
  <1>8. PICK saves : saves = IF path \in DOMAIN js.pendingSaves THEN OneSaveLess(js.pendingSaves, path)
                             ELSE js.pendingSaves
    OBVIOUS
  <1>9. /\ saves \in Saves /\ DOMAIN saves \subseteq DOMAIN js.pendingSaves
        /\ path \in DOMAIN js.pendingSaves => CountOf(saves, path) = CountOf(js.pendingSaves, path) - 1
        /\ path \in DOMAIN saves => saves[path].content = js.pendingSaves[path].content
        /\ \A p \in DOMAIN js.pendingSaves : p # path => p \in DOMAIN saves /\ saves[p] = js.pendingSaves[p]
    <2>1. CASE path \in DOMAIN js.pendingSaves
      <3>1. saves = OneSaveLess(js.pendingSaves, path)
        BY <1>8, <2>1
      <3> QED BY <1>1, <2>1, <3>1, OneSaveLessIs
    <2>2. CASE path \notin DOMAIN js.pendingSaves
      BY <1>1, <1>8, <2>2
    <2> QED BY <2>1, <2>2
  <1>10. PICK set : set = [js EXCEPT !.models[path].cleanValue = clean]
    OBVIOUS
  <1>11. set = [js EXCEPT !.models = models]
    BY <1>4, <1>6, <1>10
  <1>12. set = Page(models, js.currentPath, js.diffMode, js.original, js.drawn, js.redraws, js.pendingSaves, js.out)
    BY <1>11, PageIs DEF Page
  <1>13. set.pendingSaves = js.pendingSaves
    BY <1>12 DEF Page
  <1>14. PICK less : less = [set EXCEPT !.pendingSaves = saves]
    OBVIOUS
  <1>15. less = Page(models, js.currentPath, js.diffMode, js.original, js.drawn, js.redraws, saves, js.out)
    BY <1>12, <1>14 DEF Page
  <1>16. MarkSaved(js, path) = ReportDirtyFor(less, path)
    <2>1. CASE path \in DOMAIN js.pendingSaves
      <3>1. clean = js.pendingSaves[path].content /\ saves = OneSaveLess(js.pendingSaves, path)
        BY <1>2, <1>8, <2>1
      <3>2. MarkSaved(js, path) =
              ReportDirtyFor([js EXCEPT !.models[path].cleanValue = js.pendingSaves[path].content,
                                        !.pendingSaves = OneSaveLess(@, path)], path)
        BY <2>1 DEF MarkSaved
      <3>3. [js EXCEPT !.models[path].cleanValue = js.pendingSaves[path].content,
                       !.pendingSaves = OneSaveLess(@, path)]
              = [[js EXCEPT !.models[path].cleanValue = js.pendingSaves[path].content]
                   EXCEPT !.pendingSaves = OneSaveLess(js.pendingSaves, path)]
        OBVIOUS
      <3> QED BY <1>10, <1>14, <3>1, <3>2, <3>3
    <2>2. CASE path \notin DOMAIN js.pendingSaves
      <3>1. clean = js.models[path].value /\ saves = js.pendingSaves
        BY <1>2, <1>8, <2>2
      <3>2. MarkSaved(js, path) = ReportDirtyFor(set, path)
        BY <1>10, <2>2, <3>1 DEF MarkSaved
      <3> QED BY <1>12, <1>15, <3>1, <3>2
    <2> QED BY <2>1, <2>2
  <1>17. less \in PageState
    BY <1>7, <1>9, <1>15, PageIs, PageTyped
  <1>18. less.models = models /\ less.pendingSaves = saves /\ less.currentPath = js.currentPath
         /\ less.diffMode = js.diffMode /\ less.original = js.original /\ less.drawn = js.drawn
         /\ less.redraws = js.redraws /\ less.out = js.out
    BY <1>15 DEF Page
  <1>19. MarkSaved(js, path) = Page(models, js.currentPath, js.diffMode, js.original, js.drawn, js.redraws, saves,
                                    Append(js.out, DirtyMessage(path, IsDirty(models[path]))))
    <2>1. PICK p : p = path
      OBVIOUS
    <2>2. p \in DOMAIN less.models
      BY <1>7, <1>18, <2>1
    <2>3. ReportDirtyFor(less, p) =
            Page(less.models, less.currentPath, less.diffMode, less.original, less.drawn, less.redraws,
                 less.pendingSaves, Append(less.out, DirtyMessage(p, IsDirty(less.models[p]))))
      BY <1>17, <2>2, ReportIs
    <2> QED BY <1>16, <1>18, <2>1, <2>3
  <1>20. models[path].value = js.models[path].value /\ models[path].cleanValue = clean
    BY <1>5, <1>7
  <1> QED BY <1>2, <1>7, <1>9, <1>19, <1>20

LEMMA PostSaveIs ==
  ASSUME NEW js \in PageState, NEW path \in DOMAIN js.models
  PROVE  \E saves \in Saves :
           /\ DOMAIN saves = DOMAIN js.pendingSaves \cup {path}
           /\ saves[path].content = js.models[path].value
           /\ saves[path].count = CountOf(js.pendingSaves, path) + 1
           /\ \A p \in DOMAIN js.pendingSaves : p # path => saves[p] = js.pendingSaves[p]
           /\ PostSave(js, path) =
                Page(js.models, js.currentPath, js.diffMode, js.original, js.drawn, js.redraws, saves,
                     Append(js.out, SaveMessage(path, js.models[path].value)))
  <1>1. js.models \in Models /\ path \in Files /\ js.pendingSaves \in Saves /\ js.models[path].value \in Texts
    BY PageIs, EntryIs
  <1>2. PICK content, count : content = js.models[path].value /\ count = CountOf(js.pendingSaves, path)
    OBVIOUS
  <1>3. content \in Texts /\ count \in Nat
    BY <1>1, <1>2, SavingIs
  <1>4. PICK saving : saving = [content |-> content, count |-> count + 1]
    OBVIOUS
  <1>5. saving \in Saving /\ saving.content = content /\ saving.count = count + 1
    BY <1>3, <1>4 DEF Saving
  <1>6. PICK saves : saves = With(js.pendingSaves, path, saving)
    OBVIOUS
  <1>7. saves \in Saves
    BY <1>1, <1>5, <1>6, WithTyped DEF Saves
  <1>8. DOMAIN saves = DOMAIN js.pendingSaves \cup {path} /\ saves[path] = saving
        /\ \A p \in DOMAIN js.pendingSaves : p # path => saves[p] = js.pendingSaves[p]
    <2>1. PICK f : f = js.pendingSaves
      OBVIOUS
    <2>2. saves = With(f, path, saving)
      BY <1>6, <2>1
    <2>3. DOMAIN saves = DOMAIN f \cup {path} /\ saves[path] = saving
      BY <2>2 DEF With
    <2>4. \A p \in DOMAIN f : p # path => saves[p] = f[p]
      BY <2>2 DEF With
    <2> QED BY <2>1, <2>3, <2>4
  <1>9. PICK set : set = [js EXCEPT !.pendingSaves = saves]
    OBVIOUS
  <1>10. set = Page(js.models, js.currentPath, js.diffMode, js.original, js.drawn, js.redraws, saves, js.out)
    BY <1>9, PageIs DEF Page
  <1>11. set \in PageState
    BY <1>7, <1>10, PageIs, PageTyped
  <1>12. set.models = js.models /\ set.pendingSaves = saves /\ set.currentPath = js.currentPath
         /\ set.diffMode = js.diffMode /\ set.original = js.original /\ set.drawn = js.drawn
         /\ set.redraws = js.redraws /\ set.out = js.out
    BY <1>10 DEF Page
  <1>13. PostSave(js, path) = Post(set, SaveMessage(path, content))
    BY <1>2, <1>4, <1>6, <1>9 DEF PostSave, CountOf, SaveMessage
  <1>14. PostSave(js, path) = Page(js.models, js.currentPath, js.diffMode, js.original, js.drawn, js.redraws, saves,
                                   Append(js.out, SaveMessage(path, content)))
    <2>1. PICK m : m = SaveMessage(path, content)
      OBVIOUS
    <2>2. Post(set, m) = Page(set.models, set.currentPath, set.diffMode, set.original, set.drawn, set.redraws,
                              set.pendingSaves, Append(set.out, m))
      BY <1>11, PostIs
    <2> QED BY <1>12, <1>13, <2>1, <2>2
  <1> QED BY <1>2, <1>5, <1>7, <1>8, <1>14

-----------------------------------------------------------------------------
(* What the page says of its texts                                         *)

LEMMA DirtyIs ==
  ASSUME NEW path \in Files, NEW isDirty \in BOOLEAN
  PROVE  /\ DirtyMessage(path, isDirty) \in ToSwift /\ DirtyMessage(path, isDirty).type = "dirty"
         /\ \A p \in Files : DirtyMessage(path, isDirty) \in DirtyOf(p) <=> p = path
         /\ isDirty => DirtyMessage(path, isDirty) \in DirtyTold(path)
  <1>1. DirtyMessage(path, isDirty) \in ToSwift
    BY MessagesTyped
  <1>2. PICK m : m = DirtyMessage(path, isDirty)
    OBVIOUS
  <1>3. m.type = "dirty" /\ m.path = path
    BY <1>2 DEF DirtyMessage
  <1>4. m.isDirty = isDirty
    BY <1>2 DEF DirtyMessage
  <1>5. \A p \in Files : m \in DirtyOf(p) <=> p = path
    BY <1>1, <1>2, <1>3 DEF DirtyOf
  <1>6. isDirty => m \in DirtyTold(path)
    BY <1>4, <1>5 DEF DirtyTold
  <1> QED BY <1>1, <1>2, <1>3, <1>5, <1>6

LEMMA TellNothing ==
  ASSUME NEW js, js.out = <<>>
  PROVE  Told(js, js)
  BY NoneInNothing DEF Told

LEMMA TellMore ==
  ASSUME NEW before, NEW js \in PageState, NEW after \in PageState, NEW path \in Files, NEW isDirty \in BOOLEAN,
         Told(before, js), after.out = Append(js.out, DirtyMessage(path, isDirty)),
         \A p \in DOMAIN after.models : p # path => p \in DOMAIN js.models /\ after.models[p] = js.models[p],
         path \in DOMAIN after.models => (IsDirty(after.models[path]) => isDirty)
  PROVE  Told(before, after)
  <1>1. PICK m, out : m = DirtyMessage(path, isDirty) /\ out = js.out
    OBVIOUS
  <1>2. out \in Seq(ToSwift) /\ m \in ToSwift /\ after.out = Append(out, m)
    BY <1>1, PageIs, DirtyIs
  <1>3. ASSUME NEW p \in DOMAIN after.models, IsDirty(after.models[p])
        PROVE  \/ LastIn(after.out, DirtyTold(p), DirtyOf(p))
               \/ /\ NoneIn(after.out, DirtyOf(p))
                  /\ p \in DOMAIN before.models /\ IsDirty(before.models[p])
    <2>1. CASE p = path
      <3>1. isDirty
        BY <1>3, <2>1
      <3>2. m \in DirtyTold(p)
        BY <1>1, <2>1, <3>1, DirtyIs
      <3> QED BY <1>2, <3>2, LastInMore
    <2>2. CASE p # path
      <3>1. p \in DOMAIN js.models /\ IsDirty(js.models[p]) /\ p \in Files
        BY <1>3, <2>2, PageIs, EntryIs
      <3>2. m \notin DirtyOf(p)
        BY <1>1, <2>2, <3>1, DirtyIs
      <3>3. \/ LastIn(out, DirtyTold(p), DirtyOf(p))
            \/ /\ NoneIn(out, DirtyOf(p))
               /\ p \in DOMAIN before.models /\ IsDirty(before.models[p])
        BY <1>1, <3>1 DEF Told
      <3>4. /\ LastIn(out, DirtyTold(p), DirtyOf(p)) => LastIn(Append(out, m), DirtyTold(p), DirtyOf(p))
            /\ NoneIn(out, DirtyOf(p)) => NoneIn(Append(out, m), DirtyOf(p))
        BY <1>2, <3>2, LastInMore
      <3> QED BY <1>2, <3>3, <3>4
    <2> QED BY <2>1, <2>2
  <1> QED BY <1>3 DEF Told

LEMMA TellOther ==
  ASSUME NEW before, NEW js \in PageState, NEW after, NEW m \in ToSwift, m.type # "dirty",
         Told(before, js), after.out = Append(js.out, m), after.models = js.models
  PROVE  Told(before, after)
  <1>1. PICK out : out = js.out
    OBVIOUS
  <1>2. out \in Seq(ToSwift) /\ after.out = Append(out, m)
    BY <1>1, PageIs
  <1>3. ASSUME NEW p \in DOMAIN after.models, IsDirty(after.models[p])
        PROVE  \/ LastIn(after.out, DirtyTold(p), DirtyOf(p))
               \/ /\ NoneIn(after.out, DirtyOf(p))
                  /\ p \in DOMAIN before.models /\ IsDirty(before.models[p])
    <2>1. m \notin DirtyOf(p)
      BY DEF DirtyOf
    <2>2. \/ LastIn(out, DirtyTold(p), DirtyOf(p))
          \/ /\ NoneIn(out, DirtyOf(p))
             /\ p \in DOMAIN before.models /\ IsDirty(before.models[p])
      BY <1>1, <1>3 DEF Told
    <2>3. /\ LastIn(out, DirtyTold(p), DirtyOf(p)) => LastIn(Append(out, m), DirtyTold(p), DirtyOf(p))
          /\ NoneIn(out, DirtyOf(p)) => NoneIn(Append(out, m), DirtyOf(p))
      BY <1>2, <2>1, LastInMore
    <2> QED BY <1>2, <2>2, <2>3
  <1> QED BY <1>3 DEF Told

LEMMA TellNoMore ==
  ASSUME NEW before, NEW js, NEW after, Told(before, js), after.out = js.out,
         \A p \in DOMAIN after.models : IsDirty(after.models[p]) =>
           p \in DOMAIN js.models /\ after.models[p] = js.models[p]
  PROVE  Told(before, after)
  BY DEF Told

-----------------------------------------------------------------------------
(* The page takes a message                                                *)

LEMMA ViewOf ==
  ASSUME NEW fresh \in BOOLEAN, NEW js, NEW due, NEW v, v = View(fresh, js, due)
  PROVE  /\ v.models = DOMAIN js.models /\ v.path = js.currentPath
         /\ v.mode = IF ShowsDiff(js) THEN "file" ELSE IF fresh /\ js.diffMode = "pierre-group" THEN "group"
                      ELSE "none"
         /\ v.original = js.original
         /\ v.drawn = IF fresh /\ js.diffMode = "pierre-group" THEN js.drawn ELSE NoDiff
         /\ v.due = due
  BY DEF View, Shown

LEMMA ViewTyped ==
  ASSUME NEW alive, NEW fresh \in BOOLEAN, NEW js \in PageState, PageFits(alive, js), NEW due \in Seq(Asked)
  PROVE  View(fresh, js, due) \in Viewed
  <1>1. DOMAIN js.models \in SUBSET Files
    BY PageIs, MapIs DEF Models
  <1>2. js.currentPath \in DOMAIN js.models \cup {None} /\ (js.diffMode = "pierre-group" => js.drawn \in GroupDrawn)
    BY DEF PageFits
  <1>3. PICK mode : mode = IF ShowsDiff(js) THEN "file" ELSE IF fresh /\ js.diffMode = "pierre-group" THEN "group"
                          ELSE "none"
    OBVIOUS
  <1>4. PICK drawn : drawn = IF fresh /\ js.diffMode = "pierre-group" THEN js.drawn ELSE NoDiff
    OBVIOUS
  <1>5. mode \in {"none", "file", "group"} /\ drawn \in {NoDiff} \cup GroupDrawn
    BY <1>2, <1>3, <1>4
  <1>6. View(fresh, js, due) = Shown(DOMAIN js.models, js.currentPath, mode, js.original, drawn, due)
    BY <1>3, <1>4 DEF View
  <1>7. js.original \in {NoDiff} \cup Original /\ js.currentPath \in Files \cup {None}
    BY PageIs
  <1> QED BY <1>1, <1>2, <1>5, <1>6, <1>7 DEF Shown, Viewed

LEMMA NothingAnswers ==
  ASSUME NEW fresh, NEW due \in Seq(Asked)
  PROVE  Answers(fresh, due, <<>>, due)
  BY NothingLeads DEF Answers

\* A page took a file to the front.
ComesForward(alive, fresh, due, before, js, path, after) ==
    /\ after \in PageState /\ PageFits(alive, after) /\ Told(before, after)
    /\ Answers(fresh, due, after.out, due)
    /\ View(fresh, after, due) = Shown(DOMAIN js.models, path, "none", NoDiff, NoDiff, due)
    /\ SwitchToPath(js, path) = after
    /\ after.models = js.models /\ after.pendingSaves = js.pendingSaves
    /\ after.out = Append(js.out, DirtyMessage(path, IsDirty(js.models[path])))

LEMMA InFrontIs ==
  ASSUME NEW alive, NEW fresh \in BOOLEAN, NEW due \in Seq(Asked), NEW js \in PageState, NEW path \in DOMAIN js.models,
         PageFits(alive, js), NEW before, Told(before, js), Answers(fresh, due, js.out, due),
         NEW after, after = InFront(js, path)
  PROVE  ComesForward(alive, fresh, due, before, js, path, after)
  <1>1. path \in Files /\ js.models \in Models /\ js.pendingSaves \in Saves /\ js.out \in Seq(ToSwift)
        /\ IsDirty(js.models[path]) \in BOOLEAN
    BY PageIs, EntryIs
  <1>2. PICK m : m = DirtyMessage(path, IsDirty(js.models[path]))
    OBVIOUS
  <1>3. m \in ToSwift /\ m.type = "dirty"
    BY <1>1, <1>2, DirtyIs
  <1>4. PICK out : out = Append(js.out, m)
    OBVIOUS
  <1>5. out \in Seq(ToSwift)
    BY <1>1, <1>3, <1>4, AppendProperties
  <1>6. after = Page(js.models, path, None, NoDiff, NoDiff, FALSE, js.pendingSaves, out)
    BY <1>2, <1>4 DEF InFront
  <1>7. after \in PageState
    BY <1>1, <1>5, <1>6, PageTyped
  <1>8. /\ after.models = js.models /\ after.currentPath = path /\ after.diffMode = None
        /\ after.original = NoDiff /\ after.drawn = NoDiff /\ ~after.redraws
        /\ after.pendingSaves = js.pendingSaves /\ after.out = out
    BY <1>6 DEF Page
  <1>9. ~ShowsDiff(after)
    BY <1>8 DEF ShowsDiff, None
  <1>10. PageFits(alive, after)
    <2>1. DOMAIN js.pendingSaves \subseteq DOMAIN js.models
      BY DEF PageFits
    <2> QED BY <1>8, <1>9, <2>1 DEF PageFits, None
  <1>11. Told(before, after)
    BY <1>1, <1>2, <1>4, <1>7, <1>8, TellMore
  <1>12. Answers(fresh, due, out, due)
    BY <1>1, <1>3, <1>4, AnswersSame
  <1>13. View(fresh, after, due) = Shown(DOMAIN js.models, path, "none", NoDiff, NoDiff, due)
    BY <1>8, <1>9 DEF View, None
  <1>14. js.diffMode = None => js.original = NoDiff /\ js.drawn = NoDiff /\ ~js.redraws
    BY DEF PageFits, ShowsDiff, None
  <1>15. SwitchToPath(js, path) = after
    BY <1>14, SwitchIs
  <1> QED BY <1>2, <1>4, <1>7, <1>8, <1>10, <1>11, <1>12, <1>13, <1>15 DEF ComesForward

LEMMA TakesOpen ==
  ASSUME NEW alive \in BOOLEAN, NEW fresh \in BOOLEAN, NEW due \in Seq(Asked), NEW js \in PageState,
         PageFits(alive, js), js.out = <<>>, NEW m \in ToPage, m.type = "openFile"
  PROVE  Taken(alive, fresh, due, js, m, ApplyOpen(js, m))
  <1>1. PICK path, text : path = m.path /\ text = m.content
    OBVIOUS
  <1>2. path \in Files /\ text \in Texts /\ m.activate \in BOOLEAN
    BY <1>1, PageMessage
  <1>3. PICK opened : opened = IF path \in DOMAIN js.models
                               THEN [SetValue(js, path, text) EXCEPT !.models[path] = CleanEntry(text)]
                               ELSE [js EXCEPT !.models = With(@, path, CleanEntry(text))]
    OBVIOUS
  <1>4. ApplyOpen(js, m) = IF m.activate THEN SwitchToPath(opened, path) ELSE opened
    BY <1>1, <1>3 DEF ApplyOpen, CleanEntry
  <1>5. PICK models \in Models, redraws \in BOOLEAN, out \in Seq(ToSwift) :
           /\ DOMAIN models = DOMAIN js.models \cup {path} /\ models[path] = CleanEntry(text)
           /\ \A p \in DOMAIN js.models : p # path => models[p] = js.models[p]
           /\ redraws = (js.redraws \/ (path \in DOMAIN js.models /\ ShowsDiff(js) /\ js.currentPath = path))
           /\ out = js.out \/ \E isDirty \in BOOLEAN : out = Append(js.out, DirtyMessage(path, isDirty))
           /\ opened = Page(models, js.currentPath, js.diffMode, js.original, js.drawn, redraws,
                            js.pendingSaves, out)
    <2>1. OpenedPage(js, path, text, opened)
      BY <1>2, <1>3, OpenIs
    <2> QED BY <2>1 DEF OpenedPage
  <1>6. opened \in PageState
    BY <1>5, PageIs, PageTyped, ZenonT(40)
  <1>7. /\ opened.models = models /\ opened.currentPath = js.currentPath /\ opened.diffMode = js.diffMode
        /\ opened.original = js.original /\ opened.drawn = js.drawn /\ opened.redraws = redraws
        /\ opened.pendingSaves = js.pendingSaves /\ opened.out = out
    BY <1>5 DEF Page
  <1>8. ShowsDiff(opened) = ShowsDiff(js)
    BY <1>7 DEF ShowsDiff
  <1>9. ~IsDirty(models[path])
    BY <1>5 DEF CleanEntry, IsDirty
  <1>10. PageFits(alive, opened)
    <2>1. js.currentPath \in DOMAIN js.models \cup {None} /\ DOMAIN js.pendingSaves \subseteq DOMAIN js.models
      BY DEF PageFits
    <2>2. opened.currentPath \in DOMAIN opened.models \cup {None} /\ DOMAIN opened.pendingSaves \subseteq DOMAIN opened.models
      BY <1>5, <1>7, <2>1
    <2>3. CASE ShowsDiff(js)
      <3>1. /\ js.original \in Original
            /\ js.currentPath = js.original.path \/ (~alive /\ js.currentPath = None)
            /\ js.drawn # NoDiff => js.drawn.path = js.original.path
            /\ js.currentPath # None /\ ~js.redraws => js.drawn = Drawing(js)
        BY <2>3 DEF PageFits
      <3>2. ASSUME js.currentPath # None, ~redraws PROVE js.drawn = Drawing(opened)
        <4>1. js.currentPath \in DOMAIN js.models /\ js.currentPath # path /\ ~js.redraws
          BY <1>5, <2>1, <2>3, <3>2
        <4>2. js.drawn = Drawing(js) /\ models[js.currentPath] = js.models[js.currentPath]
          BY <1>5, <3>1, <3>2, <4>1
        <4> QED BY <4>2, <1>7 DEF Drawing
      <3>3. js.diffMode # "pierre-group" /\ js.diffMode # None
        BY <2>3 DEF ShowsDiff, None
      <3> QED BY <1>7, <1>8, <2>2, <2>3, <3>1, <3>2, <3>3 DEF PageFits
    <2>4. CASE ~ShowsDiff(js)
      <3>1. js.original = NoDiff /\ ~js.redraws
            /\ (js.diffMode = "pierre-group" => js.drawn \in GroupDrawn) /\ (js.diffMode = None => js.drawn = NoDiff)
        BY <2>4 DEF PageFits
      <3>2. ~redraws
        BY <1>5, <2>4, <3>1
      <3> QED BY <1>7, <1>8, <2>2, <2>4, <3>1, <3>2 DEF PageFits
    <2> QED BY <2>3, <2>4
  <1>11. Told(js, js) /\ Answers(fresh, due, js.out, due)
    BY TellNothing, NothingAnswers
  <1>12. Told(js, opened) /\ Answers(fresh, due, opened.out, due)
    <2>1. CASE out = js.out
      <3>1. \A p \in DOMAIN opened.models : IsDirty(opened.models[p]) =>
              p \in DOMAIN js.models /\ opened.models[p] = js.models[p]
        BY <1>5, <1>7, <1>9
      <3> QED BY <1>7, <1>11, <2>1, <3>1, TellNoMore
    <2>2. ASSUME NEW isDirty \in BOOLEAN, out = Append(js.out, DirtyMessage(path, isDirty))
          PROVE  Told(js, opened) /\ Answers(fresh, due, opened.out, due)
      <3>1. \A p \in DOMAIN opened.models : p # path => p \in DOMAIN js.models /\ opened.models[p] = js.models[p]
        BY <1>5, <1>7
      <3>2. Told(js, opened)
        BY <1>2, <1>6, <1>7, <1>9, <1>11, <2>2, <3>1, TellMore
      <3>3. PICK d : d = DirtyMessage(path, isDirty)
        OBVIOUS
      <3>4. d \in ToSwift /\ d.type = "dirty" /\ js.out \in Seq(ToSwift) /\ out = Append(js.out, d)
        BY <1>2, <2>2, <3>3, DirtyIs, PageIs
      <3>5. Answers(fresh, due, out, due)
        BY <1>11, <3>4, AnswersSame
      <3> QED BY <1>7, <3>2, <3>5
    <2> QED BY <1>5, <2>1, <2>2
  <1>13. PICK v : v = View(fresh, js, due)
    OBVIOUS
  <1>14. View(fresh, opened, due) = Opened(v, path)
    <2>1. /\ v.models = DOMAIN js.models /\ v.path = js.currentPath /\ v.due = due /\ v.original = js.original
          /\ v.mode = (IF ShowsDiff(js) THEN "file" ELSE IF fresh /\ js.diffMode = "pierre-group" THEN "group" ELSE "none")
          /\ v.drawn = IF fresh /\ js.diffMode = "pierre-group" THEN js.drawn ELSE NoDiff
      BY <1>13, ViewOf
    <2>2. View(fresh, opened, due) = Shown(DOMAIN models, js.currentPath, v.mode, js.original, v.drawn, due)
      BY <1>7, <1>8, <2>1 DEF View
    <2> QED BY <1>5, <2>1, <2>2 DEF Opened
  <1>15. CASE m.activate
    <2>1. PICK after : after = InFront(opened, path)
      OBVIOUS
    <2>2. path \in DOMAIN opened.models
      BY <1>5, <1>7
    <2>3. /\ after \in PageState /\ PageFits(alive, after) /\ Told(js, after)
          /\ Answers(fresh, due, after.out, due)
          /\ View(fresh, after, due) = Shown(DOMAIN opened.models, path, "none", NoDiff, NoDiff, due)
          /\ SwitchToPath(opened, path) = after
      <3>1. ComesForward(alive, fresh, due, js, opened, path, after)
        BY <1>6, <1>10, <1>12, <2>1, <2>2, InFrontIs
      <3> QED BY <3>1 DEF ComesForward
    <2>4. Sees(fresh, v, m) = FileShown(Opened(v, path), path)
      BY <1>1, <1>15 DEF Sees
    <2>5. FileShown(Opened(v, path), path) = Shown(DOMAIN opened.models, path, "none", NoDiff, NoDiff, due)
      BY <1>5, <1>7, <1>13 DEF FileShown, Opened, View, Shown
    <2> QED BY <1>4, <1>13, <1>15, <2>3, <2>4, <2>5 DEF Taken, Becomes
  <1>16. CASE ~m.activate
    <2>1. Sees(fresh, v, m) = Opened(v, path)
      BY <1>1, <1>16 DEF Sees
    <2> QED BY <1>4, <1>6, <1>10, <1>12, <1>13, <1>14, <1>16, <2>1 DEF Taken, Becomes
  <1> QED BY <1>15, <1>16

\* A message that leaves all as it is.
LEMMA TakesNothing ==
  ASSUME NEW alive \in BOOLEAN, NEW fresh \in BOOLEAN, NEW due \in Seq(Asked), NEW js \in PageState,
         PageFits(alive, js), js.out = <<>>, NEW m \in ToPage, Sees(fresh, View(fresh, js, due), m) = View(fresh, js, due)
  PROVE  Taken(alive, fresh, due, js, m, js)
  BY TellNothing, NothingAnswers DEF Taken, Becomes

LEMMA TakesSwitch ==
  ASSUME NEW alive \in BOOLEAN, NEW fresh \in BOOLEAN, NEW due \in Seq(Asked), NEW js \in PageState,
         PageFits(alive, js), js.out = <<>>, NEW m \in ToPage, m.type \in {"switchTab", "goToLine"},
         m.type = "goToLine" => js.currentPath # m.path
  PROVE  Taken(alive, fresh, due, js, m, SwitchToPath(js, m.path))
  <1>1. PICK v, path : v = View(fresh, js, due) /\ path = m.path
    OBVIOUS
  <1>2. v.models = DOMAIN js.models /\ v.path = js.currentPath /\ v.due = due
    BY <1>1, ViewOf
  <1>3. CASE path \in DOMAIN js.models
    <2>0. Told(js, js) /\ Answers(fresh, due, js.out, due)
      BY TellNothing, NothingAnswers
    <2>1. PICK after : after = InFront(js, path)
      OBVIOUS
    <2>2. /\ after \in PageState /\ PageFits(alive, after) /\ Told(js, after)
          /\ Answers(fresh, due, after.out, due)
          /\ View(fresh, after, due) = Shown(DOMAIN js.models, path, "none", NoDiff, NoDiff, due)
          /\ SwitchToPath(js, path) = after
      <3>1. ComesForward(alive, fresh, due, js, js, path, after)
        BY <1>3, <2>1, <2>0, InFrontIs
      <3> QED BY <3>1 DEF ComesForward
    <2>3. Sees(fresh, v, m) = FileShown(v, path)
      BY <1>1, <1>2, <1>3 DEF Sees
    <2>4. FileShown(v, path) = Shown(DOMAIN js.models, path, "none", NoDiff, NoDiff, due)
      BY <1>2 DEF FileShown
    <2> QED BY <1>1, <2>2, <2>3, <2>4 DEF Taken, Becomes
  <1>4. CASE path \notin DOMAIN js.models
    <2>1. Sees(fresh, v, m) = v
      BY <1>1, <1>2, <1>4 DEF Sees
    <2>2. SwitchToPath(js, path) = js
      BY <1>4 DEF SwitchToPath
    <2> QED BY <1>1, <2>1, <2>2, TakesNothing
  <1> QED BY <1>3, <1>4

LEMMA TakesClose ==
  ASSUME NEW alive \in BOOLEAN, NEW fresh \in BOOLEAN, NEW due \in Seq(Asked), NEW js \in PageState,
         PageFits(alive, js), js.out = <<>>, NEW m \in ToPage, m.type = "closeTab",
         Timely(alive, fresh, View(fresh, js, due), m)
  PROVE  Taken(alive, fresh, due, js, m, CloseTab(js, m.path))
  <1>1. PICK v, path : v = View(fresh, js, due) /\ path = m.path
    OBVIOUS
  <1>2. /\ v.models = DOMAIN js.models /\ v.path = js.currentPath /\ v.due = due /\ v.original = js.original
        /\ (ShowsDiff(js) => v.mode = "file")
        /\ v.mode = (IF ShowsDiff(js) THEN "file" ELSE IF fresh /\ js.diffMode = "pierre-group" THEN "group" ELSE "none")
        /\ v.drawn = IF fresh /\ js.diffMode = "pierre-group" THEN js.drawn ELSE NoDiff
    BY <1>1, ViewOf
  <1>3. Sees(fresh, v, m) = ClosedIn(v, path)
    BY <1>1 DEF Sees
  <1>4. js.currentPath \in DOMAIN js.models \cup {None} /\ DOMAIN js.pendingSaves \subseteq DOMAIN js.models
    BY DEF PageFits
  <1>5. CASE path \in DOMAIN js.models
    <2>1. PICK models, saves, current :
            /\ models = Without(js.models, path) /\ saves = Without(js.pendingSaves, path)
            /\ current = IF js.currentPath = path THEN None ELSE js.currentPath
      OBVIOUS
    <2>2. models \in Models /\ saves \in Saves
      BY <2>1, PageIs, WithoutTyped DEF Models, Saves
    <2>3. DOMAIN models = DOMAIN js.models \ {path} /\ \A p \in DOMAIN models : models[p] = js.models[p]
      BY <2>1 DEF Without
    <2>4. DOMAIN saves = DOMAIN js.pendingSaves \ {path}
      BY <2>1 DEF Without
    <2>5. PICK after : after = CloseTab(js, path)
      OBVIOUS
    <2>6. after = Page(models, current, js.diffMode, js.original, js.drawn, js.redraws, saves, js.out)
      BY <1>5, <2>1, <2>5, CloseTabIs
    <2>7. current \in DOMAIN models \cup {None} /\ current \in Files \cup {None}
      BY <1>4, <2>1, <2>3, PageIs
    <2>8. after \in PageState
      BY <2>2, <2>6, <2>7, PageIs, PageTyped
    <2>9. /\ after.models = models /\ after.currentPath = current /\ after.diffMode = js.diffMode
          /\ after.original = js.original /\ after.drawn = js.drawn /\ after.redraws = js.redraws
          /\ after.pendingSaves = saves /\ after.out = js.out
      BY <2>6 DEF Page
    <2>10. ShowsDiff(after) = ShowsDiff(js)
      BY <2>9 DEF ShowsDiff
    <2>11. PageFits(alive, after)
      <3>1. CASE ShowsDiff(js)
        <4>1. /\ js.original \in Original
              /\ js.currentPath = js.original.path \/ (~alive /\ js.currentPath = None)
              /\ js.drawn # NoDiff => js.drawn.path = js.original.path
              /\ js.currentPath # None /\ ~js.redraws => js.drawn = Drawing(js)
          BY <3>1 DEF PageFits
        <4>2. alive => js.currentPath # path
          BY <1>1, <1>2, <3>1 DEF Timely
        <4>3. current = js.original.path \/ (~alive /\ current = None)
          BY <2>1, <4>1, <4>2
        <4>4. current # None => Drawing(after) = Drawing(js)
          BY <1>4, <2>1, <2>3, <2>9 DEF Drawing
        <4>5. current # None => current = js.currentPath
          BY <2>1
        <4>6. js.diffMode # "pierre-group" /\ js.diffMode # None
          BY <3>1 DEF ShowsDiff, None
        <4>7. DOMAIN saves \subseteq DOMAIN models
          BY <1>4, <2>3, <2>4
        <4>8. current # None /\ ~js.redraws => js.drawn = Drawing(after)
          BY <4>1, <4>4, <4>5
        <4> QED BY <2>7, <2>9, <2>10, <3>1, <4>1, <4>3, <4>6, <4>7, <4>8 DEF PageFits
      <3>2. CASE ~ShowsDiff(js)
        <4>1. js.original = NoDiff /\ ~js.redraws
              /\ (js.diffMode = "pierre-group" => js.drawn \in GroupDrawn) /\ (js.diffMode = None => js.drawn = NoDiff)
          BY <3>2 DEF PageFits
        <4>2. DOMAIN saves \subseteq DOMAIN models
          BY <1>4, <2>3, <2>4
        <4> QED BY <2>7, <2>9, <2>10, <3>2, <4>1, <4>2 DEF PageFits
      <3> QED BY <3>1, <3>2
    <2>12. Told(js, after)
      <3>1. \A p \in DOMAIN after.models : p \in DOMAIN js.models /\ after.models[p] = js.models[p]
        BY <2>3, <2>9
      <3> QED BY <2>9, <3>1, TellNothing, TellNoMore
    <2>13. Answers(fresh, due, after.out, due)
      BY <2>9, NothingAnswers
    <2>14. View(fresh, after, due) = ClosedIn(v, path)
      <3>1. View(fresh, after, due) = Shown(DOMAIN models, current, v.mode, js.original, v.drawn, due)
        BY <1>2, <2>9, <2>10 DEF View
      <3> QED BY <1>2, <2>1, <2>3, <3>1 DEF ClosedIn
    <2> QED BY <1>1, <1>3, <2>5, <2>8, <2>11, <2>12, <2>13, <2>14 DEF Taken, Becomes
  <1>6. CASE path \notin DOMAIN js.models
    <2>1. CloseTab(js, path) = js
      BY <1>6 DEF CloseTab
    <2>2. path \in Files
      BY <1>1, PageMessage
    <2>3. v.path # path /\ path \notin v.models
      BY <1>2, <1>4, <1>6, <2>2, NamesApart
    <2>4. v \in Viewed
      BY <1>1, ViewTyped
    <2>5. PICK models : models = v.models
      OBVIOUS
    <2>6. models \ {path} = models
      BY <2>3, <2>5
    <2>7. ClosedIn(v, path) = Shown(v.models, v.path, v.mode, v.original, v.drawn, v.due)
      BY <2>3, <2>5, <2>6 DEF ClosedIn
    <2>8. ClosedIn(v, path) = v
      BY <2>4, <2>7, ViewedIs DEF Shown
    <2> QED BY <1>1, <1>3, <2>1, <2>8, TakesNothing
  <1> QED BY <1>5, <1>6

\* The text of a file, or what it is compared with, changed, and the page said so.
TextChanged(js, path, models, redraws, saves, after) ==
    /\ path \in DOMAIN js.models /\ models \in Models /\ redraws \in BOOLEAN /\ saves \in Saves
    /\ DOMAIN models = DOMAIN js.models /\ \A p \in DOMAIN js.models : p # path => models[p] = js.models[p]
    /\ DOMAIN saves \subseteq DOMAIN js.models
    /\ js.redraws => redraws
    /\ redraws => ShowsDiff(js)
    /\ js.currentPath = path /\ models[path].value # js.models[path].value /\ ShowsDiff(js) => redraws
    /\ after = Page(models, js.currentPath, js.diffMode, js.original, js.drawn, redraws, saves,
                    Append(js.out, DirtyMessage(path, IsDirty(models[path]))))

LEMMA TextChanges ==
  ASSUME NEW alive \in BOOLEAN, NEW fresh \in BOOLEAN, NEW due \in Seq(Asked), NEW js \in PageState,
         PageFits(alive, js), js.out = <<>>,
         NEW path, NEW models, NEW redraws, NEW saves, NEW after, TextChanged(js, path, models, redraws, saves, after)
  PROVE  Becomes(alive, fresh, due, js, after, View(fresh, js, due))
  <1>0. /\ path \in DOMAIN js.models /\ models \in Models /\ redraws \in BOOLEAN /\ saves \in Saves
        /\ DOMAIN models = DOMAIN js.models /\ \A p \in DOMAIN js.models : p # path => models[p] = js.models[p]
        /\ DOMAIN saves \subseteq DOMAIN js.models
        /\ js.redraws => redraws
        /\ redraws => ShowsDiff(js)
        /\ js.currentPath = path /\ models[path].value # js.models[path].value /\ ShowsDiff(js) => redraws
    BY DEF TextChanged
  <1>1. path \in Files /\ IsDirty(models[path]) \in BOOLEAN
    BY <1>0, EntryIs
  <1>2. PICK d : d = DirtyMessage(path, IsDirty(models[path]))
    OBVIOUS
  <1>3. d \in ToSwift /\ d.type = "dirty" /\ js.out \in Seq(ToSwift)
    BY <1>1, <1>2, DirtyIs, PageIs
  <1>4. PICK out : out = Append(js.out, d)
    OBVIOUS
  <1>5. out \in Seq(ToSwift) /\ Answers(fresh, due, out, due)
    <2>1. Answers(fresh, due, js.out, due)
      BY NothingAnswers
    <2>2. PICK old : old = js.out
      OBVIOUS
    <2>3. old \in Seq(ToSwift) /\ Answers(fresh, due, old, due) /\ out = Append(old, d)
      BY <1>3, <1>4, <2>1, <2>2
    <2> QED BY <1>3, <2>3, AppendProperties, AnswersSame
  <1>6. after = Page(models, js.currentPath, js.diffMode, js.original, js.drawn, redraws, saves, out)
    BY <1>2, <1>4 DEF TextChanged
  <1>7. after \in PageState
    <2>1. /\ js.currentPath \in Files \cup {None} /\ js.diffMode \in {None, "monaco", "pierre", "pierre-group"}
          /\ js.original \in {NoDiff} \cup Original
          /\ js.drawn \in {NoDiff} \cup FileDrawn \cup GroupDrawn
      BY PageIs
    <2> QED BY <1>0, <1>5, <1>6, <2>1, PageTyped
  <1>8. /\ after.models = models /\ after.currentPath = js.currentPath /\ after.diffMode = js.diffMode
        /\ after.original = js.original /\ after.drawn = js.drawn /\ after.redraws = redraws
        /\ after.pendingSaves = saves /\ after.out = out
    BY <1>6 DEF Page
  <1>9. ShowsDiff(after) = ShowsDiff(js)
    BY <1>8 DEF ShowsDiff
  <1>10. PageFits(alive, after)
    <2>1. CASE ShowsDiff(js)
      <3>1. /\ js.original \in Original /\ js.currentPath \in DOMAIN js.models \cup {None}
            /\ js.currentPath = js.original.path \/ (~alive /\ js.currentPath = None)
            /\ js.drawn # NoDiff => js.drawn.path = js.original.path
            /\ js.currentPath # None /\ ~js.redraws => js.drawn = Drawing(js)
        BY <2>1 DEF PageFits
      <3>2. ASSUME js.currentPath # None, ~redraws PROVE js.drawn = Drawing(after)
        <4>1. models[js.currentPath].value = js.models[js.currentPath].value
          BY <1>0, <2>1, <3>1, <3>2
        <4> QED BY <1>0, <1>8, <3>1, <3>2, <4>1 DEF Drawing
      <3>3. js.diffMode # "pierre-group" /\ js.diffMode # None
        BY <2>1 DEF ShowsDiff, None
      <3> QED BY <1>0, <1>8, <1>9, <2>1, <3>1, <3>2, <3>3 DEF PageFits
    <2>2. CASE ~ShowsDiff(js)
      <3>1. js.original = NoDiff /\ js.currentPath \in DOMAIN js.models \cup {None} /\ ~redraws
            /\ (js.diffMode = "pierre-group" => js.drawn \in GroupDrawn) /\ (js.diffMode = None => js.drawn = NoDiff)
        BY <1>0, <2>2 DEF PageFits
      <3> QED BY <1>0, <1>8, <1>9, <2>2, <3>1 DEF PageFits
    <2> QED BY <2>1, <2>2
  <1>11. Told(js, js)
    BY TellNothing
  <1>12. Told(js, after)
    <2>1. after.out = Append(js.out, DirtyMessage(path, IsDirty(models[path])))
      BY <1>2, <1>4, <1>8
    <2>2. \A p \in DOMAIN after.models : p # path => p \in DOMAIN js.models /\ after.models[p] = js.models[p]
      BY <1>0, <1>8
    <2>3. IsDirty(after.models[path]) => IsDirty(models[path])
      BY <1>8
    <2> QED BY <1>1, <1>7, <1>11, <2>1, <2>2, <2>3, TellMore
  <1>13. View(fresh, after, due) = View(fresh, js, due)
    BY <1>0, <1>8, <1>9 DEF View
  <1> QED BY <1>5, <1>7, <1>8, <1>10, <1>12, <1>13 DEF Becomes

LEMMA TakesMarkSaved ==
  ASSUME NEW alive \in BOOLEAN, NEW fresh \in BOOLEAN, NEW due \in Seq(Asked), NEW js \in PageState,
         PageFits(alive, js), js.out = <<>>, NEW m \in ToPage, m.type = "markSaved"
  PROVE  Taken(alive, fresh, due, js, m, MarkSaved(js, m.path))
  <1>1. PICK path : path = m.path
    OBVIOUS
  <1>2. Sees(fresh, View(fresh, js, due), m) = View(fresh, js, due)
    BY DEF Sees
  <1>3. CASE path \notin DOMAIN js.models
    <2>1. MarkSaved(js, path) = js
      BY <1>3 DEF MarkSaved
    <2> QED BY <1>1, <1>2, <2>1, TakesNothing
  <1>4. CASE path \in DOMAIN js.models
    <2>1. PICK models \in Models, saves \in Saves :
           /\ DOMAIN models = DOMAIN js.models /\ models[path].value = js.models[path].value
           /\ models[path].cleanValue = IF path \in DOMAIN js.pendingSaves THEN js.pendingSaves[path].content
                                        ELSE js.models[path].value
           /\ \A p \in DOMAIN js.models : p # path => models[p] = js.models[p]
           /\ DOMAIN saves \subseteq DOMAIN js.pendingSaves
           /\ path \in DOMAIN js.pendingSaves => CountOf(saves, path) = CountOf(js.pendingSaves, path) - 1
           /\ path \in DOMAIN saves => saves[path].content = js.pendingSaves[path].content
           /\ \A p \in DOMAIN js.pendingSaves : p # path => p \in DOMAIN saves /\ saves[p] = js.pendingSaves[p]
           /\ MarkSaved(js, path) =
                Page(models, js.currentPath, js.diffMode, js.original, js.drawn, js.redraws, saves,
                     Append(js.out, DirtyMessage(path, IsDirty(models[path]))))
      BY <1>4, MarkSavedIs
    <2>2. PICK after : after = MarkSaved(js, path)
      OBVIOUS
    <2>3. DOMAIN saves \subseteq DOMAIN js.models /\ (js.redraws => ShowsDiff(js)) /\ js.redraws \in BOOLEAN
      BY <2>1, PageIs DEF PageFits
    <2>4. PICK redraws : redraws = js.redraws
      OBVIOUS
    <2>5. TextChanged(js, path, models, redraws, saves, after)
      BY <1>4, <2>1, <2>2, <2>3, <2>4 DEF TextChanged
    <2>6. Becomes(alive, fresh, due, js, after, View(fresh, js, due))
      BY <2>5, TextChanges
    <2> QED BY <1>1, <1>2, <2>2, <2>6 DEF Taken
  <1> QED BY <1>3, <1>4

LEMMA SetsValue ==
  ASSUME NEW alive \in BOOLEAN, NEW fresh \in BOOLEAN, NEW due \in Seq(Asked), NEW js \in PageState,
         PageFits(alive, js), js.out = <<>>, NEW path \in DOMAIN js.models, NEW text \in Texts
  PROVE  Becomes(alive, fresh, due, js, SetValue(js, path, text), View(fresh, js, due))
  <1>1. PICK models \in Models, redraws \in BOOLEAN :
           /\ DOMAIN models = DOMAIN js.models
           /\ models[path].value = text /\ models[path].cleanValue = js.models[path].cleanValue
           /\ \A p \in DOMAIN js.models : p # path => models[p] = js.models[p]
           /\ redraws = (js.redraws \/ (ShowsDiff(js) /\ js.currentPath = path))
           /\ SetValue(js, path, text) =
                Page(models, js.currentPath, js.diffMode, js.original, js.drawn, redraws,
                     js.pendingSaves, Append(js.out, DirtyMessage(path, IsDirty(models[path]))))
    <2>1. SetPage(js, path, text, SetValue(js, path, text))
      BY SetValueIs
    <2> QED BY <2>1 DEF SetPage
  <1>2. PICK after : after = SetValue(js, path, text)
    OBVIOUS
  <1>3. /\ DOMAIN js.pendingSaves \subseteq DOMAIN js.models /\ js.pendingSaves \in Saves
        /\ js.redraws => redraws
        /\ redraws => ShowsDiff(js)
        /\ js.currentPath = path /\ models[path].value # js.models[path].value /\ ShowsDiff(js) => redraws
    BY <1>1, PageIs DEF PageFits
  <1>4. PICK saves : saves = js.pendingSaves
    OBVIOUS
  <1>5. TextChanged(js, path, models, redraws, saves, after)
    BY <1>1, <1>2, <1>3, <1>4 DEF TextChanged
  <1> QED BY <1>2, <1>5, TextChanges

\* Only what is drawn changed.
LEMMA DrawsOnly ==
  ASSUME NEW alive \in BOOLEAN, NEW fresh \in BOOLEAN, NEW due \in Seq(Asked), NEW js \in PageState,
         PageFits(alive, js), js.out = <<>>, NEW after \in PageState, PageFits(alive, after),
         after.models = js.models, after.out = js.out
  PROVE  Becomes(alive, fresh, due, js, after, View(fresh, after, due))
  <1>1. Told(js, after)
    BY TellNothing, TellNoMore
  <1>2. Answers(fresh, due, after.out, due)
    BY NothingAnswers
  <1> QED BY <1>1, <1>2 DEF Becomes

LEMMA TakesEnterDiff ==
  ASSUME NEW alive \in BOOLEAN, NEW fresh \in BOOLEAN, NEW due \in Seq(Asked), NEW js \in PageState,
         PageFits(alive, js), js.out = <<>>, NEW m \in ToPage, m.type = "enterDiff",
         Timely(alive, fresh, View(fresh, js, due), m)
  PROVE  /\ Taken(alive, fresh, due, js, m, EnterPierreDiff(js, m))
         /\ Taken(alive, fresh, due, js, m, EnterMonacoDiff(js, m))
  <1>1. PICK v : v = View(fresh, js, due)
    OBVIOUS
  <1>2. v.models = DOMAIN js.models /\ v.path = js.currentPath /\ v.due = due
    BY <1>1, ViewOf
  <1>3. m.path \in Files /\ m.original \in Original /\ m.original.path = m.path
    BY PageMessage
  <1>4. CASE m.path \notin DOMAIN js.models
    <2>1. EnterPierreDiff(js, m) = js /\ EnterMonacoDiff(js, m) = js
      BY <1>4 DEF EnterPierreDiff, EnterMonacoDiff
    <2>2. Sees(fresh, v, m) = v
      BY <1>2, <1>4 DEF Sees
    <2> QED BY <1>1, <2>1, <2>2, TakesNothing
  <1>5. CASE m.path \in DOMAIN js.models
    <2>1. js.currentPath = m.path
      BY <1>1, <1>2, <1>5 DEF Timely
    <2>2. Sees(fresh, v, m) = FileDiffIn(v, m.original)
      BY <1>2, <1>5 DEF Sees
    <2>3. FileDiffIn(v, m.original) = Shown(DOMAIN js.models, js.currentPath, "file", m.original, NoDiff, due)
      BY <1>2 DEF FileDiffIn
    <2>4. DOMAIN js.pendingSaves \subseteq DOMAIN js.models
      BY DEF PageFits
    <2>5. js.models \in Models /\ js.models[m.path].value \in Texts
      BY <1>5, PageIs, EntryIs
    <2>6. Taken(alive, fresh, due, js, m, EnterPierreDiff(js, m))
      <3>1. PICK drawn : drawn = [path |-> js.currentPath, original |-> m.original, text |-> js.models[js.currentPath].value]
        OBVIOUS
      <3>2. drawn \in FileDrawn /\ drawn.path = m.path
        BY <1>3, <2>1, <2>5, <3>1 DEF FileDrawn
      <3>3. PICK after : after = EnterPierreDiff(js, m)
        OBVIOUS
      <3>4. after = Page(js.models, js.currentPath, "pierre", m.original, drawn, FALSE, js.pendingSaves, js.out)
        BY <1>5, <2>1, <3>1, <3>3, EnterPierreDiffIs
      <3>5. after \in PageState
        BY <1>3, <3>2, <3>4, PageIs, PageTyped
      <3>6. /\ after.models = js.models /\ after.currentPath = js.currentPath /\ after.diffMode = "pierre"
            /\ after.original = m.original /\ after.drawn = drawn /\ ~after.redraws
            /\ after.pendingSaves = js.pendingSaves /\ after.out = js.out
        BY <3>4 DEF Page
      <3>7. ShowsDiff(after) /\ after.diffMode # "pierre-group" /\ after.diffMode # None
        BY <3>6 DEF ShowsDiff, None
      <3>8. drawn = Drawing(after)
        BY <3>1, <3>6 DEF Drawing
      <3>9. PageFits(alive, after)
        BY <1>3, <1>5, <2>1, <2>4, <3>2, <3>6, <3>7, <3>8 DEF PageFits
      <3>10. View(fresh, after, due) = Shown(DOMAIN js.models, js.currentPath, "file", m.original, NoDiff, due)
        BY <3>6, <3>7 DEF View
      <3>11. Becomes(alive, fresh, due, js, after, View(fresh, after, due))
        BY <3>5, <3>6, <3>9, DrawsOnly
      <3> QED BY <1>1, <2>2, <2>3, <3>3, <3>10, <3>11 DEF Taken
    <2>7. Taken(alive, fresh, due, js, m, EnterMonacoDiff(js, m))
      <3>3. PICK after : after = EnterMonacoDiff(js, m)
        OBVIOUS
      <3>4. after = Page(js.models, js.currentPath, "monaco", m.original, NoDiff, TRUE, js.pendingSaves, js.out)
        BY <1>5, <3>3, EnterMonacoDiffIs
      <3>5. after \in PageState
        BY <1>3, <3>4, PageIs, PageTyped
      <3>6. /\ after.models = js.models /\ after.currentPath = js.currentPath /\ after.diffMode = "monaco"
            /\ after.original = m.original /\ after.drawn = NoDiff /\ after.redraws
            /\ after.pendingSaves = js.pendingSaves /\ after.out = js.out
        BY <3>4 DEF Page
      <3>7. ShowsDiff(after) /\ after.diffMode # "pierre-group" /\ after.diffMode # None
        BY <3>6 DEF ShowsDiff, None
      <3>9. PageFits(alive, after)
        BY <1>3, <1>5, <2>1, <2>4, <3>6, <3>7 DEF PageFits
      <3>10. View(fresh, after, due) = Shown(DOMAIN js.models, js.currentPath, "file", m.original, NoDiff, due)
        BY <3>6, <3>7 DEF View
      <3>11. Becomes(alive, fresh, due, js, after, View(fresh, after, due))
        BY <3>5, <3>6, <3>9, DrawsOnly
      <3> QED BY <1>1, <2>2, <2>3, <3>3, <3>10, <3>11 DEF Taken
    <2> QED BY <2>6, <2>7
  <1> QED BY <1>4, <1>5

LEMMA ExitsDiff ==
  ASSUME NEW alive \in BOOLEAN, NEW fresh \in BOOLEAN, NEW due \in Seq(Asked), NEW js \in PageState,
         PageFits(alive, js), js.out = <<>>
  PROVE  Becomes(alive, fresh, due, js, ExitDiff(js), NoDiffIn(View(fresh, js, due)))
  <1>1. PICK after : after = ExitDiff(js)
    OBVIOUS
  <1>2. after = Page(js.models, js.currentPath, None, NoDiff, NoDiff, FALSE, js.pendingSaves, js.out)
    BY <1>1, ExitDiffIs
  <1>3. after \in PageState
    BY <1>2, PageIs, PageTyped
  <1>4. /\ after.models = js.models /\ after.currentPath = js.currentPath /\ after.diffMode = None
        /\ after.original = NoDiff /\ after.drawn = NoDiff /\ ~after.redraws
        /\ after.pendingSaves = js.pendingSaves /\ after.out = js.out
    BY <1>2 DEF Page
  <1>5. ~ShowsDiff(after) /\ after.diffMode # "pierre-group"
    BY <1>4 DEF ShowsDiff, None
  <1>6. PageFits(alive, after)
    BY <1>4, <1>5 DEF PageFits
  <1>7. View(fresh, after, due) = NoDiffIn(View(fresh, js, due))
    <2>1. View(fresh, after, due) = Shown(DOMAIN js.models, js.currentPath, "none", NoDiff, NoDiff, due)
      BY <1>4, <1>5 DEF View
    <2>2. PICK v : v = View(fresh, js, due)
      OBVIOUS
    <2>3. v.models = DOMAIN js.models /\ v.path = js.currentPath /\ v.due = due
      BY <2>2, ViewOf
    <2> QED BY <2>1, <2>2, <2>3 DEF NoDiffIn
  <1>8. Becomes(alive, fresh, due, js, after, View(fresh, after, due))
    BY <1>3, <1>4, <1>6, DrawsOnly
  <1> QED BY <1>1, <1>7, <1>8

LEMMA TakesExit ==
  ASSUME NEW alive \in BOOLEAN, NEW fresh \in BOOLEAN, NEW due \in Seq(Asked), NEW js \in PageState,
         PageFits(alive, js), js.out = <<>>, NEW m \in ToPage, m.type = "exitDiff" \/ (m.type = "enterDiffGroup" /\ ~fresh)
  PROVE  Taken(alive, fresh, due, js, m, ExitDiff(js))
  <1>1. PICK v : v = View(fresh, js, due)
    OBVIOUS
  <1>2. Sees(fresh, v, m) = NoDiffIn(v)
    BY DEF Sees, GroupIn
  <1> QED BY <1>1, <1>2, ExitsDiff DEF Taken

LEMMA TakesGroup ==
  ASSUME NEW alive \in BOOLEAN, NEW fresh \in BOOLEAN, NEW due \in Seq(Asked), NEW js \in PageState,
         PageFits(alive, js), js.out = <<>>, NEW m \in ToPage, m.type = "enterDiffGroup"
  PROVE  Taken(alive, fresh, due, js, m, EnterPierreDiffGroup(js, m))
  <1>1. PICK v : v = View(fresh, js, due)
    OBVIOUS
  <1>2. v.models = DOMAIN js.models /\ v.path = js.currentPath /\ v.due = due
    BY <1>1, ViewOf
  <1>3. PICK drawn : drawn = [path |-> m.path, loading |-> m.loading]
    OBVIOUS
  <1>4. drawn \in GroupDrawn
    BY <1>3, PageMessage DEF GroupDrawn
  <1>5. PICK after : after = EnterPierreDiffGroup(js, m)
    OBVIOUS
  <1>6. after = Page(js.models, js.currentPath, "pierre-group", NoDiff, drawn, FALSE, js.pendingSaves, js.out)
    BY <1>3, <1>5, EnterGroupIs
  <1>7. after \in PageState
    BY <1>4, <1>6, PageIs, PageTyped
  <1>8. /\ after.models = js.models /\ after.currentPath = js.currentPath /\ after.diffMode = "pierre-group"
        /\ after.original = NoDiff /\ after.drawn = drawn /\ ~after.redraws
        /\ after.pendingSaves = js.pendingSaves /\ after.out = js.out
    BY <1>6 DEF Page
  <1>9. ~ShowsDiff(after) /\ after.diffMode # None
    BY <1>8 DEF ShowsDiff, None
  <1>10. PageFits(alive, after)
    BY <1>4, <1>8, <1>9 DEF PageFits
  <1>11. View(fresh, after, due) =
           IF fresh THEN Shown(DOMAIN js.models, js.currentPath, "group", NoDiff, drawn, due)
           ELSE Shown(DOMAIN js.models, js.currentPath, "none", NoDiff, NoDiff, due)
    BY <1>8, <1>9 DEF View
  <1>12. Sees(fresh, v, m) = GroupIn(fresh, v, m)
    BY DEF Sees
  <1>13. GroupIn(fresh, v, m) = View(fresh, after, due)
    BY <1>2, <1>3, <1>11 DEF GroupIn, NoDiffIn
  <1>14. Becomes(alive, fresh, due, js, after, View(fresh, after, due))
    BY <1>7, <1>8, <1>10, DrawsOnly
  <1> QED BY <1>1, <1>5, <1>12, <1>13, <1>14 DEF Taken

LEMMA Redraws ==
  ASSUME NEW alive \in BOOLEAN, NEW fresh \in BOOLEAN, NEW due \in Seq(Asked), NEW js \in PageState,
         PageFits(alive, js), js.out = <<>>, js.redraws
  PROVE  Becomes(alive, fresh, due, js, RenderDiff([js EXCEPT !.redraws = FALSE]), View(fresh, js, due))
  <1>1. PICK drawn : drawn = IF js.currentPath \in DOMAIN js.models THEN Drawing(js) ELSE js.drawn
    OBVIOUS
  <1>2. PICK after : after = RenderDiff([js EXCEPT !.redraws = FALSE])
    OBVIOUS
  <1>3. after = Page(js.models, js.currentPath, js.diffMode, js.original, drawn, FALSE, js.pendingSaves, js.out)
    BY <1>1, <1>2, RedrawIs
  <1>4. /\ after.models = js.models /\ after.currentPath = js.currentPath /\ after.diffMode = js.diffMode
        /\ after.original = js.original /\ after.drawn = drawn /\ ~after.redraws
        /\ after.pendingSaves = js.pendingSaves /\ after.out = js.out
    BY <1>3 DEF Page
  <1>5. ShowsDiff(js) /\ ShowsDiff(after)
    BY <1>4 DEF PageFits, ShowsDiff
  <1>6. js.diffMode # "pierre-group" /\ js.diffMode # None
    BY <1>5 DEF ShowsDiff, None
  <1>7. /\ js.original \in Original /\ js.currentPath \in DOMAIN js.models \cup {None}
        /\ js.currentPath = js.original.path \/ (~alive /\ js.currentPath = None)
        /\ js.drawn # NoDiff => js.drawn.path = js.original.path
        /\ DOMAIN js.pendingSaves \subseteq DOMAIN js.models
    BY <1>5 DEF PageFits
  <1>8. drawn \in {NoDiff} \cup FileDrawn \cup GroupDrawn /\ (drawn # NoDiff => drawn.path = js.original.path)
        /\ (js.currentPath # None => drawn = Drawing(js))
    <2>1. CASE js.currentPath \in DOMAIN js.models
      <3>1. js.models[js.currentPath].value \in Texts /\ js.currentPath \in Files
        BY <2>1, PageIs, EntryIs
      <3>2. drawn = [path |-> js.currentPath, original |-> js.original, text |-> js.models[js.currentPath].value]
        BY <1>1, <2>1 DEF Drawing
      <3>3. drawn \in FileDrawn /\ drawn.path = js.currentPath
        BY <1>7, <3>1, <3>2 DEF FileDrawn
      <3>4. js.currentPath = js.original.path
        BY <1>7, <3>1, NamesApart
      <3> QED BY <1>1, <2>1, <3>3, <3>4
    <2>2. CASE js.currentPath \notin DOMAIN js.models
      BY <1>1, <1>7, <2>2, PageIs
    <2> QED BY <2>1, <2>2
  <1>9. after \in PageState
    BY <1>3, <1>8, PageIs, PageTyped, ZenonT(40)
  <1>10. Drawing(after) = Drawing(js)
    BY <1>4 DEF Drawing
  <1>11. PageFits(alive, after)
    BY <1>4, <1>5, <1>6, <1>7, <1>8, <1>10 DEF PageFits
  <1>12. View(fresh, after, due) = View(fresh, js, due)
    BY <1>4, <1>5, <1>6 DEF View
  <1>13. Becomes(alive, fresh, due, js, after, View(fresh, after, due))
    BY <1>4, <1>9, <1>11, DrawsOnly
  <1> QED BY <1>2, <1>12, <1>13
-----------------------------------------------------------------------------
(* Folds                                                                   *)

\* The least number of a set.
LEMMA LeastNumber ==
  ASSUME NEW T \in SUBSET Nat, T # {}
  PROVE  \E n \in T : \A m \in T : n <= m
  <1>1. PICK n \in T : \A m \in T : ~(<<m, n>> \in OpToRel(<, Nat))
    BY NatLessThanWellFounded, WFMin
  <1>2. \A m \in T : ~(m < n)
    BY <1>1 DEF OpToRel
  <1> QED BY <1>2

\* Counting up to n.
LEMMA CountsTo ==
  ASSUME NEW n \in Nat, NEW T, 0 \in T, \A k \in 0..(n - 1) : k \in T => k + 1 \in T
  PROVE  n \in T
  <1> SUFFICES ASSUME n \notin T PROVE FALSE
    OBVIOUS
  <1> DEFINE U == {k \in 0..n : k \notin T}
  <1>1. U \in SUBSET Nat /\ U # {}
    OBVIOUS
  <1>2. PICK k \in U : \A m \in U : k <= m
    <2> HIDE DEF U
    <2> QED BY <1>1, LeastNumber
  <1>3. k \in 1..n /\ k - 1 \notin U
    BY <1>2
  <1>4. k - 1 \in 0..(n - 1) /\ k - 1 \in T
    BY <1>3
  <1>5. (k - 1) + 1 \in T
    BY <1>4
  <1> QED BY <1>2, <1>3, <1>5

\* choose picks an element of each part of a finite set.
Picks(choose, set) == \A s \in SUBSET set : s # {} => choose[s] \in s

\* Element by element one gets to the whole set.
LEMMA OneByOne ==
  ASSUME NEW set, IsFiniteSet(set), NEW choose, Picks(choose, set),
         NEW U, {} \in U, \A s \in SUBSET set : s # {} /\ s \ {choose[s]} \in U => s \in U
  PROVE  set \in U
  <1> DEFINE N == {k \in 0..Cardinality(set) : \A s \in SUBSET set : Cardinality(s) = k => s \in U}
  <1>0. Cardinality(set) \in Nat
    BY FS_CardinalityType
  <1>1. 0 \in N
    <2>1. \A s \in SUBSET set : Cardinality(s) = 0 => s = {}
      BY FS_EmptySet, FS_Subset
    <2>2. \A s \in SUBSET set : Cardinality(s) = 0 => s \in U
      BY <2>1
    <2>3. 0 \in 0..Cardinality(set)
      BY <1>0
    <2> QED BY <2>2, <2>3
  <1>2. ASSUME NEW k \in 0..(Cardinality(set) - 1), k \in N
        PROVE  k + 1 \in N
    <2>1. ASSUME NEW s \in SUBSET set, Cardinality(s) = k + 1
          PROVE  s \in U
      <3>1. IsFiniteSet(s) /\ s # {}
        <4>1. IsFiniteSet(s)
          BY FS_Subset
        <4>2. Cardinality({}) = 0 /\ k + 1 # 0
          BY FS_EmptySet
        <4> QED BY <2>1, <4>1, <4>2
      <3>2. PICK x : x = choose[s]
        OBVIOUS
      <3>3. x \in s
        BY <3>1, <3>2 DEF Picks
      <3>4. Cardinality(s \ {x}) = k
        <4>1. Cardinality(s \ {x}) = Cardinality(s) - 1
          BY <3>1, <3>3, FS_RemoveElement
        <4> QED BY <2>1, <4>1
      <3>5. s \ {x} \in U
        BY <1>2, <3>4
      <3> QED BY <3>1, <3>2, <3>5
    <2>2. k + 1 \in 0..Cardinality(set)
      BY <1>0
    <2> QED BY <2>1, <2>2
  <1>3. Cardinality(set) \in N
    <2> HIDE DEF N
    <2> QED BY <1>0, <1>1, <1>2, CountsTo
  <1> QED BY <1>3

\* h is the fold of step over the elements of a set.
FoldOf(h, sets, base, step, choose) ==
    \A s \in sets : h[s] = IF s = {} THEN base ELSE step[h[s \ {choose[s]}], choose[s]]

LEMMA FoldExists ==
  ASSUME NEW set, IsFiniteSet(set), NEW choose, Picks(choose, set),
         NEW T, NEW base \in T, NEW step \in [T \X set -> T]
  PROVE  \E h \in [SUBSET set -> T] : FoldOf(h, SUBSET set, base, step, choose)
  <1> DEFINE Upto(k) == {s \in SUBSET set : Cardinality(s) <= k}
             N == {k \in 0..Cardinality(set) : \E h \in [Upto(k) -> T] : FoldOf(h, Upto(k), base, step, choose)}
  <1>0. Cardinality(set) \in Nat /\ \A s \in SUBSET set : IsFiniteSet(s) /\ Cardinality(s) \in Nat
    BY FS_CardinalityType, FS_Subset
  <1>1. 0 \in N
    <2> DEFINE h == [s \in Upto(0) |-> base]
    <2>1. h \in [Upto(0) -> T]
      OBVIOUS
    <2>2. \A s \in Upto(0) : s = {}
      BY <1>0, FS_EmptySet
    <2>3. FoldOf(h, Upto(0), base, step, choose)
      BY <2>2 DEF FoldOf
    <2>4. 0 \in 0..Cardinality(set)
      BY <1>0
    <2> HIDE DEF h
    <2> QED BY <2>1, <2>3, <2>4
  <1>2. ASSUME NEW k \in 0..(Cardinality(set) - 1), k \in N
        PROVE  k + 1 \in N
    <2>1. PICK h \in [Upto(k) -> T] : FoldOf(h, Upto(k), base, step, choose)
      BY <1>2
    <2> DEFINE g == [s \in Upto(k + 1) |->
                       IF Cardinality(s) = k + 1 THEN step[h[s \ {choose[s]}], choose[s]] ELSE h[s]]
    <2>0. k \in Nat /\ k + 1 \in 0..Cardinality(set)
      BY <1>0
    <2>2. ASSUME NEW s \in Upto(k + 1), s # {}
          PROVE  /\ s \ {choose[s]} \in Upto(k) /\ s \ {choose[s]} \in Upto(k + 1) /\ choose[s] \in set
                 /\ Cardinality(s \ {choose[s]}) # k + 1
                 /\ Cardinality(s) # k + 1 => s \in Upto(k)
      <3>1. PICK x : x = choose[s]
        OBVIOUS
      <3>2. x \in s /\ s \in SUBSET set
        BY <2>2, <3>1 DEF Picks
      <3>3. Cardinality(s \ {x}) = Cardinality(s) - 1
        BY <1>0, <3>2, FS_RemoveElement
      <3>4. Cardinality(s) \in Nat /\ Cardinality(s) <= k + 1
        BY <1>0, <3>2
      <3>5. Cardinality(s \ {x}) <= k
        BY <2>0, <3>3, <3>4
      <3> QED BY <2>0, <3>1, <3>2, <3>3, <3>4, <3>5
    <2>3. ASSUME NEW s \in Upto(k + 1)
          PROVE  g[s] \in T /\ (s = {} => g[s] = base) /\ (s # {} => g[s] = step[g[s \ {choose[s]}], choose[s]])
      <3>1. CASE s = {}
        <4>1. Cardinality(s) = 0 /\ Cardinality(s) # k + 1 /\ s \in Upto(k)
          BY <2>0, <3>1, FS_EmptySet
        <4>2. g[s] = h[s]
          BY <4>1
        <4>3. h[s] = base
          BY <2>1, <3>1, <4>1 DEF FoldOf
        <4> QED BY <3>1, <4>2, <4>3
      <3>2. CASE s # {}
        <4>1. g[s \ {choose[s]}] = h[s \ {choose[s]}] /\ h[s \ {choose[s]}] \in T
          BY <2>2, <3>2
        <4>2. <<h[s \ {choose[s]}], choose[s]>> \in T \X set
          BY <2>2, <3>2, <4>1
        <4>3. CASE Cardinality(s) = k + 1
          BY <3>2, <4>1, <4>2, <4>3
        <4>4. CASE Cardinality(s) # k + 1
          <5>1. s \in Upto(k) /\ g[s] = h[s]
            BY <2>2, <3>2, <4>4
          <5>2. h[s] = step[h[s \ {choose[s]}], choose[s]]
            BY <2>1, <3>2, <5>1 DEF FoldOf
          <5> QED BY <3>2, <4>1, <4>2, <5>1, <5>2
        <4> QED BY <4>3, <4>4
      <3> QED BY <3>1, <3>2
    <2>4. g \in [Upto(k + 1) -> T]
      BY <2>3
    <2>5. FoldOf(g, Upto(k + 1), base, step, choose)
      <3> HIDE DEF g
      <3> QED BY <2>3 DEF FoldOf
    <2> HIDE DEF g
    <2> QED BY <2>0, <2>4, <2>5
  <1>3. Cardinality(set) \in N
    <2> HIDE DEF N
    <2> QED BY <1>0, <1>1, <1>2, CountsTo
  <1>4. Upto(Cardinality(set)) = SUBSET set
    BY FS_Subset
  <1> QED BY <1>3, <1>4
\* What every save keeps so, saving all keeps so.
LEMMA SaveAllStays ==
  ASSUME NEW js \in PageState, NEW skipPaths, NEW T, js \in T,
         \A acc \in T : \A p \in DOMAIN js.models : PostSave(acc, p) \in T
  PROVE  SaveAllDirty(js, skipPaths) \in T
  <1>1. PICK saved : saved = {p \in DOMAIN js.models \ skipPaths : IsDirty(js.models[p])}
    OBVIOUS
  <1>2. saved \subseteq DOMAIN js.models /\ IsFiniteSet(saved)
    <2>1. DOMAIN js.models \subseteq Files
      BY PageIs, MapIs DEF Models
    <2>2. saved \subseteq Files
      BY <1>1, <2>1
    <2> QED BY <1>1, <2>2, FilesFinite, FS_Subset
  <1> DEFINE choose == [s \in SUBSET saved |-> CHOOSE x \in s : TRUE]
             step == [x \in T \X saved |-> PostSave(x[1], x[2])]
  <1>3. \A s \in SUBSET saved : choose[s] = CHOOSE x \in s : TRUE
    OBVIOUS
  <1>4. Picks(choose, saved)
    BY DEF Picks
  <1>5. step \in [T \X saved -> T]
    BY <1>2
  <1>6. \A a \in T, x \in saved : step[a, x] = PostSave(a, x)
    OBVIOUS
  <1> HIDE DEF choose, step
  <1>7. PICK g \in [SUBSET saved -> T] : FoldOf(g, SUBSET saved, js, step, choose)
    BY <1>2, <1>4, <1>5, FoldExists
  <1>8. ASSUME NEW s \in SUBSET saved
        PROVE  g[s] = IF s = {} THEN js ELSE PostSave(g[s \ {CHOOSE x \in s : TRUE}], CHOOSE x \in s : TRUE)
    <2>1. CASE s = {}
      BY <1>7, <2>1 DEF FoldOf
    <2>2. CASE s # {}
      <3>1. PICK x : x = choose[s]
        OBVIOUS
      <3>2. g[s] = step[g[s \ {x}], x]
        BY <1>7, <2>2, <3>1 DEF FoldOf
      <3>3. x \in saved /\ g[s \ {x}] \in T
        BY <1>4, <2>2, <3>1 DEF Picks
      <3>4. g[s] = PostSave(g[s \ {x}], x)
        BY <1>6, <3>2, <3>3
      <3> QED BY <1>3, <2>2, <3>1, <3>4
    <2> QED BY <2>1, <2>2
  <1>9. PICK h : h = CHOOSE f : f = [s \in SUBSET saved |->
             IF s = {} THEN js ELSE PostSave(f[s \ {CHOOSE x \in s : TRUE}], CHOOSE x \in s : TRUE)]
    OBVIOUS
  <1>10. SaveAllDirty(js, skipPaths) = h[saved]
    BY <1>1, <1>9 DEF SaveAllDirty, FoldSet, MapThenFoldSet
  <1>11. h = [s \in SUBSET saved |->
             IF s = {} THEN js ELSE PostSave(h[s \ {CHOOSE x \in s : TRUE}], CHOOSE x \in s : TRUE)]
    <2>1. g = [s \in SUBSET saved |->
             IF s = {} THEN js ELSE PostSave(g[s \ {CHOOSE x \in s : TRUE}], CHOOSE x \in s : TRUE)]
      BY <1>8
    <2> QED BY <2>1, <1>9
  <1> DEFINE U == {s \in SUBSET saved : h[s] \in T}
  <1>12. {} \in U
    BY <1>11
  <1>13. ASSUME NEW s \in SUBSET saved, s # {}, s \ {choose[s]} \in U PROVE s \in U
    <2>1. PICK x : x = choose[s]
      OBVIOUS
    <2>2. x \in saved /\ h[s \ {x}] \in T
      BY <1>4, <1>13, <2>1 DEF Picks
    <2>3. x = CHOOSE y \in s : TRUE
      BY <1>3, <2>1
    <2>4. h[s] = PostSave(h[s \ {x}], x)
      BY <1>11, <1>13, <2>3
    <2>5. h[s] \in T
      BY <1>2, <2>2, <2>4
    <2> QED BY <2>5
  <1>14. saved \in U
    <2> HIDE DEF U
    <2> QED BY <1>2, <1>4, <1>12, <1>13, OneByOne
  <1> QED BY <1>10, <1>14

\* Saving changes nothing else of a page, and says nothing but what is to be saved.
SavesOnly(js, acc) ==
    /\ acc \in PageState
    /\ acc.models = js.models /\ acc.currentPath = js.currentPath /\ acc.diffMode = js.diffMode
    /\ acc.original = js.original /\ acc.drawn = js.drawn /\ acc.redraws = js.redraws
    /\ DOMAIN acc.pendingSaves \subseteq DOMAIN js.models
    /\ NoneIn(acc.out, {m \in ToSwift : m.type # "save"})

LEMMA SavesOneMore ==
  ASSUME NEW js \in PageState, NEW acc, SavesOnly(js, acc), NEW path \in DOMAIN js.models
  PROVE  SavesOnly(js, PostSave(acc, path))
  <1>1. acc \in PageState /\ acc.models = js.models /\ DOMAIN acc.pendingSaves \subseteq DOMAIN js.models
        /\ NoneIn(acc.out, {m \in ToSwift : m.type # "save"})
    BY DEF SavesOnly
  <1>2. PICK saves \in Saves :
          /\ DOMAIN saves = DOMAIN acc.pendingSaves \cup {path}
          /\ PostSave(acc, path) =
               Page(acc.models, acc.currentPath, acc.diffMode, acc.original, acc.drawn, acc.redraws, saves,
                    Append(acc.out, SaveMessage(path, acc.models[path].value)))
    BY <1>1, PostSaveIs
  <1>3. path \in Files /\ acc.models[path].value \in Texts /\ acc.out \in Seq(ToSwift)
    BY <1>1, PageIs, EntryIs
  <1>4. PICK m : m = SaveMessage(path, acc.models[path].value)
    OBVIOUS
  <1>5. m \in ToSwift /\ m.type = "save"
    BY <1>3, <1>4, MessagesTyped DEF SaveMessage
  <1>6. PICK out : out = Append(acc.out, m)
    OBVIOUS
  <1>7. PICK others : others = {x \in ToSwift : x.type # "save"}
    OBVIOUS
  <1>8. out \in Seq(ToSwift) /\ NoneIn(out, others)
    <2>1. m \notin others
      BY <1>5, <1>7
    <2>2. PICK old : old = acc.out
      OBVIOUS
    <2>3. NoneIn(old, others) /\ old \in Seq(ToSwift) /\ out = Append(old, m)
      BY <1>1, <1>3, <1>6, <1>7, <2>2
    <2>4. NoneIn(Append(old, m), others)
      BY <1>5, <2>1, <2>3, LastInMore
    <2> QED BY <1>5, <2>3, <2>4, AppendProperties
  <1>9. PICK after : after = PostSave(acc, path)
    OBVIOUS
  <1>10. after = Page(acc.models, acc.currentPath, acc.diffMode, acc.original, acc.drawn, acc.redraws, saves, out)
    BY <1>2, <1>4, <1>6, <1>9
  <1>11. after \in PageState
    BY <1>1, <1>8, <1>10, PageIs, PageTyped
  <1>12. /\ after.models = acc.models /\ after.currentPath = acc.currentPath /\ after.diffMode = acc.diffMode
         /\ after.original = acc.original /\ after.drawn = acc.drawn /\ after.redraws = acc.redraws
         /\ after.pendingSaves = saves /\ after.out = out
    BY <1>10 DEF Page
  <1> QED BY <1>1, <1>2, <1>7, <1>8, <1>9, <1>11, <1>12 DEF SavesOnly

LEMMA SavesStill ==
  ASSUME NEW js \in PageState, js.out = <<>>, NEW alive, PageFits(alive, js)
  PROVE  SavesOnly(js, js)
  <1>1. DOMAIN js.pendingSaves \subseteq DOMAIN js.models
    BY DEF PageFits
  <1>2. NoneIn(js.out, {m \in ToSwift : m.type # "save"})
    BY NoneInNothing
  <1> QED BY <1>1, <1>2 DEF SavesOnly

\* Requests are answered by selections only.
LEMMA OthersAnswer ==
  ASSUME NEW fresh \in BOOLEAN, NEW due \in Seq(Asked), NEW ms \in Seq(ToSwift),
         \A i \in 1..Len(ms) : ms[i].type # "selection"
  PROVE  Answers(fresh, due, ms, due)
  <1> DEFINE run == [i \in 0..Len(ms) |-> due]
  <1>0. Len(ms) \in Nat
    BY LenProperties
  <1>1. run \in [0..Len(ms) -> Seq(Asked)] /\ run[0] = due /\ run[Len(ms)] = due
    BY <1>0
  <1>2. ASSUME NEW i \in 1..Len(ms) PROVE <<run[i - 1], ms[i], run[i]>> \in Answer(fresh)
    <2>1. run[i - 1] = due /\ run[i] = due
      BY <1>0
    <2>2. ms[i] \in ToSwift /\ ms[i].type # "selection"
      BY ElementOfSeq
    <2> HIDE DEF run
    <2> QED BY <2>1, <2>2, AnswerIs
  <1> HIDE DEF run
  <1> QED BY <1>1, <1>2 DEF Answers, Leads

LEMMA SavesOnlyIs ==
  ASSUME NEW alive \in BOOLEAN, NEW fresh \in BOOLEAN, NEW due \in Seq(Asked), NEW js \in PageState,
         PageFits(alive, js), js.out = <<>>, NEW after, SavesOnly(js, after)
  PROVE  Becomes(alive, fresh, due, js, after, View(fresh, js, due))
  <1>1. /\ after \in PageState
        /\ after.models = js.models /\ after.currentPath = js.currentPath /\ after.diffMode = js.diffMode
        /\ after.original = js.original /\ after.drawn = js.drawn /\ after.redraws = js.redraws
        /\ DOMAIN after.pendingSaves \subseteq DOMAIN js.models
        /\ NoneIn(after.out, {m \in ToSwift : m.type # "save"})
    BY DEF SavesOnly
  <1>2. ShowsDiff(after) = ShowsDiff(js) /\ Drawing(after) = Drawing(js)
    BY <1>1 DEF ShowsDiff, Drawing
  <1>3. PageFits(alive, after)
    BY <1>1, <1>2 DEF PageFits
  <1>4. after.out \in Seq(ToSwift)
    BY <1>1, PageIs
  <1>5. \A i \in 1..Len(after.out) : after.out[i] \in ToSwift /\ after.out[i].type = "save"
    BY <1>1, <1>4, ElementOfSeq DEF NoneIn
  <1>6. Answers(fresh, due, after.out, due)
    BY <1>4, <1>5, OthersAnswer
  <1>7. Told(js, after)
    <2>1. \A p : NoneIn(after.out, DirtyOf(p))
      BY <1>5 DEF NoneIn, DirtyOf
    <2> QED BY <1>1, <2>1 DEF Told
  <1>8. View(fresh, after, due) = View(fresh, js, due)
    BY <1>1, <1>2 DEF View
  <1> QED BY <1>1, <1>3, <1>6, <1>7, <1>8 DEF Becomes

LEMMA SavesAllIs ==
  ASSUME NEW js \in PageState, NEW alive, PageFits(alive, js), js.out = <<>>, NEW skipPaths
  PROVE  SavesOnly(js, SaveAllDirty(js, skipPaths))
  <1> DEFINE T == {acc \in PageState : SavesOnly(js, acc)}
  <1>1. js \in T
    BY SavesStill
  <1>2. \A acc \in T : \A p \in DOMAIN js.models : PostSave(acc, p) \in T
    BY SavesOneMore DEF SavesOnly
  <1>3. SaveAllDirty(js, skipPaths) \in T
    <2> HIDE DEF T
    <2> QED BY <1>1, <1>2, SaveAllStays
  <1> QED BY <1>3

LEMMA TakesSaveAll ==
  ASSUME NEW alive \in BOOLEAN, NEW fresh \in BOOLEAN, NEW due \in Seq(Asked), NEW js \in PageState,
         PageFits(alive, js), js.out = <<>>, NEW m \in ToPage, m.type = "saveAll"
  PROVE  Taken(alive, fresh, due, js, m, SaveAllDirty(js, m.skipPaths))
  <1>1. Sees(fresh, View(fresh, js, due), m) = View(fresh, js, due)
    BY DEF Sees
  <1> QED BY <1>1, SavesAllIs, SavesOnlyIs DEF Taken

LEMMA Saves1 ==
  ASSUME NEW alive \in BOOLEAN, NEW fresh \in BOOLEAN, NEW due \in Seq(Asked), NEW js \in PageState,
         PageFits(alive, js), js.out = <<>>, NEW path \in DOMAIN js.models
  PROVE  Becomes(alive, fresh, due, js, PostSave(js, path), View(fresh, js, due))
  <1>1. SavesOnly(js, PostSave(js, path))
    BY SavesStill, SavesOneMore
  <1> QED BY <1>1, SavesOnlyIs

\* The page answers for what it shows: that of the file in front, or nothing.
LEMMA TakesRequest ==
  ASSUME NEW alive \in BOOLEAN, NEW fresh \in BOOLEAN, NEW due \in Seq(Asked), NEW js \in PageState,
         PageFits(alive, js), js.out = <<>>, NEW m \in ToPage, m.type = "getSelection",
         Timely(alive, fresh, View(fresh, js, due), m), NEW isEmpty \in BOOLEAN
  PROVE  Taken(alive, fresh, due, js, m, ReportSelection(js, isEmpty))
  <1>1. PICK v : v = View(fresh, js, due)
    OBVIOUS
  <1>2. v.path = js.currentPath /\ v.due = due /\ (v.mode = "group" => js.diffMode = "pierre-group")
    BY <1>1, ViewOf
  <1>3. due # <<>> /\ (fresh => v.mode = "group" \/ js.currentPath \in {None, Head(due)})
    BY <1>1, <1>2 DEF Timely
  <1>4. PICK path : path = IF isEmpty \/ js.diffMode \in {"pierre", "pierre-group"} THEN None ELSE js.currentPath
    OBVIOUS
  <1>5. path \in Files \cup {None} /\ (fresh => path \in {None, Head(due)})
    BY <1>2, <1>3, <1>4, PageIs
  <1>6. PICK s : s = SelectionMessage(path)
    OBVIOUS
  <1>7. s \in ToSwift /\ s.type = "selection" /\ s.path = path
    BY <1>5, <1>6, MessagesTyped DEF SelectionMessage
  <1>8. PICK out : out = Append(js.out, s)
    OBVIOUS
  <1>9. PICK left : left = Tail(due)
    OBVIOUS
  <1>10. out \in Seq(ToSwift) /\ Answers(fresh, due, out, left) /\ left \in Seq(Asked)
    <2>1. PICK old : old = js.out
      OBVIOUS
    <2>2. old \in Seq(ToSwift) /\ Answers(fresh, due, old, due)
      BY <2>1, NothingAnswers, PageIs
    <2>3. left \in Seq(Asked)
      BY <1>3, <1>9, HeadTailProperties
    <2> QED BY <1>3, <1>5, <1>7, <1>8, <1>9, <2>1, <2>2, <2>3, AppendProperties, AnswersOne
  <1>11. PICK after : after = ReportSelection(js, isEmpty)
    OBVIOUS
  <1>12. after = Page(js.models, js.currentPath, js.diffMode, js.original, js.drawn, js.redraws, js.pendingSaves, out)
    <2>1. after = Post(js, s)
      BY <1>4, <1>6, <1>11 DEF ReportSelection, SelectionMessage
    <2> QED BY <1>8, <2>1, PostIs
  <1>13. after \in PageState
    BY <1>10, <1>12, PageIs, PageTyped, ZenonT(40)
  <1>14. /\ after.models = js.models /\ after.currentPath = js.currentPath /\ after.diffMode = js.diffMode
         /\ after.original = js.original /\ after.drawn = js.drawn /\ after.redraws = js.redraws
         /\ after.pendingSaves = js.pendingSaves /\ after.out = out
    BY <1>12 DEF Page
  <1>15. ShowsDiff(after) = ShowsDiff(js) /\ Drawing(after) = Drawing(js)
    BY <1>14 DEF ShowsDiff, Drawing
  <1>16. PageFits(alive, after)
    BY <1>14, <1>15 DEF PageFits
  <1>17. Told(js, after)
    <2>1. Told(js, js)
      BY TellNothing
    <2> QED BY <1>7, <1>8, <1>14, <2>1, TellOther
  <1>18. View(fresh, after, left) = Answered(v)
    <2>1. v = Shown(DOMAIN js.models, js.currentPath,
                    IF ShowsDiff(js) THEN "file" ELSE IF fresh /\ js.diffMode = "pierre-group" THEN "group" ELSE "none",
                    js.original, IF fresh /\ js.diffMode = "pierre-group" THEN js.drawn ELSE NoDiff, due)
      BY <1>1 DEF View
    <2>2. Answered(v) =
              Shown(DOMAIN js.models, js.currentPath,
                    IF ShowsDiff(js) THEN "file" ELSE IF fresh /\ js.diffMode = "pierre-group" THEN "group" ELSE "none",
                    js.original, IF fresh /\ js.diffMode = "pierre-group" THEN js.drawn ELSE NoDiff, Tail(due))
      BY <2>1 DEF Answered, Shown
    <2> QED BY <1>9, <1>14, <1>15, <2>2 DEF View
  <1>19. Sees(fresh, v, m) = Answered(v)
    BY DEF Sees
  <1> QED BY <1>1, <1>10, <1>11, <1>13, <1>14, <1>16, <1>17, <1>18, <1>19 DEF Taken, Becomes

\* Whatever message the page takes in its time, it shows what the message says.
LEMMA PageTakes ==
  ASSUME NEW alive \in BOOLEAN, NEW fresh \in BOOLEAN, NEW due \in Seq(Asked), NEW js \in PageState,
         PageFits(alive, js), js.out = <<>>, NEW m \in ToPage,
         Timely(alive, fresh, View(fresh, js, due), m), NEW isEmpty \in BOOLEAN
  PROVE  Taken(alive, fresh, due, js, m, HandleMessage(js, m, isEmpty))
  <1>1. CASE m.type = "openFile"
    <2>1. HandleMessage(js, m, isEmpty) = ApplyOpen(js, m)
      BY <1>1 DEF HandleMessage
    <2> QED BY <1>1, <2>1, TakesOpen
  <1>2. CASE m.type = "switchTab"
    <2>1. HandleMessage(js, m, isEmpty) = SwitchToPath(js, m.path)
      BY <1>2 DEF HandleMessage
    <2> QED BY <1>2, <2>1, TakesSwitch
  <1>3. CASE m.type = "closeTab"
    <2>1. HandleMessage(js, m, isEmpty) = CloseTab(js, m.path)
      BY <1>3 DEF HandleMessage
    <2> QED BY <1>3, <2>1, TakesClose
  <1>4. CASE m.type = "markSaved"
    <2>1. HandleMessage(js, m, isEmpty) = MarkSaved(js, m.path)
      BY <1>4 DEF HandleMessage
    <2> QED BY <1>4, <2>1, TakesMarkSaved
  <1>5. CASE m.type = "goToLine"
    <2>1. CASE js.currentPath # m.path
      <3>1. HandleMessage(js, m, isEmpty) = SwitchToPath(js, m.path)
        BY <1>5, <2>1 DEF HandleMessage
      <3> QED BY <1>5, <2>1, <3>1, TakesSwitch
    <2>2. CASE js.currentPath = m.path
      <3>1. HandleMessage(js, m, isEmpty) = js
        BY <1>5, <2>2 DEF HandleMessage
      <3>2. PICK v : v = View(fresh, js, due)
        OBVIOUS
      <3>3. Sees(fresh, v, m) = v
        BY <1>5, <2>2, <3>2, ViewOf DEF Sees
      <3> QED BY <3>1, <3>2, <3>3, TakesNothing
    <2> QED BY <2>1, <2>2
  <1>6. CASE m.type = "enterDiff"
    <2>1. HandleMessage(js, m, isEmpty) = EnterPierreDiff(js, m)
      BY <1>6 DEF HandleMessage
    <2> QED BY <1>6, <2>1, TakesEnterDiff
  <1>7. CASE m.type = "enterDiffGroup"
    <2>1. HandleMessage(js, m, isEmpty) = EnterPierreDiffGroup(js, m)
      BY <1>7 DEF HandleMessage
    <2> QED BY <1>7, <2>1, TakesGroup
  <1>8. CASE m.type = "exitDiff"
    <2>1. HandleMessage(js, m, isEmpty) = ExitDiff(js)
      BY <1>8 DEF HandleMessage
    <2> QED BY <1>8, <2>1, TakesExit
  <1>9. CASE m.type = "saveAll"
    <2>1. HandleMessage(js, m, isEmpty) = SaveAllDirty(js, m.skipPaths)
      BY <1>9 DEF HandleMessage
    <2> QED BY <1>9, <2>1, TakesSaveAll
  <1>10. CASE m.type = "getSelection"
    <2>1. HandleMessage(js, m, isEmpty) = ReportSelection(js, isEmpty)
      BY <1>10 DEF HandleMessage
    <2> QED BY <1>10, <2>1, TakesRequest
  <1>11. m.type \in {"openFile", "switchTab", "closeTab", "markSaved", "goToLine", "enterDiff",
                     "enterDiffGroup", "exitDiff", "getSelection", "saveAll"}
    BY PageMessage
  <1> QED BY <1>1, <1>2, <1>3, <1>4, <1>5, <1>6, <1>7, <1>8, <1>9, <1>10, <1>11
-----------------------------------------------------------------------------
(* The column's state                                                      *)

\* A column of these parts.
Column(tabPaths, activePath, dirtyByPath, diskModifiedWhileDirty, diffActivePath, diffActiveMode,
       diffModeByPath, diffGroupTabs, load, out) ==
    [tabPaths |-> tabPaths, activePath |-> activePath, dirtyByPath |-> dirtyByPath,
     diskModifiedWhileDirty |-> diskModifiedWhileDirty, diffActivePath |-> diffActivePath,
     diffActiveMode |-> diffActiveMode, diffModeByPath |-> diffModeByPath,
     diffGroupTabs |-> diffGroupTabs, load |-> load, out |-> out]

LEMMA ColumnIs ==
  ASSUME NEW c \in ColumnState
  PROVE  /\ c.tabPaths \in Seq(Paths) /\ c.activePath \in Asked
         /\ c.dirtyByPath \in SUBSET Files /\ c.diskModifiedWhileDirty \in SUBSET Files
         /\ c.diffActivePath \in Files \cup {None} /\ c.diffActiveMode \in Modes \cup {None}
         /\ c.diffModeByPath \in Maps(Paths, Modes) /\ c.diffGroupTabs \in Maps(Modes, {"loading", "shown"})
         /\ c.load \in Load /\ c.out \in Seq(ToPage)
         /\ c = Column(c.tabPaths, c.activePath, c.dirtyByPath, c.diskModifiedWhileDirty, c.diffActivePath,
                       c.diffActiveMode, c.diffModeByPath, c.diffGroupTabs, c.load, c.out)
  BY DEF ColumnState, Column

LEMMA ColumnTyped ==
  ASSUME NEW tabPaths \in Seq(Paths), NEW activePath \in Asked, NEW dirtyByPath \in SUBSET Files,
         NEW diskModifiedWhileDirty \in SUBSET Files, NEW diffActivePath \in Files \cup {None},
         NEW diffActiveMode \in Modes \cup {None}, NEW diffModeByPath \in Maps(Paths, Modes),
         NEW diffGroupTabs \in Maps(Modes, {"loading", "shown"}), NEW load \in Load, NEW out \in Seq(ToPage),
         NEW c, c = Column(tabPaths, activePath, dirtyByPath, diskModifiedWhileDirty, diffActivePath,
                           diffActiveMode, diffModeByPath, diffGroupTabs, load, out)
  PROVE  c \in ColumnState
  BY DEF ColumnState, Column

\* A column of these fields.
Fields(c, tabPaths, activePath, dirtyByPath, diskModifiedWhileDirty, diffActivePath, diffActiveMode,
       diffModeByPath, diffGroupTabs, load, out) ==
    /\ c.tabPaths = tabPaths /\ c.activePath = activePath /\ c.dirtyByPath = dirtyByPath
    /\ c.diskModifiedWhileDirty = diskModifiedWhileDirty /\ c.diffActivePath = diffActivePath
    /\ c.diffActiveMode = diffActiveMode /\ c.diffModeByPath = diffModeByPath
    /\ c.diffGroupTabs = diffGroupTabs /\ c.load = load /\ c.out = out

LEMMA FieldsOf ==
  ASSUME NEW tabPaths, NEW activePath, NEW dirtyByPath, NEW diskModifiedWhileDirty, NEW diffActivePath,
         NEW diffActiveMode, NEW diffModeByPath, NEW diffGroupTabs, NEW load, NEW out,
         NEW c, c = Column(tabPaths, activePath, dirtyByPath, diskModifiedWhileDirty, diffActivePath,
                           diffActiveMode, diffModeByPath, diffGroupTabs, load, out)
  PROVE  Fields(c, tabPaths, activePath, dirtyByPath, diskModifiedWhileDirty, diffActivePath,
                diffActiveMode, diffModeByPath, diffGroupTabs, load, out)
  BY DEF Column, Fields

\* Tabs are there once; the active one is a tab; so are those of diffs and conflicts.
Tabbed(c) ==
    /\ \A i, j \in 1..Len(c.tabPaths) : c.tabPaths[i] = c.tabPaths[j] => i = j
    /\ DOMAIN c.diffGroupTabs = {m \in Modes : IsOpen(c, m)}
    /\ IF c.tabPaths = <<>> THEN c.activePath = None ELSE IsOpen(c, c.activePath)
    /\ c.diffActivePath \in OpenPaths(c) \cup {None}
    /\ c.diskModifiedWhileDirty \subseteq OpenPaths(c)
    /\ c.load # NoLoad /\ c.load.kind = "group" => c.diffActivePath = None

LEMMA LoadIs ==
  ASSUME NEW load \in Load, load # NoLoad
  PROVE  /\ load.kind \in {"file", "group"} /\ load.path \in Paths /\ load.mode \in Modes
         /\ load.kind = "group" => load.path \in Modes /\ load.mode = load.path
  BY NamesApart DEF Load, NoLoad

LEMMA NoLoadIs == NoLoad \in Load /\ NoLoad.kind = "none"
  BY DEF Load, NoLoad

LEMMA SayIs ==
  ASSUME NEW c \in ColumnState, NEW m
  PROVE  Say(c, m) = Column(c.tabPaths, c.activePath, c.dirtyByPath, c.diskModifiedWhileDirty, c.diffActivePath,
                            c.diffActiveMode, c.diffModeByPath, c.diffGroupTabs, c.load, Append(c.out, m))
  <1>1. PICK out : out = Append(c.out, m)
    OBVIOUS
  <1>2. PICK e : e = [c EXCEPT !.out = out]
    OBVIOUS
  <1>3. e = Column(c.tabPaths, c.activePath, c.dirtyByPath, c.diskModifiedWhileDirty, c.diffActivePath,
                   c.diffActiveMode, c.diffModeByPath, c.diffGroupTabs, c.load, out)
    BY ColumnIs, <1>2 DEF Column
  <1>4. Say(c, m) = e
    BY <1>1, <1>2 DEF Say
  <1> QED BY <1>1, <1>3, <1>4

LEMMA SaidIs ==
  ASSUME NEW c \in ColumnState, NEW m \in ToPage, NEW d, d = Say(c, m)
  PROVE  /\ d \in ColumnState /\ d.out = Append(c.out, m)
         /\ d.tabPaths = c.tabPaths /\ d.activePath = c.activePath /\ d.dirtyByPath = c.dirtyByPath
         /\ d.diskModifiedWhileDirty = c.diskModifiedWhileDirty /\ d.diffActivePath = c.diffActivePath
         /\ d.diffActiveMode = c.diffActiveMode /\ d.diffModeByPath = c.diffModeByPath
         /\ d.diffGroupTabs = c.diffGroupTabs /\ d.load = c.load
  <1>1. PICK out : out = Append(c.out, m)
    OBVIOUS
  <1>2. d = Column(c.tabPaths, c.activePath, c.dirtyByPath, c.diskModifiedWhileDirty, c.diffActivePath,
                   c.diffActiveMode, c.diffModeByPath, c.diffGroupTabs, c.load, out)
    BY <1>1, SayIs
  <1>3. out \in Seq(ToPage)
    <2>1. c.out \in Seq(ToPage)
      BY ColumnIs
    <2> QED BY <1>1, <2>1, AppendProperties
  <1>4. d \in ColumnState
    BY <1>2, <1>3, ColumnIs, ColumnTyped
  <1> QED BY <1>1, <1>2, <1>4 DEF Column

LEMMA OpenIsSame ==
  ASSUME NEW c, NEW d, d.tabPaths = c.tabPaths
  PROVE  OpenPaths(d) = OpenPaths(c) /\ \A p : IsOpen(d, p) = IsOpen(c, p)
  BY DEF OpenPaths, IsOpen

LEMMA TabbedSame ==
  ASSUME NEW c, NEW d, Tabbed(c), d.tabPaths = c.tabPaths, d.diffGroupTabs = c.diffGroupTabs,
         d.activePath = c.activePath, d.diffActivePath = c.diffActivePath,
         d.diskModifiedWhileDirty \subseteq c.diskModifiedWhileDirty,
         d.load \in {c.load, NoLoad}
  PROVE  Tabbed(d)
  BY OpenIsSame DEF Tabbed

-----------------------------------------------------------------------------
(* What the column takes to be shown                                       *)

\* The page shows the files of the tabs.
Matches(alive, v, c) ==
    /\ v \in Viewed /\ v.due = <<>>
    /\ v.models \subseteq OpenPaths(c)
    /\ alive => v.models = OpenPaths(c)

\* What is shown is the active tab's, and a diff is the one the column takes to show.
Agrees(alive, fresh, v, c) ==
    /\ Matches(alive, v, c)
    /\ c.activePath \in v.models => v.path = c.activePath
    /\ alive /\ v.mode = "file" =>
         v.path # None /\ c.diffActivePath = v.path /\ c.diffActiveMode = v.original.mode
    /\ fresh => IF IsGroup(c.activePath)
                  THEN v.mode = "group" /\ v.drawn = [path |-> c.activePath,
                                                      loading |-> c.diffGroupTabs[c.activePath] = "loading"]
                  ELSE v.path = c.activePath /\ v.mode # "group"

\* A file that stops to be dirty to the column without a word of the page is opened or
\* closed on the page.
Resets(path) == {m \in ToPage : m.type \in {"openFile", "closeTab"} /\ m.path = path}
Keeps(before, after) ==
    \A p \in before.dirtyByPath : p \in after.dirtyByPath \/ ~NoneIn(after.out, Resets(p))

\* The column acted, and what it says leads from what was shown to w.
Acted(alive, fresh, v, before, c, w) ==
    c \in ColumnState /\ Tabbed(c) /\ Follows(alive, fresh, v, c.out, w) /\ Keeps(before, c)

\* So far the files match; at the end all agrees.
Acting(alive, fresh, v, before, c) == \E w : Acted(alive, fresh, v, before, c, w) /\ Matches(alive, w, c)
Acts(alive, fresh, v, before, c) == \E w : Acted(alive, fresh, v, before, c, w) /\ Agrees(alive, fresh, w, c)

LEMMA ActsNothing ==
  ASSUME NEW alive, NEW fresh, NEW v \in Viewed, NEW c \in ColumnState, Tabbed(c), c.out = <<>>,
         Agrees(alive, fresh, v, c)
  PROVE  Acts(alive, fresh, v, c, c)
  <1>1. Follows(alive, fresh, v, c.out, v)
    BY NothingFollows
  <1> QED BY <1>1 DEF Acts, Acted, Keeps

LEMMA ActsActing ==
  ASSUME NEW alive, NEW fresh, NEW v, NEW before, NEW c, Acts(alive, fresh, v, before, c)
  PROVE  Acting(alive, fresh, v, before, c)
  BY DEF Acts, Acting, Agrees

LEMMA KeepsMore ==
  ASSUME NEW before, NEW c \in ColumnState, NEW d, NEW m \in ToPage, Keeps(before, c),
         d.out = Append(c.out, m), \A p \in c.dirtyByPath : p \in d.dirtyByPath \/ m \in Resets(p)
  PROVE  Keeps(before, d)
  <1>1. PICK old, out : old = c.out /\ out = d.out
    OBVIOUS
  <1>2. old \in Seq(ToPage) /\ out = Append(old, m)
    BY <1>1, ColumnIs
  <1>3. ASSUME NEW p \in before.dirtyByPath, p \notin d.dirtyByPath PROVE ~NoneIn(out, Resets(p))
    <2>1. CASE ~NoneIn(old, Resets(p))
      BY <1>2, <2>1, LastInMore
    <2>2. CASE NoneIn(old, Resets(p))
      <3>1. p \in c.dirtyByPath
        BY <1>1, <1>3, <2>2 DEF Keeps
      <3>2. m \in Resets(p)
        BY <1>3, <3>1
      <3> QED BY <1>2, <3>2, LastInMore
    <2> QED BY <2>1, <2>2
  <1> QED BY <1>1, <1>3 DEF Keeps

LEMMA KeepsSame ==
  ASSUME NEW before, NEW c, NEW d, Keeps(before, c), d.out = c.out, c.dirtyByPath \subseteq d.dirtyByPath
  PROVE  Keeps(before, d)
  BY DEF Keeps

\* One message more is said.
LEMMA ActedMore ==
  ASSUME NEW alive, NEW fresh \in BOOLEAN, NEW v, NEW before, NEW c, NEW w, Acted(alive, fresh, v, before, c, w),
         NEW d \in ColumnState, NEW m \in ToPage, d.out = Append(c.out, m), Tabbed(d),
         \A p \in c.dirtyByPath : p \in d.dirtyByPath \/ m \in Resets(p),
         Timely(alive, fresh, w, m)
  PROVE  Acted(alive, fresh, v, before, d, Sees(fresh, w, m)) /\ Sees(fresh, w, m) \in Viewed
  <1>1. c \in ColumnState /\ Follows(alive, fresh, v, c.out, w) /\ Keeps(before, c)
    BY DEF Acted
  <1>2. c.out \in Seq(ToPage)
    BY <1>1, ColumnIs
  <1>3. PICK old : old = c.out
    OBVIOUS
  <1>4. Follows(alive, fresh, v, Append(old, m), Sees(fresh, w, m)) /\ Sees(fresh, w, m) \in Viewed
    BY <1>1, <1>2, <1>3, OneMoreFollows
  <1>5. Keeps(before, d)
    BY <1>1, KeepsMore
  <1> QED BY <1>3, <1>4, <1>5 DEF Acted

LEMMA ActedSame ==
  ASSUME NEW alive, NEW fresh, NEW v, NEW before, NEW c, NEW w, Acted(alive, fresh, v, before, c, w),
         NEW d \in ColumnState, Tabbed(d), d.out = c.out, c.dirtyByPath \subseteq d.dirtyByPath
  PROVE  Acted(alive, fresh, v, before, d, w)
  BY KeepsSame DEF Acted
-----------------------------------------------------------------------------
(* The column changes                                                      *)

LEMMA LoadSetIs ==
  ASSUME NEW c \in ColumnState, NEW l, NEW d, d = [c EXCEPT !.load = l]
  PROVE  d = Column(c.tabPaths, c.activePath, c.dirtyByPath, c.diskModifiedWhileDirty, c.diffActivePath, c.diffActiveMode,
                    c.diffModeByPath, c.diffGroupTabs, l, c.out)
  <1>1. PICK x1 :
          /\ x1 = l
    OBVIOUS
  <1>2. PICK e1 : e1 = [c EXCEPT !.load = x1]
    OBVIOUS
  <1>3. e1 = Column(c.tabPaths, c.activePath, c.dirtyByPath, c.diskModifiedWhileDirty, c.diffActivePath, c.diffActiveMode,
                    c.diffModeByPath, c.diffGroupTabs, x1, c.out)
    BY ColumnIs, <1>2 DEF Column
  <1>4. d = e1
    BY <1>1, <1>2
  <1> QED BY <1>1, <1>3, <1>4

LEMMA ModesSetIs ==
  ASSUME NEW c \in ColumnState, NEW modes, NEW d, d = [c EXCEPT !.diffModeByPath = modes]
  PROVE  d = Column(c.tabPaths, c.activePath, c.dirtyByPath, c.diskModifiedWhileDirty, c.diffActivePath, c.diffActiveMode,
                    modes, c.diffGroupTabs, c.load, c.out)
  <1>1. PICK x1 :
          /\ x1 = modes
    OBVIOUS
  <1>2. PICK e1 : e1 = [c EXCEPT !.diffModeByPath = x1]
    OBVIOUS
  <1>3. e1 = Column(c.tabPaths, c.activePath, c.dirtyByPath, c.diskModifiedWhileDirty, c.diffActivePath, c.diffActiveMode,
                    x1, c.diffGroupTabs, c.load, c.out)
    BY ColumnIs, <1>2 DEF Column
  <1>4. d = e1
    BY <1>1, <1>2
  <1> QED BY <1>1, <1>3, <1>4

LEMMA ChangedSetIs ==
  ASSUME NEW c \in ColumnState, NEW changed, NEW d, d = [c EXCEPT !.diskModifiedWhileDirty = changed]
  PROVE  d = Column(c.tabPaths, c.activePath, c.dirtyByPath, changed, c.diffActivePath, c.diffActiveMode,
                    c.diffModeByPath, c.diffGroupTabs, c.load, c.out)
  <1>1. PICK x1 :
          /\ x1 = changed
    OBVIOUS
  <1>2. PICK e1 : e1 = [c EXCEPT !.diskModifiedWhileDirty = x1]
    OBVIOUS
  <1>3. e1 = Column(c.tabPaths, c.activePath, c.dirtyByPath, x1, c.diffActivePath, c.diffActiveMode,
                    c.diffModeByPath, c.diffGroupTabs, c.load, c.out)
    BY ColumnIs, <1>2 DEF Column
  <1>4. d = e1
    BY <1>1, <1>2
  <1> QED BY <1>1, <1>3, <1>4

LEMMA DirtySetIs ==
  ASSUME NEW c \in ColumnState, NEW dirty, NEW d, d = [c EXCEPT !.dirtyByPath = dirty]
  PROVE  d = Column(c.tabPaths, c.activePath, dirty, c.diskModifiedWhileDirty, c.diffActivePath, c.diffActiveMode,
                    c.diffModeByPath, c.diffGroupTabs, c.load, c.out)
  <1>1. PICK x1 :
          /\ x1 = dirty
    OBVIOUS
  <1>2. PICK e1 : e1 = [c EXCEPT !.dirtyByPath = x1]
    OBVIOUS
  <1>3. e1 = Column(c.tabPaths, c.activePath, x1, c.diskModifiedWhileDirty, c.diffActivePath, c.diffActiveMode,
                    c.diffModeByPath, c.diffGroupTabs, c.load, c.out)
    BY ColumnIs, <1>2 DEF Column
  <1>4. d = e1
    BY <1>1, <1>2
  <1> QED BY <1>1, <1>3, <1>4

LEMMA ActiveSetIs ==
  ASSUME NEW c \in ColumnState, NEW path, NEW d, d = [c EXCEPT !.activePath = path]
  PROVE  d = Column(c.tabPaths, path, c.dirtyByPath, c.diskModifiedWhileDirty, c.diffActivePath, c.diffActiveMode,
                    c.diffModeByPath, c.diffGroupTabs, c.load, c.out)
  <1>1. PICK x1 :
          /\ x1 = path
    OBVIOUS
  <1>2. PICK e1 : e1 = [c EXCEPT !.activePath = x1]
    OBVIOUS
  <1>3. e1 = Column(c.tabPaths, x1, c.dirtyByPath, c.diskModifiedWhileDirty, c.diffActivePath, c.diffActiveMode,
                    c.diffModeByPath, c.diffGroupTabs, c.load, c.out)
    BY ColumnIs, <1>2 DEF Column
  <1>4. d = e1
    BY <1>1, <1>2
  <1> QED BY <1>1, <1>3, <1>4

LEMMA OutSetIs ==
  ASSUME NEW c \in ColumnState, NEW out, NEW d, d = [c EXCEPT !.out = out]
  PROVE  d = Column(c.tabPaths, c.activePath, c.dirtyByPath, c.diskModifiedWhileDirty, c.diffActivePath, c.diffActiveMode,
                    c.diffModeByPath, c.diffGroupTabs, c.load, out)
  <1>1. PICK x1 :
          /\ x1 = out
    OBVIOUS
  <1>2. PICK e1 : e1 = [c EXCEPT !.out = x1]
    OBVIOUS
  <1>3. e1 = Column(c.tabPaths, c.activePath, c.dirtyByPath, c.diskModifiedWhileDirty, c.diffActivePath, c.diffActiveMode,
                    c.diffModeByPath, c.diffGroupTabs, c.load, x1)
    BY ColumnIs, <1>2 DEF Column
  <1>4. d = e1
    BY <1>1, <1>2
  <1> QED BY <1>1, <1>3, <1>4

LEMMA ForgottenIs ==
  ASSUME NEW c \in ColumnState, NEW d, d = [c EXCEPT !.diffActivePath = None, !.diffActiveMode = None, !.load = NoLoad]
  PROVE  d = Column(c.tabPaths, c.activePath, c.dirtyByPath, c.diskModifiedWhileDirty, None, None,
                    c.diffModeByPath, c.diffGroupTabs, NoLoad, c.out)
  <1>1. PICK x1, x2, x3 :
          /\ x1 = None
          /\ x2 = None
          /\ x3 = NoLoad
    OBVIOUS
  <1>2. PICK e1 : e1 = [c EXCEPT !.diffActivePath = x1]
    OBVIOUS
  <1>3. e1 = Column(c.tabPaths, c.activePath, c.dirtyByPath, c.diskModifiedWhileDirty, x1, c.diffActiveMode,
                    c.diffModeByPath, c.diffGroupTabs, c.load, c.out)
    BY ColumnIs, <1>2 DEF Column
  <1>4. PICK e2 : e2 = [e1 EXCEPT !.diffActiveMode = x2]
    OBVIOUS
  <1>5. e2 = Column(c.tabPaths, c.activePath, c.dirtyByPath, c.diskModifiedWhileDirty, x1, x2,
                    c.diffModeByPath, c.diffGroupTabs, c.load, c.out)
    BY <1>3, <1>4 DEF Column
  <1>6. PICK e3 : e3 = [e2 EXCEPT !.load = x3]
    OBVIOUS
  <1>7. e3 = Column(c.tabPaths, c.activePath, c.dirtyByPath, c.diskModifiedWhileDirty, x1, x2,
                    c.diffModeByPath, c.diffGroupTabs, x3, c.out)
    BY <1>5, <1>6 DEF Column
  <1>8. d = e3
    BY <1>1, <1>2, <1>4, <1>6
  <1> QED BY <1>1, <1>7, <1>8

LEMMA StoppedIs ==
  ASSUME NEW c \in ColumnState, NEW d, d = [c EXCEPT !.load = NoLoad, !.diffActivePath = None, !.diffActiveMode = None]
  PROVE  d = Column(c.tabPaths, c.activePath, c.dirtyByPath, c.diskModifiedWhileDirty, None, None,
                    c.diffModeByPath, c.diffGroupTabs, NoLoad, c.out)
  <1>1. PICK x1, x2, x3 :
          /\ x1 = NoLoad
          /\ x2 = None
          /\ x3 = None
    OBVIOUS
  <1>2. PICK e1 : e1 = [c EXCEPT !.load = x1]
    OBVIOUS
  <1>3. e1 = Column(c.tabPaths, c.activePath, c.dirtyByPath, c.diskModifiedWhileDirty, c.diffActivePath, c.diffActiveMode,
                    c.diffModeByPath, c.diffGroupTabs, x1, c.out)
    BY ColumnIs, <1>2 DEF Column
  <1>4. PICK e2 : e2 = [e1 EXCEPT !.diffActivePath = x2]
    OBVIOUS
  <1>5. e2 = Column(c.tabPaths, c.activePath, c.dirtyByPath, c.diskModifiedWhileDirty, x2, c.diffActiveMode,
                    c.diffModeByPath, c.diffGroupTabs, x1, c.out)
    BY <1>3, <1>4 DEF Column
  <1>6. PICK e3 : e3 = [e2 EXCEPT !.diffActiveMode = x3]
    OBVIOUS
  <1>7. e3 = Column(c.tabPaths, c.activePath, c.dirtyByPath, c.diskModifiedWhileDirty, x2, x3,
                    c.diffModeByPath, c.diffGroupTabs, x1, c.out)
    BY <1>5, <1>6 DEF Column
  <1>8. d = e3
    BY <1>1, <1>2, <1>4, <1>6
  <1> QED BY <1>1, <1>7, <1>8

LEMMA TookDiffIs ==
  ASSUME NEW c \in ColumnState, NEW path, NEW mode, NEW d, d = [c EXCEPT !.diffActivePath = path, !.diffActiveMode = mode]
  PROVE  d = Column(c.tabPaths, c.activePath, c.dirtyByPath, c.diskModifiedWhileDirty, path, mode,
                    c.diffModeByPath, c.diffGroupTabs, c.load, c.out)
  <1>1. PICK x1, x2 :
          /\ x1 = path
          /\ x2 = mode
    OBVIOUS
  <1>2. PICK e1 : e1 = [c EXCEPT !.diffActivePath = x1]
    OBVIOUS
  <1>3. e1 = Column(c.tabPaths, c.activePath, c.dirtyByPath, c.diskModifiedWhileDirty, x1, c.diffActiveMode,
                    c.diffModeByPath, c.diffGroupTabs, c.load, c.out)
    BY ColumnIs, <1>2 DEF Column
  <1>4. PICK e2 : e2 = [e1 EXCEPT !.diffActiveMode = x2]
    OBVIOUS
  <1>5. e2 = Column(c.tabPaths, c.activePath, c.dirtyByPath, c.diskModifiedWhileDirty, x1, x2,
                    c.diffModeByPath, c.diffGroupTabs, c.load, c.out)
    BY <1>3, <1>4 DEF Column
  <1>6. d = e2
    BY <1>1, <1>2, <1>4
  <1> QED BY <1>1, <1>5, <1>6

LEMMA OpenedTabIs ==
  ASSUME NEW c \in ColumnState, NEW path, NEW d, d = [c EXCEPT !.tabPaths = Append(@, path), !.dirtyByPath = @ \ {path},
                               !.diskModifiedWhileDirty = @ \ {path}, !.activePath = path]
  PROVE  d = Column(Append(c.tabPaths, path), path, c.dirtyByPath \ {path}, c.diskModifiedWhileDirty \ {path}, c.diffActivePath, c.diffActiveMode,
                    c.diffModeByPath, c.diffGroupTabs, c.load, c.out)
  <1>1. PICK x1, x2, x3, x4 :
          /\ x1 = Append(c.tabPaths, path)
          /\ x2 = c.dirtyByPath \ {path}
          /\ x3 = c.diskModifiedWhileDirty \ {path}
          /\ x4 = path
    OBVIOUS
  <1>2. PICK e1 : e1 = [c EXCEPT !.tabPaths = x1]
    OBVIOUS
  <1>3. e1 = Column(x1, c.activePath, c.dirtyByPath, c.diskModifiedWhileDirty, c.diffActivePath, c.diffActiveMode,
                    c.diffModeByPath, c.diffGroupTabs, c.load, c.out)
    BY ColumnIs, <1>2 DEF Column
  <1>4. PICK e2 : e2 = [e1 EXCEPT !.dirtyByPath = x2]
    OBVIOUS
  <1>5. e2 = Column(x1, c.activePath, x2, c.diskModifiedWhileDirty, c.diffActivePath, c.diffActiveMode,
                    c.diffModeByPath, c.diffGroupTabs, c.load, c.out)
    BY <1>3, <1>4 DEF Column
  <1>6. PICK e3 : e3 = [e2 EXCEPT !.diskModifiedWhileDirty = x3]
    OBVIOUS
  <1>7. e3 = Column(x1, c.activePath, x2, x3, c.diffActivePath, c.diffActiveMode,
                    c.diffModeByPath, c.diffGroupTabs, c.load, c.out)
    BY <1>5, <1>6 DEF Column
  <1>8. PICK e4 : e4 = [e3 EXCEPT !.activePath = x4]
    OBVIOUS
  <1>9. e4 = Column(x1, x4, x2, x3, c.diffActivePath, c.diffActiveMode,
                    c.diffModeByPath, c.diffGroupTabs, c.load, c.out)
    BY <1>7, <1>8 DEF Column
  <1>10. d = e4
    BY <1>1, <1>2, <1>4, <1>6, <1>8
  <1> QED BY <1>1, <1>9, <1>10

LEMMA ClosedTabIs ==
  ASSUME NEW c \in ColumnState, NEW path, NEW i, NEW d, d = [c EXCEPT
            !.tabPaths = RemoveAt(@, i),
            !.load = IF IsGroup(path) THEN NoLoad ELSE @,
            !.dirtyByPath = @ \ {path}, !.diskModifiedWhileDirty = @ \ {path},
            !.diffModeByPath = Without(@, path), !.diffGroupTabs = Without(@, path)]
  PROVE  d = Column(RemoveAt(c.tabPaths, i), c.activePath, c.dirtyByPath \ {path}, c.diskModifiedWhileDirty \ {path}, c.diffActivePath, c.diffActiveMode,
                    Without(c.diffModeByPath, path), Without(c.diffGroupTabs, path), (IF IsGroup(path) THEN NoLoad ELSE c.load), c.out)
  <1>1. PICK x1, x2, x3, x4, x5, x6 :
          /\ x1 = RemoveAt(c.tabPaths, i)
          /\ x2 = (IF IsGroup(path) THEN NoLoad ELSE c.load)
          /\ x3 = c.dirtyByPath \ {path}
          /\ x4 = c.diskModifiedWhileDirty \ {path}
          /\ x5 = Without(c.diffModeByPath, path)
          /\ x6 = Without(c.diffGroupTabs, path)
    OBVIOUS
  <1>2. PICK e1 : e1 = [c EXCEPT !.tabPaths = x1]
    OBVIOUS
  <1>3. e1 = Column(x1, c.activePath, c.dirtyByPath, c.diskModifiedWhileDirty, c.diffActivePath, c.diffActiveMode,
                    c.diffModeByPath, c.diffGroupTabs, c.load, c.out)
    BY ColumnIs, <1>2 DEF Column
  <1>4. PICK e2 : e2 = [e1 EXCEPT !.load = x2]
    OBVIOUS
  <1>5. e2 = Column(x1, c.activePath, c.dirtyByPath, c.diskModifiedWhileDirty, c.diffActivePath, c.diffActiveMode,
                    c.diffModeByPath, c.diffGroupTabs, x2, c.out)
    BY <1>3, <1>4 DEF Column
  <1>6. PICK e3 : e3 = [e2 EXCEPT !.dirtyByPath = x3]
    OBVIOUS
  <1>7. e3 = Column(x1, c.activePath, x3, c.diskModifiedWhileDirty, c.diffActivePath, c.diffActiveMode,
                    c.diffModeByPath, c.diffGroupTabs, x2, c.out)
    BY <1>5, <1>6 DEF Column
  <1>8. PICK e4 : e4 = [e3 EXCEPT !.diskModifiedWhileDirty = x4]
    OBVIOUS
  <1>9. e4 = Column(x1, c.activePath, x3, x4, c.diffActivePath, c.diffActiveMode,
                    c.diffModeByPath, c.diffGroupTabs, x2, c.out)
    BY <1>7, <1>8 DEF Column
  <1>10. PICK e5 : e5 = [e4 EXCEPT !.diffModeByPath = x5]
    OBVIOUS
  <1>11. e5 = Column(x1, c.activePath, x3, x4, c.diffActivePath, c.diffActiveMode,
                    x5, c.diffGroupTabs, x2, c.out)
    BY <1>9, <1>10 DEF Column
  <1>12. PICK e6 : e6 = [e5 EXCEPT !.diffGroupTabs = x6]
    OBVIOUS
  <1>13. e6 = Column(x1, c.activePath, x3, x4, c.diffActivePath, c.diffActiveMode,
                    x5, x6, x2, c.out)
    BY <1>11, <1>12 DEF Column
  <1>14. d = e6
    BY <1>1, <1>2, <1>4, <1>6, <1>8, <1>10, <1>12
  <1> QED BY <1>1, <1>13, <1>14

LEMMA CollectionIs ==
  ASSUME NEW c \in ColumnState, NEW mode, NEW d, d = [c EXCEPT
                        !.diffGroupTabs = With(@, mode, "loading"),
                        !.tabPaths = IF IsOpen(c, mode) THEN @ ELSE Append(@, mode),
                        !.activePath = mode,
                        !.diffActivePath = None, !.diffActiveMode = mode,
                        !.load = [kind |-> "group", path |-> mode, mode |-> mode]]
  PROVE  d = Column((IF IsOpen(c, mode) THEN c.tabPaths ELSE Append(c.tabPaths, mode)), mode, c.dirtyByPath, c.diskModifiedWhileDirty, None, mode,
                    c.diffModeByPath, With(c.diffGroupTabs, mode, "loading"), [kind |-> "group", path |-> mode, mode |-> mode], c.out)
  <1>1. PICK x1, x2, x3, x4, x5, x6 :
          /\ x1 = With(c.diffGroupTabs, mode, "loading")
          /\ x2 = (IF IsOpen(c, mode) THEN c.tabPaths ELSE Append(c.tabPaths, mode))
          /\ x3 = mode
          /\ x4 = None
          /\ x5 = mode
          /\ x6 = [kind |-> "group", path |-> mode, mode |-> mode]
    OBVIOUS
  <1>2. PICK e1 : e1 = [c EXCEPT !.diffGroupTabs = x1]
    OBVIOUS
  <1>3. e1 = Column(c.tabPaths, c.activePath, c.dirtyByPath, c.diskModifiedWhileDirty, c.diffActivePath, c.diffActiveMode,
                    c.diffModeByPath, x1, c.load, c.out)
    BY ColumnIs, <1>2 DEF Column
  <1>4. PICK e2 : e2 = [e1 EXCEPT !.tabPaths = x2]
    OBVIOUS
  <1>5. e2 = Column(x2, c.activePath, c.dirtyByPath, c.diskModifiedWhileDirty, c.diffActivePath, c.diffActiveMode,
                    c.diffModeByPath, x1, c.load, c.out)
    BY <1>3, <1>4 DEF Column
  <1>6. PICK e3 : e3 = [e2 EXCEPT !.activePath = x3]
    OBVIOUS
  <1>7. e3 = Column(x2, x3, c.dirtyByPath, c.diskModifiedWhileDirty, c.diffActivePath, c.diffActiveMode,
                    c.diffModeByPath, x1, c.load, c.out)
    BY <1>5, <1>6 DEF Column
  <1>8. PICK e4 : e4 = [e3 EXCEPT !.diffActivePath = x4]
    OBVIOUS
  <1>9. e4 = Column(x2, x3, c.dirtyByPath, c.diskModifiedWhileDirty, x4, c.diffActiveMode,
                    c.diffModeByPath, x1, c.load, c.out)
    BY <1>7, <1>8 DEF Column
  <1>10. PICK e5 : e5 = [e4 EXCEPT !.diffActiveMode = x5]
    OBVIOUS
  <1>11. e5 = Column(x2, x3, c.dirtyByPath, c.diskModifiedWhileDirty, x4, x5,
                    c.diffModeByPath, x1, c.load, c.out)
    BY <1>9, <1>10 DEF Column
  <1>12. PICK e6 : e6 = [e5 EXCEPT !.load = x6]
    OBVIOUS
  <1>13. e6 = Column(x2, x3, c.dirtyByPath, c.diskModifiedWhileDirty, x4, x5,
                    c.diffModeByPath, x1, x6, c.out)
    BY <1>11, <1>12 DEF Column
  <1>14. d = e6
    BY <1>1, <1>2, <1>4, <1>6, <1>8, <1>10, <1>12
  <1> QED BY <1>1, <1>13, <1>14

LEMMA FilledIs ==
  ASSUME NEW c \in ColumnState, NEW path, NEW d, d = [c EXCEPT !.diffGroupTabs[path] = "shown", !.diffActivePath = None, !.diffActiveMode = path]
  PROVE  d = Column(c.tabPaths, c.activePath, c.dirtyByPath, c.diskModifiedWhileDirty, None, path,
                    c.diffModeByPath, [c.diffGroupTabs EXCEPT ![path] = "shown"], c.load, c.out)
  <1>1. PICK x1, x2, x3 :
          /\ x1 = [c.diffGroupTabs EXCEPT ![path] = "shown"]
          /\ x2 = None
          /\ x3 = path
    OBVIOUS
  <1>2. PICK e1 : e1 = [c EXCEPT !.diffGroupTabs = x1]
    OBVIOUS
  <1>3. e1 = Column(c.tabPaths, c.activePath, c.dirtyByPath, c.diskModifiedWhileDirty, c.diffActivePath, c.diffActiveMode,
                    c.diffModeByPath, x1, c.load, c.out)
    BY ColumnIs, <1>2 DEF Column
  <1>4. PICK e2 : e2 = [e1 EXCEPT !.diffActivePath = x2]
    OBVIOUS
  <1>5. e2 = Column(c.tabPaths, c.activePath, c.dirtyByPath, c.diskModifiedWhileDirty, x2, c.diffActiveMode,
                    c.diffModeByPath, x1, c.load, c.out)
    BY <1>3, <1>4 DEF Column
  <1>6. PICK e3 : e3 = [e2 EXCEPT !.diffActiveMode = x3]
    OBVIOUS
  <1>7. e3 = Column(c.tabPaths, c.activePath, c.dirtyByPath, c.diskModifiedWhileDirty, x2, x3,
                    c.diffModeByPath, x1, c.load, c.out)
    BY <1>5, <1>6 DEF Column
  <1>8. d = e3
    BY <1>1, <1>2, <1>4, <1>6
  <1> QED BY <1>1, <1>7, <1>8

-----------------------------------------------------------------------------
(* What the column says                                                    *)

LEMMA ColumnSays ==
  /\ \A path \in Files : \A type \in {"switchTab", "closeTab", "markSaved", "goToLine"} :
       [type |-> type, path |-> path] \in ToPage
  /\ \A path \in Files : \A text \in Texts : \A activate \in BOOLEAN :
       [type |-> "openFile", path |-> path, content |-> text, activate |-> activate] \in ToPage
  /\ \A path \in Modes : \A loading \in BOOLEAN :
       [type |-> "enterDiffGroup", path |-> path, loading |-> loading] \in ToPage
  /\ \A path \in Files : \A mode \in Modes :
       [type |-> "enterDiff", path |-> path, original |-> [path |-> path, mode |-> mode]] \in ToPage
  /\ [type |-> "exitDiff"] \in ToPage /\ [type |-> "getSelection"] \in ToPage
  /\ \A paths \in SUBSET Files : [type |-> "saveAll", skipPaths |-> paths] \in ToPage
  <1>1. \A path \in Files : \A mode \in Modes :
       [type |-> "enterDiff", path |-> path, original |-> [path |-> path, mode |-> mode]] \in ToPage
    <2> TAKE path \in Files
    <2> TAKE mode \in Modes
    <2>1. PICK o : o = [path |-> path, mode |-> mode]
      OBVIOUS
    <2>2. o \in Original /\ o.path = path
      BY <2>1 DEF Original
    <2>3. [type |-> "enterDiff", path |-> path, original |-> o] \in EnterFile
      BY <2>2 DEF EnterFile
    <2> QED BY <2>1, <2>3 DEF ToPage
  <1>2. \A path \in Files : \A type \in {"switchTab", "closeTab", "markSaved", "goToLine"} :
       [type |-> type, path |-> path] \in ToPage
    BY DEF ToPage, OfFile
  <1>3. \A path \in Files : \A text \in Texts : \A activate \in BOOLEAN :
       [type |-> "openFile", path |-> path, content |-> text, activate |-> activate] \in ToPage
    BY DEF ToPage, OpenFile
  <1>4. \A path \in Modes : \A loading \in BOOLEAN :
       [type |-> "enterDiffGroup", path |-> path, loading |-> loading] \in ToPage
    BY DEF ToPage, EnterGroup
  <1>5. [type |-> "exitDiff"] \in ToPage /\ [type |-> "getSelection"] \in ToPage
    BY DEF ToPage, Plain
  <1>6. \A paths \in SUBSET Files : [type |-> "saveAll", skipPaths |-> paths] \in ToPage
    BY DEF ToPage, SavesAll
  <1> QED BY <1>1, <1>2, <1>3, <1>4, <1>5, <1>6

LEMMA ActsSame ==
  ASSUME NEW alive, NEW fresh, NEW v, NEW before, NEW c, Acts(alive, fresh, v, before, c),
         NEW d \in ColumnState, Tabbed(d), d.out = c.out, c.dirtyByPath \subseteq d.dirtyByPath,
         d.tabPaths = c.tabPaths, d.activePath = c.activePath, d.diffActivePath = c.diffActivePath,
         d.diffActiveMode = c.diffActiveMode, d.diffGroupTabs = c.diffGroupTabs
  PROVE  Acts(alive, fresh, v, before, d)
  <1>1. PICK w : Acted(alive, fresh, v, before, c, w) /\ Agrees(alive, fresh, w, c)
    BY DEF Acts
  <1>2. Acted(alive, fresh, v, before, d, w)
    BY <1>1, ActedSame
  <1>3. Agrees(alive, fresh, w, d)
    BY <1>1, OpenIsSame DEF Agrees, Matches
  <1> QED BY <1>2, <1>3 DEF Acts

\* A git read is asked for.
LEMMA EnterDiffActs ==
  ASSUME NEW alive, NEW fresh, NEW v, NEW before, NEW c, Acts(alive, fresh, v, before, c),
         NEW path \in Paths, NEW mode \in Modes
  PROVE  /\ Acts(alive, fresh, v, before, EnterDiff(c, path, mode))
         /\ EnterDiff(c, path, mode).activePath = c.activePath
  <1>1. c \in ColumnState /\ Tabbed(c)
    BY DEF Acts, Acted
  <1>2. PICK l : l = [kind |-> "file", path |-> path, mode |-> mode]
    OBVIOUS
  <1>3. l \in Load /\ l.kind = "file"
    BY <1>2 DEF Load
  <1>4. PICK d : d = EnterDiff(c, path, mode)
    OBVIOUS
  <1>5. d = Column(c.tabPaths, c.activePath, c.dirtyByPath, c.diskModifiedWhileDirty, c.diffActivePath,
                   c.diffActiveMode, c.diffModeByPath, c.diffGroupTabs, l, c.out)
    BY <1>1, <1>2, <1>4, LoadSetIs DEF EnterDiff
  <1>6. d \in ColumnState
    BY <1>1, <1>3, <1>5, ColumnIs, ColumnTyped
  <1>7. Fields(d, c.tabPaths, c.activePath, c.dirtyByPath, c.diskModifiedWhileDirty, c.diffActivePath,
               c.diffActiveMode, c.diffModeByPath, c.diffGroupTabs, l, c.out)
    BY <1>5, FieldsOf
  <1>8. Tabbed(d)
    BY <1>1, <1>3, <1>7, OpenIsSame DEF Tabbed, Fields
  <1> QED BY <1>4, <1>6, <1>7, <1>8, ActsSame DEF Fields

\* The column notes which diff a tab has, or forgets it.
LEMMA ModesActs ==
  ASSUME NEW alive, NEW fresh, NEW v, NEW before, NEW c, Acts(alive, fresh, v, before, c),
         NEW modes \in Maps(Paths, Modes), NEW d, d = [c EXCEPT !.diffModeByPath = modes]
  PROVE  /\ Acts(alive, fresh, v, before, d)
         /\ d.tabPaths = c.tabPaths /\ d.activePath = c.activePath /\ d.load = c.load
         /\ d.diffActivePath = c.diffActivePath /\ d.diffActiveMode = c.diffActiveMode
  <1>1. c \in ColumnState /\ Tabbed(c)
    BY DEF Acts, Acted
  <1>5. d = Column(c.tabPaths, c.activePath, c.dirtyByPath, c.diskModifiedWhileDirty, c.diffActivePath,
                   c.diffActiveMode, modes, c.diffGroupTabs, c.load, c.out)
    BY <1>1, ModesSetIs
  <1>6. d \in ColumnState
    BY <1>1, <1>5, ColumnIs, ColumnTyped
  <1>7. Fields(d, c.tabPaths, c.activePath, c.dirtyByPath, c.diskModifiedWhileDirty, c.diffActivePath,
               c.diffActiveMode, modes, c.diffGroupTabs, c.load, c.out)
    BY <1>5, FieldsOf
  <1>8. Tabbed(d)
    BY <1>1, <1>7, TabbedSame DEF Fields
  <1> QED BY <1>6, <1>7, <1>8, ActsSame DEF Fields

LEMMA LoadDoneActs ==
  ASSUME NEW alive, NEW fresh, NEW v, NEW before, NEW c, Acts(alive, fresh, v, before, c),
         NEW d, d = [c EXCEPT !.load = NoLoad]
  PROVE  /\ Acts(alive, fresh, v, before, d)
         /\ d.tabPaths = c.tabPaths /\ d.activePath = c.activePath /\ d.load = NoLoad
         /\ d.diffActivePath = c.diffActivePath /\ d.diffActiveMode = c.diffActiveMode
         /\ d.diffModeByPath = c.diffModeByPath /\ d.diffGroupTabs = c.diffGroupTabs
  <1>1. c \in ColumnState /\ Tabbed(c)
    BY DEF Acts, Acted
  <1>2. PICK l : l = NoLoad
    OBVIOUS
  <1>5. d = Column(c.tabPaths, c.activePath, c.dirtyByPath, c.diskModifiedWhileDirty, c.diffActivePath,
                   c.diffActiveMode, c.diffModeByPath, c.diffGroupTabs, l, c.out)
    BY <1>1, <1>2, LoadSetIs
  <1>6. d \in ColumnState
    BY <1>1, <1>2, <1>5, ColumnIs, ColumnTyped, NoLoadIs
  <1>7. Fields(d, c.tabPaths, c.activePath, c.dirtyByPath, c.diskModifiedWhileDirty, c.diffActivePath,
               c.diffActiveMode, c.diffModeByPath, c.diffGroupTabs, l, c.out)
    BY <1>5, FieldsOf
  <1>8. Tabbed(d)
    BY <1>1, <1>2, <1>7, TabbedSame DEF Fields
  <1> QED BY <1>2, <1>6, <1>7, <1>8, ActsSame DEF Fields

\* What does not change what is shown may be said at any time.
LEMMA SayActs ==
  ASSUME NEW alive, NEW fresh \in BOOLEAN, NEW v, NEW before, NEW c, Acts(alive, fresh, v, before, c),
         NEW m \in ToPage,
         \A w \in Viewed : Agrees(alive, fresh, w, c) => Timely(alive, fresh, w, m) /\ Sees(fresh, w, m) = w
  PROVE  Acts(alive, fresh, v, before, Say(c, m))
  <1>1. PICK w : Acted(alive, fresh, v, before, c, w) /\ Agrees(alive, fresh, w, c)
    BY DEF Acts
  <1>2. c \in ColumnState /\ Tabbed(c) /\ w \in Viewed
    BY <1>1 DEF Acted, Agrees, Matches
  <1>3. PICK d : d = Say(c, m)
    OBVIOUS
  <1>4. /\ d \in ColumnState /\ d.out = Append(c.out, m)
        /\ d.tabPaths = c.tabPaths /\ d.activePath = c.activePath /\ d.dirtyByPath = c.dirtyByPath
        /\ d.diskModifiedWhileDirty = c.diskModifiedWhileDirty /\ d.diffActivePath = c.diffActivePath
        /\ d.diffActiveMode = c.diffActiveMode /\ d.diffGroupTabs = c.diffGroupTabs /\ d.load = c.load
    BY <1>2, <1>3, SaidIs
  <1>5. Tabbed(d)
    BY <1>2, <1>4, TabbedSame
  <1>6. Timely(alive, fresh, w, m) /\ Sees(fresh, w, m) = w
    BY <1>1, <1>2
  <1>7. Acted(alive, fresh, v, before, d, w)
    BY <1>1, <1>4, <1>5, <1>6, ActedMore
  <1>8. Agrees(alive, fresh, w, d)
    BY <1>1, <1>4, OpenIsSame DEF Agrees, Matches
  <1> QED BY <1>3, <1>7, <1>8 DEF Acts

-----------------------------------------------------------------------------
(* A tab to the front                                                      *)

LEMMA SendGroupActs ==
  ASSUME NEW alive \in BOOLEAN, NEW fresh \in BOOLEAN, fresh => alive, NEW v, NEW before, NEW c, Acting(alive, fresh, v, before, c),
         NEW path \in Modes, c.activePath = path
  PROVE  /\ Acts(alive, fresh, v, before, SendDiffGroup(c, path))
         /\ SendDiffGroup(c, path).activePath = path
  <1>1. PICK w : Acted(alive, fresh, v, before, c, w) /\ Matches(alive, w, c)
    BY DEF Acting
  <1>2. c \in ColumnState /\ Tabbed(c) /\ w \in Viewed
    BY <1>1 DEF Acted, Matches
  <1>3. PICK loading : loading = (c.diffGroupTabs[path] = "loading")
    OBVIOUS
  <1>4. loading \in BOOLEAN
    BY <1>3
  <1>5. PICK m : m = [type |-> "enterDiffGroup", path |-> path, loading |-> loading]
    OBVIOUS
  <1>6. m \in ToPage /\ m.type = "enterDiffGroup" /\ m.path = path /\ m.loading = loading
    BY <1>4, <1>5, ColumnSays
  <1>7. PICK d : d = Say(c, m)
    OBVIOUS
  <1>8. SendDiffGroup(c, path) = d
    BY <1>3, <1>5, <1>7 DEF SendDiffGroup
  <1>9. /\ d \in ColumnState /\ d.out = Append(c.out, m)
        /\ d.tabPaths = c.tabPaths /\ d.activePath = c.activePath /\ d.dirtyByPath = c.dirtyByPath
        /\ d.diskModifiedWhileDirty = c.diskModifiedWhileDirty /\ d.diffActivePath = c.diffActivePath
        /\ d.diffActiveMode = c.diffActiveMode /\ d.diffGroupTabs = c.diffGroupTabs /\ d.load = c.load
    BY <1>2, <1>6, <1>7, SaidIs
  <1>10. Tabbed(d)
    BY <1>2, <1>9, TabbedSame
  <1>11. Timely(alive, fresh, w, m)
    BY <1>6 DEF Timely
  <1>12. PICK u : u = Sees(fresh, w, m)
    OBVIOUS
  <1>13. Acted(alive, fresh, v, before, d, u) /\ u \in Viewed
    BY <1>1, <1>6, <1>9, <1>10, <1>11, <1>12, ActedMore
  <1>14. u = GroupIn(fresh, w, m)
    BY <1>6, <1>12 DEF Sees
  <1>15. /\ u.models = w.models /\ u.due = w.due
         /\ u.mode = (IF fresh THEN "group" ELSE "none")
         /\ fresh => u.drawn = [path |-> path, loading |-> loading]
    BY <1>6, <1>14 DEF GroupIn, NoDiffIn, Shown
  <1>16. Matches(alive, u, d)
    BY <1>1, <1>9, <1>13, <1>15, OpenIsSame DEF Matches
  <1>17. d.activePath \notin u.models
    <2>1. u.models \subseteq Files
      BY <1>13, ViewedIs
    <2> QED BY <1>9, <2>1, NamesApart
  <1>18. Agrees(alive, fresh, u, d)
    BY <1>3, <1>9, <1>15, <1>16, <1>17 DEF Agrees, IsGroup
  <1> QED BY <1>8, <1>9, <1>13, <1>18 DEF Acts

LEMMA ShowTabActs ==
  ASSUME NEW alive \in BOOLEAN, NEW fresh \in BOOLEAN, fresh => alive, NEW v, NEW before, NEW c, Acting(alive, fresh, v, before, c),
         NEW path, c.activePath = path, path # None
  PROVE  /\ Acts(alive, fresh, v, before, ShowTab(c, path))
         /\ ShowTab(c, path).activePath = path
  <1>1. PICK w : Acted(alive, fresh, v, before, c, w) /\ Matches(alive, w, c)
    BY DEF Acting
  <1>2. c \in ColumnState /\ Tabbed(c) /\ w \in Viewed
    BY <1>1 DEF Acted, Matches
  <1>3. path \in Paths
    BY <1>2, ColumnIs DEF Asked
  <1>4. CASE path \in Modes
    <2>1. ShowTab(c, path) = SendDiffGroup(c, path)
      BY <1>4 DEF ShowTab, IsGroup
    <2> QED BY <1>4, <2>1, SendGroupActs
  <1>5. CASE path \in Files
    <2>1. PICK m : m = [type |-> "switchTab", path |-> path]
      OBVIOUS
    <2>2. m \in ToPage /\ m.type = "switchTab" /\ m.path = path
      BY <1>5, <2>1, ColumnSays
    <2>3. PICK d : d = Say(c, m)
      OBVIOUS
    <2>4. /\ d \in ColumnState /\ d.out = Append(c.out, m)
          /\ d.tabPaths = c.tabPaths /\ d.activePath = c.activePath /\ d.dirtyByPath = c.dirtyByPath
          /\ d.diskModifiedWhileDirty = c.diskModifiedWhileDirty /\ d.diffActivePath = c.diffActivePath
          /\ d.diffActiveMode = c.diffActiveMode /\ d.diffGroupTabs = c.diffGroupTabs /\ d.load = c.load
          /\ d.diffModeByPath = c.diffModeByPath
      BY <1>2, <2>2, <2>3, SaidIs
    <2>5. Tabbed(d)
      BY <1>2, <2>4, TabbedSame
    <2>6. Timely(alive, fresh, w, m)
      BY <2>2 DEF Timely
    <2>7. PICK u : u = Sees(fresh, w, m)
      OBVIOUS
    <2>8. Acted(alive, fresh, v, before, d, u) /\ u \in Viewed
      BY <1>1, <2>2, <2>4, <2>5, <2>6, <2>7, ActedMore
    <2>9. u = IF path \in w.models THEN FileShown(w, path) ELSE w
      BY <2>2, <2>7 DEF Sees
    <2>10. alive => path \in w.models
      <3>1. c.tabPaths # <<>> => IsOpen(c, path)
        BY <1>2 DEF Tabbed
      <3>2. IsOpen(c, path)
        BY <1>2, <3>1 DEF Tabbed
      <3> QED BY <1>1, <1>5, <3>2 DEF Matches, OpenPaths
    <2>11. u.models = w.models /\ u.due = w.due
           /\ (path \in w.models => u.path = path /\ u.mode = "none")
      BY <2>9 DEF FileShown, NoDiffIn, Shown
    <2>12. Matches(alive, u, d)
      BY <1>1, <2>4, <2>8, <2>11, OpenIsSame DEF Matches
    <2>13. ~IsGroup(d.activePath)
      BY <1>5, <2>4, NamesApart DEF IsGroup
    <2>14. Agrees(alive, fresh, u, d)
      BY <2>4, <2>10, <2>11, <2>12, <2>13 DEF Agrees
    <2>15. Acts(alive, fresh, v, before, d)
      BY <2>8, <2>14 DEF Acts
    <2>16. ShowTab(c, path) = IF path \in DOMAIN c.diffModeByPath THEN EnterDiff(d, path, c.diffModeByPath[path]) ELSE d
      BY <1>5, <2>1, <2>3, NamesApart DEF ShowTab, IsGroup
    <2>17. CASE path \in DOMAIN c.diffModeByPath
      <3>1. c.diffModeByPath[path] \in Modes
        BY <1>2, <2>17, ColumnIs, MapIs
      <3> QED BY <1>3, <2>4, <2>15, <2>16, <2>17, <3>1, EnterDiffActs
    <2> QED BY <2>4, <2>15, <2>16, <2>17
  <1> QED BY <1>3, <1>4, <1>5 DEF Paths

\* The column forgets the diff shown, and another tab is active.
LEMMA LeavesTab ==
  ASSUME NEW alive \in BOOLEAN, NEW fresh \in BOOLEAN, fresh => alive, NEW v, NEW before, NEW c, Acting(alive, fresh, v, before, c),
         NEW path, IsOpen(c, path), path \in Paths, NEW d, d = [ForgetDiff(c) EXCEPT !.activePath = path]
  PROVE  Acting(alive, fresh, v, before, d) /\ d.activePath = path
  <1>1. PICK w : Acted(alive, fresh, v, before, c, w) /\ Matches(alive, w, c)
    BY DEF Acting
  <1>2. c \in ColumnState /\ Tabbed(c)
    BY <1>1 DEF Acted
  <1>3. PICK e : e = ForgetDiff(c)
    OBVIOUS
  <1>4. /\ e \in ColumnState /\ e.tabPaths = c.tabPaths /\ e.out = c.out /\ e.dirtyByPath = c.dirtyByPath
        /\ e.diskModifiedWhileDirty = c.diskModifiedWhileDirty /\ e.diffGroupTabs = c.diffGroupTabs
        /\ e.diffActivePath = None
    <2>1. CASE c.diffActivePath = None
      BY <1>2, <1>3, <2>1 DEF ForgetDiff
    <2>2. CASE c.diffActivePath # None
      <3>1. e = [c EXCEPT !.diffActivePath = None, !.diffActiveMode = None, !.load = NoLoad]
        BY <1>3, <2>2 DEF ForgetDiff
      <3>2. e = Column(c.tabPaths, c.activePath, c.dirtyByPath, c.diskModifiedWhileDirty, None, None,
                       c.diffModeByPath, c.diffGroupTabs, NoLoad, c.out)
        BY <1>2, <3>1, ForgottenIs
      <3>3. e \in ColumnState
        BY <1>2, <3>2, ColumnIs, ColumnTyped, NoLoadIs
      <3> QED BY <3>2, <3>3 DEF Column
    <2> QED BY <2>1, <2>2
  <1>5. d = Column(e.tabPaths, path, e.dirtyByPath, e.diskModifiedWhileDirty, e.diffActivePath,
                   e.diffActiveMode, e.diffModeByPath, e.diffGroupTabs, e.load, e.out)
    BY <1>3, <1>4, ActiveSetIs
  <1>6. d \in ColumnState
    <2>1. path \in Asked
      BY DEF Asked
    <2> QED BY <1>4, <1>5, <2>1, ColumnIs, ColumnTyped
  <1>7. Fields(d, e.tabPaths, path, e.dirtyByPath, e.diskModifiedWhileDirty, e.diffActivePath,
               e.diffActiveMode, e.diffModeByPath, e.diffGroupTabs, e.load, e.out)
    BY <1>5, FieldsOf
  <1>8. /\ d.tabPaths = c.tabPaths /\ d.activePath = path /\ d.out = c.out /\ d.dirtyByPath = c.dirtyByPath
        /\ d.diskModifiedWhileDirty = c.diskModifiedWhileDirty /\ d.diffGroupTabs = c.diffGroupTabs
        /\ d.diffActivePath = None
    BY <1>4, <1>7 DEF Fields
  <1>9. c.tabPaths # <<>>
    <2>1. c.tabPaths \in Seq(Paths)
      BY <1>2, ColumnIs
    <2> QED BY <2>1, EmptySeq DEF IsOpen, Contains
  <1>10. Tabbed(d)
    <2>1. OpenPaths(d) = OpenPaths(c) /\ \A p : IsOpen(d, p) = IsOpen(c, p)
      BY <1>8, OpenIsSame
    <2>2. IsOpen(d, d.activePath) /\ d.tabPaths # <<>>
      BY <1>8, <1>9, <2>1
    <2>3. /\ \A i, j \in 1..Len(d.tabPaths) : d.tabPaths[i] = d.tabPaths[j] => i = j
          /\ DOMAIN d.diffGroupTabs = {m \in Modes : IsOpen(d, m)}
          /\ d.diskModifiedWhileDirty \subseteq OpenPaths(d)
      BY <1>2, <1>8, <2>1 DEF Tabbed
    <2> QED BY <1>8, <2>2, <2>3 DEF Tabbed
  <1>11. Acted(alive, fresh, v, before, d, w)
    BY <1>1, <1>6, <1>8, <1>10, ActedSame
  <1>12. Matches(alive, w, d)
    BY <1>1, <1>8, OpenIsSame DEF Matches
  <1> QED BY <1>8, <1>11, <1>12 DEF Acting

LEMMA SwitchActs ==
  ASSUME NEW alive \in BOOLEAN, NEW fresh \in BOOLEAN, fresh => alive, NEW v, NEW before, NEW c, Acts(alive, fresh, v, before, c), NEW path \in Paths
  PROVE  /\ Acts(alive, fresh, v, before, SwitchTo(c, path))
         /\ IsOpen(c, path) => SwitchTo(c, path).activePath = path
  <1>1. CASE ~IsOpen(c, path) \/ c.activePath = path
    BY <1>1 DEF SwitchTo
  <1>2. CASE IsOpen(c, path) /\ c.activePath # path
    <2>1. PICK d : d = [ForgetDiff(c) EXCEPT !.activePath = path]
      OBVIOUS
    <2>2. Acting(alive, fresh, v, before, d) /\ d.activePath = path
      BY <1>2, <2>1, ActsActing, LeavesTab
    <2>3. SwitchTo(c, path) = ShowTab(d, path)
      BY <1>2, <2>1 DEF SwitchTo
    <2>4. path # None
      BY NamesApart
    <2>5. Acts(alive, fresh, v, before, ShowTab(d, path)) /\ ShowTab(d, path).activePath = path
      BY <2>2, <2>4, ShowTabActs
    <2> QED BY <2>3, <2>5
  <1> QED BY <1>1, <1>2
-----------------------------------------------------------------------------
(* Tabs come and go                                                        *)

Once(tabs) == \A i, j \in 1..Len(tabs) : tabs[i] = tabs[j] => i = j

\* A tab is added at the end.
Added(S, s, path, t) ==
    /\ t \in Seq(S) /\ t # <<>>
    /\ \A p : Contains(t, p) <=> Contains(s, p) \/ p = path
    /\ Once(s) /\ ~Contains(s, path) => Once(t)

LEMMA TabsAppend ==
  ASSUME NEW S, NEW s \in Seq(S), NEW path \in S, NEW t, t = Append(s, path)
  PROVE  Added(S, s, path, t)
  <1>1. PICK n : n = Len(s)
    OBVIOUS
  <1>2. /\ t \in Seq(S) /\ t # <<>> /\ Len(t) = n + 1 /\ n \in Nat
        /\ t[n + 1] = path /\ \A i \in 1..n : t[i] = s[i]
    BY <1>1, AppendProperties, LenProperties
  <1>3. 1..(n + 1) = 1..n \cup {n + 1}
    BY <1>2
  <1>4. ASSUME NEW p PROVE Contains(t, p) <=> Contains(s, p) \/ p = path
    BY <1>1, <1>2, <1>3 DEF Contains
  <1>5. Once(s) /\ ~Contains(s, path) => Once(t)
    BY <1>1, <1>2, <1>3 DEF Once, Contains
  <1> QED BY <1>2, <1>4, <1>5 DEF Added

\* The i-th tab is removed.
Removed(S, s, i, t) ==
    t \in Seq(S) /\ Once(t) /\ \A p : Contains(t, p) <=> Contains(s, p) /\ p # s[i]

LEMMA TabsRemove ==
  ASSUME NEW S, NEW s \in Seq(S), NEW i \in 1..Len(s), NEW t, t = RemoveAt(s, i), Once(s)
  PROVE  Removed(S, s, i, t)
  <1>1. PICK n : n = Len(s)
    OBVIOUS
  <1>2. n \in Nat /\ i \in 1..n /\ \A k \in 1..n : s[k] \in S
    BY <1>1, LenProperties, ElementOfSeq
  <1>3. PICK a, b : a = SubSeq(s, 1, i - 1) /\ b = SubSeq(s, i + 1, n)
    OBVIOUS
  <1>4. a \in Seq(S) /\ Len(a) = i - 1 /\ \A k \in 1..(i - 1) : a[k] = s[k]
    <2>1. \A k \in 1..(i - 1) : s[k] \in S
      BY <1>2
    <2>2. a \in Seq(S) /\ Len(a) = (IF 1 <= i - 1 THEN (i - 1) - 1 + 1 ELSE 0)
          /\ \A k \in 1..((i - 1) - 1 + 1) : a[k] = s[1 + k - 1]
      BY <1>2, <1>3, <2>1, SubSeqProperties
    <2> QED BY <1>2, <2>2
  <1>5. b \in Seq(S) /\ Len(b) = n - i /\ \A k \in 1..(n - i) : b[k] = s[i + k]
    <2>1. \A k \in (i + 1)..n : s[k] \in S
      BY <1>2
    <2>2. b \in Seq(S) /\ Len(b) = (IF i + 1 <= n THEN n - (i + 1) + 1 ELSE 0)
          /\ \A k \in 1..(n - (i + 1) + 1) : b[k] = s[(i + 1) + k - 1]
      BY <1>2, <1>3, <2>1, SubSeqProperties
    <2> QED BY <1>2, <2>2
  <1>6. t = a \o b
    BY <1>1, <1>3 DEF RemoveAt
  <1>7. t \in Seq(S) /\ Len(t) = n - 1
        /\ \A k \in 1..(n - 1) : t[k] = IF k <= i - 1 THEN a[k] ELSE b[k - (i - 1)]
    <2>1. Len(a) + Len(b) = n - 1
      BY <1>2, <1>4, <1>5
    <2>2. PICK x, y : x = Len(a) /\ y = Len(b)
      OBVIOUS
    <2>3. t \in Seq(S) /\ Len(t) = x + y /\ \A k \in 1..(x + y) : t[k] = IF k <= x THEN a[k] ELSE b[k - x]
      <3>1. a \in Seq(S) /\ b \in Seq(S) /\ x \in Nat /\ y \in Nat
        BY <1>4, <1>5, <2>2, LenProperties
      <3> QED BY <1>6, <2>2, <3>1, ConcatProperties
    <2>4. x = i - 1 /\ x + y = n - 1
      BY <1>4, <2>1, <2>2
    <2> QED BY <2>3, <2>4
  <1>8. \A k \in 1..(n - 1) : t[k] = IF k < i THEN s[k] ELSE s[k + 1]
    <2> TAKE k \in 1..(n - 1)
    <2>1. CASE k < i
      <3>1. k \in 1..(i - 1) /\ k <= i - 1
        BY <1>2, <2>1
      <3> QED BY <1>4, <1>7, <2>1, <3>1
    <2>2. CASE ~(k < i)
      <3>1. PICK j : j = k - (i - 1)
        OBVIOUS
      <3>2. j \in 1..(n - i) /\ ~(k <= i - 1) /\ i + j = k + 1
        BY <1>2, <2>2, <3>1
      <3>3. t[k] = b[j]
        BY <1>7, <3>1, <3>2
      <3> QED BY <1>5, <2>2, <3>2, <3>3
    <2> QED BY <2>1, <2>2
  <1>9. Once(t)
    <2> SUFFICES ASSUME NEW k \in 1..(n - 1), NEW l \in 1..(n - 1), t[k] = t[l] PROVE k = l
      BY <1>7 DEF Once
    <2>1. PICK x, y : x = (IF k < i THEN k ELSE k + 1) /\ y = (IF l < i THEN l ELSE l + 1)
      OBVIOUS
    <2>2. x \in 1..n /\ y \in 1..n /\ (x = y => k = l)
      BY <1>2, <2>1
    <2>3. t[k] = s[x] /\ t[l] = s[y]
      BY <1>8, <2>1
    <2> QED BY <1>1, <2>2, <2>3 DEF Once
  <1>10. ASSUME NEW p PROVE Contains(t, p) <=> Contains(s, p) /\ p # s[i]
    <2>1. ASSUME Contains(t, p) PROVE Contains(s, p) /\ p # s[i]
      <3>1. PICK k \in 1..(n - 1) : t[k] = p
        BY <1>7, <2>1 DEF Contains
      <3>2. PICK x : x = IF k < i THEN k ELSE k + 1
        OBVIOUS
      <3>3. x \in 1..n /\ x # i /\ s[x] = p
        BY <1>2, <1>8, <3>1, <3>2
      <3> QED BY <1>1, <1>2, <3>3 DEF Contains, Once
    <2>2. ASSUME Contains(s, p), p # s[i] PROVE Contains(t, p)
      <3>1. PICK x \in 1..n : s[x] = p
        BY <1>1, <2>2 DEF Contains
      <3>2. x # i
        BY <2>2, <3>1
      <3>3. PICK k : k = IF x < i THEN x ELSE x - 1
        OBVIOUS
      <3>4. k \in 1..(n - 1) /\ x = (IF k < i THEN k ELSE k + 1)
        BY <1>2, <3>2, <3>3
      <3>5. t[k] = p
        BY <1>8, <3>1, <3>4
      <3> QED BY <1>7, <3>4, <3>5 DEF Contains
    <2> QED BY <2>1, <2>2
  <1> QED BY <1>7, <1>9, <1>10 DEF Removed

LEMMA NeighbourIs ==
  ASSUME NEW S, NEW t \in Seq(S), NEW i \in Nat \ {0}, NEW n, n = Neighbour(t, i)
  PROVE  /\ t = <<>> => n = None
         /\ t # <<>> => Contains(t, n) /\ n \in S
  <1>1. Len(t) \in Nat /\ (t # <<>> => Len(t) # 0) /\ Len(<<>>) = 0 /\ \A k \in 1..Len(t) : t[k] \in S
    BY LenProperties, EmptySeq, ElementOfSeq
  <1>2. CASE t = <<>>
    BY <1>1, <1>2 DEF Neighbour
  <1>3. CASE t # <<>>
    <2>1. PICK k : k = IF i <= Len(t) THEN i ELSE Len(t)
      OBVIOUS
    <2>2. k \in 1..Len(t)
      BY <1>1, <1>3, <2>1
    <2>3. n = t[k]
      BY <1>3, <2>1 DEF Neighbour
    <2> QED BY <1>1, <1>3, <2>2, <2>3 DEF Contains
  <1> QED BY <1>2, <1>3

-----------------------------------------------------------------------------
(* A file opens                                                            *)

\* The texts on disk are texts.
LEMMA OpenActs ==
  ASSUME NEW alive \in BOOLEAN, NEW fresh \in BOOLEAN, fresh => alive, NEW v, NEW before, NEW c, Acting(alive, fresh, v, before, c),
         NEW path \in Files, ~IsOpen(c, path), disk[path] \in Texts
  PROVE  Acts(alive, fresh, v, before, OpenBuffer(c, path))
  <1>1. PICK w : Acted(alive, fresh, v, before, c, w) /\ Matches(alive, w, c)
    BY DEF Acting
  <1>2. c \in ColumnState /\ Tabbed(c) /\ w \in Viewed
    BY <1>1 DEF Acted, Matches
  <1>3. PICK e : e = [c EXCEPT !.tabPaths = Append(@, path), !.dirtyByPath = @ \ {path},
                               !.diskModifiedWhileDirty = @ \ {path}, !.activePath = path]
    OBVIOUS
  <1>4. PICK tabs, dirty, changed : /\ tabs = Append(c.tabPaths, path) /\ dirty = c.dirtyByPath \ {path}
                                    /\ changed = c.diskModifiedWhileDirty \ {path}
    OBVIOUS
  <1>5. e = Column(tabs, path, dirty, changed, c.diffActivePath,
                   c.diffActiveMode, c.diffModeByPath, c.diffGroupTabs, c.load, c.out)
    BY <1>2, <1>3, <1>4, OpenedTabIs
  <1>6. c.tabPaths \in Seq(Paths) /\ path \in Paths /\ Once(c.tabPaths) /\ ~Contains(c.tabPaths, path)
    BY <1>2, ColumnIs DEF Tabbed, Once, IsOpen, Paths
  <1>7. /\ tabs \in Seq(Paths) /\ tabs # <<>> /\ Once(tabs)
        /\ \A p : Contains(tabs, p) <=> Contains(c.tabPaths, p) \/ p = path
    <2>1. PICK old : old = c.tabPaths
      OBVIOUS
    <2>2. old \in Seq(Paths) /\ tabs = Append(old, path) /\ Once(old) /\ ~Contains(old, path)
      BY <1>4, <1>6, <2>1
    <2>3. Added(Paths, old, path, tabs)
      BY <1>6, <2>2, TabsAppend
    <2> QED BY <1>6, <2>1, <2>3 DEF Added
  <1>8. e \in ColumnState
    <2>1. path \in Asked /\ dirty \in SUBSET Files /\ changed \in SUBSET Files
      BY <1>2, <1>4, ColumnIs DEF Asked, Paths
    <2> QED BY <1>2, <1>5, <1>7, <2>1, ColumnIs, ColumnTyped
  <1>9. Fields(e, tabs, path, dirty, changed, c.diffActivePath,
               c.diffActiveMode, c.diffModeByPath, c.diffGroupTabs, c.load, c.out)
    BY <1>5, FieldsOf
  <1>10. /\ \A p : IsOpen(e, p) <=> IsOpen(c, p) \/ p = path
         /\ OpenPaths(e) = OpenPaths(c) \cup {path}
    BY <1>7, <1>9 DEF IsOpen, OpenPaths, Fields
  <1>11. Tabbed(e)
    <2>1. \A m \in Modes : IsOpen(e, m) <=> IsOpen(c, m)
      BY <1>10, NamesApart
    <2>2. DOMAIN e.diffGroupTabs = {m \in Modes : IsOpen(e, m)}
      BY <1>2, <1>9, <2>1 DEF Tabbed, Fields
    <2>3. e.diffActivePath \in OpenPaths(e) \cup {None} /\ e.diskModifiedWhileDirty \subseteq OpenPaths(e)
      BY <1>2, <1>4, <1>9, <1>10 DEF Tabbed, Fields
    <2>4. e.load # NoLoad /\ e.load.kind = "group" => e.diffActivePath = None
      BY <1>2, <1>9 DEF Tabbed, Fields
    <2>5. IsOpen(e, e.activePath) /\ e.tabPaths # <<>> /\ Once(e.tabPaths)
      BY <1>7, <1>9, <1>10 DEF Fields
    <2> QED BY <2>2, <2>3, <2>4, <2>5 DEF Tabbed, Once
  <1>12. PICK m : m = [type |-> "openFile", path |-> path, content |-> disk[path], activate |-> TRUE]
    OBVIOUS
  <1>13. m \in ToPage /\ m.type = "openFile" /\ m.path = path /\ m.activate
    BY <1>12, ColumnSays
  <1>14. PICK d : d = Say(e, m)
    OBVIOUS
  <1>15. OpenBuffer(c, path) = d
    BY <1>3, <1>12, <1>14 DEF OpenBuffer
  <1>16. /\ d \in ColumnState /\ d.out = Append(e.out, m)
         /\ d.tabPaths = e.tabPaths /\ d.activePath = e.activePath /\ d.dirtyByPath = e.dirtyByPath
         /\ d.diskModifiedWhileDirty = e.diskModifiedWhileDirty /\ d.diffActivePath = e.diffActivePath
         /\ d.diffActiveMode = e.diffActiveMode /\ d.diffGroupTabs = e.diffGroupTabs /\ d.load = e.load
    BY <1>8, <1>13, <1>14, SaidIs
  <1>17. Tabbed(d)
    BY <1>11, <1>16, TabbedSame
  <1>18. Timely(alive, fresh, w, m)
    BY <1>13 DEF Timely
  <1>19. d.out = Append(c.out, m) /\ \A p \in c.dirtyByPath : p \in d.dirtyByPath \/ m \in Resets(p)
    BY <1>4, <1>9, <1>13, <1>16 DEF Fields, Resets
  <1>20. PICK u : u = Sees(fresh, w, m)
    OBVIOUS
  <1>21. Acted(alive, fresh, v, before, d, u) /\ u \in Viewed
    BY <1>1, <1>13, <1>16, <1>17, <1>18, <1>19, <1>20, ActedMore
  <1>22. u = FileShown(Opened(w, path), path)
    BY <1>13, <1>20 DEF Sees
  <1>23. u.models = w.models \cup {path} /\ u.due = w.due /\ u.path = path /\ u.mode = "none"
    BY <1>22 DEF FileShown, Opened, Shown
  <1>24. OpenPaths(d) = OpenPaths(c) \cup {path}
    BY <1>10, <1>16, OpenIsSame
  <1>25. Matches(alive, u, d)
    BY <1>1, <1>21, <1>23, <1>24 DEF Matches
  <1>26. ~IsGroup(d.activePath) /\ d.activePath = path
    BY <1>9, <1>16, NamesApart DEF IsGroup, Fields
  <1>27. Agrees(alive, fresh, u, d)
    BY <1>23, <1>25, <1>26 DEF Agrees
  <1> QED BY <1>15, <1>21, <1>27 DEF Acts
-----------------------------------------------------------------------------
(* A tab closes                                                            *)

LEMMA StopIs ==
  ASSUME NEW c \in ColumnState, NEW d, d = StopDiff(c)
  PROVE  /\ d \in ColumnState /\ d.out = Append(c.out, [type |-> "exitDiff"])
         /\ d.tabPaths = c.tabPaths /\ d.activePath = c.activePath /\ d.dirtyByPath = c.dirtyByPath
         /\ d.diskModifiedWhileDirty = c.diskModifiedWhileDirty /\ d.diffGroupTabs = c.diffGroupTabs
         /\ d.diffModeByPath = c.diffModeByPath
         /\ d.diffActivePath = None /\ d.diffActiveMode = None /\ d.load = NoLoad
  <1>1. PICK e : e = [c EXCEPT !.load = NoLoad, !.diffActivePath = None, !.diffActiveMode = None]
    OBVIOUS
  <1>2. e = Column(c.tabPaths, c.activePath, c.dirtyByPath, c.diskModifiedWhileDirty, None, None,
                   c.diffModeByPath, c.diffGroupTabs, NoLoad, c.out)
    BY <1>1, StoppedIs
  <1>3. e \in ColumnState
    BY <1>2, ColumnIs, ColumnTyped, NoLoadIs
  <1>4. Fields(e, c.tabPaths, c.activePath, c.dirtyByPath, c.diskModifiedWhileDirty, None, None,
               c.diffModeByPath, c.diffGroupTabs, NoLoad, c.out)
    BY <1>2, FieldsOf
  <1>5. PICK m : m = [type |-> "exitDiff"]
    OBVIOUS
  <1>6. m \in ToPage
    BY <1>5, ColumnSays
  <1>7. d = Say(e, m)
    BY <1>1, <1>5 DEF StopDiff
  <1> QED BY <1>3, <1>4, <1>5, <1>6, <1>7, SaidIs DEF Fields

LEMMA StopActs ==
  ASSUME NEW alive \in BOOLEAN, NEW fresh \in BOOLEAN, fresh => alive, NEW v, NEW before, NEW c, Acts(alive, fresh, v, before, c), fresh => ~IsGroup(c.activePath)
  PROVE  Acts(alive, fresh, v, before, StopDiff(c))
  <1>1. PICK w : Acted(alive, fresh, v, before, c, w) /\ Agrees(alive, fresh, w, c)
    BY DEF Acts
  <1>2. c \in ColumnState /\ Tabbed(c) /\ w \in Viewed
    BY <1>1 DEF Acted, Agrees, Matches
  <1>3. PICK d : d = StopDiff(c)
    OBVIOUS
  <1>4. PICK m : m = [type |-> "exitDiff"]
    OBVIOUS
  <1>5. m \in ToPage /\ m.type = "exitDiff"
    BY <1>4, ColumnSays
  <1>6. /\ d \in ColumnState /\ d.out = Append(c.out, m)
        /\ d.tabPaths = c.tabPaths /\ d.activePath = c.activePath /\ d.dirtyByPath = c.dirtyByPath
        /\ d.diskModifiedWhileDirty = c.diskModifiedWhileDirty /\ d.diffGroupTabs = c.diffGroupTabs
        /\ d.diffActivePath = None /\ d.load = NoLoad
    BY <1>2, <1>3, <1>4, StopIs
  <1>7. Tabbed(d)
    BY <1>2, <1>6, OpenIsSame DEF Tabbed
  <1>8. Timely(alive, fresh, w, m)
    BY <1>5 DEF Timely
  <1>9. PICK u : u = Sees(fresh, w, m)
    OBVIOUS
  <1>10. Acted(alive, fresh, v, before, d, u) /\ u \in Viewed
    BY <1>1, <1>5, <1>6, <1>7, <1>8, <1>9, ActedMore
  <1>11. u = NoDiffIn(w)
    BY <1>5, <1>9 DEF Sees
  <1>12. u.models = w.models /\ u.due = w.due /\ u.path = w.path /\ u.mode = "none"
    BY <1>11 DEF NoDiffIn, Shown
  <1>13. Matches(alive, u, d)
    BY <1>1, <1>6, <1>10, <1>12, OpenIsSame DEF Matches, Agrees
  <1>14. Agrees(alive, fresh, u, d)
    BY <1>1, <1>6, <1>12, <1>13 DEF Agrees
  <1> QED BY <1>3, <1>10, <1>14 DEF Acts

\* What the column said in the midst of closing a tab; of its file nothing yet.
Said(alive, fresh, v, before, path, c, w) ==
    /\ c \in ColumnState /\ Follows(alive, fresh, v, c.out, w)
    /\ \A p \in before.dirtyByPath \ {path} : p \in c.dirtyByPath \/ ~NoneIn(c.out, Resets(p))

LEMMA SaidMore ==
  ASSUME NEW alive, NEW fresh \in BOOLEAN, NEW v, NEW before, NEW path, NEW c, NEW w,
         Said(alive, fresh, v, before, path, c, w),
         NEW d \in ColumnState, NEW m \in ToPage, d.out = Append(c.out, m), d.dirtyByPath = c.dirtyByPath,
         Timely(alive, fresh, w, m)
  PROVE  /\ Said(alive, fresh, v, before, path, d, Sees(fresh, w, m)) /\ Sees(fresh, w, m) \in Viewed
         /\ m \in Resets(path) => ~NoneIn(d.out, Resets(path))
  <1>1. PICK old, out : old = c.out /\ out = d.out
    OBVIOUS
  <1>2. old \in Seq(ToPage) /\ out = Append(old, m) /\ Follows(alive, fresh, v, old, w)
    BY <1>1, ColumnIs DEF Said
  <1>3. Follows(alive, fresh, v, out, Sees(fresh, w, m)) /\ Sees(fresh, w, m) \in Viewed
    BY <1>2, OneMoreFollows
  <1>4. ASSUME NEW p PROVE /\ ~NoneIn(old, Resets(p)) => ~NoneIn(out, Resets(p))
                           /\ m \in Resets(p) => ~NoneIn(out, Resets(p))
    BY <1>2, LastInMore
  <1>5. Said(alive, fresh, v, before, path, d, Sees(fresh, w, m))
    BY <1>1, <1>3, <1>4 DEF Said
  <1> QED BY <1>1, <1>3, <1>4, <1>5

LEMMA SaidEnds ==
  ASSUME NEW alive, NEW fresh, NEW v, NEW before, NEW path, NEW c, NEW w,
         Said(alive, fresh, v, before, path, c, w), Tabbed(c),
         path \in before.dirtyByPath => ~NoneIn(c.out, Resets(path))
  PROVE  Acted(alive, fresh, v, before, c, w)
  BY DEF Said, Acted, Keeps

\* The tab is gone, and what was shown of it.
GoneIs(alive, fresh, v, before, path, c, d, u) ==
    /\ Said(alive, fresh, v, before, path, d, u)
    /\ path \in before.dirtyByPath => ~NoneIn(d.out, Resets(path))
    /\ \A p : IsOpen(d, p) <=> IsOpen(c, p) /\ p # path
    /\ Once(d.tabPaths) /\ d.tabPaths \in Seq(Paths) /\ d.activePath = c.activePath
    /\ d.diskModifiedWhileDirty = c.diskModifiedWhileDirty \ {path}
    /\ d.diffGroupTabs = Without(c.diffGroupTabs, path)
    /\ d.diffActivePath = (IF c.diffActivePath = path THEN None ELSE c.diffActivePath)
    /\ c.diffActivePath # path => d.diffActiveMode = c.diffActiveMode
    /\ d.load \in {c.load, NoLoad}

GoneFrom(path, c, w, u) ==
    /\ u \in Viewed /\ u.models = w.models \ {path} /\ u.due = w.due
    /\ u.path = (IF w.path = path THEN None ELSE w.path)
    /\ IF c.diffActivePath = path \/ (IsGroup(path) /\ c.activePath = path) THEN u.mode = "none"
       ELSE u.mode = w.mode /\ u.original = w.original /\ u.drawn = w.drawn

Goes(alive, fresh, v, before, path, c, w, d) ==
    \E u : GoneIs(alive, fresh, v, before, path, c, d, u) /\ GoneFrom(path, c, w, u)
IsActive(c, path, wasActive) == wasActive = (c.activePath = path)

\* The steps of closing a tab: it is removed, its diff is stopped, the page is told.
Removes(c, path, i, d) == d = [c EXCEPT
     !.tabPaths = RemoveAt(@, i),
     !.load = IF IsGroup(path) THEN NoLoad ELSE @,
     !.dirtyByPath = @ \ {path}, !.diskModifiedWhileDirty = @ \ {path},
     !.diffModeByPath = Without(@, path), !.diffGroupTabs = Without(@, path)]
StopsDiff(c, e, path, d) == d = IF c.diffActivePath = path THEN StopDiff(e) ELSE e
Tells(e, path, wasActive, d) ==
    d = IF ~IsGroup(path) THEN Say(e, [type |-> "closeTab", path |-> path])
        ELSE IF wasActive THEN Say(e, [type |-> "exitDiff"])
        ELSE e
Unseen(w, path, wasActive, u) ==
    u = IF ~IsGroup(path) THEN ClosedIn(w, path) ELSE IF wasActive THEN NoDiffIn(w) ELSE w

RemovedTo(alive, fresh, v, before, c, w, path, i, d) ==
    /\ Said(alive, fresh, v, before, path, d, w)
    /\ d.tabPaths = RemoveAt(c.tabPaths, i) /\ d.tabPaths \in Seq(Paths)
    /\ \A p : IsOpen(d, p) <=> IsOpen(c, p) /\ p # path
    /\ Once(d.tabPaths) /\ d.activePath = c.activePath
    /\ d.diskModifiedWhileDirty = c.diskModifiedWhileDirty \ {path}
    /\ d.diffGroupTabs = Without(c.diffGroupTabs, path)
    /\ d.diffActivePath = c.diffActivePath /\ d.diffActiveMode = c.diffActiveMode
    /\ d.load \in {c.load, NoLoad} /\ d.out = c.out
ToldOf(alive, fresh, v, before, path, e, d, u) ==
    /\ Said(alive, fresh, v, before, path, d, u) /\ u \in Viewed /\ d \in ColumnState
    /\ path \in before.dirtyByPath => ~NoneIn(d.out, Resets(path))
    /\ d.tabPaths = e.tabPaths /\ d.activePath = e.activePath
    /\ d.diskModifiedWhileDirty = e.diskModifiedWhileDirty /\ d.diffGroupTabs = e.diffGroupTabs
    /\ d.diffActivePath = e.diffActivePath /\ d.diffActiveMode = e.diffActiveMode /\ d.load = e.load

LEMMA RemovedIs ==
  ASSUME NEW alive, NEW fresh \in BOOLEAN, NEW v, NEW before, NEW c, NEW w,
         Acted(alive, fresh, v, before, c, w), w \in Viewed,
         NEW path \in Paths, NEW i \in 1..Len(c.tabPaths), c.tabPaths[i] = path,
         NEW d, Removes(c, path, i, d)
  PROVE  RemovedTo(alive, fresh, v, before, c, w, path, i, d)
  <1>1. c \in ColumnState /\ Tabbed(c) /\ Follows(alive, fresh, v, c.out, w) /\ Keeps(before, c)
    BY DEF Acted
  <1>2. PICK tabs, load, dirty, changed, modes, groups :
          /\ tabs = RemoveAt(c.tabPaths, i) /\ load = (IF IsGroup(path) THEN NoLoad ELSE c.load)
          /\ dirty = c.dirtyByPath \ {path} /\ changed = c.diskModifiedWhileDirty \ {path}
          /\ modes = Without(c.diffModeByPath, path) /\ groups = Without(c.diffGroupTabs, path)
    OBVIOUS
  <1>3. d = Column(tabs, c.activePath, dirty, changed, c.diffActivePath, c.diffActiveMode, modes, groups,
                   load, c.out)
    BY <1>1, <1>2, ClosedTabIs DEF Removes
  <1>4. Removed(Paths, c.tabPaths, i, tabs)
    <2>1. PICK old : old = c.tabPaths
      OBVIOUS
    <2>2. old \in Seq(Paths) /\ Once(old) /\ i \in 1..Len(old) /\ tabs = RemoveAt(old, i)
      BY <1>1, <1>2, <2>1, ColumnIs DEF Tabbed, Once
    <2> QED BY <2>1, <2>2, TabsRemove
  <1>5. tabs \in Seq(Paths) /\ Once(tabs) /\ \A p : Contains(tabs, p) <=> Contains(c.tabPaths, p) /\ p # path
    BY <1>4 DEF Removed
  <1>6. dirty \in SUBSET Files /\ changed \in SUBSET Files /\ load \in Load /\ load \in {c.load, NoLoad}
    BY <1>1, <1>2, ColumnIs, NoLoadIs
  <1>7. modes \in Maps(Paths, Modes) /\ groups \in Maps(Modes, {"loading", "shown"})
    <2>1. PICK f, g : f = c.diffModeByPath /\ g = c.diffGroupTabs
      OBVIOUS
    <2>2. f \in Maps(Paths, Modes) /\ g \in Maps(Modes, {"loading", "shown"})
      BY <1>1, <2>1, ColumnIs
    <2>3. modes = Without(f, path) /\ groups = Without(g, path)
      BY <1>2, <2>1
    <2> QED BY <2>2, <2>3, WithoutTyped
  <1>8. d \in ColumnState
    BY <1>1, <1>3, <1>5, <1>6, <1>7, ColumnIs, ColumnTyped
  <1>9. Fields(d, tabs, c.activePath, dirty, changed, c.diffActivePath, c.diffActiveMode, modes, groups,
               load, c.out)
    BY <1>3, FieldsOf
  <1>10. Said(alive, fresh, v, before, path, d, w)
    BY <1>1, <1>2, <1>8, <1>9 DEF Said, Fields, Keeps
  <1>11. \A p : IsOpen(d, p) <=> IsOpen(c, p) /\ p # path
    BY <1>5, <1>9 DEF IsOpen, Fields
  <1> QED BY <1>2, <1>5, <1>6, <1>9, <1>10, <1>11 DEF Fields, RemovedTo

LEMMA OutOfDiffIs ==
  ASSUME NEW alive, NEW fresh \in BOOLEAN, NEW v, NEW before, NEW c, NEW w, w \in Viewed,
         NEW path, NEW e, Said(alive, fresh, v, before, path, e, w),
         NEW d, StopsDiff(c, e, path, d),
         NEW u, u = IF c.diffActivePath = path THEN NoDiffIn(w) ELSE w,
         e.diffActivePath = c.diffActivePath
  PROVE  /\ Said(alive, fresh, v, before, path, d, u) /\ u \in Viewed /\ d \in ColumnState
         /\ d.tabPaths = e.tabPaths /\ d.activePath = e.activePath /\ d.dirtyByPath = e.dirtyByPath
         /\ d.diskModifiedWhileDirty = e.diskModifiedWhileDirty /\ d.diffGroupTabs = e.diffGroupTabs
         /\ d.diffActivePath = (IF c.diffActivePath = path THEN None ELSE c.diffActivePath)
         /\ c.diffActivePath # path => d.diffActiveMode = e.diffActiveMode
         /\ d.load \in {e.load, NoLoad}
  <1>1. e \in ColumnState
    BY DEF Said
  <1>2. CASE c.diffActivePath # path
    BY <1>1, <1>2 DEF StopsDiff
  <1>3. CASE c.diffActivePath = path
    <2>1. PICK m : m = [type |-> "exitDiff"]
      OBVIOUS
    <2>2. m \in ToPage /\ m.type = "exitDiff"
      BY <2>1, ColumnSays
    <2>3. d = StopDiff(e)
      BY <1>3 DEF StopsDiff
    <2>4. /\ d \in ColumnState /\ d.out = Append(e.out, m)
          /\ d.tabPaths = e.tabPaths /\ d.activePath = e.activePath /\ d.dirtyByPath = e.dirtyByPath
          /\ d.diskModifiedWhileDirty = e.diskModifiedWhileDirty /\ d.diffGroupTabs = e.diffGroupTabs
          /\ d.diffActivePath = None /\ d.load = NoLoad
      BY <1>1, <2>1, <2>3, StopIs
    <2>5. Timely(alive, fresh, w, m) /\ Sees(fresh, w, m) = u
      BY <1>3, <2>2 DEF Timely, Sees
    <2>6. Said(alive, fresh, v, before, path, d, u) /\ u \in Viewed
      BY <2>2, <2>4, <2>5, SaidMore
    <2> QED BY <1>3, <2>4, <2>6
  <1> QED BY <1>2, <1>3

\* The column tells of the end of the tab.
LEMMA ToldIs ==
  ASSUME NEW alive \in BOOLEAN, NEW fresh \in BOOLEAN, NEW v, NEW before, NEW w \in Viewed,
         NEW path \in Paths, NEW e, Said(alive, fresh, v, before, path, e, w), NEW wasActive \in BOOLEAN,
         alive => ~(w.mode = "file" /\ w.path = path),
         before.dirtyByPath \in SUBSET Files,
         NEW d, Tells(e, path, wasActive, d), NEW u, Unseen(w, path, wasActive, u)
  PROVE  ToldOf(alive, fresh, v, before, path, e, d, u)
  <1>0. e \in ColumnState
    BY DEF Said
  <1>1. CASE ~IsGroup(path)
    <2>1. PICK m : m = [type |-> "closeTab", path |-> path]
      OBVIOUS
    <2>2. path \in Files
      BY <1>1, NamesApart DEF IsGroup
    <2>3. m \in ToPage /\ m.type = "closeTab" /\ m.path = path
      BY <2>1, <2>2, ColumnSays
    <2>4. m \in Resets(path)
      BY <2>3 DEF Resets
    <2>5. d = Say(e, m)
      BY <1>1, <2>1 DEF Tells
    <2>6. /\ d \in ColumnState /\ d.out = Append(e.out, m)
          /\ d.tabPaths = e.tabPaths /\ d.activePath = e.activePath /\ d.dirtyByPath = e.dirtyByPath
          /\ d.diskModifiedWhileDirty = e.diskModifiedWhileDirty /\ d.diffGroupTabs = e.diffGroupTabs
          /\ d.diffActivePath = e.diffActivePath /\ d.diffActiveMode = e.diffActiveMode /\ d.load = e.load
      BY <1>0, <2>3, <2>5, SaidIs
    <2>7. Timely(alive, fresh, w, m) /\ Sees(fresh, w, m) = u
      BY <1>1, <2>3 DEF Timely, Sees, Unseen
    <2>8. d \in ColumnState /\ m \in ToPage /\ d.out = Append(e.out, m) /\ d.dirtyByPath = e.dirtyByPath
      BY <2>3, <2>6
    <2>9. /\ Said(alive, fresh, v, before, path, d, Sees(fresh, w, m)) /\ Sees(fresh, w, m) \in Viewed
          /\ ~NoneIn(d.out, Resets(path))
      BY <2>4, <2>7, <2>8, SaidMore
    <2>10. Said(alive, fresh, v, before, path, d, u) /\ u \in Viewed /\ ~NoneIn(d.out, Resets(path))
      BY <2>7, <2>9
    <2> QED BY <2>6, <2>10 DEF ToldOf
  <1>2. CASE IsGroup(path) /\ wasActive
    <2>1. PICK m : m = [type |-> "exitDiff"]
      OBVIOUS
    <2>2. m \in ToPage /\ m.type = "exitDiff"
      BY <2>1, ColumnSays
    <2>3. d = Say(e, m)
      BY <1>2, <2>1 DEF Tells
    <2>4. /\ d \in ColumnState /\ d.out = Append(e.out, m)
          /\ d.tabPaths = e.tabPaths /\ d.activePath = e.activePath /\ d.dirtyByPath = e.dirtyByPath
          /\ d.diskModifiedWhileDirty = e.diskModifiedWhileDirty /\ d.diffGroupTabs = e.diffGroupTabs
          /\ d.diffActivePath = e.diffActivePath /\ d.diffActiveMode = e.diffActiveMode /\ d.load = e.load
      BY <1>0, <2>2, <2>3, SaidIs
    <2>5. Timely(alive, fresh, w, m) /\ Sees(fresh, w, m) = u
      BY <1>2, <2>2 DEF Timely, Sees, Unseen
    <2>6. Said(alive, fresh, v, before, path, d, u) /\ u \in Viewed
      <3>1. d \in ColumnState /\ m \in ToPage /\ d.out = Append(e.out, m) /\ d.dirtyByPath = e.dirtyByPath
        BY <2>2, <2>4
      <3>2. Said(alive, fresh, v, before, path, d, Sees(fresh, w, m)) /\ Sees(fresh, w, m) \in Viewed
        BY <2>5, <3>1, SaidMore
      <3> QED BY <2>5, <3>2
    <2>7. path \notin before.dirtyByPath
      BY <1>2, NamesApart DEF IsGroup
    <2> QED BY <2>4, <2>6, <2>7 DEF ToldOf
  <1>3. CASE IsGroup(path) /\ ~wasActive
    <2>1. path \notin before.dirtyByPath
      BY <1>3, NamesApart DEF IsGroup
    <2> QED BY <1>0, <1>3, <2>1 DEF Tells, Unseen, ToldOf
  <1> QED BY <1>1, <1>2, <1>3
LEMMA GoneTold ==
  ASSUME NEW alive \in BOOLEAN, NEW fresh \in BOOLEAN, NEW v, NEW before, NEW c, NEW w \in Viewed,
         Acted(alive, fresh, v, before, c, w), Agrees(alive, fresh, w, c), before.dirtyByPath \in SUBSET Files,
         NEW path \in Paths, NEW i \in 1..Len(c.tabPaths), c.tabPaths[i] = path,
         NEW a, Removes(c, path, i, a), NEW b, StopsDiff(c, a, path, b),
         NEW wasActive \in BOOLEAN, IsActive(c, path, wasActive), NEW d, Tells(b, path, wasActive, d)
  PROVE  Goes(alive, fresh, v, before, path, c, w, d)
  <1>2. /\ Said(alive, fresh, v, before, path, a, w)
        /\ a.tabPaths \in Seq(Paths)
        /\ \A p : IsOpen(a, p) <=> IsOpen(c, p) /\ p # path
        /\ Once(a.tabPaths) /\ a.activePath = c.activePath
        /\ a.diskModifiedWhileDirty = c.diskModifiedWhileDirty \ {path}
        /\ a.diffGroupTabs = Without(c.diffGroupTabs, path)
        /\ a.diffActivePath = c.diffActivePath /\ a.diffActiveMode = c.diffActiveMode
        /\ a.load \in {c.load, NoLoad}
    <2>1. RemovedTo(alive, fresh, v, before, c, w, path, i, a)
      BY RemovedIs
    <2> QED BY <2>1 DEF RemovedTo
  <1>3. PICK w1 : w1 = IF c.diffActivePath = path THEN NoDiffIn(w) ELSE w
    OBVIOUS
  <1>4. /\ Said(alive, fresh, v, before, path, b, w1) /\ w1 \in Viewed
        /\ b.tabPaths = a.tabPaths /\ b.activePath = a.activePath
        /\ b.diskModifiedWhileDirty = a.diskModifiedWhileDirty /\ b.diffGroupTabs = a.diffGroupTabs
        /\ b.diffActivePath = (IF c.diffActivePath = path THEN None ELSE c.diffActivePath)
        /\ c.diffActivePath # path => b.diffActiveMode = a.diffActiveMode
        /\ b.load \in {a.load, NoLoad}
    BY <1>2, <1>3, OutOfDiffIs
  <1>5. /\ w1.models = w.models /\ w1.path = w.path /\ w1.due = w.due
        /\ IF c.diffActivePath = path THEN w1.mode = "none"
           ELSE w1.mode = w.mode /\ w1.original = w.original /\ w1.drawn = w.drawn
    BY <1>3 DEF NoDiffIn, Shown
  <1>6. alive => ~(w1.mode = "file" /\ w1.path = path)
    BY <1>5 DEF Agrees
  <1>8. PICK u : Unseen(w1, path, wasActive, u)
    BY DEF Unseen
  <1>10. /\ Said(alive, fresh, v, before, path, d, u) /\ u \in Viewed
         /\ path \in before.dirtyByPath => ~NoneIn(d.out, Resets(path))
         /\ d.tabPaths = b.tabPaths /\ d.activePath = b.activePath
         /\ d.diskModifiedWhileDirty = b.diskModifiedWhileDirty /\ d.diffGroupTabs = b.diffGroupTabs
         /\ d.diffActivePath = b.diffActivePath /\ d.diffActiveMode = b.diffActiveMode /\ d.load = b.load
    <2>1. w1 \in Viewed /\ Said(alive, fresh, v, before, path, b, w1)
      BY <1>4
    <2>2. ToldOf(alive, fresh, v, before, path, b, d, u)
      BY <1>6, <1>8, <2>1, ToldIs
    <2> QED BY <2>2 DEF ToldOf
  <1>11. GoneIs(alive, fresh, v, before, path, c, d, u)
    <2>1. \A p : IsOpen(d, p) <=> IsOpen(c, p) /\ p # path
      BY <1>2, <1>4, <1>10 DEF IsOpen
    <2>2. d.load \in {c.load, NoLoad} /\ d.tabPaths \in Seq(Paths) /\ Once(d.tabPaths)
      BY <1>2, <1>4, <1>10
    <2> QED BY <1>2, <1>4, <1>10, <2>1, <2>2 DEF GoneIs
  <1>12. GoneFrom(path, c, w, u)
    <2>1. w.path \in w.models \cup {None} /\ w.models \subseteq Files
      BY ViewedIs
    <2>2. CASE ~IsGroup(path)
      BY <1>5, <1>8, <1>10, <2>2 DEF GoneFrom, ClosedIn, Shown, Unseen
    <2>3. CASE IsGroup(path)
      <3>1. path \notin Files /\ path # None
        BY <2>3, NamesApart DEF IsGroup
      <3>2. w.models \ {path} = w.models /\ w.path # path
        BY <2>1, <3>1
      <3> QED BY <1>5, <1>8, <1>10, <2>3, <3>2 DEF GoneFrom, NoDiffIn, Shown, Unseen, IsActive
    <2> QED BY <2>2, <2>3
  <1> QED BY <1>11, <1>12 DEF Goes

\* The same tabs, perhaps with another in front.
SameTabs(d, e) ==
    /\ e \in ColumnState /\ e.tabPaths = d.tabPaths /\ e.diffGroupTabs = d.diffGroupTabs
    /\ e.diffActivePath = d.diffActivePath /\ e.diskModifiedWhileDirty = d.diskModifiedWhileDirty
    /\ e.load = d.load
Fronted(e) == IF e.tabPaths = <<>> THEN e.activePath = None ELSE IsOpen(e, e.activePath)
LessTabs(c, path, e) == Tabbed(e) /\ OpenPaths(e) = OpenPaths(c) \ {path}

LEMMA GoneIsTabbed ==
  ASSUME NEW alive, NEW fresh, NEW v, NEW before, NEW c \in ColumnState, Tabbed(c),
         NEW path \in Paths, NEW d, NEW u, GoneIs(alive, fresh, v, before, path, c, d, u),
         NEW e, SameTabs(d, e), Fronted(e)
  PROVE  LessTabs(c, path, e)
  <1>1. \A p : IsOpen(e, p) <=> IsOpen(c, p) /\ p # path
    BY DEF GoneIs, IsOpen, SameTabs
  <1>2. OpenPaths(e) = OpenPaths(c) \ {path}
    BY <1>1 DEF OpenPaths
  <1>3. \A i, j \in 1..Len(e.tabPaths) : e.tabPaths[i] = e.tabPaths[j] => i = j
    BY DEF GoneIs, Once, SameTabs
  <1>4. DOMAIN e.diffGroupTabs = {m \in Modes : IsOpen(e, m)}
    <2>1. DOMAIN e.diffGroupTabs = DOMAIN c.diffGroupTabs \ {path}
      BY DEF GoneIs, Without, SameTabs
    <2> QED BY <1>1, <2>1 DEF Tabbed
  <1>5. e.diffActivePath \in OpenPaths(e) \cup {None}
    BY <1>2 DEF GoneIs, Tabbed, SameTabs
  <1>6. e.diskModifiedWhileDirty \subseteq OpenPaths(e)
    BY <1>2 DEF GoneIs, Tabbed, SameTabs
  <1>7. e.load # NoLoad /\ e.load.kind = "group" => e.diffActivePath = None
    BY DEF GoneIs, Tabbed, SameTabs
  <1> QED BY <1>2, <1>3, <1>4, <1>5, <1>6, <1>7 DEF Tabbed, SameTabs, Fronted, LessTabs

\* Closing a tab that is not in front, all still agrees.
LEMMA GoneBehind ==
  ASSUME NEW alive \in BOOLEAN, NEW fresh \in BOOLEAN, fresh => alive, NEW v, NEW before, NEW c \in ColumnState,
         Tabbed(c), NEW w \in Viewed, Agrees(alive, fresh, w, c), NEW path \in Paths, IsOpen(c, path),
         c.activePath # path, fresh => ~(c.diffActivePath = path /\ IsGroup(c.activePath)),
         NEW d, NEW u, GoneIs(alive, fresh, v, before, path, c, d, u), GoneFrom(path, c, w, u)
  PROVE  Acts(alive, fresh, v, before, d)
  <1>1. d \in ColumnState /\ Said(alive, fresh, v, before, path, d, u)
    BY DEF GoneIs, Said
  <1>2. IsOpen(c, c.activePath) /\ IsOpen(d, d.activePath) /\ d.tabPaths # <<>> /\ d.activePath = c.activePath
    <2>1. c.tabPaths # <<>>
      BY DEF IsOpen, Contains
    <2>2. IsOpen(c, c.activePath)
      BY <2>1 DEF Tabbed
    <2>3. IsOpen(d, d.activePath) /\ d.activePath = c.activePath
      BY <2>2 DEF GoneIs
    <2>4. d.tabPaths # <<>>
      BY <2>3 DEF IsOpen, Contains
    <2> QED BY <2>2, <2>3, <2>4
  <1>3. Tabbed(d) /\ OpenPaths(d) = OpenPaths(c) \ {path}
    <2>1. SameTabs(d, d) /\ Fronted(d)
      BY <1>1, <1>2 DEF SameTabs, Fronted
    <2>2. LessTabs(c, path, d)
      BY <2>1, GoneIsTabbed
    <2> QED BY <2>2 DEF LessTabs
  <1>4. Acted(alive, fresh, v, before, d, u)
    BY <1>1, <1>3, SaidEnds DEF GoneIs
  <1>5. Matches(alive, u, d)
    BY <1>3 DEF Agrees, Matches, GoneFrom
  <1>6. d.activePath \in u.models => u.path = d.activePath
    BY <1>2 DEF Agrees, GoneFrom
  <1>7. ASSUME alive, u.mode = "file"
        PROVE  u.path # None /\ d.diffActivePath = u.path /\ d.diffActiveMode = u.original.mode
    <2>1. c.diffActivePath # path /\ w.mode = "file" /\ u.original = w.original
      BY <1>7 DEF GoneFrom
    <2>2. w.path # None /\ c.diffActivePath = w.path /\ c.diffActiveMode = w.original.mode
      BY <1>7, <2>1 DEF Agrees
    <2> QED BY <2>1, <2>2 DEF GoneFrom, GoneIs
  <1>8. ASSUME fresh
        PROVE  IF IsGroup(d.activePath)
                 THEN u.mode = "group" /\ u.drawn = [path |-> d.activePath,
                                                     loading |-> d.diffGroupTabs[d.activePath] = "loading"]
                 ELSE u.path = d.activePath /\ u.mode # "group"
    <2>1. CASE IsGroup(c.activePath)
      <3>1. w.mode = "group" /\ w.drawn = [path |-> c.activePath,
                                           loading |-> c.diffGroupTabs[c.activePath] = "loading"]
        BY <1>8, <2>1 DEF Agrees
      <3>2. u.mode = w.mode /\ u.drawn = w.drawn
        BY <1>8, <2>1 DEF GoneFrom
      <3>3. d.diffGroupTabs[c.activePath] = c.diffGroupTabs[c.activePath]
        <4>1. c.activePath \in DOMAIN c.diffGroupTabs \ {path}
          BY <1>2, <2>1 DEF Tabbed, IsGroup
        <4> QED BY <4>1 DEF GoneIs, Without
      <3> QED BY <1>2, <2>1, <3>1, <3>2, <3>3
    <2>2. CASE ~IsGroup(c.activePath)
      <3>1. w.path = c.activePath /\ w.mode # "group"
        BY <1>8, <2>2 DEF Agrees
      <3> QED BY <1>2, <2>2, <3>1 DEF GoneFrom
    <2> QED BY <2>1, <2>2
  <1>9. Agrees(alive, fresh, u, d)
    BY <1>5, <1>6, <1>7, <1>8 DEF Agrees
  <1> QED BY <1>4, <1>9 DEF Acts

\* Closing the last tab.
LEMMA GoneLast ==
  ASSUME NEW alive \in BOOLEAN, NEW fresh \in BOOLEAN, fresh => alive, NEW v, NEW before, NEW c \in ColumnState,
         Tabbed(c), NEW w \in Viewed, Agrees(alive, fresh, w, c), NEW path \in Paths, IsOpen(c, path),
         c.activePath = path,
         NEW d, NEW u, GoneIs(alive, fresh, v, before, path, c, d, u), GoneFrom(path, c, w, u),
         d.tabPaths = <<>>, NEW e, e = [d EXCEPT !.activePath = None]
  PROVE  Acts(alive, fresh, v, before, e)
  <1>1. d \in ColumnState /\ Said(alive, fresh, v, before, path, d, u)
    BY DEF GoneIs, Said
  <1>2. /\ e.tabPaths = d.tabPaths /\ e.activePath = None /\ e.dirtyByPath = d.dirtyByPath
        /\ e.diskModifiedWhileDirty = d.diskModifiedWhileDirty /\ e.diffActivePath = d.diffActivePath
        /\ e.diffActiveMode = d.diffActiveMode /\ e.diffGroupTabs = d.diffGroupTabs /\ e.load = d.load
        /\ e.out = d.out /\ e \in ColumnState
    <2>1. e = Column(d.tabPaths, None, d.dirtyByPath, d.diskModifiedWhileDirty, d.diffActivePath, d.diffActiveMode,
                     d.diffModeByPath, d.diffGroupTabs, d.load, d.out)
      BY <1>1, ActiveSetIs
    <2>2. None \in Asked
      BY DEF Asked
    <2>3. e \in ColumnState
      BY <1>1, <2>1, <2>2, ColumnIs, ColumnTyped
    <2> QED BY <2>1, <2>3, FieldsOf DEF Fields
  <1>3. Tabbed(e) /\ OpenPaths(e) = OpenPaths(c) \ {path}
    <2>1. SameTabs(d, e) /\ Fronted(e)
      BY <1>2 DEF SameTabs, Fronted
    <2>2. LessTabs(c, path, e)
      BY <2>1, GoneIsTabbed
    <2> QED BY <2>2 DEF LessTabs
  <1>4. OpenPaths(e) = {}
    BY <1>2 DEF OpenPaths, IsOpen, Contains
  <1>5. Said(alive, fresh, v, before, path, e, u)
    BY <1>1, <1>2 DEF Said
  <1>6. Acted(alive, fresh, v, before, e, u)
    BY <1>2, <1>3, <1>5, SaidEnds DEF GoneIs
  <1>7. Matches(alive, u, e)
    BY <1>3 DEF Agrees, Matches, GoneFrom
  <1>8. u.models = {} /\ u.path = None
    BY <1>4, <1>7, ViewedIs DEF Matches
  <1>9. ~(alive /\ u.mode = "file")
    <2>1. SUFFICES ASSUME alive, u.mode = "file" PROVE FALSE
      OBVIOUS
    <2>2. c.diffActivePath # path /\ w.mode = "file"
      BY <2>1 DEF GoneFrom
    <2>3. w.path # None /\ w.path # path
      BY <2>1, <2>2 DEF Agrees
    <2> QED BY <1>8, <2>3 DEF GoneFrom
  <1>10. fresh => u.mode # "group"
    BY NamesApart DEF Agrees, GoneFrom
  <1>11. ~IsGroup(None)
    BY NamesApart DEF IsGroup
  <1>12. Agrees(alive, fresh, u, e)
    BY <1>2, <1>7, <1>8, <1>9, <1>10, <1>11 DEF Agrees
  <1> QED BY <1>6, <1>12 DEF Acts

\* Closing the tab in front, another comes there.
LEMMA GoneInFront ==
  ASSUME NEW alive \in BOOLEAN, NEW fresh \in BOOLEAN, fresh => alive, NEW v, NEW before, NEW c \in ColumnState,
         Tabbed(c), NEW w \in Viewed, Agrees(alive, fresh, w, c), NEW path \in Paths, IsOpen(c, path),
         NEW d, NEW u, GoneIs(alive, fresh, v, before, path, c, d, u), GoneFrom(path, c, w, u),
         NEW next \in Paths, IsOpen(d, next), NEW e, e = [d EXCEPT !.activePath = next]
  PROVE  Acts(alive, fresh, v, before, ShowTab(e, next))
  <1>1. d \in ColumnState /\ Said(alive, fresh, v, before, path, d, u)
    BY DEF GoneIs, Said
  <1>2. /\ e.tabPaths = d.tabPaths /\ e.activePath = next /\ e.dirtyByPath = d.dirtyByPath
        /\ e.diskModifiedWhileDirty = d.diskModifiedWhileDirty /\ e.diffActivePath = d.diffActivePath
        /\ e.diffActiveMode = d.diffActiveMode /\ e.diffGroupTabs = d.diffGroupTabs /\ e.load = d.load
        /\ e.out = d.out /\ e \in ColumnState
    <2>1. e = Column(d.tabPaths, next, d.dirtyByPath, d.diskModifiedWhileDirty, d.diffActivePath, d.diffActiveMode,
                     d.diffModeByPath, d.diffGroupTabs, d.load, d.out)
      BY <1>1, ActiveSetIs
    <2>2. next \in Asked
      BY DEF Asked
    <2>3. e \in ColumnState
      BY <1>1, <2>1, <2>2, ColumnIs, ColumnTyped
    <2> QED BY <2>1, <2>3, FieldsOf DEF Fields
  <1>3. IsOpen(e, e.activePath) /\ e.tabPaths # <<>>
    BY <1>2 DEF IsOpen, Contains
  <1>4. Tabbed(e) /\ OpenPaths(e) = OpenPaths(c) \ {path}
    <2>1. SameTabs(d, e) /\ Fronted(e)
      BY <1>2, <1>3 DEF SameTabs, Fronted
    <2>2. LessTabs(c, path, e)
      BY <2>1, GoneIsTabbed
    <2> QED BY <2>2 DEF LessTabs
  <1>5. Said(alive, fresh, v, before, path, e, u)
    BY <1>1, <1>2 DEF Said
  <1>6. Acted(alive, fresh, v, before, e, u)
    BY <1>2, <1>4, <1>5, SaidEnds DEF GoneIs
  <1>7. Matches(alive, u, e)
    BY <1>4 DEF Agrees, Matches, GoneFrom
  <1>8. Acting(alive, fresh, v, before, e)
    BY <1>6, <1>7 DEF Acting
  <1>9. next # None
    BY NamesApart
  <1> QED BY <1>2, <1>8, <1>9, ShowTabActs

LEMMA ClosedActs ==
  ASSUME NEW alive \in BOOLEAN, NEW fresh \in BOOLEAN, fresh => alive, NEW v, NEW before, NEW c,
         Acts(alive, fresh, v, before, c), before.dirtyByPath \in SUBSET Files,
         NEW path \in Paths, IsOpen(c, path),
         fresh => ~(c.diffActivePath = path /\ c.activePath # path /\ IsGroup(c.activePath))
  PROVE  Acts(alive, fresh, v, before, Closed(c, path))
  <1>1. PICK w : Acted(alive, fresh, v, before, c, w) /\ Agrees(alive, fresh, w, c)
    BY DEF Acts
  <1>2. c \in ColumnState /\ Tabbed(c) /\ w \in Viewed
    BY <1>1 DEF Acted, Agrees, Matches
  <1> DEFINE i == CHOOSE k \in 1..Len(c.tabPaths) : c.tabPaths[k] = path
             a == [c EXCEPT
                !.tabPaths = RemoveAt(@, i),
                !.load = IF IsGroup(path) THEN NoLoad ELSE @,
                !.dirtyByPath = @ \ {path}, !.diskModifiedWhileDirty = @ \ {path},
                !.diffModeByPath = Without(@, path), !.diffGroupTabs = Without(@, path)]
             b == IF c.diffActivePath = path THEN StopDiff(a) ELSE a
             wasActive == c.activePath = path
             d == IF ~IsGroup(path) THEN Say(b, [type |-> "closeTab", path |-> path])
                  ELSE IF wasActive THEN Say(b, [type |-> "exitDiff"])
                  ELSE b
             next == Neighbour(a.tabPaths, i)
  <1>3. Closed(c, path) = IF ~wasActive THEN d
                          ELSE IF next = None THEN [d EXCEPT !.activePath = next]
                          ELSE ShowTab([d EXCEPT !.activePath = next], next)
    BY DEF Closed
  <1>4. i \in 1..Len(c.tabPaths) /\ c.tabPaths[i] = path
    BY DEF IsOpen, Contains
  <1>5. Removes(c, path, i, a) /\ StopsDiff(c, a, path, b) /\ Tells(b, path, wasActive, d)
    BY DEF Removes, StopsDiff, Tells
  <1>6. wasActive \in BOOLEAN /\ IsActive(c, path, wasActive) /\ (wasActive <=> c.activePath = path)
    BY DEF IsActive
  <1>7. next = Neighbour(a.tabPaths, i)
    OBVIOUS
  <1> HIDE DEF i, a, b, wasActive, d, next
  <1>8. Goes(alive, fresh, v, before, path, c, w, d)
    BY <1>1, <1>2, <1>4, <1>5, <1>6, GoneTold
  <1>9. PICK u : GoneIs(alive, fresh, v, before, path, c, d, u) /\ GoneFrom(path, c, w, u)
    BY <1>8 DEF Goes
  <1>10. a.tabPaths = d.tabPaths /\ d.tabPaths \in Seq(Paths)
    <2>1. RemovedTo(alive, fresh, v, before, c, w, path, i, a)
      BY <1>1, <1>2, <1>4, <1>5, RemovedIs
    <2>2. a \in ColumnState
      BY <2>1 DEF RemovedTo, Said
    <2>3. StopDiff(a) \in ColumnState /\ StopDiff(a).tabPaths = a.tabPaths
      BY <2>2, StopIs
    <2>4. b.tabPaths = a.tabPaths /\ b \in ColumnState
      BY <1>5, <2>2, <2>3 DEF StopsDiff
    <2>5. path \in Files \/ IsGroup(path)
      BY DEF IsGroup, Paths
    <2>6. d = b \/ \E m \in ToPage : d = Say(b, m)
      BY <1>5, <2>5, ColumnSays DEF Tells
    <2>7. d.tabPaths = b.tabPaths
      BY <2>4, <2>6, SaidIs
    <2>8. d.tabPaths \in Seq(Paths)
      BY <1>9 DEF GoneIs
    <2> QED BY <2>4, <2>7, <2>8
  <1>11. CASE ~wasActive
    BY <1>1, <1>2, <1>3, <1>6, <1>9, <1>11, GoneBehind
  <1>12. CASE wasActive /\ d.tabPaths = <<>>
    <2>1. PICK t : t = a.tabPaths
      OBVIOUS
    <2>2. t \in Seq(Paths) /\ next = Neighbour(t, i) /\ i \in Nat \ {0}
      BY <1>4, <1>7, <1>10, <2>1
    <2>3. t = <<>> => next = None
      BY <2>2 DEF Neighbour
    <2>4. next = None
      BY <1>10, <1>12, <2>1, <2>3
    <2>5. PICK e : e = [d EXCEPT !.activePath = None]
      OBVIOUS
    <2>6. Acts(alive, fresh, v, before, e)
      BY <1>1, <1>2, <1>6, <1>9, <1>12, <2>5, GoneLast
    <2>7. Closed(c, path) = e
      BY <1>3, <1>12, <2>4, <2>5
    <2> QED BY <2>6, <2>7
  <1>13. CASE wasActive /\ d.tabPaths # <<>>
    <2>1. Contains(d.tabPaths, next) /\ next \in Paths
      BY <1>4, <1>7, <1>10, <1>13, NeighbourIs
    <2>2. IsOpen(d, next) /\ next # None
      BY <2>1, NamesApart DEF IsOpen
    <2> QED BY <1>1, <1>2, <1>3, <1>6, <1>9, <1>13, <2>1, <2>2, GoneInFront
  <1> QED BY <1>11, <1>12, <1>13
-----------------------------------------------------------------------------
(* Conflicts and reloads                                                   *)

LEMMA ChangedActs ==
  ASSUME NEW alive, NEW fresh, NEW v, NEW before, NEW c, Acts(alive, fresh, v, before, c),
         NEW changed, changed \subseteq OpenPaths(c),
         NEW d, d = [c EXCEPT !.diskModifiedWhileDirty = changed]
  PROVE  /\ Acts(alive, fresh, v, before, d)
         /\ d.tabPaths = c.tabPaths /\ d.activePath = c.activePath /\ d.load = c.load
         /\ d.dirtyByPath = c.dirtyByPath
  <1>1. c \in ColumnState /\ Tabbed(c)
    BY DEF Acts, Acted
  <1>2. changed \in SUBSET Files
    BY DEF OpenPaths
  <1>5. d = Column(c.tabPaths, c.activePath, c.dirtyByPath, changed, c.diffActivePath,
                   c.diffActiveMode, c.diffModeByPath, c.diffGroupTabs, c.load, c.out)
    BY <1>1, ChangedSetIs
  <1>6. d \in ColumnState
    BY <1>1, <1>2, <1>5, ColumnIs, ColumnTyped
  <1>7. Fields(d, c.tabPaths, c.activePath, c.dirtyByPath, changed, c.diffActivePath,
               c.diffActiveMode, c.diffModeByPath, c.diffGroupTabs, c.load, c.out)
    BY <1>5, FieldsOf
  <1>8. Tabbed(d)
    <2>1. OpenPaths(d) = OpenPaths(c) /\ \A p : IsOpen(d, p) = IsOpen(c, p)
      BY <1>7, OpenIsSame DEF Fields
    <2> QED BY <1>1, <1>7, <2>1 DEF Tabbed, Fields
  <1> QED BY <1>6, <1>7, <1>8, ActsSame DEF Fields

\* A file is read again.
LEMMA ReloadActs ==
  ASSUME NEW alive \in BOOLEAN, NEW fresh \in BOOLEAN, fresh => alive, NEW v, NEW before, NEW c,
         Acts(alive, fresh, v, before, c),
         NEW path \in Files, IsOpen(c, path), disk[path] \in Texts
  PROVE  Acts(alive, fresh, v, before, ReloadFromDisk(c, path)) /\ ReloadFromDisk(c, path).tabPaths = c.tabPaths
  <1>1. PICK e : e = [c EXCEPT !.diskModifiedWhileDirty = @ \ {path}]
    OBVIOUS
  <1>2. PICK changed : changed = c.diskModifiedWhileDirty \ {path}
    OBVIOUS
  <1>3. changed \subseteq OpenPaths(c) /\ e = [c EXCEPT !.diskModifiedWhileDirty = changed]
    BY <1>1, <1>2 DEF Acts, Acted, Tabbed
  <1>4. Acts(alive, fresh, v, before, e) /\ e.tabPaths = c.tabPaths /\ e.activePath = c.activePath
    BY <1>3, ChangedActs
  <1>5. PICK w : Acted(alive, fresh, v, before, e, w) /\ Agrees(alive, fresh, w, e)
    BY <1>4 DEF Acts
  <1>6. e \in ColumnState /\ Tabbed(e) /\ w \in Viewed
    BY <1>5 DEF Acted, Agrees, Matches
  <1>7. PICK activate \in BOOLEAN : activate = (path = e.activePath)
    OBVIOUS
  <1>8. PICK m : m = [type |-> "openFile", path |-> path, content |-> disk[path], activate |-> activate]
    OBVIOUS
  <1>9. m \in ToPage /\ m.type = "openFile" /\ m.path = path /\ m.activate = activate
    BY <1>8, ColumnSays
  <1>10. PICK d : d = Say(e, m)
    OBVIOUS
  <1>11. ReloadFromDisk(c, path) = d
    BY <1>1, <1>4, <1>7, <1>8, <1>10 DEF ReloadFromDisk
  <1>12. /\ d \in ColumnState /\ d.out = Append(e.out, m)
         /\ d.tabPaths = e.tabPaths /\ d.activePath = e.activePath /\ d.dirtyByPath = e.dirtyByPath
         /\ d.diskModifiedWhileDirty = e.diskModifiedWhileDirty /\ d.diffActivePath = e.diffActivePath
         /\ d.diffActiveMode = e.diffActiveMode /\ d.diffGroupTabs = e.diffGroupTabs /\ d.load = e.load
    BY <1>6, <1>9, <1>10, SaidIs
  <1>13. Tabbed(d)
    BY <1>6, <1>12, TabbedSame
  <1>14. Timely(alive, fresh, w, m)
    BY <1>9 DEF Timely
  <1>15. PICK u : u = Sees(fresh, w, m)
    OBVIOUS
  <1>16. Acted(alive, fresh, v, before, d, u) /\ u \in Viewed
    BY <1>5, <1>9, <1>12, <1>13, <1>14, <1>15, ActedMore
  <1>17. path \in OpenPaths(d) /\ OpenPaths(d) = OpenPaths(e)
    BY <1>4, <1>12, OpenIsSame DEF OpenPaths, IsOpen
  <1>18. u.models = w.models \cup {path} /\ u.due = w.due
    BY <1>9, <1>15 DEF Sees, FileShown, Opened, Shown
  <1>19. Matches(alive, u, d)
    BY <1>5, <1>16, <1>17, <1>18 DEF Agrees, Matches
  <1>20. Agrees(alive, fresh, u, d)
    <2>1. CASE activate
      <3>1. u = FileShown(Opened(w, path), path)
        BY <1>9, <1>15, <2>1 DEF Sees
      <3>2. u.path = path /\ u.mode = "none"
        BY <3>1 DEF FileShown, Shown
      <3>3. d.activePath = path /\ ~IsGroup(path)
        BY <1>7, <1>12, <2>1, NamesApart DEF IsGroup
      <3> QED BY <1>19, <3>2, <3>3 DEF Agrees
    <2>2. CASE ~activate
      <3>1. u = Opened(w, path)
        BY <1>9, <1>15, <2>2 DEF Sees
      <3>2. u.path = w.path /\ u.mode = w.mode /\ u.original = w.original /\ u.drawn = w.drawn
        BY <3>1 DEF Opened, Shown
      <3>3. d.activePath # path
        BY <1>7, <1>12, <2>2
      <3> QED BY <1>5, <1>12, <1>18, <1>19, <3>2, <3>3 DEF Agrees
    <2> QED BY <2>1, <2>2
  <1> QED BY <1>4, <1>11, <1>12, <1>16, <1>20 DEF Acts

-----------------------------------------------------------------------------
(* Collections                                                             *)

Collects(c, mode, d) ==
    d = [c EXCEPT !.diffGroupTabs = With(@, mode, "loading"),
                  !.tabPaths = IF IsOpen(c, mode) THEN @ ELSE Append(@, mode),
                  !.activePath = mode,
                  !.diffActivePath = None, !.diffActiveMode = mode,
                  !.load = [kind |-> "group", path |-> mode, mode |-> mode]]

LEMMA CollectionActs ==
  ASSUME NEW alive \in BOOLEAN, NEW fresh \in BOOLEAN, fresh => alive, NEW v, NEW before, NEW c,
         Acts(alive, fresh, v, before, c),
         NEW mode \in Modes, NEW d, Collects(c, mode, d)
  PROVE  Acts(alive, fresh, v, before, SendDiffGroup(d, mode))
  <1>1. PICK w : Acted(alive, fresh, v, before, c, w) /\ Agrees(alive, fresh, w, c)
    BY DEF Acts
  <1>2. c \in ColumnState /\ Tabbed(c) /\ w \in Viewed
    BY <1>1 DEF Acted, Agrees, Matches
  <1>3. PICK tabs, groups, load :
           /\ tabs = (IF IsOpen(c, mode) THEN c.tabPaths ELSE Append(c.tabPaths, mode))
           /\ groups = With(c.diffGroupTabs, mode, "loading")
           /\ load = [kind |-> "group", path |-> mode, mode |-> mode]
    OBVIOUS
  <1>4. d = Column(tabs, mode, c.dirtyByPath, c.diskModifiedWhileDirty, None, mode, c.diffModeByPath, groups,
                   load, c.out)
    BY <1>2, <1>3, CollectionIs DEF Collects
  <1>5. tabs \in Seq(Paths) /\ tabs # <<>> /\ Once(tabs) /\ \A p : Contains(tabs, p) <=> Contains(c.tabPaths, p) \/ p = mode
    <2>1. PICK old : old = c.tabPaths
      OBVIOUS
    <2>2. old \in Seq(Paths) /\ Once(old) /\ mode \in Paths
      BY <1>2, <2>1, ColumnIs DEF Tabbed, Once, Paths
    <2>3. CASE IsOpen(c, mode)
      BY <1>3, <2>1, <2>2, <2>3 DEF IsOpen, Contains
    <2>4. CASE ~IsOpen(c, mode)
      <3>1. tabs = Append(old, mode) /\ ~Contains(old, mode)
        BY <1>3, <2>1, <2>4 DEF IsOpen
      <3>2. Added(Paths, old, mode, tabs)
        BY <2>2, <3>1, TabsAppend
      <3> QED BY <2>1, <2>2, <3>1, <3>2 DEF Added
    <2> QED BY <2>3, <2>4
  <1>6. groups \in Maps(Modes, {"loading", "shown"}) /\ DOMAIN groups = DOMAIN c.diffGroupTabs \cup {mode}
    <2>1. PICK f : f = c.diffGroupTabs
      OBVIOUS
    <2>2. f \in Maps(Modes, {"loading", "shown"}) /\ groups = With(f, mode, "loading")
      BY <1>2, <1>3, <2>1, ColumnIs
    <2>3. groups \in Maps(Modes, {"loading", "shown"})
      BY <2>2, WithTyped
    <2>4. DOMAIN groups = DOMAIN f \cup {mode}
      BY <2>2 DEF With
    <2> QED BY <2>1, <2>3, <2>4
  <1>7. load \in Load
    BY <1>3 DEF Load
  <1>8. d \in ColumnState
    <2>1. mode \in Asked /\ mode \in Modes \cup {None} /\ None \in Files \cup {None}
      BY DEF Asked, Paths
    <2> QED BY <1>2, <1>4, <1>5, <1>6, <1>7, <2>1, ColumnIs, ColumnTyped
  <1>9. Fields(d, tabs, mode, c.dirtyByPath, c.diskModifiedWhileDirty, None, mode, c.diffModeByPath, groups,
               load, c.out)
    BY <1>4, FieldsOf
  <1>10. /\ \A p : IsOpen(d, p) <=> IsOpen(c, p) \/ p = mode
         /\ OpenPaths(d) = OpenPaths(c)
    BY <1>5, <1>9, NamesApart DEF IsOpen, OpenPaths, Fields
  <1>11. Tabbed(d)
    <2>1. DOMAIN d.diffGroupTabs = {m \in Modes : IsOpen(d, m)}
      BY <1>2, <1>6, <1>9, <1>10 DEF Tabbed, Fields
    <2>2. d.diskModifiedWhileDirty \subseteq OpenPaths(d)
      BY <1>2, <1>9, <1>10 DEF Tabbed, Fields
    <2>3. IsOpen(d, d.activePath) /\ d.tabPaths # <<>> /\ Once(d.tabPaths) /\ d.diffActivePath = None
      BY <1>5, <1>9, <1>10 DEF Fields
    <2> QED BY <2>1, <2>2, <2>3 DEF Tabbed, Once
  <1>12. Acted(alive, fresh, v, before, d, w)
    BY <1>1, <1>8, <1>9, <1>11, ActedSame DEF Fields
  <1>13. Matches(alive, w, d)
    BY <1>1, <1>10 DEF Agrees, Matches
  <1>14. Acting(alive, fresh, v, before, d)
    BY <1>12, <1>13 DEF Acting
  <1>15. d.activePath = mode
    BY <1>9 DEF Fields
  <1> QED BY <1>14, <1>15, SendGroupActs

-----------------------------------------------------------------------------
(* Git answers                                                             *)

LEMMA ForgetFailedActs ==
  ASSUME NEW alive, NEW fresh, NEW v, NEW before, NEW c, Acts(alive, fresh, v, before, c), NEW path \in Paths
  PROVE  Acts(alive, fresh, v, before, ForgetFailedDiffMode(c, path))
  <1>1. c \in ColumnState
    BY DEF Acts, Acted
  <1>2. PICK f : f = c.diffModeByPath
    OBVIOUS
  <1>3. f \in Maps(Paths, Modes) /\ c.diffActiveMode \in Modes \cup {None}
    BY <1>1, <1>2, ColumnIs
  <1>4. PICK modes : modes = IF c.diffActivePath = path /\ c.diffActiveMode # None
                             THEN With(f, path, c.diffActiveMode) ELSE Without(f, path)
    OBVIOUS
  <1>5. modes \in Maps(Paths, Modes)
    BY <1>3, <1>4, WithTyped, WithoutTyped
  <1>6. PICK d : d = [c EXCEPT !.diffModeByPath = modes]
    OBVIOUS
  <1>7. ForgetFailedDiffMode(c, path) = d
    BY <1>2, <1>4, <1>6 DEF ForgetFailedDiffMode
  <1> QED BY <1>5, <1>6, <1>7, ModesActs
\* A diff is shown: the tab in front is still the one it was asked for.
TookDiff(c, path, mode, d) == d = [c EXCEPT !.diffActivePath = path, !.diffActiveMode = mode]

LEMMA ShownDiffActs ==
  ASSUME NEW alive \in BOOLEAN, NEW fresh \in BOOLEAN, fresh => alive, NEW v, NEW before, NEW c,
         Acts(alive, fresh, v, before, c), c.load = NoLoad,
         NEW path \in Files, NEW mode \in Modes, c.activePath = path, NEW e, TookDiff(c, path, mode, e),
         NEW m, m = [type |-> "enterDiff", path |-> path, original |-> [path |-> path, mode |-> mode]]
  PROVE  Acts(alive, fresh, v, before, Say(e, m))
  <1>1. PICK w : Acted(alive, fresh, v, before, c, w) /\ Agrees(alive, fresh, w, c)
    BY DEF Acts
  <1>2. c \in ColumnState /\ Tabbed(c) /\ w \in Viewed
    BY <1>1 DEF Acted, Agrees, Matches
  <1>3. e = Column(c.tabPaths, c.activePath, c.dirtyByPath, c.diskModifiedWhileDirty, path, mode,
                   c.diffModeByPath, c.diffGroupTabs, c.load, c.out)
    BY <1>2, TookDiffIs DEF TookDiff
  <1>4. e \in ColumnState
    BY <1>2, <1>3, ColumnIs, ColumnTyped
  <1>5. Fields(e, c.tabPaths, c.activePath, c.dirtyByPath, c.diskModifiedWhileDirty, path, mode,
               c.diffModeByPath, c.diffGroupTabs, c.load, c.out)
    BY <1>3, FieldsOf
  <1>6. IsOpen(c, path) /\ path \in OpenPaths(c)
    <2>1. c.tabPaths # <<>>
      BY <1>2, NamesApart DEF Tabbed
    <2> QED BY <1>2, <2>1 DEF Tabbed, OpenPaths
  <1>7. Tabbed(e)
    <2>1. OpenPaths(e) = OpenPaths(c) /\ \A p : IsOpen(e, p) = IsOpen(c, p)
      BY <1>5, OpenIsSame DEF Fields
    <2> QED BY <1>2, <1>5, <1>6, <2>1 DEF Tabbed, Fields
  <1>8. /\ m \in ToPage /\ m.type = "enterDiff" /\ m.path = path
        /\ m.original = [path |-> path, mode |-> mode] /\ m.original.mode = mode
    BY ColumnSays
  <1>9. PICK d : d = Say(e, m)
    OBVIOUS
  <1>10. /\ d \in ColumnState /\ d.out = Append(e.out, m)
         /\ d.tabPaths = e.tabPaths /\ d.activePath = e.activePath /\ d.dirtyByPath = e.dirtyByPath
         /\ d.diskModifiedWhileDirty = e.diskModifiedWhileDirty /\ d.diffActivePath = e.diffActivePath
         /\ d.diffActiveMode = e.diffActiveMode /\ d.diffGroupTabs = e.diffGroupTabs /\ d.load = e.load
    BY <1>4, <1>8, <1>9, SaidIs
  <1>11. Tabbed(d)
    BY <1>7, <1>10, TabbedSame
  <1>12. Timely(alive, fresh, w, m)
    BY <1>1, <1>8 DEF Timely, Agrees
  <1>13. PICK u : u = Sees(fresh, w, m)
    OBVIOUS
  <1>14. Acted(alive, fresh, v, before, d, u) /\ u \in Viewed
    <2>1. d.out = Append(c.out, m) /\ d.dirtyByPath = c.dirtyByPath
      BY <1>5, <1>10 DEF Fields
    <2> QED BY <1>1, <1>8, <1>10, <1>11, <1>12, <1>13, <2>1, ActedMore
  <1>15. OpenPaths(d) = OpenPaths(c) /\ d.activePath = path /\ d.diffActivePath = path /\ d.diffActiveMode = mode
    BY <1>5, <1>10, OpenIsSame DEF Fields
  <1>16. Agrees(alive, fresh, u, d)
    <2>0. ~IsGroup(path) /\ path # None
      BY NamesApart DEF IsGroup
    <2>1. CASE path \in w.models
      <3>1. u = FileDiffIn(w, m.original) /\ w.path = path
        BY <1>1, <1>8, <1>13, <2>1 DEF Sees, Agrees
      <3>2. u.models = w.models /\ u.due = w.due /\ u.path = path /\ u.mode = "file" /\ u.original = m.original
        BY <3>1 DEF FileDiffIn, Shown
      <3>3. Matches(alive, u, d)
        BY <1>1, <1>14, <1>15, <3>2 DEF Agrees, Matches
      <3> QED BY <1>8, <1>15, <2>0, <3>2, <3>3 DEF Agrees
    <2>2. CASE path \notin w.models
      <3>1. u = w
        BY <1>8, <1>13, <2>2 DEF Sees
      <3>2. ~alive /\ ~fresh
        BY <1>1, <1>6, <2>2 DEF Agrees, Matches
      <3>3. Matches(alive, u, d)
        BY <1>1, <1>14, <1>15, <3>1 DEF Agrees, Matches
      <3> QED BY <1>15, <2>2, <3>1, <3>2, <3>3 DEF Agrees
    <2> QED BY <2>1, <2>2
  <1> QED BY <1>9, <1>14, <1>16 DEF Acts

LEMMA TakeDiffActs ==
  ASSUME NEW alive \in BOOLEAN, NEW fresh \in BOOLEAN, fresh => alive, NEW v, NEW before, NEW c,
         Acts(alive, fresh, v, before, c),
         c.load # NoLoad, c.load.kind = "file", NEW found \in BOOLEAN, found => ~IsGroup(c.load.path)
  PROVE  Acts(alive, fresh, v, before, TakeDiff(c, found))
  <1>1. c \in ColumnState
    BY DEF Acts, Acted
  <1>2. PICK path, mode : path = c.load.path /\ mode = c.load.mode
    OBVIOUS
  <1>3. path \in Paths /\ mode \in Modes
    BY <1>1, <1>2, ColumnIs, LoadIs
  <1>4. PICK done : done = [c EXCEPT !.load = NoLoad]
    OBVIOUS
  <1>5. /\ Acts(alive, fresh, v, before, done) /\ done.load = NoLoad
        /\ done.activePath = c.activePath
    BY <1>4, LoadDoneActs
  <1>6. PICK e : TookDiff(done, path, mode, e)
    BY DEF TookDiff
  <1>7. PICK m : m = [type |-> "enterDiff", path |-> path, original |-> [path |-> path, mode |-> mode]]
    OBVIOUS
  <1>8. CASE c.activePath # path
    BY <1>2, <1>4, <1>5, <1>8 DEF TakeDiff
  <1>9. CASE c.activePath = path /\ ~found
    <2>1. TakeDiff(c, found) = ForgetFailedDiffMode(done, path)
      BY <1>2, <1>4, <1>9 DEF TakeDiff
    <2> QED BY <1>3, <1>5, <2>1, ForgetFailedActs
  <1>10. CASE c.activePath = path /\ found
    <2>1. path \in Files
      BY <1>2, <1>3, <1>10 DEF IsGroup, Paths
    <2>2. TakeDiff(c, found) = Say(e, m)
      BY <1>2, <1>4, <1>6, <1>7, <1>10 DEF TakeDiff, TookDiff
    <2>3. Acts(alive, fresh, v, before, Say(e, m))
      BY <1>3, <1>5, <1>6, <1>7, <1>10, <2>1, ShownDiffActs
    <2> QED BY <2>2, <2>3
  <1> QED BY <1>8, <1>9, <1>10

\* A collection's diffs have come.
Filled(c, path, d) ==
    d = [c EXCEPT !.diffGroupTabs[path] = "shown", !.diffActivePath = None, !.diffActiveMode = path]

LEMMA FilledActs ==
  ASSUME NEW alive \in BOOLEAN, NEW fresh \in BOOLEAN, fresh => alive, NEW v, NEW before, NEW c,
         Acts(alive, fresh, v, before, c), c.load = NoLoad, c.diffActivePath = None,
         NEW path \in Modes, path \in DOMAIN c.diffGroupTabs, NEW d, Filled(c, path, d)
  PROVE  /\ Acting(alive, fresh, v, before, d) /\ d.activePath = c.activePath
         /\ c.activePath # path => Acts(alive, fresh, v, before, d)
  <1>1. PICK w : Acted(alive, fresh, v, before, c, w) /\ Agrees(alive, fresh, w, c)
    BY DEF Acts
  <1>2. c \in ColumnState /\ Tabbed(c) /\ w \in Viewed
    BY <1>1 DEF Acted, Agrees, Matches
  <1>3. PICK f, groups : f = c.diffGroupTabs /\ groups = [f EXCEPT ![path] = "shown"]
    OBVIOUS
  <1>4. f \in Maps(Modes, {"loading", "shown"}) /\ path \in DOMAIN f
    BY <1>2, <1>3, ColumnIs
  <1>5. /\ groups \in Maps(Modes, {"loading", "shown"}) /\ DOMAIN groups = DOMAIN f
        /\ \A p \in DOMAIN f : p # path => groups[p] = f[p]
    BY <1>3, <1>4, PutIs
  <1>6. d = Column(c.tabPaths, c.activePath, c.dirtyByPath, c.diskModifiedWhileDirty, None, path,
                   c.diffModeByPath, groups, c.load, c.out)
    BY <1>2, <1>3, FilledIs DEF Filled
  <1>7. d \in ColumnState
    BY <1>2, <1>5, <1>6, ColumnIs, ColumnTyped
  <1>8. Fields(d, c.tabPaths, c.activePath, c.dirtyByPath, c.diskModifiedWhileDirty, None, path,
               c.diffModeByPath, groups, c.load, c.out)
    BY <1>6, FieldsOf
  <1>9. OpenPaths(d) = OpenPaths(c) /\ \A p : IsOpen(d, p) = IsOpen(c, p)
    BY <1>8, OpenIsSame DEF Fields
  <1>10. Tabbed(d)
    BY <1>2, <1>3, <1>5, <1>8, <1>9 DEF Tabbed, Fields
  <1>11. Acted(alive, fresh, v, before, d, w)
    BY <1>1, <1>7, <1>8, <1>10, ActedSame DEF Fields
  <1>12. Matches(alive, w, d)
    BY <1>1, <1>9 DEF Agrees, Matches
  <1>13. ASSUME c.activePath # path
         PROVE  Agrees(alive, fresh, w, d)
    <2>1. ~(alive /\ w.mode = "file")
      BY <1>1 DEF Agrees
    <2>2. ASSUME IsGroup(c.activePath) PROVE d.diffGroupTabs[c.activePath] = c.diffGroupTabs[c.activePath]
      <3>1. c.activePath \in Modes
        BY <2>2 DEF IsGroup
      <3>2. c.tabPaths # <<>>
        BY <1>2, <3>1, NamesApart DEF Tabbed
      <3>3. c.activePath \in DOMAIN f
        BY <1>2, <1>3, <3>1, <3>2 DEF Tabbed
      <3> QED BY <1>3, <1>5, <1>8, <1>13, <3>3 DEF Fields
    <2>3. d.activePath = c.activePath
      BY <1>8 DEF Fields
    <2> QED BY <1>1, <1>12, <2>1, <2>2, <2>3 DEF Agrees
  <1> QED BY <1>8, <1>11, <1>12, <1>13 DEF Acting, Acts, Fields

LEMMA TakeGroupActs ==
  ASSUME NEW alive \in BOOLEAN, NEW fresh \in BOOLEAN, fresh => alive, NEW v, NEW before, NEW c,
         Acts(alive, fresh, v, before, c), before.dirtyByPath \in SUBSET Files,
         c.load # NoLoad, c.load.kind = "group", NEW found \in BOOLEAN
  PROVE  Acts(alive, fresh, v, before, TakeGroup(c, found))
  <1>1. c \in ColumnState /\ Tabbed(c)
    BY DEF Acts, Acted
  <1>2. PICK path : path = c.load.path
    OBVIOUS
  <1>3. path \in Modes /\ c.diffActivePath = None
    BY <1>1, <1>2, ColumnIs, LoadIs DEF Tabbed
  <1>4. PICK done : done = [c EXCEPT !.load = NoLoad]
    OBVIOUS
  <1>5. /\ Acts(alive, fresh, v, before, done) /\ done.load = NoLoad /\ done.tabPaths = c.tabPaths
        /\ done.activePath = c.activePath /\ done.diffActivePath = None /\ done.diffGroupTabs = c.diffGroupTabs
    BY <1>3, <1>4, LoadDoneActs
  <1>6. PICK d : Filled(done, path, d)
    BY DEF Filled
  <1>7. CASE path \notin DOMAIN c.diffGroupTabs
    BY <1>2, <1>4, <1>5, <1>7 DEF TakeGroup
  <1>8. CASE path \in DOMAIN c.diffGroupTabs /\ ~found
    <2>1. TakeGroup(c, found) = Closed(done, path)
      BY <1>2, <1>4, <1>8 DEF TakeGroup
    <2>2. IsOpen(done, path) /\ path \in Paths /\ done.diffActivePath # path
      BY <1>1, <1>3, <1>5, <1>8, NamesApart DEF Tabbed, IsOpen
    <2>3. Acts(alive, fresh, v, before, Closed(done, path))
      BY <1>5, <2>2, ClosedActs
    <2> QED BY <2>1, <2>3
  <1>9. CASE path \in DOMAIN c.diffGroupTabs /\ found
    <2>1. /\ Acting(alive, fresh, v, before, d) /\ d.activePath = done.activePath
          /\ done.activePath # path => Acts(alive, fresh, v, before, d)
      BY <1>3, <1>5, <1>6, <1>9, FilledActs
    <2>2. TakeGroup(c, found) = IF c.activePath = path THEN SendDiffGroup(d, path) ELSE d
      BY <1>2, <1>4, <1>6, <1>9 DEF TakeGroup, Filled
    <2>3. CASE c.activePath = path
      BY <1>3, <1>5, <2>1, <2>2, <2>3, SendGroupActs
    <2>4. CASE c.activePath # path
      BY <1>5, <2>1, <2>2, <2>4
    <2> QED BY <2>3, <2>4
  <1> QED BY <1>7, <1>8, <1>9

-----------------------------------------------------------------------------
(* What the user asks                                                      *)

\* The column notes the diff a tab has to have, or that it has none.
LEMMA NotesDiffActs ==
  ASSUME NEW alive, NEW fresh, NEW v, NEW before, NEW c, Acts(alive, fresh, v, before, c),
         NEW path \in Paths, NEW mode \in Modes, NEW d,
         d = [c EXCEPT !.diffModeByPath = With(@, path, mode)] \/ d = [c EXCEPT !.diffModeByPath = Without(@, path)]
  PROVE  /\ Acts(alive, fresh, v, before, d)
         /\ d.tabPaths = c.tabPaths /\ d.activePath = c.activePath
         /\ d.diffActivePath = c.diffActivePath /\ d.diffActiveMode = c.diffActiveMode
  <1>1. c \in ColumnState
    BY DEF Acts, Acted
  <1>2. PICK f : f = c.diffModeByPath
    OBVIOUS
  <1>3. f \in Maps(Paths, Modes)
    BY <1>1, <1>2, ColumnIs
  <1>4. PICK modes : modes \in {With(f, path, mode), Without(f, path)} /\ d = [c EXCEPT !.diffModeByPath = modes]
    BY <1>2
  <1>5. modes \in Maps(Paths, Modes)
    BY <1>3, <1>4, WithTyped, WithoutTyped
  <1> QED BY <1>4, <1>5, ModesActs

Toggled(c, path, mode) ==
    IF c.diffActivePath = path /\ c.diffActiveMode = mode
      THEN StopDiff([c EXCEPT !.diffModeByPath = Without(@, path)])
      ELSE EnterDiff([c EXCEPT !.diffModeByPath = With(@, path, mode)], path, mode)

LEMMA ToggleActs ==
  ASSUME NEW alive \in BOOLEAN, NEW fresh \in BOOLEAN, fresh => alive, NEW v, NEW before, NEW c,
         Acts(alive, fresh, v, before, c),
         NEW path, path = c.activePath, path # None, NEW mode \in Modes
  PROVE  Acts(alive, fresh, v, before, Toggled(c, path, mode))
  <1>1. c \in ColumnState
    BY DEF Acts, Acted
  <1>2. path \in Paths
    BY <1>1, ColumnIs DEF Asked
  <1>3. CASE c.diffActivePath = path /\ c.diffActiveMode = mode
    <2>1. PICK d : d = [c EXCEPT !.diffModeByPath = Without(@, path)]
      OBVIOUS
    <2>2. Acts(alive, fresh, v, before, d) /\ d.activePath = c.activePath
      BY <1>2, <2>1, NotesDiffActs
    <2>3. ~IsGroup(d.activePath)
      BY <1>1, <1>3, <2>2, ColumnIs, NamesApart DEF IsGroup
    <2>4. Acts(alive, fresh, v, before, StopDiff(d))
      BY <2>2, <2>3, StopActs
    <2> QED BY <1>3, <2>1, <2>4 DEF Toggled
  <1>4. CASE ~(c.diffActivePath = path /\ c.diffActiveMode = mode)
    <2>1. PICK d : d = [c EXCEPT !.diffModeByPath = With(@, path, mode)]
      OBVIOUS
    <2>2. Acts(alive, fresh, v, before, d)
      BY <1>2, <2>1, NotesDiffActs
    <2>3. Acts(alive, fresh, v, before, EnterDiff(d, path, mode))
      BY <1>2, <2>2, EnterDiffActs
    <2> QED BY <1>4, <2>1, <2>3 DEF Toggled
  <1> QED BY <1>3, <1>4

ShownDiff(c, path, mode) ==
    LET asked == [c EXCEPT !.diffModeByPath = With(@, path, mode)]
        there == IF IsOpen(c, path) THEN SwitchTo(asked, path) ELSE OpenBuffer(asked, path)
    IN IF there.diffActivePath = path /\ there.diffActiveMode = mode THEN there
       ELSE EnterDiff(there, path, mode)

LEMMA ShowDiffActs ==
  ASSUME NEW alive \in BOOLEAN, NEW fresh \in BOOLEAN, fresh => alive, NEW v, NEW before, NEW c,
         Acts(alive, fresh, v, before, c), NEW path \in Files, NEW mode \in Modes, disk[path] \in Texts
  PROVE  Acts(alive, fresh, v, before, ShownDiff(c, path, mode))
  <1>1. path \in Paths
    BY DEF Paths
  <1>2. PICK asked : asked = [c EXCEPT !.diffModeByPath = With(@, path, mode)]
    OBVIOUS
  <1>3. Acts(alive, fresh, v, before, asked) /\ asked.tabPaths = c.tabPaths
    BY <1>1, <1>2, NotesDiffActs
  <1>4. PICK there : there = IF IsOpen(c, path) THEN SwitchTo(asked, path) ELSE OpenBuffer(asked, path)
    OBVIOUS
  <1>5. Acts(alive, fresh, v, before, there)
    <2>1. CASE IsOpen(c, path)
      BY <1>1, <1>3, <1>4, <2>1, SwitchActs
    <2>2. CASE ~IsOpen(c, path)
      <3>1. ~IsOpen(asked, path) /\ Acting(alive, fresh, v, before, asked)
        BY <1>3, <2>2, ActsActing DEF IsOpen
      <3>2. Acts(alive, fresh, v, before, OpenBuffer(asked, path))
        BY <3>1, OpenActs
      <3> QED BY <1>4, <2>2, <3>2
    <2> QED BY <2>1, <2>2
  <1>6. Acts(alive, fresh, v, before, EnterDiff(there, path, mode))
    BY <1>1, <1>5, EnterDiffActs
  <1>7. ShownDiff(c, path, mode) = IF there.diffActivePath = path /\ there.diffActiveMode = mode THEN there
                                   ELSE EnterDiff(there, path, mode)
    BY <1>2, <1>4 DEF ShownDiff
  <1> QED BY <1>5, <1>6, <1>7

\* A file that is open comes to the front, at a line.
LEMMA OpenAgainActs ==
  ASSUME NEW alive \in BOOLEAN, NEW fresh \in BOOLEAN, fresh => alive, NEW v, NEW before, NEW c,
         Acts(alive, fresh, v, before, c), NEW path \in Files, IsOpen(c, path)
  PROVE  Acts(alive, fresh, v, before, Say(SwitchTo(c, path), [type |-> "goToLine", path |-> path]))
  <1>1. PICK there : there = SwitchTo(c, path)
    OBVIOUS
  <1>2. path \in Paths
    BY DEF Paths
  <1>3. Acts(alive, fresh, v, before, there) /\ there.activePath = path
    BY <1>1, <1>2, SwitchActs
  <1>4. PICK m : m = [type |-> "goToLine", path |-> path]
    OBVIOUS
  <1>5. m \in ToPage /\ m.type = "goToLine" /\ m.path = path
    BY <1>4, ColumnSays
  <1>6. ASSUME NEW w \in Viewed, Agrees(alive, fresh, w, there)
        PROVE  Timely(alive, fresh, w, m) /\ Sees(fresh, w, m) = w
    <2>1. path \in w.models => w.path = path
      BY <1>3, <1>6 DEF Agrees
    <2> QED BY <1>5, <2>1 DEF Timely, Sees
  <1>7. Acts(alive, fresh, v, before, Say(there, m))
    BY <1>3, <1>5, <1>6, SayActs
  <1> QED BY <1>1, <1>4, <1>7

\* Files are to be saved, or were.
LEMMA SavesActs ==
  ASSUME NEW alive \in BOOLEAN, NEW fresh \in BOOLEAN, fresh => alive, NEW v, NEW before, NEW c,
         Acts(alive, fresh, v, before, c), NEW m \in ToPage, m.type \in {"saveAll", "markSaved"}
  PROVE  Acts(alive, fresh, v, before, Say(c, m))
  <1>1. ASSUME NEW w \in Viewed, Agrees(alive, fresh, w, c)
        PROVE  Timely(alive, fresh, w, m) /\ Sees(fresh, w, m) = w
    BY DEF Timely, Sees
  <1> QED BY <1>1, SayActs
-----------------------------------------------------------------------------
(* Folds over sequences                                                    *)

LEMMA MaxOf ==
  ASSUME NEW n \in Nat, NEW s \in SUBSET (1..n), s # {}
  PROVE  Max(s) \in s /\ \A k \in s : k <= Max(s)
  <1> DEFINE U == {k \in 1..n : \A i \in s : i <= k}
  <1>1. n \in U
    <2>1. PICK i : i \in s
      OBVIOUS
    <2>2. n \in 1..n
      BY <2>1
    <2> QED BY <2>2
  <1>2. PICK k \in U : \A m \in U : k <= m
    <2>1. U \in SUBSET Nat /\ U # {}
      BY <1>1
    <2> HIDE DEF U
    <2> QED BY <2>1, LeastNumber
  <1>3. k \in s
    <2> SUFFICES ASSUME k \notin s PROVE FALSE
      OBVIOUS
    <2>1. PICK i \in s : i # k
      BY s # {}
    <2>2. k \in 1..n /\ i \in 1..n /\ i <= k
      BY <1>2
    <2>3. k # 1 /\ \A j \in s : j <= k - 1
      BY <1>2, <2>1, <2>2
    <2>4. k - 1 \in U
      BY <2>2, <2>3
    <2> QED BY <1>2, <2>2, <2>4
  <1>4. \E x \in s : \A y \in s : x >= y
    BY <1>2, <1>3
  <1> QED BY <1>4 DEF Max

LEMMA MaxUpTo ==
  ASSUME NEW k \in Nat, k # 0
  PROVE  Max(1..k) = k /\ (1..k) \ {k} = 1..(k - 1)
  <1>1. (1..k) \in SUBSET (1..k) /\ k \in 1..k
    OBVIOUS
  <1>2. PICK x : x = Max(1..k)
    OBVIOUS
  <1>3. x \in 1..k /\ k <= x
    BY <1>1, <1>2, MaxOf
  <1> QED BY <1>2, <1>3

UpFolds(h, n, base, step) ==
    \A s \in SUBSET (1..n) : h[s] = IF s = {} THEN base ELSE step[h[s \ {Max(s)}], Max(s)]

LEMMA UpFold ==
  ASSUME NEW n \in Nat, NEW T, NEW base \in T, NEW step \in [T \X (1..n) -> T]
  PROVE  \E h \in [SUBSET (1..n) -> T] : UpFolds(h, n, base, step)
  <1> DEFINE choose == [s \in SUBSET (1..n) |-> Max(s)]
  <1>1. Picks(choose, 1..n) /\ \A s \in SUBSET (1..n) : choose[s] = Max(s)
    BY MaxOf DEF Picks
  <1>2. IsFiniteSet(1..n)
    BY FS_Interval
  <1> HIDE DEF choose
  <1>3. PICK h \in [SUBSET (1..n) -> T] : FoldOf(h, SUBSET (1..n), base, step, choose)
    BY <1>1, <1>2, FoldExists
  <1> QED BY <1>1, <1>3 DEF FoldOf, UpFolds

\* h folds up to n: it does so number by number.
Numbered(n, h, r, k) ==
    /\ (1..k) \in SUBSET (1..n) /\ (1..k) # {} /\ Max(1..k) = k
    /\ r[k] = h[1..k] /\ r[k - 1] = h[(1..k) \ {k}]

LEMMA ByNumber ==
  ASSUME NEW n \in Nat, NEW h, NEW r, r = [k \in 0..n |-> h[1..k]], NEW k \in 1..n
  PROVE  Numbered(n, h, r, k)
  <1>1. 1..0 = {} /\ k \in 0..n /\ k - 1 \in 0..n /\ n \in 0..n /\ k \in Nat /\ k # 0
    OBVIOUS
  <1>2. Max(1..k) = k /\ (1..k) \ {k} = 1..(k - 1)
    BY <1>1, MaxUpTo
  <1>3. (1..k) \in SUBSET (1..n) /\ (1..k) # {}
    <2>1. k \in 1..k /\ k \in Nat /\ k <= n
      BY <1>1
    <2>2. \A i \in 1..k : i \in 1..n
      BY <2>1
    <2> QED BY <2>1, <2>2
  <1>4. r[k] = h[1..k] /\ r[k - 1] = h[1..(k - 1)]
    BY <1>1
  <1> QED BY <1>2, <1>3, <1>4 DEF Numbered

OpenTyped(n, seq) == \A c \in ColumnState : \A i \in 1..n : OpenBuffer(c, seq[i]) \in ColumnState
OpenSteps(n, seq, base, r) ==
    /\ r[0] = base
    /\ \A k \in 1..n : r[k] = OpenBuffer(r[k - 1], seq[k])
OpenRun(n, seq, base) ==
    \E r \in [0..n -> ColumnState] : OpenSteps(n, seq, base, r) /\ r[n] = FoldLeft(OpenBuffer, base, seq)

LEMMA OpenFold ==
  ASSUME NEW n \in Nat, NEW seq, DOMAIN seq = 1..n, NEW base \in ColumnState,
         OpenTyped(n, seq)
  PROVE  OpenRun(n, seq, base)
  <1> DEFINE step == [x \in ColumnState \X (1..n) |-> OpenBuffer(x[1], seq[x[2]])]
  <1>1. \A c \in ColumnState : \A i \in 1..n : OpenBuffer(c, seq[i]) \in ColumnState
    BY DEF OpenTyped
  <1>2. step \in [ColumnState \X (1..n) -> ColumnState]
    BY <1>1
  <1>3. \A c \in ColumnState, i \in 1..n : step[c, i] = OpenBuffer(c, seq[i])
    OBVIOUS
  <1> HIDE DEF step
  <1>4. PICK g \in [SUBSET (1..n) -> ColumnState] : UpFolds(g, n, base, step)
    BY <1>2, UpFold
  <1>5. ASSUME NEW s \in SUBSET (1..n)
        PROVE  g[s] = IF s = {} THEN base ELSE OpenBuffer(g[s \ {Max(s)}], seq[Max(s)])
    <2>1. CASE s = {}
      BY <1>4, <2>1 DEF UpFolds
    <2>2. CASE s # {}
      <3>1. PICK x : x = Max(s)
        OBVIOUS
      <3>2. x \in 1..n
        BY <2>2, <3>1, MaxOf
      <3>3. g[s] = step[g[s \ {x}], x]
        BY <1>4, <2>2, <3>1 DEF UpFolds
      <3>4. g[s \ {x}] \in ColumnState
        OBVIOUS
      <3>5. g[s] = OpenBuffer(g[s \ {x}], seq[x])
        BY <1>3, <3>2, <3>3, <3>4
      <3> QED BY <2>2, <3>1, <3>5
    <2> QED BY <2>1, <2>2
  <1>6. PICK h : h = CHOOSE f : f = [s \in SUBSET (1..n) |->
             IF s = {} THEN base ELSE OpenBuffer(f[s \ {Max(s)}], seq[Max(s)])]
    OBVIOUS
  <1>7. FoldLeft(OpenBuffer, base, seq) = h[1..n]
    BY <1>6 DEF FoldLeft, MapThenFoldSet
  <1>8. h = [s \in SUBSET (1..n) |->
             IF s = {} THEN base ELSE OpenBuffer(h[s \ {Max(s)}], seq[Max(s)])]
    <2>1. g = [s \in SUBSET (1..n) |->
             IF s = {} THEN base ELSE OpenBuffer(g[s \ {Max(s)}], seq[Max(s)])]
      BY <1>5
    <2> QED BY <2>1, <1>6
  <1>9. PICK r : r = [k \in 0..n |-> h[1..k]]
    OBVIOUS
  <1>10. r[0] = base /\ r[n] = h[1..n]
    <2>1. 1..0 = {} /\ 0 \in 0..n /\ n \in 0..n
      OBVIOUS
    <2>2. r[0] = h[{}] /\ r[n] = h[1..n]
      BY <1>9, <2>1
    <2>3. h[{}] = base
      BY <1>8
    <2> QED BY <2>2, <2>3
  <1>11. \A k \in 1..n : r[k] = OpenBuffer(r[k - 1], seq[k])
    <2>1. SUFFICES ASSUME NEW k \in 1..n PROVE r[k] = OpenBuffer(r[k - 1], seq[k])
      OBVIOUS
    <2>2. PICK s : s = 1..k
      OBVIOUS
    <2>3. s \in SUBSET (1..n) /\ s # {} /\ Max(s) = k /\ r[k] = h[s] /\ r[k - 1] = h[s \ {k}]
      <3>1. Numbered(n, h, r, k)
        BY <1>9, ByNumber
      <3> QED BY <2>2, <3>1 DEF Numbered
    <2>4. h[s] = OpenBuffer(h[s \ {Max(s)}], seq[Max(s)])
      BY <1>8, <2>3
    <2> QED BY <2>3, <2>4
  <1> DEFINE U == {k \in 0..n : r[k] \in ColumnState}
  <1>12. 0 \in U
    BY <1>10
  <1>13. ASSUME NEW k \in 0..(n - 1), k \in U PROVE k + 1 \in U
    <2>1. k + 1 \in 1..n /\ (k + 1) - 1 = k /\ k + 1 \in 0..n
      OBVIOUS
    <2>2. r[k] \in ColumnState
      BY <1>13
    <2>3. r[k + 1] = OpenBuffer(r[k], seq[k + 1])
      BY <1>11, <2>1
    <2>4. r[k + 1] \in ColumnState
      BY <1>1, <2>1, <2>2, <2>3
    <2> QED BY <2>1, <2>4
  <1>14. \A k \in 0..n : r[k] \in ColumnState
    <2>1. ASSUME NEW k \in 0..n PROVE k \in U
      <3>1. k \in Nat /\ \A j \in 0..(k - 1) : j \in 0..(n - 1)
        OBVIOUS
      <3>2. \A j \in 0..(k - 1) : j \in U => j + 1 \in U
        BY <1>13, <3>1
      <3> HIDE DEF U
      <3> QED BY <1>12, <3>1, <3>2, CountsTo
    <2> QED BY <2>1
  <1>15. r \in [0..n -> ColumnState]
    BY <1>9, <1>14
  <1>16. OpenSteps(n, seq, base, r)
    BY <1>10, <1>11 DEF OpenSteps
  <1>17. r[n] = FoldLeft(OpenBuffer, base, seq)
    BY <1>7, <1>10
  <1> QED BY <1>15, <1>16, <1>17 DEF OpenRun

ReloadTyped(n, seq, reloads) == \A c \in ColumnState : \A i \in 1..n : (IF seq[i] \in reloads THEN ReloadFromDisk(c, seq[i]) ELSE c) \in ColumnState
ReloadSteps(n, seq, base, reloads, r) ==
    /\ r[0] = base
    /\ \A k \in 1..n : r[k] = (IF seq[k] \in reloads THEN ReloadFromDisk(r[k - 1], seq[k]) ELSE r[k - 1])
ReloadEnds(n, seq, base, reloads, last) ==
    last = FoldLeft(LAMBDA c, p : IF p \in reloads THEN ReloadFromDisk(c, p) ELSE c, base, seq)
ReloadRun(n, seq, base, reloads) ==
    \E r \in [0..n -> ColumnState] : ReloadSteps(n, seq, base, reloads, r) /\ ReloadEnds(n, seq, base, reloads, r[n])

LEMMA ReloadFold ==
  ASSUME NEW n \in Nat, NEW seq, DOMAIN seq = 1..n, NEW base \in ColumnState, NEW reloads,
         ReloadTyped(n, seq, reloads)
  PROVE  ReloadRun(n, seq, base, reloads)
  <1> DEFINE step == [x \in ColumnState \X (1..n) |-> (IF seq[x[2]] \in reloads THEN ReloadFromDisk(x[1], seq[x[2]]) ELSE x[1])]
  <1>1. \A c \in ColumnState : \A i \in 1..n : (IF seq[i] \in reloads THEN ReloadFromDisk(c, seq[i]) ELSE c) \in ColumnState
    BY DEF ReloadTyped
  <1>2. step \in [ColumnState \X (1..n) -> ColumnState]
    BY <1>1
  <1>3. \A c \in ColumnState, i \in 1..n : step[c, i] = (IF seq[i] \in reloads THEN ReloadFromDisk(c, seq[i]) ELSE c)
    OBVIOUS
  <1> HIDE DEF step
  <1>4. PICK g \in [SUBSET (1..n) -> ColumnState] : UpFolds(g, n, base, step)
    BY <1>2, UpFold
  <1>5. ASSUME NEW s \in SUBSET (1..n)
        PROVE  g[s] = IF s = {} THEN base ELSE (IF seq[Max(s)] \in reloads THEN ReloadFromDisk(g[s \ {Max(s)}], seq[Max(s)]) ELSE g[s \ {Max(s)}])
    <2>1. CASE s = {}
      BY <1>4, <2>1 DEF UpFolds
    <2>2. CASE s # {}
      <3>1. PICK x : x = Max(s)
        OBVIOUS
      <3>2. x \in 1..n
        BY <2>2, <3>1, MaxOf
      <3>3. g[s] = step[g[s \ {x}], x]
        BY <1>4, <2>2, <3>1 DEF UpFolds
      <3>4. g[s \ {x}] \in ColumnState
        OBVIOUS
      <3>5. g[s] = (IF seq[x] \in reloads THEN ReloadFromDisk(g[s \ {x}], seq[x]) ELSE g[s \ {x}])
        BY <1>3, <3>2, <3>3, <3>4
      <3> QED BY <2>2, <3>1, <3>5
    <2> QED BY <2>1, <2>2
  <1>6. PICK h : h = CHOOSE f : f = [s \in SUBSET (1..n) |->
             IF s = {} THEN base ELSE (IF seq[Max(s)] \in reloads THEN ReloadFromDisk(f[s \ {Max(s)}], seq[Max(s)]) ELSE f[s \ {Max(s)}])]
    OBVIOUS
  <1>7. FoldLeft(LAMBDA c, p : IF p \in reloads THEN ReloadFromDisk(c, p) ELSE c, base, seq) = h[1..n]
    BY <1>6 DEF FoldLeft, MapThenFoldSet
  <1>8. h = [s \in SUBSET (1..n) |->
             IF s = {} THEN base ELSE (IF seq[Max(s)] \in reloads THEN ReloadFromDisk(h[s \ {Max(s)}], seq[Max(s)]) ELSE h[s \ {Max(s)}])]
    <2>1. g = [s \in SUBSET (1..n) |->
             IF s = {} THEN base ELSE (IF seq[Max(s)] \in reloads THEN ReloadFromDisk(g[s \ {Max(s)}], seq[Max(s)]) ELSE g[s \ {Max(s)}])]
      BY <1>5
    <2> QED BY <2>1, <1>6
  <1>9. PICK r : r = [k \in 0..n |-> h[1..k]]
    OBVIOUS
  <1>10. r[0] = base /\ r[n] = h[1..n]
    <2>1. 1..0 = {} /\ 0 \in 0..n /\ n \in 0..n
      OBVIOUS
    <2>2. r[0] = h[{}] /\ r[n] = h[1..n]
      BY <1>9, <2>1
    <2>3. h[{}] = base
      BY <1>8
    <2> QED BY <2>2, <2>3
  <1>11. \A k \in 1..n : r[k] = (IF seq[k] \in reloads THEN ReloadFromDisk(r[k - 1], seq[k]) ELSE r[k - 1])
    <2>1. SUFFICES ASSUME NEW k \in 1..n PROVE r[k] = (IF seq[k] \in reloads THEN ReloadFromDisk(r[k - 1], seq[k]) ELSE r[k - 1])
      OBVIOUS
    <2>2. PICK s : s = 1..k
      OBVIOUS
    <2>3. s \in SUBSET (1..n) /\ s # {} /\ Max(s) = k /\ r[k] = h[s] /\ r[k - 1] = h[s \ {k}]
      <3>1. Numbered(n, h, r, k)
        BY <1>9, ByNumber
      <3> QED BY <2>2, <3>1 DEF Numbered
    <2>4. h[s] = (IF seq[Max(s)] \in reloads THEN ReloadFromDisk(h[s \ {Max(s)}], seq[Max(s)]) ELSE h[s \ {Max(s)}])
      BY <1>8, <2>3
    <2> QED BY <2>3, <2>4
  <1> DEFINE U == {k \in 0..n : r[k] \in ColumnState}
  <1>12. 0 \in U
    BY <1>10
  <1>13. ASSUME NEW k \in 0..(n - 1), k \in U PROVE k + 1 \in U
    <2>1. k + 1 \in 1..n /\ (k + 1) - 1 = k /\ k + 1 \in 0..n
      OBVIOUS
    <2>2. r[k] \in ColumnState
      BY <1>13
    <2>3. r[k + 1] = (IF seq[k + 1] \in reloads THEN ReloadFromDisk(r[k], seq[k + 1]) ELSE r[k])
      BY <1>11, <2>1
    <2>4. r[k + 1] \in ColumnState
      BY <1>1, <2>1, <2>2, <2>3
    <2> QED BY <2>1, <2>4
  <1>14. \A k \in 0..n : r[k] \in ColumnState
    <2>1. ASSUME NEW k \in 0..n PROVE k \in U
      <3>1. k \in Nat /\ \A j \in 0..(k - 1) : j \in 0..(n - 1)
        OBVIOUS
      <3>2. \A j \in 0..(k - 1) : j \in U => j + 1 \in U
        BY <1>13, <3>1
      <3> HIDE DEF U
      <3> QED BY <1>12, <3>1, <3>2, CountsTo
    <2> QED BY <2>1
  <1>15. r \in [0..n -> ColumnState]
    BY <1>9, <1>14
  <1>16. ReloadSteps(n, seq, base, reloads, r)
    BY <1>10, <1>11 DEF ReloadSteps
  <1>17. r[n] = FoldLeft(LAMBDA c, p : IF p \in reloads THEN ReloadFromDisk(c, p) ELSE c, base, seq)
    BY <1>7, <1>10
  <1> QED BY <1>15, <1>16, <1>17 DEF ReloadRun, ReloadEnds

LEMMA OpenedIs ==
  ASSUME NEW c \in ColumnState, NEW path \in Files, disk[path] \in Texts, NEW d, d = OpenBuffer(c, path)
  PROVE  d \in ColumnState /\ d.tabPaths = Append(c.tabPaths, path)
  <1>1. PICK e : e = [c EXCEPT !.tabPaths = Append(@, path), !.dirtyByPath = @ \ {path},
                               !.diskModifiedWhileDirty = @ \ {path}, !.activePath = path]
    OBVIOUS
  <1>2. PICK tabs, dirty, changed : /\ tabs = Append(c.tabPaths, path) /\ dirty = c.dirtyByPath \ {path}
                                    /\ changed = c.diskModifiedWhileDirty \ {path}
    OBVIOUS
  <1>3. e = Column(tabs, path, dirty, changed, c.diffActivePath,
                   c.diffActiveMode, c.diffModeByPath, c.diffGroupTabs, c.load, c.out)
    BY <1>1, <1>2, OpenedTabIs
  <1>4. path \in Asked /\ dirty \in SUBSET Files /\ changed \in SUBSET Files
    BY <1>2, ColumnIs DEF Asked, Paths
  <1>5. tabs \in Seq(Paths)
    <2>1. PICK old : old = c.tabPaths
      OBVIOUS
    <2>2. old \in Seq(Paths) /\ path \in Paths /\ tabs = Append(old, path)
      BY <1>2, <2>1, ColumnIs DEF Paths
    <2> QED BY <2>2, AppendProperties
  <1>6. e \in ColumnState /\ e.tabPaths = tabs
    BY <1>3, <1>4, <1>5, ColumnIs, ColumnTyped, FieldsOf DEF Fields
  <1>7. PICK m : m = [type |-> "openFile", path |-> path, content |-> disk[path], activate |-> TRUE]
    OBVIOUS
  <1>8. m \in ToPage
    BY <1>7, ColumnSays
  <1>9. d = Say(e, m)
    BY <1>1, <1>7 DEF OpenBuffer
  <1> QED BY <1>2, <1>6, <1>8, <1>9, SaidIs

LEMMA ReloadedIs ==
  ASSUME NEW c \in ColumnState, NEW path \in Files, disk[path] \in Texts, NEW d, d = ReloadFromDisk(c, path)
  PROVE  d \in ColumnState
  <1>1. PICK e : e = [c EXCEPT !.diskModifiedWhileDirty = @ \ {path}]
    OBVIOUS
  <1>2. PICK changed : changed = c.diskModifiedWhileDirty \ {path}
    OBVIOUS
  <1>3. e = [c EXCEPT !.diskModifiedWhileDirty = changed] /\ changed \in SUBSET Files
    BY <1>1, <1>2, ColumnIs
  <1>4. e = Column(c.tabPaths, c.activePath, c.dirtyByPath, changed, c.diffActivePath,
                   c.diffActiveMode, c.diffModeByPath, c.diffGroupTabs, c.load, c.out)
    BY <1>3, ChangedSetIs
  <1>5. e \in ColumnState
    BY <1>3, <1>4, ColumnIs, ColumnTyped
  <1>6. PICK activate \in BOOLEAN : activate = (path = c.activePath)
    OBVIOUS
  <1>7. PICK m : m = [type |-> "openFile", path |-> path, content |-> disk[path], activate |-> activate]
    OBVIOUS
  <1>8. m \in ToPage
    BY <1>7, ColumnSays
  <1>9. d = Say(e, m)
    BY <1>1, <1>6, <1>7 DEF ReloadFromDisk
  <1> QED BY <1>5, <1>8, <1>9, SaidIs

\* What is shown of nothing.
Nothing == Shown({}, None, "none", NoDiff, NoDiff, <<>>)

LEMMA NoColumnIs ==
  /\ NoColumn \in ColumnState /\ Tabbed(NoColumn) /\ NoColumn.out = <<>> /\ NoColumn.tabPaths = <<>>
  /\ NoColumn.activePath = None /\ NoColumn.dirtyByPath = {} /\ OpenPaths(NoColumn) = {}
  <1>1. NoColumn = Column(<<>>, None, {}, {}, None, None, Empty, Empty, NoLoad, <<>>)
    BY DEF NoColumn, Column
  <1>2. <<>> \in Seq(Paths) /\ <<>> \in Seq(ToPage) /\ None \in Asked
    BY DEF Asked
  <1>3. Empty \in Maps(Paths, Modes) /\ Empty \in Maps(Modes, {"loading", "shown"}) /\ DOMAIN Empty = {}
    BY EmptyIs
  <1>4. NoColumn \in ColumnState
    BY <1>1, <1>2, <1>3, ColumnTyped, NoLoadIs
  <1>5. Fields(NoColumn, <<>>, None, {}, {}, None, None, Empty, Empty, NoLoad, <<>>)
    BY <1>1, FieldsOf
  <1>6. \A p : ~IsOpen(NoColumn, p)
    BY <1>5 DEF Fields, IsOpen, Contains
  <1>7. OpenPaths(NoColumn) = {}
    BY <1>6 DEF OpenPaths
  <1>8. Tabbed(NoColumn)
    BY <1>3, <1>5, <1>6 DEF Tabbed, Fields
  <1> QED BY <1>4, <1>5, <1>7, <1>8 DEF Fields

LEMMA NothingIs ==
  Nothing \in Viewed /\ Agrees(TRUE, TRUE, Nothing, NoColumn)
  <1>1. /\ Nothing.models = {} /\ Nothing.path = None /\ Nothing.mode = "none" /\ Nothing.due = <<>>
        /\ Nothing \in Viewed
    BY DEF Nothing, Shown, Viewed
  <1>2. ~IsGroup(None)
    BY NamesApart DEF IsGroup
  <1> QED BY <1>1, <1>2, NoColumnIs DEF Agrees, Matches

\* The tabs a session restores.
LEMMA RestoredActs ==
  ASSUME disk \in [Files -> Texts]
  PROVE  Acts(TRUE, TRUE, Nothing, NoColumn, FoldLeft(OpenBuffer, NoColumn, Restored))
  <1>1. PICK seq, n : seq = Restored /\ n = Len(seq)
    OBVIOUS
  <1>2. /\ n \in Nat /\ DOMAIN seq = 1..n /\ \A i \in 1..n : seq[i] \in Files
        /\ \A i \in 1..n : \A j \in 1..n : seq[i] = seq[j] => i = j
    BY <1>1, EditorAssumption DEF IsInjective
  <1>3. \A c \in ColumnState : \A i \in 1..n : OpenBuffer(c, seq[i]) \in ColumnState
    BY <1>2, OpenedIs
  <1>4. PICK r \in [0..n -> ColumnState] :
           /\ r[0] = NoColumn /\ r[n] = FoldLeft(OpenBuffer, NoColumn, seq)
           /\ \A k \in 1..n : r[k] = OpenBuffer(r[k - 1], seq[k])
    <2>1. OpenTyped(n, seq)
      BY <1>3 DEF OpenTyped
    <2>2. OpenRun(n, seq, NoColumn)
      BY <1>2, <2>1, OpenFold, NoColumnIs
    <2> QED BY <2>2 DEF OpenRun, OpenSteps
  <1> DEFINE U == {k \in 0..n : /\ Acts(TRUE, TRUE, Nothing, NoColumn, r[k])
                                /\ \A p : IsOpen(r[k], p) => \E i \in 1..k : seq[i] = p}
  <1>5. 0 \in U
    <2>1. Acts(TRUE, TRUE, Nothing, NoColumn, NoColumn)
      BY ActsNothing, NoColumnIs, NothingIs
    <2>2. \A p : ~IsOpen(NoColumn, p)
      BY NoColumnIs DEF IsOpen, Contains
    <2>3. 0 \in 0..n
      BY <1>2
    <2> QED BY <1>4, <2>1, <2>2, <2>3
  <1>6. ASSUME NEW k \in 0..(n - 1), k \in U PROVE k + 1 \in U
    <2>1. k + 1 \in 1..n /\ (k + 1) - 1 = k /\ k + 1 \in 0..n /\ k \in 0..n
      BY <1>2
    <2>2. PICK c, path : c = r[k] /\ path = seq[k + 1]
      OBVIOUS
    <2>3. Acts(TRUE, TRUE, Nothing, NoColumn, c) /\ \A p : IsOpen(c, p) => \E i \in 1..k : seq[i] = p
      BY <1>6, <2>2
    <2>4. c \in ColumnState /\ path \in Files /\ disk[path] \in Texts
      BY <1>2, <2>1, <2>2
    <2>5. ~IsOpen(c, path)
      <3>1. SUFFICES ASSUME IsOpen(c, path) PROVE FALSE
        OBVIOUS
      <3>2. PICK i \in 1..k : seq[i] = path
        BY <2>3, <3>1
      <3>3. i \in 1..n /\ i # k + 1
        BY <1>2, <2>1, k \in Nat, k + 1 <= n
      <3> QED BY <1>2, <2>1, <2>2, <3>2, <3>3
    <2>6. PICK d : d = OpenBuffer(c, path)
      OBVIOUS
    <2>7. r[k + 1] = d
      BY <1>4, <2>1, <2>2, <2>6
    <2>8. Acts(TRUE, TRUE, Nothing, NoColumn, d)
      BY <2>3, <2>4, <2>5, <2>6, OpenActs, ActsActing
    <2>9. \A p : IsOpen(d, p) => \E i \in 1..(k + 1) : seq[i] = p
      <3>1. PICK old, tabs : old = c.tabPaths /\ tabs = d.tabPaths
        OBVIOUS
      <3>2. old \in Seq(Paths) /\ path \in Paths /\ tabs = Append(old, path)
        BY <2>4, <2>6, <3>1, ColumnIs, OpenedIs DEF Paths
      <3>3. Added(Paths, old, path, tabs)
        BY <3>2, TabsAppend
      <3>4. ASSUME NEW p, IsOpen(d, p) PROVE \E i \in 1..(k + 1) : seq[i] = p
        <4>1. IsOpen(c, p) \/ p = path
          BY <3>1, <3>3, <3>4 DEF Added, IsOpen
        <4>2. CASE p = path
          <5>1. k + 1 \in 1..(k + 1)
            BY <2>1
          <5> QED BY <2>2, <4>2, <5>1
        <4>3. CASE IsOpen(c, p)
          <5>1. PICK i \in 1..k : seq[i] = p
            BY <2>3, <4>3
          <5>2. i \in 1..(k + 1)
            BY <2>1
          <5> QED BY <5>1, <5>2
        <4> QED BY <4>1, <4>2, <4>3
      <3> QED BY <3>4
    <2> QED BY <2>1, <2>7, <2>8, <2>9
  <1>7. n \in U
    <2> HIDE DEF U
    <2> QED BY <1>2, <1>5, <1>6, CountsTo
  <1> QED BY <1>1, <1>4, <1>7

\* The watcher's tick reads some of the open files again.
Rereads(base, reloads, seq, n) == reloads \subseteq OpenPaths(base) /\ seq = base.tabPaths /\ n = Len(seq)

LEMMA ReloadsActs ==
  ASSUME NEW alive \in BOOLEAN, NEW fresh \in BOOLEAN, fresh => alive, NEW v, NEW before, NEW base,
         Acts(alive, fresh, v, before, base), disk \in [Files -> Texts],
         NEW reloads, NEW seq, NEW n, Rereads(base, reloads, seq, n),
         NEW last, ReloadEnds(n, seq, base, reloads, last)
  PROVE  Acts(alive, fresh, v, before, last) /\ last.tabPaths = base.tabPaths
  <1>a. reloads \subseteq OpenPaths(base) /\ seq = base.tabPaths /\ n = Len(seq)
    BY DEF Rereads
  <1>1. base \in ColumnState
    BY DEF Acts, Acted
  <1>3. n \in Nat /\ DOMAIN seq = 1..n
    BY <1>1, <1>a, ColumnIs
  <1>4. \A p \in reloads : p \in Files /\ disk[p] \in Texts
    BY <1>a DEF OpenPaths
  <1>5. \A c \in ColumnState : \A i \in 1..n :
          (IF seq[i] \in reloads THEN ReloadFromDisk(c, seq[i]) ELSE c) \in ColumnState
    BY <1>4, ReloadedIs
  <1>6. PICK r \in [0..n -> ColumnState] :
           ReloadSteps(n, seq, base, reloads, r) /\ ReloadEnds(n, seq, base, reloads, r[n])
    <2>1. ReloadTyped(n, seq, reloads)
      BY <1>5 DEF ReloadTyped
    <2>2. ReloadRun(n, seq, base, reloads)
      BY <1>1, <1>3, <2>1, ReloadFold
    <2> QED BY <2>2 DEF ReloadRun
  <1> DEFINE U == {k \in 0..n : Acts(alive, fresh, v, before, r[k]) /\ r[k].tabPaths = base.tabPaths}
  <1>7. 0 \in U
    <2>1. r[0] = base /\ 0 \in 0..n
      BY <1>3, <1>6 DEF ReloadSteps
    <2> QED BY <2>1
  <1>8. ASSUME NEW k \in 0..(n - 1), k \in U PROVE k + 1 \in U
    <2>1. k + 1 \in 1..n /\ (k + 1) - 1 = k /\ k + 1 \in 0..n
      BY <1>3
    <2>2. PICK c, path : c = r[k] /\ path = seq[k + 1]
      OBVIOUS
    <2>3. Acts(alive, fresh, v, before, c) /\ c.tabPaths = base.tabPaths
      BY <1>8, <2>2
    <2>4. r[k + 1] = IF path \in reloads THEN ReloadFromDisk(c, path) ELSE c
      BY <1>6, <2>1, <2>2 DEF ReloadSteps
    <2>5. CASE path \in reloads
      <3>1. path \in Files /\ disk[path] \in Texts /\ IsOpen(c, path)
        BY <1>4, <1>a, <2>3, <2>5 DEF OpenPaths, IsOpen
      <3>2. Acts(alive, fresh, v, before, ReloadFromDisk(c, path)) /\ ReloadFromDisk(c, path).tabPaths = c.tabPaths
        BY <2>3, <3>1, ReloadActs
      <3> QED BY <2>1, <2>3, <2>4, <2>5, <3>2
    <2>6. CASE path \notin reloads
      BY <2>1, <2>3, <2>4, <2>6
    <2> QED BY <2>5, <2>6
  <1>9. n \in U
    <2> HIDE DEF U
    <2> QED BY <1>3, <1>7, <1>8, CountsTo
  <1>10. Acts(alive, fresh, v, before, r[n]) /\ r[n].tabPaths = base.tabPaths
    BY <1>9
  <1>11. last = r[n]
    BY <1>6 DEF ReloadEnds
  <1> QED BY <1>10, <1>11
-----------------------------------------------------------------------------
(* What is shown, with what is under way                                   *)

\* When the page has taken what was sent, it shows what the column takes to be shown,
\* and has answered every request.
Shows(alive, fresh, js, asked, said, queue, c) ==
    \E due \in Seq(Asked), v \in Viewed :
      /\ Answers(fresh, asked, said, due)
      /\ Follows(alive, fresh, View(fresh, js, due), queue, v)
      /\ Agrees(alive, fresh, v, c)

\* No text of the page is unsaved without the column's knowing: it was told, or is
\* being told, or the page is about to drop the text.
Unsaved(js, said, dirty, queue) ==
    \A p \in DOMAIN js.models : IsDirty(js.models[p]) =>
      \/ LastIn(said, DirtyTold(p), DirtyOf(p))
      \/ NoneIn(said, DirtyOf(p)) /\ p \in dirty
      \/ ~NoneIn(queue, Resets(p))

Silent(state) == [state EXCEPT !.out = <<>>]

LEMMA SilentPage ==
  ASSUME NEW js \in PageState, NEW after, after = Silent(js)
  PROVE  /\ after = Page(js.models, js.currentPath, js.diffMode, js.original, js.drawn, js.redraws,
                         js.pendingSaves, <<>>)
         /\ after \in PageState /\ after.out = <<>> /\ after.models = js.models
         /\ \A alive : PageFits(alive, js) => PageFits(alive, after)
         /\ \A fresh : \A due : View(fresh, after, due) = View(fresh, js, due)
  <1>1. after = Page(js.models, js.currentPath, js.diffMode, js.original, js.drawn, js.redraws,
                     js.pendingSaves, <<>>)
    BY PageIs DEF Silent, Page
  <1>2. PICK none \in Seq(ToSwift) : none = <<>>
    <2>1. <<>> \in Seq(ToSwift)
      OBVIOUS
    <2> QED BY <2>1
  <1>3. after \in PageState
    <2>1. Page(js.models, js.currentPath, js.diffMode, js.original, js.drawn, js.redraws,
               js.pendingSaves, none) \in PageState
      BY PageIs, PageTyped
    <2> QED BY <1>1, <1>2, <2>1
  <1>4. /\ after.models = js.models /\ after.currentPath = js.currentPath /\ after.diffMode = js.diffMode
        /\ after.original = js.original /\ after.drawn = js.drawn /\ after.redraws = js.redraws
        /\ after.pendingSaves = js.pendingSaves /\ after.out = <<>>
    BY <1>1 DEF Page
  <1>5. ShowsDiff(after) = ShowsDiff(js) /\ Drawing(after) = Drawing(js)
    BY <1>4 DEF ShowsDiff, Drawing
  <1>6. \A alive : PageFits(alive, js) => PageFits(alive, after)
    BY <1>4, <1>5 DEF PageFits
  <1>7. \A fresh : \A due : View(fresh, after, due) = View(fresh, js, due)
    BY <1>4, <1>5 DEF View
  <1> QED BY <1>1, <1>3, <1>4, <1>6, <1>7

LEMMA SilentColumn ==
  ASSUME NEW c \in ColumnState, NEW d, d = Silent(c)
  PROVE  /\ d \in ColumnState /\ d.out = <<>> /\ d.tabPaths = c.tabPaths /\ d.activePath = c.activePath
         /\ d.dirtyByPath = c.dirtyByPath /\ d.diskModifiedWhileDirty = c.diskModifiedWhileDirty
         /\ OpenPaths(d) = OpenPaths(c) /\ d.load = c.load
         /\ Tabbed(c) => Tabbed(d)
         /\ \A alive : \A fresh : \A v : Agrees(alive, fresh, v, c) => Agrees(alive, fresh, v, d)
  <1>1. d = Column(c.tabPaths, c.activePath, c.dirtyByPath, c.diskModifiedWhileDirty, c.diffActivePath,
                   c.diffActiveMode, c.diffModeByPath, c.diffGroupTabs, c.load, <<>>)
    BY OutSetIs DEF Silent
  <1>2. PICK none \in Seq(ToPage) : none = <<>>
    <2>1. <<>> \in Seq(ToPage)
      OBVIOUS
    <2> QED BY <2>1
  <1>3. d \in ColumnState
    <2>1. d = Column(c.tabPaths, c.activePath, c.dirtyByPath, c.diskModifiedWhileDirty, c.diffActivePath,
                     c.diffActiveMode, c.diffModeByPath, c.diffGroupTabs, c.load, none)
      BY <1>1, <1>2
    <2> QED BY <2>1, ColumnIs, ColumnTyped
  <1>4. Fields(d, c.tabPaths, c.activePath, c.dirtyByPath, c.diskModifiedWhileDirty, c.diffActivePath,
               c.diffActiveMode, c.diffModeByPath, c.diffGroupTabs, c.load, <<>>)
    BY <1>1, FieldsOf
  <1>5. /\ d.tabPaths = c.tabPaths /\ d.activePath = c.activePath /\ d.dirtyByPath = c.dirtyByPath
        /\ d.diskModifiedWhileDirty = c.diskModifiedWhileDirty /\ d.diffActivePath = c.diffActivePath
        /\ d.diffActiveMode = c.diffActiveMode /\ d.diffGroupTabs = c.diffGroupTabs /\ d.load = c.load
        /\ d.out = <<>>
    BY <1>4 DEF Fields
  <1>6. OpenPaths(d) = OpenPaths(c)
    BY <1>5, OpenIsSame
  <1>7. Tabbed(c) => Tabbed(d)
    BY <1>5, TabbedSame
  <1>8. \A alive : \A fresh : \A v : Agrees(alive, fresh, v, c) => Agrees(alive, fresh, v, d)
    BY <1>5, <1>6 DEF Agrees, Matches
  <1> QED BY <1>3, <1>5, <1>6, <1>7, <1>8

\* The page acted, and what it says is on its way.
LEMMA BecomesShows ==
  ASSUME NEW alive \in BOOLEAN, NEW fresh \in BOOLEAN, NEW js, NEW asked, NEW said \in Seq(ToSwift),
         NEW due \in Seq(Asked), Answers(fresh, asked, said, due),
         NEW after, NEW u, Becomes(alive, fresh, due, js, after, u),
         NEW queue, NEW v \in Viewed, Follows(alive, fresh, u, queue, v), NEW c, Agrees(alive, fresh, v, c)
  PROVE  Shows(alive, fresh, Silent(after), asked, said \o after.out, queue, c)
  <1>1. PICK left \in Seq(Asked) : Answers(fresh, due, after.out, left) /\ View(fresh, after, left) = u
    BY DEF Becomes
  <1>2. after \in PageState /\ after.out \in Seq(ToSwift)
    BY PageIs DEF Becomes
  <1>3. Answers(fresh, asked, said \o after.out, left)
    BY <1>1, <1>2, LeadsOn DEF Answers
  <1>4. View(fresh, Silent(after), left) = u
    BY <1>1, <1>2, SilentPage
  <1> QED BY <1>3, <1>4 DEF Shows

\* The page takes the first message sent.
TakesHead(alive, fresh, js, m, after) ==
    \A due \in Seq(Asked) : Timely(alive, fresh, View(fresh, js, due), m) => Taken(alive, fresh, due, js, m, after)

LEMMA TakenShows ==
  ASSUME NEW alive \in BOOLEAN, NEW fresh \in BOOLEAN, NEW js, NEW asked, NEW said \in Seq(ToSwift),
         NEW queue \in Seq(ToPage), queue # <<>>, NEW c, Shows(alive, fresh, js, asked, said, queue, c),
         NEW m, m = Head(queue), NEW after, TakesHead(alive, fresh, js, m, after)
  PROVE  /\ Shows(alive, fresh, Silent(after), asked, said \o after.out, Tail(queue), c)
         /\ after \in PageState /\ PageFits(alive, after) /\ Told(js, after)
  <1>1. PICK due \in Seq(Asked), v \in Viewed :
           /\ Answers(fresh, asked, said, due)
           /\ Follows(alive, fresh, View(fresh, js, due), queue, v)
           /\ Agrees(alive, fresh, v, c)
    BY DEF Shows
  <1>2. /\ Timely(alive, fresh, View(fresh, js, due), m)
        /\ Follows(alive, fresh, Sees(fresh, View(fresh, js, due), m), Tail(queue), v)
    BY <1>1, RestFollows
  <1>3. Taken(alive, fresh, due, js, m, after)
    BY <1>2 DEF TakesHead
  <1>4. Becomes(alive, fresh, due, js, after, Sees(fresh, View(fresh, js, due), m))
    BY <1>3 DEF Taken
  <1>5. Shows(alive, fresh, Silent(after), asked, said \o after.out, Tail(queue), c)
    BY <1>1, <1>2, <1>4, BecomesShows
  <1> QED BY <1>4, <1>5 DEF Becomes

\* The page acts by itself, and shows what it showed.
Stays(alive, fresh, js, after) ==
    \A due \in Seq(Asked) : Becomes(alive, fresh, due, js, after, View(fresh, js, due))

LEMMA StaysShows ==
  ASSUME NEW alive \in BOOLEAN, NEW fresh \in BOOLEAN, NEW js, NEW asked, NEW said \in Seq(ToSwift),
         NEW queue \in Seq(ToPage), NEW c, Shows(alive, fresh, js, asked, said, queue, c),
         NEW after, Stays(alive, fresh, js, after)
  PROVE  /\ Shows(alive, fresh, Silent(after), asked, said \o after.out, queue, c)
         /\ after \in PageState /\ PageFits(alive, after) /\ Told(js, after)
  <1>1. PICK due \in Seq(Asked), v \in Viewed :
           /\ Answers(fresh, asked, said, due)
           /\ Follows(alive, fresh, View(fresh, js, due), queue, v)
           /\ Agrees(alive, fresh, v, c)
    BY DEF Shows
  <1>2. Becomes(alive, fresh, due, js, after, View(fresh, js, due))
    BY DEF Stays
  <1>3. Shows(alive, fresh, Silent(after), asked, said \o after.out, queue, c)
    BY <1>1, <1>2, BecomesShows
  <1> QED BY <1>2, <1>3 DEF Becomes

\* The column acts, whatever is shown.
ActsFor(alive, fresh, before, c) ==
    \A v \in Viewed : Acts(alive, fresh, v, before, before) => Acts(alive, fresh, v, before, c)

LEMMA ColumnShows ==
  ASSUME NEW alive \in BOOLEAN, NEW fresh \in BOOLEAN, NEW js, NEW asked, NEW said,
         NEW queue \in Seq(ToPage), NEW before \in ColumnState, Tabbed(before), before.out = <<>>,
         Shows(alive, fresh, js, asked, said, queue, before),
         NEW c, ActsFor(alive, fresh, before, c)
  PROVE  /\ Shows(alive, fresh, js, asked, said, queue \o c.out, Silent(c))
         /\ c \in ColumnState /\ Tabbed(c) /\ Keeps(before, c)
  <1>1. PICK due \in Seq(Asked), v \in Viewed :
           /\ Answers(fresh, asked, said, due)
           /\ Follows(alive, fresh, View(fresh, js, due), queue, v)
           /\ Agrees(alive, fresh, v, before)
    BY DEF Shows
  <1>2. Acts(alive, fresh, v, before, c)
    BY <1>1, ActsNothing DEF ActsFor
  <1>3. PICK w : Acted(alive, fresh, v, before, c, w) /\ Agrees(alive, fresh, w, c)
    BY <1>2 DEF Acts
  <1>4. c \in ColumnState /\ Tabbed(c) /\ Follows(alive, fresh, v, c.out, w) /\ Keeps(before, c)
    BY <1>3 DEF Acted
  <1>5. c.out \in Seq(ToPage) /\ w \in Viewed
    BY <1>4, ColumnIs, FollowsTyped
  <1>6. Follows(alive, fresh, View(fresh, js, due), queue \o c.out, w)
    BY <1>1, <1>4, <1>5, FollowsOn
  <1>7. Agrees(alive, fresh, w, Silent(c))
    BY <1>3, <1>4, SilentColumn
  <1> QED BY <1>1, <1>4, <1>5, <1>6, <1>7 DEF Shows
\* Once the page left a collection by itself, all but collections agree.
LEMMA ShowsStale ==
  ASSUME NEW alive \in BOOLEAN, NEW js \in PageState, PageFits(alive, js), NEW asked, NEW said \in Seq(ToSwift),
         NEW queue \in Seq(ToPage), NEW c, Shows(alive, TRUE, js, asked, said, queue, c)
  PROVE  Shows(alive, FALSE, js, asked, said, queue, c)
  <1>1. PICK due \in Seq(Asked), v \in Viewed :
           /\ Answers(TRUE, asked, said, due)
           /\ Follows(alive, TRUE, View(TRUE, js, due), queue, v)
           /\ Agrees(alive, TRUE, v, c)
    BY DEF Shows
  <1>2. Answers(FALSE, asked, said, due)
    BY <1>1, AnswersStale
  <1>3. NoGroup(View(TRUE, js, due)) = View(FALSE, js, due)
    <2>1. js.diffMode = "pierre-group" => js.original = NoDiff /\ ~ShowsDiff(js)
      BY DEF PageFits, ShowsDiff
    <2>2. CASE js.diffMode = "pierre-group"
      BY <2>1, <2>2 DEF NoGroup, View, Shown
    <2>3. CASE js.diffMode # "pierre-group"
      <3>1. CASE ShowsDiff(js)
        BY <2>3, <3>1 DEF NoGroup, View, Shown
      <3>2. CASE ~ShowsDiff(js)
        BY <2>3, <3>2 DEF NoGroup, View, Shown
      <3> QED BY <3>1, <3>2
    <2> QED BY <2>2, <2>3
  <1>4. Follows(alive, FALSE, View(FALSE, js, due), queue, NoGroup(v))
    BY <1>1, <1>3, FollowsNoGroup
  <1>5. NoGroup(v) \in Viewed /\ NoGroup(v).models = v.models /\ NoGroup(v).path = v.path /\ NoGroup(v).due = v.due
        /\ NoGroup(v).mode = IF v.mode = "group" THEN "none" ELSE v.mode
    BY NoGroupTyped
  <1>6. NoGroup(v).mode = "file" => v.mode = "file" /\ NoGroup(v).original = v.original
    BY <1>5 DEF NoGroup, Shown
  <1>7. Agrees(alive, FALSE, NoGroup(v), c)
    BY <1>1, <1>5, <1>6 DEF Agrees, Matches
  <1> QED BY <1>2, <1>4, <1>5, <1>7 DEF Shows

\* The column asks for the selection of the tab in front.
LEMMA ShowsAsked ==
  ASSUME NEW alive \in BOOLEAN, NEW fresh \in BOOLEAN, NEW js \in PageState, NEW asked, NEW said \in Seq(ToSwift),
         NEW queue \in Seq(ToPage), NEW c \in ColumnState, Shows(alive, fresh, js, asked, said, queue, c),
         NEW path, path = c.activePath, NEW m, m = [type |-> "getSelection"]
  PROVE  Shows(alive, fresh, js, Append(asked, path), said, Append(queue, m), c)
  <1>1. PICK due \in Seq(Asked), v \in Viewed :
           /\ Answers(fresh, asked, said, due)
           /\ Follows(alive, fresh, View(fresh, js, due), queue, v)
           /\ Agrees(alive, fresh, v, c)
    BY DEF Shows
  <1>2. path \in Asked
    BY ColumnIs
  <1>3. Answers(fresh, Append(asked, path), said, Append(due, path)) /\ Append(due, path) \in Seq(Asked)
    BY <1>1, <1>2, AnswersAsked
  <1>4. Owes(View(fresh, js, due), path) = View(fresh, js, Append(due, path))
    BY DEF Owes, View, Shown
  <1>5. Follows(alive, fresh, View(fresh, js, Append(due, path)), queue, Owes(v, path))
    BY <1>1, <1>2, <1>4, FollowsOwes
  <1>6. m \in ToPage /\ m.type = "getSelection"
    BY ColumnSays
  <1>7. PICK w : w = Owes(v, path)
    OBVIOUS
  <1>8. v.due = <<>> /\ (fresh => v.mode = "group" \/ v.path = path)
    BY <1>1 DEF Agrees, Matches
  <1>9. w \in Viewed /\ w.due = Append(v.due, path) /\ w.models = v.models /\ w.path = v.path /\ w.mode = v.mode
        /\ w.original = v.original /\ w.drawn = v.drawn
    BY <1>2, <1>7, OwesTyped
  <1>10. w.due # <<>> /\ Head(w.due) = path /\ Tail(w.due) = v.due
    BY <1>2, <1>8, <1>9
  <1>11. Timely(alive, fresh, w, m)
    BY <1>6, <1>8, <1>9, <1>10 DEF Timely
  <1>12. Sees(fresh, w, m) = v
    <2>1. Sees(fresh, w, m) = Answered(w)
      BY <1>6 DEF Sees
    <2>2. v = [models |-> v.models, path |-> v.path, mode |-> v.mode, original |-> v.original,
               drawn |-> v.drawn, due |-> v.due]
      BY ViewedIs
    <2> QED BY <1>9, <1>10, <2>1, <2>2 DEF Answered, Shown
  <1>13. Follows(alive, fresh, View(fresh, js, Append(due, path)), Append(queue, m), v)
    BY <1>5, <1>6, <1>7, <1>11, <1>12, OneMoreFollows
  <1> QED BY <1>1, <1>3, <1>13 DEF Shows

-----------------------------------------------------------------------------
(* Unsaved text                                                            *)

\* A file the page was to drop or read again is dropped or clean when that is done.
Drops(after, queue, rest) ==
    \A p \in DOMAIN after.models : IsDirty(after.models[p]) /\ ~NoneIn(queue, Resets(p)) => ~NoneIn(rest, Resets(p))

LEMMA UnsavedPage ==
  ASSUME NEW js, NEW said \in Seq(ToSwift), NEW dirty, NEW queue, Unsaved(js, said, dirty, queue),
         NEW after \in PageState, Told(js, after), NEW rest, Drops(after, queue, rest)
  PROVE  Unsaved(Silent(after), said \o after.out, dirty, rest)
  <1>1. Silent(after).models = after.models /\ after.out \in Seq(ToSwift)
    BY SilentPage, PageIs
  <1>2. ASSUME NEW p \in DOMAIN after.models, IsDirty(after.models[p])
        PROVE  \/ LastIn(said \o after.out, DirtyTold(p), DirtyOf(p))
               \/ NoneIn(said \o after.out, DirtyOf(p)) /\ p \in dirty
               \/ ~NoneIn(rest, Resets(p))
    <2>1. CASE LastIn(after.out, DirtyTold(p), DirtyOf(p))
      BY <1>1, <2>1, LastInOn
    <2>2. CASE ~LastIn(after.out, DirtyTold(p), DirtyOf(p))
      <3>1. /\ NoneIn(after.out, DirtyOf(p))
            /\ p \in DOMAIN js.models /\ IsDirty(js.models[p])
        BY <1>2, <2>2 DEF Told
      <3>2. \/ LastIn(said, DirtyTold(p), DirtyOf(p))
            \/ NoneIn(said, DirtyOf(p)) /\ p \in dirty
            \/ ~NoneIn(queue, Resets(p))
        BY <3>1 DEF Unsaved
      <3>3. CASE LastIn(said, DirtyTold(p), DirtyOf(p))
        BY <1>1, <3>1, <3>3, LastInOn
      <3>4. CASE NoneIn(said, DirtyOf(p)) /\ p \in dirty
        BY <1>1, <3>1, <3>4, NoneInOn
      <3>5. CASE ~NoneIn(queue, Resets(p))
        BY <1>2, <3>5 DEF Drops
      <3> QED BY <3>2, <3>3, <3>4, <3>5
    <2> QED BY <2>1, <2>2
  <1> QED BY <1>1, <1>2 DEF Unsaved

LEMMA UnsavedColumn ==
  ASSUME NEW js, NEW said, NEW before, NEW queue \in Seq(ToPage), Unsaved(js, said, before.dirtyByPath, queue),
         NEW c \in ColumnState, Keeps(before, c)
  PROVE  Unsaved(js, said, c.dirtyByPath, queue \o c.out)
  <1>1. c.out \in Seq(ToPage)
    BY ColumnIs
  <1>2. \A p : ~NoneIn(queue, Resets(p)) \/ ~NoneIn(c.out, Resets(p)) => ~NoneIn(queue \o c.out, Resets(p))
    BY <1>1, NoneInOn
  <1>3. \A p \in before.dirtyByPath : p \in c.dirtyByPath \/ ~NoneIn(c.out, Resets(p))
    BY DEF Keeps
  <1> QED BY <1>2, <1>3 DEF Unsaved

\* The column is told of a text.
LEMMA UnsavedTold ==
  ASSUME NEW js, NEW said \in Seq(ToSwift), said # <<>>, NEW dirty, NEW queue, Unsaved(js, said, dirty, queue),
         NEW m, m = Head(said), NEW known,
         m.type = "dirty" => known = (IF m.isDirty THEN dirty \cup {m.path} ELSE dirty \ {m.path}),
         m.type # "dirty" => known = dirty
  PROVE  Unsaved(js, Tail(said), known, queue)
  <1>1. m \in ToSwift
    BY HeadTailProperties
  <1>2. ASSUME NEW p \in DOMAIN js.models, IsDirty(js.models[p])
        PROVE  \/ LastIn(Tail(said), DirtyTold(p), DirtyOf(p))
               \/ NoneIn(Tail(said), DirtyOf(p)) /\ p \in known
               \/ ~NoneIn(queue, Resets(p))
    <2>1. \/ LastIn(said, DirtyTold(p), DirtyOf(p))
          \/ NoneIn(said, DirtyOf(p)) /\ p \in dirty
          \/ ~NoneIn(queue, Resets(p))
      BY <1>2 DEF Unsaved
    <2>2. CASE LastIn(said, DirtyTold(p), DirtyOf(p))
      <3>1. LastIn(Tail(said), DirtyTold(p), DirtyOf(p)) \/ (m \in DirtyTold(p) /\ NoneIn(Tail(said), DirtyOf(p)))
        BY <2>2, LastInRest
      <3>2. m \in DirtyTold(p) => p \in known
        BY DEF DirtyTold, DirtyOf
      <3> QED BY <3>1, <3>2
    <2>3. CASE NoneIn(said, DirtyOf(p)) /\ p \in dirty
      <3>1. NoneIn(Tail(said), DirtyOf(p)) /\ m \notin DirtyOf(p)
        BY <2>3, LastInRest
      <3>2. p \in known
        BY <1>1, <2>3, <3>1 DEF DirtyOf
      <3> QED BY <3>1, <3>2
    <2> QED BY <2>1, <2>2, <2>3
  <1> QED BY <1>2 DEF Unsaved

LEMMA SwitchModels ==
  ASSUME NEW js \in PageState, NEW path
  PROVE  SwitchToPath(js, path).models = js.models
  <1>1. js = Page(js.models, js.currentPath, js.diffMode, js.original, js.drawn, js.redraws, js.pendingSaves, js.out)
    BY PageIs
  <1>2. CASE path \notin DOMAIN js.models
    BY <1>2 DEF SwitchToPath
  <1>3. CASE path \in DOMAIN js.models
    <2>1. PICK left : left = (IF js.diffMode # None THEN ExitDiff(js) ELSE js)
      OBVIOUS
    <2>2. \E diffMode, original, drawn, redraws :
            left = Page(js.models, js.currentPath, diffMode, original, drawn, redraws, js.pendingSaves, js.out)
      BY <1>1, <2>1, ExitDiffIs
    <2>3. PICK front : front = [left EXCEPT !.currentPath = path]
      OBVIOUS
    <2>4. \E diffMode, original, drawn, redraws :
            front = Page(js.models, path, diffMode, original, drawn, redraws, js.pendingSaves, js.out)
      <3>1. PICK diffMode, original, drawn, redraws :
              left = Page(js.models, js.currentPath, diffMode, original, drawn, redraws, js.pendingSaves, js.out)
        BY <2>2
      <3>2. front = Page(js.models, path, diffMode, original, drawn, redraws, js.pendingSaves, js.out)
        BY <2>3, <3>1 DEF Page
      <3> QED BY <3>2
    <2>5. SwitchToPath(js, path) = ReportDirtyFor(front, path)
      BY <1>3, <2>1, <2>3 DEF SwitchToPath
    <2>6. ReportDirtyFor(front, path).models = js.models
      BY <2>4 DEF ReportDirtyFor, Post, Page
    <2> QED BY <2>5, <2>6
  <1> QED BY <1>2, <1>3

\* A file that was opened is clean; one that was closed is gone.
LEMMA ResetIs ==
  ASSUME NEW js \in PageState, NEW m \in ToPage, NEW isEmpty, NEW p, m \in Resets(p),
         NEW after, after = HandleMessage(js, m, isEmpty), p \in DOMAIN after.models
  PROVE  ~IsDirty(after.models[p])
  <1>1. m.type \in {"openFile", "closeTab"} /\ m.path = p
    BY DEF Resets
  <1>2. CASE m.type = "closeTab"
    <2>1. after = CloseTab(js, p)
      BY <1>1, <1>2 DEF HandleMessage
    <2>2. CASE p \in DOMAIN js.models
      <3>1. after.models = Without(js.models, p)
        BY <2>1, <2>2, CloseTabIs DEF Page
      <3> QED BY <3>1 DEF Without
    <2>3. CASE p \notin DOMAIN js.models
      BY <2>1, <2>3 DEF CloseTab
    <2> QED BY <2>2, <2>3
  <1>3. CASE m.type = "openFile"
    <2>1. after = ApplyOpen(js, m) /\ p \in Files /\ m.content \in Texts
      BY <1>1, <1>3, PageMessage DEF HandleMessage
    <2>2. PICK opened : opened = IF p \in DOMAIN js.models
                    THEN [SetValue(js, p, m.content) EXCEPT !.models[p] = CleanEntry(m.content)]
                    ELSE [js EXCEPT !.models = With(@, p, CleanEntry(m.content))]
      OBVIOUS
    <2>3. after = IF m.activate THEN SwitchToPath(opened, p) ELSE opened
      BY <1>1, <2>1, <2>2 DEF ApplyOpen, CleanEntry
    <2>4. OpenedPage(js, p, m.content, opened)
      BY <2>1, <2>2, OpenIs
    <2>5. opened.models[p] = CleanEntry(m.content)
      BY <2>4 DEF OpenedPage, Page
    <2>6. opened \in PageState
      <3>1. PICK models \in Models, redraws \in BOOLEAN, out \in Seq(ToSwift) :
              opened = Page(models, js.currentPath, js.diffMode, js.original, js.drawn, redraws, js.pendingSaves, out)
        BY <2>4 DEF OpenedPage
      <3> QED BY <3>1, PageIs, PageTyped
    <2>7. after.models = opened.models
      BY <2>3, <2>6, SwitchModels
    <2> QED BY <2>5, <2>7 DEF CleanEntry, IsDirty
  <1> QED BY <1>1, <1>2, <1>3

LEMMA HeadDrops ==
  ASSUME NEW js \in PageState, NEW queue \in Seq(ToPage), queue # <<>>, NEW m, m = Head(queue), NEW isEmpty,
         NEW after, after = HandleMessage(js, m, isEmpty)
  PROVE  Drops(after, queue, Tail(queue))
  <1>1. m \in ToPage
    BY HeadTailProperties
  <1>2. ASSUME NEW p \in DOMAIN after.models, IsDirty(after.models[p]), ~NoneIn(queue, Resets(p)),
               NoneIn(Tail(queue), Resets(p))
        PROVE  FALSE
    <2>1. PICK i \in 1..Len(queue) : queue[i] \in Resets(p)
      BY <1>2 DEF NoneIn
    <2>2. CASE i = 1
      <3>1. m \in Resets(p)
        BY <2>1, <2>2
      <3> QED BY <1>1, <1>2, <3>1, ResetIs
    <2>3. CASE i # 1
      <3>1. i - 1 \in 1..Len(Tail(queue)) /\ Tail(queue)[i - 1] = queue[i]
        BY <2>1, <2>3
      <3> QED BY <1>2, <2>1, <3>1 DEF NoneIn
    <2> QED BY <2>2, <2>3
  <1> QED BY <1>2 DEF Drops

\* Another message resets nothing.
LEMMA OtherDrops ==
  ASSUME NEW queue \in Seq(ToPage), queue # <<>>, NEW m, m = Head(queue), m.type \notin {"openFile", "closeTab"},
         NEW after
  PROVE  Drops(after, queue, Tail(queue)) /\ Drops(after, queue, queue)
  <1>1. ASSUME NEW p, ~NoneIn(queue, Resets(p))
        PROVE  ~NoneIn(Tail(queue), Resets(p))
    <2>1. PICK i \in 1..Len(queue) : queue[i] \in Resets(p)
      BY <1>1 DEF NoneIn
    <2>2. i # 1
      BY <2>1 DEF Resets
    <2>3. i - 1 \in 1..Len(Tail(queue)) /\ Tail(queue)[i - 1] = queue[i]
      BY <2>1, <2>2
    <2> QED BY <2>1, <2>3 DEF NoneIn
  <1> QED BY <1>1 DEF Drops
-----------------------------------------------------------------------------
(* Which tabs there are                                                    *)

\* A column with these tabs.
HasTabs(c, tabs) == "tabPaths" \in DOMAIN c /\ c.tabPaths = tabs

LEMMA ColumnHasTabs ==
  ASSUME NEW c \in ColumnState
  PROVE  HasTabs(c, c.tabPaths)
  BY DEF ColumnState, HasTabs

LEMMA SetsKeepTabs ==
  ASSUME NEW c, NEW tabs, HasTabs(c, tabs), NEW x
  PROVE  /\ HasTabs([c EXCEPT !.out = x], tabs) /\ HasTabs([c EXCEPT !.load = x], tabs)
         /\ HasTabs([c EXCEPT !.activePath = x], tabs) /\ HasTabs([c EXCEPT !.diffActivePath = x], tabs)
         /\ HasTabs([c EXCEPT !.diffActiveMode = x], tabs) /\ HasTabs([c EXCEPT !.diffModeByPath = x], tabs)
         /\ HasTabs([c EXCEPT !.diskModifiedWhileDirty = x], tabs)
         /\ HasTabs([c EXCEPT !.diffActivePath = None, !.diffActiveMode = None, !.load = NoLoad], tabs)
         /\ HasTabs([c EXCEPT !.load = NoLoad, !.diffActivePath = None, !.diffActiveMode = None], tabs)
  BY DEF HasTabs

LEMMA SayTabs ==
  ASSUME NEW c, NEW tabs, HasTabs(c, tabs), NEW m
  PROVE  HasTabs(Say(c, m), tabs)
  BY DEF HasTabs, Say

LEMMA EnterDiffTabs ==
  ASSUME NEW c, NEW tabs, HasTabs(c, tabs), NEW path, NEW mode
  PROVE  HasTabs(EnterDiff(c, path, mode), tabs)
  BY DEF HasTabs, EnterDiff

LEMMA ShowTabTabs ==
  ASSUME NEW c, NEW tabs, HasTabs(c, tabs), NEW path
  PROVE  HasTabs(ShowTab(c, path), tabs)
  <1>1. \A m : HasTabs(Say(c, m), tabs)
    BY SayTabs
  <1>2. CASE IsGroup(path)
    BY <1>1, <1>2 DEF ShowTab, SendDiffGroup
  <1>3. CASE ~IsGroup(path)
    <2>1. PICK shown : shown = Say(c, [type |-> "switchTab", path |-> path])
      OBVIOUS
    <2>2. HasTabs(shown, tabs)
      BY <1>1, <2>1
    <2>3. \A mode : HasTabs(EnterDiff(shown, path, mode), tabs)
      BY <2>2, EnterDiffTabs
    <2>4. \/ ShowTab(c, path) = shown
          \/ ShowTab(c, path) = EnterDiff(shown, path, c.diffModeByPath[path])
      BY <1>3, <2>1 DEF ShowTab
    <2> QED BY <2>2, <2>3, <2>4
  <1> QED BY <1>2, <1>3

LEMMA SwitchTabs ==
  ASSUME NEW c, NEW tabs, HasTabs(c, tabs), NEW path
  PROVE  HasTabs(SwitchTo(c, path), tabs)
  <1>1. PICK left : left = ForgetDiff(c)
    OBVIOUS
  <1>2. HasTabs(left, tabs)
    BY <1>1, SetsKeepTabs DEF ForgetDiff
  <1>3. PICK there : there = [left EXCEPT !.activePath = path]
    OBVIOUS
  <1>4. HasTabs(there, tabs)
    BY <1>2, <1>3, SetsKeepTabs
  <1>5. HasTabs(ShowTab(there, path), tabs)
    BY <1>4, ShowTabTabs
  <1>6. SwitchTo(c, path) = c \/ SwitchTo(c, path) = ShowTab(there, path)
    BY <1>1, <1>3 DEF SwitchTo
  <1> QED BY <1>5, <1>6

LEMMA StopTabs ==
  ASSUME NEW c, NEW tabs, HasTabs(c, tabs)
  PROVE  HasTabs(StopDiff(c), tabs)
  BY SetsKeepTabs, SayTabs DEF StopDiff

LEMMA TakeDiffTabs ==
  ASSUME NEW c, NEW tabs, HasTabs(c, tabs), NEW found
  PROVE  HasTabs(TakeDiff(c, found), tabs)
  <1>1. PICK done : done = [c EXCEPT !.load = NoLoad]
    OBVIOUS
  <1>2. HasTabs(done, tabs)
    BY <1>1, SetsKeepTabs
  <1>3. HasTabs(ForgetFailedDiffMode(done, c.load.path), tabs)
    BY <1>2, SetsKeepTabs DEF ForgetFailedDiffMode
  <1>4. PICK took : took = [done EXCEPT !.diffActivePath = c.load.path, !.diffActiveMode = c.load.mode]
    OBVIOUS
  <1>5. HasTabs(took, tabs)
    BY <1>2, <1>4 DEF HasTabs
  <1>6. \A m : HasTabs(Say(took, m), tabs)
    BY <1>5, SayTabs
  <1>7. \/ TakeDiff(c, found) = done \/ TakeDiff(c, found) = ForgetFailedDiffMode(done, c.load.path)
        \/ \E m : TakeDiff(c, found) = Say(took, m)
    BY <1>1, <1>4 DEF TakeDiff
  <1> QED BY <1>2, <1>3, <1>6, <1>7

\* Which files are open when a tab closed.
LEMMA ClosedTabs ==
  ASSUME NEW c \in ColumnState, Tabbed(c), NEW path \in Paths, IsOpen(c, path)
  PROVE  OpenPaths(Closed(c, path)) = OpenPaths(c) \ {path}
  <1> DEFINE i == CHOOSE k \in 1..Len(c.tabPaths) : c.tabPaths[k] = path
             removed == [c EXCEPT
                !.tabPaths = RemoveAt(@, i),
                !.load = IF IsGroup(path) THEN NoLoad ELSE @,
                !.dirtyByPath = @ \ {path}, !.diskModifiedWhileDirty = @ \ {path},
                !.diffModeByPath = Without(@, path), !.diffGroupTabs = Without(@, path)]
             outOfDiff == IF c.diffActivePath = path THEN StopDiff(removed) ELSE removed
             wasActive == c.activePath = path
             told == IF ~IsGroup(path) THEN Say(outOfDiff, [type |-> "closeTab", path |-> path])
                     ELSE IF wasActive THEN Say(outOfDiff, [type |-> "exitDiff"])
                     ELSE outOfDiff
             next == Neighbour(removed.tabPaths, i)
             there == [told EXCEPT !.activePath = next]
  <1>1. Closed(c, path) = IF ~wasActive THEN told ELSE IF next = None THEN there ELSE ShowTab(there, next)
    BY DEF Closed
  <1>2. c.tabPaths \in Seq(Paths) /\ \E k \in 1..Len(c.tabPaths) : c.tabPaths[k] = path
    BY ColumnIs DEF IsOpen, Contains
  <1>3. i \in 1..Len(c.tabPaths) /\ c.tabPaths[i] = path
    BY <1>2
  <1>4. Removes(c, path, i, removed) /\ StopsDiff(c, removed, path, outOfDiff)
        /\ Tells(outOfDiff, path, wasActive, told) /\ there = [told EXCEPT !.activePath = next]
    BY DEF Removes, StopsDiff, Tells
  <1> HIDE DEF i, removed, outOfDiff, wasActive, told, next, there
  <1>5. PICK tabs : tabs = RemoveAt(c.tabPaths, i)
    OBVIOUS
  <1>6. HasTabs(removed, tabs)
    <2>1. removed.tabPaths = tabs /\ "tabPaths" \in DOMAIN removed
      BY <1>4, <1>5, ColumnHasTabs DEF HasTabs, Removes
    <2> QED BY <2>1 DEF HasTabs
  <1>8. HasTabs(outOfDiff, tabs)
    BY <1>4, <1>6, StopTabs DEF StopsDiff
  <1>11. HasTabs(told, tabs)
    BY <1>4, <1>8, SayTabs DEF Tells
  <1>14. HasTabs(there, tabs)
    BY <1>4, <1>11, SetsKeepTabs
  <1>15. HasTabs(ShowTab(there, next), tabs)
    BY <1>14, ShowTabTabs
  <1>17. Closed(c, path).tabPaths = tabs
    BY <1>1, <1>11, <1>14, <1>15 DEF HasTabs
  <1>18. Removed(Paths, c.tabPaths, i, tabs)
    BY <1>2, <1>3, <1>5, TabsRemove DEF Tabbed, Once
  <1>19. \A p : Contains(tabs, p) <=> Contains(c.tabPaths, p) /\ p # path
    BY <1>3, <1>18 DEF Removed
  <1> QED BY <1>17, <1>19 DEF OpenPaths, IsOpen

LEMMA OpenedTabs ==
  ASSUME NEW c \in ColumnState, NEW path \in Files, disk[path] \in Texts
  PROVE  OpenPaths(OpenBuffer(c, path)) = OpenPaths(c) \cup {path}
  <1>1. PICK tabs : tabs = Append(c.tabPaths, path)
    OBVIOUS
  <1>2. OpenBuffer(c, path).tabPaths = tabs
    BY <1>1, OpenedIs
  <1>3. c.tabPaths \in Seq(Paths) /\ path \in Paths
    BY ColumnIs, NamesApart
  <1>4. Added(Paths, c.tabPaths, path, tabs)
    BY <1>1, <1>3, TabsAppend
  <1> QED BY <1>2, <1>4 DEF OpenPaths, IsOpen, Added

LEMMA ShownTabs ==
  ASSUME NEW c \in ColumnState, NEW path \in Files, NEW mode, disk[path] \in Texts
  PROVE  OpenPaths(ShownDiff(c, path, mode)) = OpenPaths(c) \cup {path}
  <1>1. PICK tabs : tabs = c.tabPaths
    OBVIOUS
  <1>2. PICK asked : asked = [c EXCEPT !.diffModeByPath = With(@, path, mode)]
    OBVIOUS
  <1>3. HasTabs(asked, tabs)
    BY <1>1, <1>2, ColumnHasTabs DEF HasTabs
  <1>4. PICK there : there = IF IsOpen(c, path) THEN SwitchTo(asked, path) ELSE OpenBuffer(asked, path)
    OBVIOUS
  <1>5. PICK now : now = IF IsOpen(c, path) THEN tabs ELSE Append(tabs, path)
    OBVIOUS
  <1>6. HasTabs(there, now)
    <2>1. CASE IsOpen(c, path)
      BY <1>3, <1>4, <1>5, <2>1, SwitchTabs
    <2>2. CASE ~IsOpen(c, path)
      <3>1. there = OpenBuffer(asked, path) /\ now = Append(tabs, path)
        BY <1>4, <1>5, <2>2
      <3> QED BY <1>3, <3>1 DEF HasTabs, OpenBuffer, Say
    <2> QED BY <2>1, <2>2
  <1>7. HasTabs(EnterDiff(there, path, mode), now)
    BY <1>6, EnterDiffTabs
  <1>8. ShownDiff(c, path, mode) = there \/ ShownDiff(c, path, mode) = EnterDiff(there, path, mode)
    BY <1>2, <1>4 DEF ShownDiff
  <1>9. ShownDiff(c, path, mode).tabPaths = now
    BY <1>6, <1>7, <1>8 DEF HasTabs
  <1>10. \A p : Contains(now, p) <=> Contains(tabs, p) \/ p = path
    <2>1. tabs \in Seq(Paths) /\ path \in Paths
      BY <1>1, ColumnIs, NamesApart
    <2>2. PICK longer : longer = Append(tabs, path)
      OBVIOUS
    <2>3. Added(Paths, tabs, path, longer)
      BY <2>1, <2>2, TabsAppend
    <2> QED BY <1>1, <1>5, <2>2, <2>3 DEF Added, IsOpen
  <1> QED BY <1>1, <1>9, <1>10 DEF OpenPaths, IsOpen

LEMMA CollectionTabs ==
  ASSUME NEW c \in ColumnState, NEW mode \in Modes, NEW d, Collects(c, mode, d)
  PROVE  OpenPaths(SendDiffGroup(d, mode)) = OpenPaths(c)
  <1>1. PICK tabs, now : tabs = c.tabPaths /\ now = IF IsOpen(c, mode) THEN tabs ELSE Append(tabs, mode)
    OBVIOUS
  <1>2. HasTabs(d, now)
    <2>1. HasTabs(c, tabs)
      BY <1>1, ColumnHasTabs
    <2> QED BY <1>1, <2>1 DEF HasTabs, Collects
  <1>3. HasTabs(SendDiffGroup(d, mode), now)
    BY <1>2, SayTabs DEF SendDiffGroup
  <1>4. \A p \in Files : Contains(now, p) <=> Contains(tabs, p)
    <2>1. tabs \in Seq(Paths) /\ mode \in Paths /\ mode \notin Files
      BY <1>1, ColumnIs, NamesApart
    <2>2. PICK longer : longer = Append(tabs, mode)
      OBVIOUS
    <2>3. Added(Paths, tabs, mode, longer)
      BY <2>1, <2>2, TabsAppend
    <2>4. now = tabs \/ now = longer
      BY <1>1, <2>2
    <2>5. \A p \in Files : Contains(longer, p) <=> Contains(tabs, p)
      BY <2>1, <2>3 DEF Added
    <2> QED BY <2>4, <2>5
  <1> QED BY <1>1, <1>3, <1>4 DEF OpenPaths, IsOpen, HasTabs

LEMMA TakeGroupTabs ==
  ASSUME NEW c \in ColumnState, Tabbed(c), c.load # NoLoad, c.load.kind = "group", NEW found
  PROVE  OpenPaths(TakeGroup(c, found)) = OpenPaths(c)
  <1>1. PICK path : path = c.load.path
    OBVIOUS
  <1>2. path \in Modes /\ path \in Paths /\ path \notin Files
    BY <1>1, ColumnIs, LoadIs, NamesApart
  <1>3. PICK tabs : tabs = c.tabPaths
    OBVIOUS
  <1>4. PICK done : done = [c EXCEPT !.load = NoLoad]
    OBVIOUS
  <1>5. HasTabs(done, tabs)
    BY <1>3, <1>4, ColumnHasTabs, SetsKeepTabs
  <1>6. PICK filled : filled = [done EXCEPT !.diffGroupTabs[path] = "shown",
                               !.diffActivePath = None, !.diffActiveMode = path]
    OBVIOUS
  <1>7. HasTabs(filled, tabs)
    BY <1>5, <1>6 DEF HasTabs
  <1>8. HasTabs(SendDiffGroup(filled, path), tabs)
    BY <1>7, SayTabs DEF SendDiffGroup
  <1>9. CASE path \in DOMAIN c.diffGroupTabs /\ ~found
    <2>1. TakeGroup(c, found) = Closed(done, path)
      BY <1>1, <1>4, <1>9 DEF TakeGroup
    <2>2. done \in ColumnState /\ Tabbed(done) /\ done.tabPaths = tabs
      <3>1. NoLoad \in Load /\ done = Column(c.tabPaths, c.activePath, c.dirtyByPath, c.diskModifiedWhileDirty,
               c.diffActivePath, c.diffActiveMode, c.diffModeByPath, c.diffGroupTabs, NoLoad, c.out)
        BY <1>4, LoadSetIs, NoLoadIs
      <3>2. done \in ColumnState
        BY <3>1, ColumnIs, ColumnTyped
      <3>3. Fields(done, c.tabPaths, c.activePath, c.dirtyByPath, c.diskModifiedWhileDirty,
               c.diffActivePath, c.diffActiveMode, c.diffModeByPath, c.diffGroupTabs, NoLoad, c.out)
        BY <3>1, FieldsOf
      <3>4. Tabbed(done)
        BY <3>3, TabbedSame DEF Fields
      <3> QED BY <1>3, <3>2, <3>3, <3>4 DEF Fields
    <2>3. IsOpen(done, path)
      BY <1>3, <1>9, <2>2 DEF Tabbed, IsOpen
    <2>4. OpenPaths(Closed(done, path)) = OpenPaths(done) \ {path}
      BY <1>2, <2>2, <2>3, ClosedTabs
    <2>5. OpenPaths(done) = OpenPaths(c)
      BY <1>3, <2>2, OpenIsSame
    <2> QED BY <1>2, <2>1, <2>4, <2>5 DEF OpenPaths
  <1>10. CASE ~(path \in DOMAIN c.diffGroupTabs /\ ~found)
    <2>1. \/ TakeGroup(c, found) = done \/ TakeGroup(c, found) = filled
          \/ TakeGroup(c, found) = SendDiffGroup(filled, path)
      BY <1>1, <1>4, <1>6, <1>10 DEF TakeGroup
    <2>2. TakeGroup(c, found).tabPaths = tabs
      BY <1>5, <1>7, <1>8, <2>1 DEF HasTabs
    <2> QED BY <1>3, <2>2, OpenIsSame
  <1> QED BY <1>9, <1>10
-----------------------------------------------------------------------------
(* The invariant                                                           *)

Alive == ~hasDied
Fresh == ~hasDied /\ ~leftGroup

\* What is sent to the page, or kept until it is ready.
Queue == IF monacoReady THEN toPage ELSE pendingOps

FilesInv ==
    /\ disk \in [Files -> Texts] /\ apart \in SUBSET Files
    /\ moved \in SUBSET OpenPaths(column) /\ events \in 0..MaxEvents
ColumnInv == column \in ColumnState /\ Tabbed(column) /\ column.out = <<>>
PageInv == page \in PageState /\ page.out = <<>> /\ PageFits(Alive, page)
WiresInv ==
    /\ monacoReady \in BOOLEAN /\ isUp \in BOOLEAN /\ hasDied \in BOOLEAN /\ leftGroup \in BOOLEAN
    /\ toPage \in Seq(ToPage) /\ pendingOps \in Seq(ToPage) /\ toSwift \in Seq(ToSwift)
    /\ selectionRequests \in Seq(Asked)
    /\ monacoReady => isUp /\ pendingOps = <<>>
    /\ ~monacoReady => toPage = <<>>
    /\ ~isUp => toSwift = <<>> /\ page = NoPage
ShowsInv == Shows(Alive, Fresh, page, selectionRequests, toSwift, Queue, column)
UnsavedInv == Unsaved(page, toSwift, column.dirtyByPath, Queue)
HandedInv == Fresh => handed.got \in {None, handed.asked}

Inv == /\ FilesInv /\ ColumnInv /\ PageInv /\ WiresInv
       /\ ShowsInv /\ UnsavedInv /\ HandedInv

LEMMA EventCounts ==
  ASSUME events \in 0..MaxEvents, Happens
  PROVE  events' \in 0..MaxEvents
  BY EditorAssumption DEF Happens

LEMMA QueueIs ==
  ASSUME WiresInv
  PROVE  /\ Queue \in Seq(ToPage) /\ Alive \in BOOLEAN /\ Fresh \in BOOLEAN /\ (Fresh => Alive)
         /\ monacoReady => Queue = toPage
         /\ ~monacoReady => Queue = pendingOps
  BY DEF WiresInv, Queue, Alive, Fresh

\* The column acted: what it says is sent, or kept.
LEMMA ColumnSends ==
  ASSUME WiresInv, NEW c \in ColumnState, ColumnBecomes(c), monacoReady' = monacoReady
  PROVE  /\ column' = Silent(c) /\ Queue' = Queue \o c.out
         /\ toPage' \in Seq(ToPage) /\ pendingOps' \in Seq(ToPage)
         /\ monacoReady' => pendingOps' = <<>>
         /\ ~monacoReady' => toPage' = <<>>
  <1>1. c.out \in Seq(ToPage)
    BY ColumnIs
  <1>2. column' = Silent(c)
    BY DEF ColumnBecomes, Silent
  <1>3. CASE monacoReady
    <2>1. toPage' = toPage \o c.out /\ pendingOps' = <<>>
      BY <1>3 DEF ColumnBecomes, WiresInv
    <2>2. toPage \o c.out \in Seq(ToPage)
      BY <1>1, ConcatProperties DEF WiresInv
    <2> QED BY <1>2, <1>3, <2>1, <2>2 DEF Queue
  <1>4. CASE ~monacoReady
    <2>1. pendingOps' = pendingOps \o c.out /\ toPage' = <<>>
      BY <1>4 DEF ColumnBecomes, WiresInv
    <2>2. pendingOps \o c.out \in Seq(ToPage)
      BY <1>1, ConcatProperties DEF WiresInv
    <2> QED BY <1>2, <1>4, <2>1, <2>2 DEF Queue
  <1> QED BY <1>3, <1>4 DEF WiresInv

\* The column acts while the page and what it says stay.
LEMMA ColumnSteps ==
  ASSUME ColumnInv, WiresInv, Alive' \in BOOLEAN, Fresh' \in BOOLEAN,
         Shows(Alive', Fresh', page', selectionRequests', toSwift', Queue, column),
         Unsaved(page', toSwift', column.dirtyByPath, Queue),
         NEW c, ActsFor(Alive', Fresh', column, c), ColumnBecomes(c), monacoReady' = monacoReady
  PROVE  /\ ColumnInv' /\ ShowsInv' /\ UnsavedInv' /\ OpenPaths(column') = OpenPaths(c)
         /\ toPage' \in Seq(ToPage) /\ pendingOps' \in Seq(ToPage)
         /\ monacoReady' => pendingOps' = <<>>
         /\ ~monacoReady' => toPage' = <<>>
  <1>1. column \in ColumnState /\ Tabbed(column) /\ column.out = <<>> /\ Queue \in Seq(ToPage)
    BY QueueIs DEF ColumnInv
  <1>2. PICK alive, fresh, js, asked, said :
          alive = Alive' /\ fresh = Fresh' /\ js = page' /\ asked = selectionRequests' /\ said = toSwift'
    OBVIOUS
  <1>3. /\ alive \in BOOLEAN /\ fresh \in BOOLEAN /\ Shows(alive, fresh, js, asked, said, Queue, column)
        /\ ActsFor(alive, fresh, column, c) /\ Unsaved(js, said, column.dirtyByPath, Queue)
    BY <1>2
  <1>4. /\ Shows(alive, fresh, js, asked, said, Queue \o c.out, Silent(c))
        /\ c \in ColumnState /\ Tabbed(c) /\ Keeps(column, c)
    BY <1>1, <1>3, ColumnShows
  <1>5. Unsaved(js, said, c.dirtyByPath, Queue \o c.out)
    BY <1>1, <1>3, <1>4, UnsavedColumn
  <1>6. /\ column' = Silent(c) /\ Queue' = Queue \o c.out
        /\ toPage' \in Seq(ToPage) /\ pendingOps' \in Seq(ToPage)
        /\ monacoReady' => pendingOps' = <<>>
        /\ ~monacoReady' => toPage' = <<>>
    BY <1>4, ColumnSends
  <1>7. Silent(c) \in ColumnState /\ Tabbed(Silent(c)) /\ Silent(c).out = <<>>
        /\ Silent(c).dirtyByPath = c.dirtyByPath /\ OpenPaths(Silent(c)) = OpenPaths(c)
    BY <1>4, SilentColumn
  <1>8. ColumnInv'
    BY <1>6, <1>7 DEF ColumnInv
  <1>9. ShowsInv'
    BY <1>2, <1>4, <1>6 DEF ShowsInv
  <1>10. UnsavedInv'
    BY <1>2, <1>5, <1>6, <1>7 DEF UnsavedInv
  <1> QED BY <1>6, <1>7, <1>8, <1>9, <1>10

\* The user asks something of the column; nothing else happens meanwhile.
LEMMA ColumnAsks ==
  ASSUME Inv, NEW c, ActsFor(Alive, Fresh, column, c), ColumnBecomes(c),
         UNCHANGED <<pageSide, monacoReady, selectionRequests, handed>>,
         disk' \in [Files -> Texts], apart' \in SUBSET Files, moved' \in SUBSET OpenPaths(c),
         events' \in 0..MaxEvents
  PROVE  Inv'
  <1>1. /\ page' = page /\ isUp' = isUp /\ toSwift' = toSwift /\ hasDied' = hasDied /\ leftGroup' = leftGroup
        /\ monacoReady' = monacoReady /\ selectionRequests' = selectionRequests /\ handed' = handed
    BY DEF pageSide
  <1>2. Alive' = Alive /\ Fresh' = Fresh /\ Alive \in BOOLEAN /\ Fresh \in BOOLEAN
    BY <1>1, QueueIs DEF Alive, Fresh, Inv
  <1>3. ColumnInv /\ WiresInv /\ Shows(Alive', Fresh', page', selectionRequests', toSwift', Queue, column)
        /\ Unsaved(page', toSwift', column.dirtyByPath, Queue) /\ ActsFor(Alive', Fresh', column, c)
    BY <1>1, <1>2 DEF Inv, ShowsInv, UnsavedInv
  <1>4. /\ ColumnInv' /\ ShowsInv' /\ UnsavedInv' /\ OpenPaths(column') = OpenPaths(c)
        /\ toPage' \in Seq(ToPage) /\ pendingOps' \in Seq(ToPage)
        /\ monacoReady' => pendingOps' = <<>>
        /\ ~monacoReady' => toPage' = <<>>
    BY <1>1, <1>2, <1>3, ColumnSteps
  <1>5. FilesInv'
    BY <1>4 DEF FilesInv
  <1>6. WiresInv'
    BY <1>1, <1>4 DEF Inv, WiresInv
  <1>7. PageInv'
    BY <1>1, <1>2 DEF Inv, PageInv
  <1>8. HandedInv'
    BY <1>1, <1>2 DEF Inv, HandedInv
  <1> QED BY <1>4, <1>5, <1>6, <1>7, <1>8 DEF Inv

\* The page acted.
LEMMA PageSends ==
  ASSUME WiresInv, NEW after \in PageState, PageBecomes(after)
  PROVE  /\ page' = Silent(after) /\ toSwift' = toSwift \o after.out /\ toSwift' \in Seq(ToSwift)
         /\ page' \in PageState /\ page'.out = <<>>
         /\ \A alive : PageFits(alive, after) => PageFits(alive, page')
  <1>1. page' = Silent(after) /\ toSwift' = toSwift \o after.out
    BY DEF PageBecomes, Silent
  <1>2. after.out \in Seq(ToSwift)
    BY PageIs
  <1>3. toSwift \o after.out \in Seq(ToSwift)
    BY <1>2, ConcatProperties DEF WiresInv
  <1>4. Silent(after) \in PageState /\ Silent(after).out = <<>>
        /\ \A alive : PageFits(alive, after) => PageFits(alive, Silent(after))
    BY SilentPage
  <1> QED BY <1>1, <1>3, <1>4
\* The page acted; the column did not.
LEMMA PageSteps ==
  ASSUME Inv, isUp, NEW after \in PageState, PageBecomes(after), PageFits(Alive, after),
         Shows(Alive, Fresh', Silent(after), selectionRequests, toSwift \o after.out, Queue', column),
         Unsaved(Silent(after), toSwift \o after.out, column.dirtyByPath, Queue'),
         UNCHANGED <<columnSide, isUp, hasDied>>,
         leftGroup' \in BOOLEAN, leftGroup => leftGroup', events' \in 0..MaxEvents,
         toPage' \in Seq(ToPage), ~monacoReady => toPage' = <<>>
  PROVE  Inv'
  <1>1. /\ disk' = disk /\ moved' = moved /\ column' = column /\ monacoReady' = monacoReady
        /\ pendingOps' = pendingOps /\ selectionRequests' = selectionRequests /\ apart' = apart
        /\ handed' = handed /\ isUp' = isUp /\ hasDied' = hasDied
    BY DEF columnSide
  <1>2. Alive' = Alive /\ (Fresh' => Fresh)
    BY <1>1 DEF Alive, Fresh
  <1>3. WiresInv /\ FilesInv /\ ColumnInv /\ HandedInv
    BY DEF Inv
  <1>4. /\ page' = Silent(after) /\ toSwift' = toSwift \o after.out /\ toSwift' \in Seq(ToSwift)
        /\ page' \in PageState /\ page'.out = <<>> /\ PageFits(Alive, page')
    BY <1>3, PageSends
  <1>5. FilesInv' /\ ColumnInv'
    BY <1>1, <1>3 DEF FilesInv, ColumnInv
  <1>6. PageInv'
    BY <1>2, <1>4 DEF PageInv
  <1>7. WiresInv'
    BY <1>1, <1>3, <1>4 DEF WiresInv
  <1>8. ShowsInv' /\ UnsavedInv'
    BY <1>1, <1>2, <1>4 DEF ShowsInv, UnsavedInv
  <1>9. HandedInv'
    BY <1>1, <1>2, <1>3 DEF HandedInv
  <1> QED BY <1>5, <1>6, <1>7, <1>8, <1>9 DEF Inv

\* The page takes the first message.
LEMMA ReceivesStep ==
  ASSUME Inv, PageReceives
  PROVE  Inv'
  <1>1. isUp /\ toPage # <<>> /\ toPage' = Tail(toPage) /\ UNCHANGED <<columnSide, isUp, events, hasDied, leftGroup>>
    BY DEF PageReceives
  <1>2. WiresInv /\ PageInv /\ FilesInv /\ ShowsInv /\ UnsavedInv
    BY DEF Inv
  <1>3. monacoReady /\ Queue = toPage /\ toPage \in Seq(ToPage)
    BY <1>1, <1>2, QueueIs DEF WiresInv
  <1>4. PICK m : m = Head(toPage)
    OBVIOUS
  <1>5. m \in ToPage /\ Tail(toPage) \in Seq(ToPage)
    BY <1>1, <1>3, <1>4, HeadTailProperties
  <1>6. PICK isEmpty \in BOOLEAN : PageBecomes(HandleMessage(page, m, isEmpty))
    BY <1>4 DEF PageReceives
  <1>7. PICK after : after = HandleMessage(page, m, isEmpty)
    OBVIOUS
  <1>8. Alive \in BOOLEAN /\ Fresh \in BOOLEAN
    BY <1>2, QueueIs
  <1>9. page \in PageState /\ page.out = <<>> /\ PageFits(Alive, page)
    BY <1>2 DEF PageInv
  <1>10. TakesHead(Alive, Fresh, page, m, after)
    <2>1. ASSUME NEW due \in Seq(Asked), Timely(Alive, Fresh, View(Fresh, page, due), m)
          PROVE  Taken(Alive, Fresh, due, page, m, after)
      BY <1>5, <1>7, <1>8, <1>9, <2>1, PageTakes
    <2> QED BY <2>1 DEF TakesHead
  <1>11. toSwift \in Seq(ToSwift) /\ Shows(Alive, Fresh, page, selectionRequests, toSwift, toPage, column)
         /\ Unsaved(page, toSwift, column.dirtyByPath, toPage)
    BY <1>2, <1>3 DEF WiresInv, ShowsInv, UnsavedInv
  <1>12. /\ Shows(Alive, Fresh, Silent(after), selectionRequests, toSwift \o after.out, Tail(toPage), column)
         /\ after \in PageState /\ PageFits(Alive, after) /\ Told(page, after)
    BY <1>1, <1>3, <1>4, <1>8, <1>10, <1>11, TakenShows
  <1>13. Drops(after, toPage, Tail(toPage))
    BY <1>1, <1>3, <1>4, <1>7, <1>9, HeadDrops
  <1>14. Unsaved(Silent(after), toSwift \o after.out, column.dirtyByPath, Tail(toPage))
    BY <1>11, <1>12, <1>13, UnsavedPage
  <1>15. /\ monacoReady' = monacoReady /\ hasDied' = hasDied /\ leftGroup' = leftGroup /\ events' = events
         /\ Queue' = Tail(toPage) /\ Fresh' = Fresh /\ leftGroup' \in BOOLEAN /\ events' \in 0..MaxEvents
    BY <1>1, <1>2, <1>3 DEF columnSide, Queue, Fresh, WiresInv, FilesInv
  <1>16. /\ Shows(Alive, Fresh', Silent(after), selectionRequests, toSwift \o after.out, Queue', column)
         /\ Unsaved(Silent(after), toSwift \o after.out, column.dirtyByPath, Queue')
    BY <1>12, <1>14, <1>15
  <1>17. PageBecomes(after) /\ toPage' \in Seq(ToPage)
    BY <1>1, <1>5, <1>6, <1>7
  <1>18. UNCHANGED <<columnSide, isUp, hasDied>>
    BY <1>1
  <1> QED BY <1>1, <1>3, <1>12, <1>15, <1>16, <1>17, <1>18, PageSteps

\* The page acts by itself: what it shows stays.
LEMMA ByItselfStep ==
  ASSUME Inv, isUp, NEW after, Stays(Alive, Fresh, page, after), PageBecomes(after),
         UNCHANGED <<columnSide, isUp, toPage, hasDied, leftGroup>>, events' \in 0..MaxEvents
  PROVE  Inv'
  <1>1. WiresInv /\ PageInv /\ FilesInv /\ ShowsInv /\ UnsavedInv
    BY DEF Inv
  <1>2. /\ monacoReady' = monacoReady /\ hasDied' = hasDied /\ leftGroup' = leftGroup
        /\ Queue' = Queue /\ Fresh' = Fresh /\ leftGroup' \in BOOLEAN /\ toPage' = toPage
    BY <1>1 DEF columnSide, Queue, Fresh, WiresInv
  <1>3. toSwift \in Seq(ToSwift) /\ Queue \in Seq(ToPage) /\ toPage \in Seq(ToPage) /\ (~monacoReady => toPage = <<>>)
        /\ Alive \in BOOLEAN /\ Fresh \in BOOLEAN
    BY <1>1, QueueIs DEF WiresInv
  <1>4. /\ Shows(Alive, Fresh, Silent(after), selectionRequests, toSwift \o after.out, Queue, column)
        /\ after \in PageState /\ PageFits(Alive, after) /\ Told(page, after)
    BY <1>1, <1>3, StaysShows DEF ShowsInv
  <1>5. Drops(after, Queue, Queue)
    BY DEF Drops
  <1>6. Unsaved(Silent(after), toSwift \o after.out, column.dirtyByPath, Queue)
    BY <1>1, <1>3, <1>4, <1>5, UnsavedPage DEF UnsavedInv
  <1>7. /\ Shows(Alive, Fresh', Silent(after), selectionRequests, toSwift \o after.out, Queue', column)
        /\ Unsaved(Silent(after), toSwift \o after.out, column.dirtyByPath, Queue')
    BY <1>2, <1>4, <1>6
  <1>8. UNCHANGED <<columnSide, isUp, hasDied>>
    OBVIOUS
  <1> QED BY <1>2, <1>3, <1>4, <1>7, <1>8, PageSteps

LEMMA RedrawStep ==
  ASSUME Inv, Redraw
  PROVE  Inv'
  <1>1. PICK after : after = RenderDiff([page EXCEPT !.redraws = FALSE])
    OBVIOUS
  <1>2. isUp /\ page.redraws /\ PageBecomes(after) /\ events' = events
        /\ UNCHANGED <<columnSide, isUp, toPage, hasDied, leftGroup>>
    BY <1>1 DEF Redraw
  <1>3. Stays(Alive, Fresh, page, after)
    <2>1. page \in PageState /\ page.out = <<>> /\ PageFits(Alive, page) /\ Alive \in BOOLEAN /\ Fresh \in BOOLEAN
      BY QueueIs DEF Inv, PageInv
    <2>2. ASSUME NEW due \in Seq(Asked) PROVE Becomes(Alive, Fresh, due, page, after, View(Fresh, page, due))
      BY <1>1, <1>2, <2>1, Redraws
    <2> QED BY <2>2 DEF Stays
  <1>4. events' \in 0..MaxEvents
    BY <1>2 DEF Inv, FilesInv
  <1> QED BY <1>2, <1>3, <1>4, ByItselfStep

LEMMA TypeStep ==
  ASSUME Inv, NEW text \in Texts, Type(text)
  PROVE  Inv'
  <1>1. PICK path, after : path = page.currentPath /\ after = SetValue(page, path, text)
    OBVIOUS
  <1>2. isUp /\ path # None /\ PageBecomes(after) /\ Happens
        /\ UNCHANGED <<columnSide, isUp, toPage, hasDied, leftGroup>>
    BY <1>1 DEF Type, EditorHasKeyboard
  <1>3. page \in PageState /\ page.out = <<>> /\ PageFits(Alive, page) /\ Alive \in BOOLEAN /\ Fresh \in BOOLEAN
    BY QueueIs DEF Inv, PageInv
  <1>4. path \in DOMAIN page.models
    BY <1>1, <1>2, <1>3 DEF PageFits
  <1>5. Stays(Alive, Fresh, page, after)
    <2>1. ASSUME NEW due \in Seq(Asked) PROVE Becomes(Alive, Fresh, due, page, after, View(Fresh, page, due))
      BY <1>1, <1>3, <1>4, <2>1, SetsValue
    <2> QED BY <2>1 DEF Stays
  <1>6. events' \in 0..MaxEvents
    BY <1>2, EventCounts DEF Inv, FilesInv
  <1> QED BY <1>2, <1>5, <1>6, ByItselfStep

LEMMA RequestSaveStep ==
  ASSUME Inv, RequestSave
  PROVE  Inv'
  <1>1. PICK path, after : path = page.currentPath /\ after = PostSave(page, path)
    OBVIOUS
  <1>2. isUp /\ path # None /\ PageBecomes(after) /\ Happens
        /\ UNCHANGED <<columnSide, isUp, toPage, hasDied, leftGroup>>
    BY <1>1 DEF RequestSave, EditorHasKeyboard
  <1>3. page \in PageState /\ page.out = <<>> /\ PageFits(Alive, page) /\ Alive \in BOOLEAN /\ Fresh \in BOOLEAN
    BY QueueIs DEF Inv, PageInv
  <1>4. path \in DOMAIN page.models
    BY <1>1, <1>2, <1>3 DEF PageFits
  <1>5. Stays(Alive, Fresh, page, after)
    <2>1. ASSUME NEW due \in Seq(Asked) PROVE Becomes(Alive, Fresh, due, page, after, View(Fresh, page, due))
      BY <1>1, <1>3, <1>4, <2>1, Saves1
    <2> QED BY <2>1 DEF Stays
  <1>6. events' \in 0..MaxEvents
    BY <1>2, EventCounts DEF Inv, FilesInv
  <1> QED BY <1>2, <1>5, <1>6, ByItselfStep

\* Pierre throws: of a file's diff Monaco shows it, and a collection is left.
LEMMA DrawFailsStep ==
  ASSUME Inv, DrawFails
  PROVE  Inv'
  <1>1. PICK m : m = Head(toPage)
    OBVIOUS
  <1>2. /\ isUp /\ toPage # <<>> /\ m.type \in {"enterDiff", "enterDiffGroup"} /\ Happens
        /\ toPage' = Tail(toPage) /\ UNCHANGED <<columnSide, isUp, hasDied>>
    BY <1>1 DEF DrawFails
  <1>3. WiresInv /\ PageInv /\ FilesInv /\ ShowsInv /\ UnsavedInv
    BY DEF Inv
  <1>4. monacoReady /\ Queue = toPage /\ toPage \in Seq(ToPage) /\ Alive \in BOOLEAN /\ Fresh \in BOOLEAN
    BY <1>2, <1>3, QueueIs DEF WiresInv
  <1>5. m \in ToPage /\ Tail(toPage) \in Seq(ToPage)
    BY <1>1, <1>2, <1>4, HeadTailProperties
  <1>6. page \in PageState /\ page.out = <<>> /\ PageFits(Alive, page)
    BY <1>3 DEF PageInv
  <1>7. PICK fresh, after :
          /\ fresh \in BOOLEAN
          /\ fresh = Fresh' /\ PageBecomes(after) /\ (leftGroup => leftGroup') /\ leftGroup' \in BOOLEAN
          /\ fresh = Fresh \/ fresh = FALSE
          /\ TakesHead(Alive, fresh, page, m, after)
    <2>1. CASE m.type = "enterDiff"
      <3>1. PICK after : after = EnterMonacoDiff(page, m)
        OBVIOUS
      <3>2. PageBecomes(after) /\ leftGroup' = leftGroup /\ Fresh' = Fresh /\ leftGroup' \in BOOLEAN
        BY <1>1, <1>2, <1>3, <2>1, <3>1 DEF DrawFails, Fresh, WiresInv
      <3>3. ASSUME NEW due \in Seq(Asked), Timely(Alive, Fresh, View(Fresh, page, due), m)
            PROVE  Taken(Alive, Fresh, due, page, m, after)
        BY <1>4, <1>5, <1>6, <2>1, <3>1, <3>3, TakesEnterDiff
      <3>4. TakesHead(Alive, Fresh, page, m, after)
        BY <3>3 DEF TakesHead
      <3> QED BY <1>4, <3>2, <3>4
    <2>2. CASE m.type # "enterDiff"
      <3>1. PICK after : after = ExitDiff(page)
        OBVIOUS
      <3>2. PageBecomes(after) /\ leftGroup' = TRUE
        BY <1>1, <2>2, <3>1 DEF DrawFails
      <3>3. PICK fresh \in BOOLEAN : fresh = FALSE
        OBVIOUS
      <3>4. Fresh' = fresh
        BY <3>2, <3>3 DEF Fresh
      <3>5. ASSUME NEW due \in Seq(Asked), Timely(Alive, fresh, View(fresh, page, due), m)
            PROVE  Taken(Alive, fresh, due, page, m, after)
        <4>1. m.type = "enterDiffGroup" /\ ~fresh
          BY <1>2, <2>2, <3>3
        <4> QED BY <1>4, <1>5, <1>6, <3>1, <4>1, TakesExit
      <3>6. TakesHead(Alive, fresh, page, m, after)
        BY <3>5 DEF TakesHead
      <3> QED BY <3>2, <3>3, <3>4, <3>6
    <2> QED BY <2>1, <2>2
  <1>8. toSwift \in Seq(ToSwift) /\ Shows(Alive, Fresh, page, selectionRequests, toSwift, toPage, column)
        /\ Unsaved(page, toSwift, column.dirtyByPath, toPage)
    BY <1>3, <1>4 DEF WiresInv, ShowsInv, UnsavedInv
  <1>9. Shows(Alive, fresh, page, selectionRequests, toSwift, toPage, column)
    <2>1. CASE fresh = Fresh
      BY <1>8, <2>1
    <2>2. CASE fresh # Fresh
      <3>1. fresh = FALSE /\ Fresh = TRUE
        BY <1>4, <1>7, <2>2
      <3>2. Shows(Alive, TRUE, page, selectionRequests, toSwift, toPage, column)
        BY <1>8, <3>1
      <3>3. Shows(Alive, FALSE, page, selectionRequests, toSwift, toPage, column)
        BY <1>4, <1>6, <1>8, <3>2, ShowsStale
      <3> QED BY <3>1, <3>3
    <2> QED BY <2>1, <2>2
  <1>10. /\ Shows(Alive, fresh, Silent(after), selectionRequests, toSwift \o after.out, Tail(toPage), column)
         /\ after \in PageState /\ PageFits(Alive, after) /\ Told(page, after)
    BY <1>1, <1>2, <1>4, <1>7, <1>8, <1>9, TakenShows
  <1>11. Drops(after, toPage, Tail(toPage))
    BY <1>1, <1>2, <1>4, OtherDrops
  <1>12. Unsaved(Silent(after), toSwift \o after.out, column.dirtyByPath, Tail(toPage))
    BY <1>8, <1>10, <1>11, UnsavedPage
  <1>13. Queue' = Tail(toPage)
    BY <1>2, <1>4 DEF columnSide, Queue
  <1>14. /\ Shows(Alive, Fresh', Silent(after), selectionRequests, toSwift \o after.out, Queue', column)
         /\ Unsaved(Silent(after), toSwift \o after.out, column.dirtyByPath, Queue')
    BY <1>7, <1>10, <1>12, <1>13
  <1>15. events' \in 0..MaxEvents
    BY <1>2, <1>3, EventCounts DEF FilesInv
  <1> QED BY <1>2, <1>4, <1>5, <1>7, <1>10, <1>14, <1>15, PageSteps
-----------------------------------------------------------------------------
(* What the page said is taken                                             *)

LEMMA OthersWriteStep ==
  ASSUME Inv, NEW path \in Files, NEW text \in Texts, OthersWrite(path, text)
  PROVE  Inv'
  <1>1. /\ column' = column /\ page' = page /\ isUp' = isUp /\ toSwift' = toSwift /\ toPage' = toPage
        /\ pendingOps' = pendingOps /\ monacoReady' = monacoReady /\ selectionRequests' = selectionRequests
        /\ handed' = handed /\ hasDied' = hasDied /\ leftGroup' = leftGroup /\ apart' = apart
    BY DEF OthersWrite, noTalk, pageSide
  <1>2. disk' = [disk EXCEPT ![path] = text] /\ Happens
        /\ moved' = IF IsOpen(column, path) THEN moved \cup {path} ELSE moved
    BY DEF OthersWrite, Changed
  <1>3. disk' \in [Files -> Texts]
    BY <1>2 DEF Inv, FilesInv
  <1>4. moved' \in SUBSET OpenPaths(column)
    BY <1>2 DEF Inv, FilesInv, OpenPaths
  <1>5. FilesInv'
    BY <1>1, <1>2, <1>3, <1>4, EventCounts DEF Inv, FilesInv
  <1>6. Alive' = Alive /\ Fresh' = Fresh /\ Queue' = Queue
    BY <1>1 DEF Alive, Fresh, Queue
  <1>7. ColumnInv' /\ PageInv' /\ HandedInv'
    BY <1>1, <1>6 DEF Inv, ColumnInv, PageInv, HandedInv
  <1>8. WiresInv'
    BY <1>1 DEF Inv, WiresInv
  <1>9. ShowsInv' /\ UnsavedInv'
    BY <1>1, <1>6 DEF Inv, ShowsInv, UnsavedInv
  <1> QED BY <1>5, <1>7, <1>8, <1>9 DEF Inv

\* The column takes the first message the page said.
LEMMA TakesSaid ==
  ASSUME Inv, NEW type, Received(type)
  PROVE  /\ toSwift # <<>> /\ Head(toSwift) \in ToSwift /\ Head(toSwift).type = type /\ isUp
         /\ toSwift' = Tail(toSwift) /\ toSwift' \in Seq(ToSwift)
  <1>1. toSwift # <<>> /\ Head(toSwift).type = type /\ toSwift' = Tail(toSwift) /\ toSwift \in Seq(ToSwift)
    BY DEF Received, Inv, WiresInv
  <1>2. Head(toSwift) \in ToSwift /\ Tail(toSwift) \in Seq(ToSwift)
    BY <1>1, HeadTailProperties
  <1> QED BY <1>1, <1>2 DEF Inv, WiresInv

\* Taking anything but a selection, requests stay.
LEMMA ShowsSaid ==
  ASSUME NEW alive, NEW fresh \in BOOLEAN, NEW js, NEW asked, NEW said \in Seq(ToSwift), said # <<>>,
         NEW queue, NEW c, Shows(alive, fresh, js, asked, said, queue, c), Head(said).type # "selection"
  PROVE  Shows(alive, fresh, js, asked, Tail(said), queue, c)
  <1>1. PICK due \in Seq(Asked), v \in Viewed :
           /\ Answers(fresh, asked, said, due)
           /\ Follows(alive, fresh, View(fresh, js, due), queue, v)
           /\ Agrees(alive, fresh, v, c)
    BY DEF Shows
  <1>2. Answers(fresh, asked, Tail(said), due)
    BY <1>1, AnswersRest
  <1> QED BY <1>1, <1>2 DEF Shows

LEMMA MonacoReadyStep ==
  ASSUME Inv, MonacoReady
  PROVE  Inv'
  <1>1. /\ Received("monacoReady") /\ monacoReady' = TRUE /\ toPage' = toPage \o pendingOps /\ pendingOps' = <<>>
        /\ disk' = disk /\ moved' = moved /\ apart' = apart /\ column' = column
        /\ selectionRequests' = selectionRequests /\ handed' = handed /\ page' = page /\ isUp' = isUp
        /\ events' = events /\ hasDied' = hasDied /\ leftGroup' = leftGroup
    BY DEF MonacoReady, noFiles
  <1>2. /\ toSwift # <<>> /\ Head(toSwift).type = "monacoReady" /\ isUp /\ toSwift \in Seq(ToSwift)
        /\ toSwift' = Tail(toSwift) /\ toSwift' \in Seq(ToSwift)
    BY <1>1, TakesSaid DEF Inv, WiresInv
  <1>3. toPage' = Queue /\ Queue' = Queue /\ Queue \in Seq(ToPage) /\ Fresh \in BOOLEAN
    <2>1. WiresInv /\ toPage \in Seq(ToPage) /\ pendingOps \in Seq(ToPage) /\ Queue \in Seq(ToPage) /\ Fresh \in BOOLEAN
      BY QueueIs DEF Inv, WiresInv
    <2>2. CASE monacoReady
      BY <1>1, <2>1, <2>2 DEF WiresInv, Queue
    <2>3. CASE ~monacoReady
      BY <1>1, <2>1, <2>3 DEF WiresInv, Queue
    <2> QED BY <2>1, <2>2, <2>3
  <1>4. Alive' = Alive /\ Fresh' = Fresh
    BY <1>1 DEF Alive, Fresh
  <1>5. Shows(Alive, Fresh, page, selectionRequests, Tail(toSwift), Queue, column)
    BY <1>2, <1>3, ShowsSaid DEF Inv, ShowsInv
  <1>6. Unsaved(page, Tail(toSwift), column.dirtyByPath, Queue)
    BY <1>2, UnsavedTold DEF Inv, UnsavedInv
  <1>7. ShowsInv' /\ UnsavedInv'
    BY <1>1, <1>2, <1>3, <1>4, <1>5, <1>6 DEF ShowsInv, UnsavedInv
  <1>8. FilesInv' /\ ColumnInv' /\ PageInv' /\ HandedInv'
    BY <1>1, <1>4 DEF Inv, FilesInv, ColumnInv, PageInv, HandedInv
  <1>9. WiresInv'
    <2>1. <<>> \in Seq(ToPage)
      OBVIOUS
    <2> QED BY <1>1, <1>2, <1>3, <2>1 DEF Inv, WiresInv
  <1> QED BY <1>7, <1>8, <1>9 DEF Inv

LEMMA TakeDirtyStep ==
  ASSUME Inv, TakeDirty
  PROVE  Inv'
  <1>1. PICK m : m = Head(toSwift)
    OBVIOUS
  <1>2. PICK known : known = IF m.isDirty THEN column.dirtyByPath \cup {m.path} ELSE column.dirtyByPath \ {m.path}
    OBVIOUS
  <1>3. /\ Received("dirty") /\ column' = [column EXCEPT !.dirtyByPath = known]
        /\ disk' = disk /\ moved' = moved /\ apart' = apart /\ monacoReady' = monacoReady
        /\ selectionRequests' = selectionRequests /\ handed' = handed /\ page' = page /\ isUp' = isUp
        /\ pendingOps' = pendingOps /\ toPage' = toPage
        /\ events' = events /\ hasDied' = hasDied /\ leftGroup' = leftGroup
    BY <1>1, <1>2 DEF TakeDirty, noFiles, noTalk
  <1>4. /\ toSwift # <<>> /\ m.type = "dirty" /\ m \in ToSwift /\ toSwift \in Seq(ToSwift)
        /\ toSwift' = Tail(toSwift) /\ toSwift' \in Seq(ToSwift)
    BY <1>1, <1>3, TakesSaid DEF Inv, WiresInv
  <1>5. column \in ColumnState /\ Tabbed(column) /\ column.out = <<>>
    BY DEF Inv, ColumnInv
  <1>6. known \in SUBSET Files
    BY <1>2, <1>4, <1>5, ColumnIs, ColumnMessage
  <1>7. PICK d : d = column'
    OBVIOUS
  <1>8. d = Column(column.tabPaths, column.activePath, known, column.diskModifiedWhileDirty, column.diffActivePath,
                   column.diffActiveMode, column.diffModeByPath, column.diffGroupTabs, column.load, column.out)
    BY <1>3, <1>5, <1>7, DirtySetIs
  <1>9. d \in ColumnState
    BY <1>5, <1>6, <1>8, ColumnIs, ColumnTyped
  <1>10. Fields(d, column.tabPaths, column.activePath, known, column.diskModifiedWhileDirty, column.diffActivePath,
                column.diffActiveMode, column.diffModeByPath, column.diffGroupTabs, column.load, column.out)
    BY <1>8, FieldsOf
  <1>11. /\ d.tabPaths = column.tabPaths /\ d.activePath = column.activePath /\ d.dirtyByPath = known
         /\ d.diskModifiedWhileDirty = column.diskModifiedWhileDirty /\ d.diffActivePath = column.diffActivePath
         /\ d.diffActiveMode = column.diffActiveMode /\ d.diffGroupTabs = column.diffGroupTabs
         /\ d.load = column.load /\ d.out = <<>>
    BY <1>5, <1>10 DEF Fields
  <1>12. Tabbed(d) /\ OpenPaths(d) = OpenPaths(column)
    BY <1>5, <1>11, TabbedSame, OpenIsSame
  <1>13. ColumnInv'
    BY <1>7, <1>9, <1>11, <1>12 DEF ColumnInv
  <1>14. Alive' = Alive /\ Fresh' = Fresh /\ Queue' = Queue /\ Fresh \in BOOLEAN
    BY <1>3, QueueIs DEF Alive, Fresh, Queue, Inv
  <1>15. Shows(Alive, Fresh, page, selectionRequests, Tail(toSwift), Queue, column)
    BY <1>1, <1>4, <1>14, ShowsSaid DEF Inv, ShowsInv
  <1>16. \A v : Agrees(Alive, Fresh, v, column) => Agrees(Alive, Fresh, v, d)
    BY <1>11, <1>12 DEF Agrees, Matches
  <1>17. Shows(Alive, Fresh, page, selectionRequests, Tail(toSwift), Queue, d)
    BY <1>15, <1>16 DEF Shows
  <1>18. Unsaved(page, Tail(toSwift), known, Queue)
    BY <1>1, <1>2, <1>4, UnsavedTold DEF Inv, UnsavedInv
  <1>19. ShowsInv' /\ UnsavedInv'
    BY <1>3, <1>4, <1>7, <1>11, <1>14, <1>17, <1>18 DEF ShowsInv, UnsavedInv
  <1>20. FilesInv' /\ PageInv' /\ HandedInv'
    BY <1>3, <1>7, <1>12, <1>14 DEF Inv, FilesInv, PageInv, HandedInv
  <1>21. WiresInv'
    BY <1>3, <1>4 DEF Inv, WiresInv, Received
  <1> QED BY <1>13, <1>19, <1>20, <1>21 DEF Inv

LEMMA TakeSelectionStep ==
  ASSUME Inv, TakeSelection
  PROVE  Inv'
  <1>1. PICK m : m = Head(toSwift)
    OBVIOUS
  <1>2. /\ Received("selection") /\ column' = column
        /\ disk' = disk /\ moved' = moved /\ apart' = apart /\ monacoReady' = monacoReady
        /\ page' = page /\ isUp' = isUp
        /\ pendingOps' = pendingOps /\ toPage' = toPage
        /\ events' = events /\ hasDied' = hasDied /\ leftGroup' = leftGroup
    BY DEF TakeSelection, noFiles
  <1>3. /\ toSwift # <<>> /\ m.type = "selection" /\ m \in ToSwift /\ toSwift \in Seq(ToSwift)
        /\ toSwift' = Tail(toSwift) /\ toSwift' \in Seq(ToSwift)
    BY <1>1, <1>2, TakesSaid DEF Inv, WiresInv
  <1>4. Alive' = Alive /\ Fresh' = Fresh /\ Queue' = Queue /\ Fresh \in BOOLEAN
    BY <1>2, QueueIs DEF Alive, Fresh, Queue, Inv
  <1>5. PICK due \in Seq(Asked), v \in Viewed :
           /\ Answers(Fresh, selectionRequests, toSwift, due)
           /\ Follows(Alive, Fresh, View(Fresh, page, due), Queue, v)
           /\ Agrees(Alive, Fresh, v, column)
    BY DEF Inv, ShowsInv, Shows
  <1>6. /\ selectionRequests # <<>> /\ (Fresh => m.path \in {None, Head(selectionRequests)})
        /\ Answers(Fresh, Tail(selectionRequests), Tail(toSwift), due)
    BY <1>1, <1>3, <1>4, <1>5, AnswersRest
  <1>7. /\ handed' = [asked |-> Head(selectionRequests), got |-> m.path]
        /\ selectionRequests' = Tail(selectionRequests)
    BY <1>1, <1>6 DEF TakeSelection
  <1>8. HandedInv'
    BY <1>4, <1>6, <1>7 DEF HandedInv
  <1>9. ShowsInv'
    BY <1>2, <1>3, <1>4, <1>5, <1>6, <1>7 DEF ShowsInv, Shows
  <1>10. Unsaved(page, Tail(toSwift), column.dirtyByPath, Queue)
    BY <1>1, <1>3, UnsavedTold DEF Inv, UnsavedInv
  <1>11. UnsavedInv'
    BY <1>2, <1>3, <1>4, <1>10 DEF UnsavedInv
  <1>12. FilesInv' /\ PageInv' /\ ColumnInv'
    BY <1>2, <1>4 DEF Inv, FilesInv, PageInv, ColumnInv
  <1>13. selectionRequests' \in Seq(Asked)
    BY <1>6, <1>7, HeadTailProperties DEF Inv, WiresInv
  <1>14. WiresInv'
    BY <1>2, <1>3, <1>13 DEF Inv, WiresInv, Received
  <1> QED BY <1>8, <1>9, <1>11, <1>12, <1>14 DEF Inv

LEMMA NoPageIs ==
  /\ NoPage \in PageState /\ NoPage.out = <<>> /\ NoPage.models = Empty /\ DOMAIN NoPage.models = {}
  /\ \A alive : PageFits(alive, NoPage)
  /\ \A fresh : \A due : View(fresh, NoPage, due) = Shown({}, None, "none", NoDiff, NoDiff, due)
  <1>1. PICK models, saves : models = Empty /\ saves = Empty
    OBVIOUS
  <1>2. models \in Models /\ saves \in Saves /\ DOMAIN models = {} /\ DOMAIN saves = {}
    BY <1>1, EmptyIs DEF Models, Saves
  <1>3. NoPage = Page(models, None, None, NoDiff, NoDiff, FALSE, saves, <<>>)
    BY <1>1 DEF NoPage, Page
  <1>a. PICK none, noDiff : none = None /\ noDiff = NoDiff
    OBVIOUS
  <1>b. PICK redraws \in BOOLEAN : redraws = FALSE
    OBVIOUS
  <1>4. PICK out \in Seq(ToSwift) : out = <<>>
    <2>1. <<>> \in Seq(ToSwift)
      OBVIOUS
    <2> QED BY <2>1
  <1>5. none \in Files \cup {None} /\ none \in {None, "monaco", "pierre", "pierre-group"}
        /\ noDiff \in {NoDiff} \cup Original /\ noDiff \in {NoDiff} \cup FileDrawn \cup GroupDrawn
    BY <1>a
  <1>6. NoPage \in PageState
    <2>1. NoPage = Page(models, none, none, noDiff, noDiff, redraws, saves, out)
      BY <1>3, <1>4, <1>a, <1>b
    <2> QED BY <1>2, <1>5, <2>1, PageTyped
  <1>7. /\ NoPage.models = models /\ NoPage.currentPath = None /\ NoPage.diffMode = None
        /\ NoPage.original = NoDiff /\ NoPage.drawn = NoDiff /\ ~NoPage.redraws
        /\ NoPage.pendingSaves = saves /\ NoPage.out = <<>>
    BY <1>3 DEF Page
  <1>8. ~ShowsDiff(NoPage)
    BY <1>7 DEF ShowsDiff, None
  <1>9. \A alive : PageFits(alive, NoPage)
    BY <1>2, <1>7, <1>8 DEF PageFits, None
  <1>10. \A fresh : \A due : View(fresh, NoPage, due) = Shown({}, None, "none", NoDiff, NoDiff, due)
    BY <1>2, <1>7, <1>8 DEF View, None
  <1> QED BY <1>1, <1>2, <1>6, <1>7, <1>9, <1>10

LEMMA PageDiesStep ==
  ASSUME Inv, PageDies
  PROVE  Inv'
  <1>1. /\ disk' = disk /\ moved' = moved /\ apart' = apart /\ column' = column /\ leftGroup' = leftGroup
        /\ handed' = handed /\ isUp' = FALSE /\ page' = NoPage /\ monacoReady' = FALSE /\ pendingOps' = <<>>
        /\ selectionRequests' = <<>> /\ toPage' = <<>> /\ toSwift' = <<>> /\ hasDied' = TRUE /\ Happens
    BY DEF PageDies, noFiles
  <1>2. Alive' = FALSE /\ Fresh' = FALSE /\ Queue' = <<>>
    BY <1>1 DEF Alive, Fresh, Queue
  <1>3. FilesInv' /\ ColumnInv' /\ HandedInv'
    BY <1>1, <1>2, EventCounts DEF Inv, FilesInv, ColumnInv, HandedInv
  <1>4. PageInv'
    BY <1>1, NoPageIs DEF PageInv
  <1>5. WiresInv'
    <2>1. <<>> \in Seq(ToPage)
      OBVIOUS
    <2>2. <<>> \in Seq(ToSwift)
      OBVIOUS
    <2>3. <<>> \in Seq(Asked)
      OBVIOUS
    <2> QED BY <1>1, <2>1, <2>2, <2>3 DEF Inv, WiresInv
  <1>6. UnsavedInv'
    BY <1>1, NoPageIs DEF UnsavedInv, Unsaved
  <1>7. PICK none \in Seq(Asked), fresh \in BOOLEAN : none = <<>> /\ fresh = FALSE
    <2>1. <<>> \in Seq(Asked)
      OBVIOUS
    <2> QED BY <2>1
  <1>8. Answers(fresh, none, <<>>, none)
    BY <1>7, NothingAnswers
  <1>9. View(fresh, NoPage, none) = Nothing /\ Nothing \in Viewed
    BY <1>7, NoPageIs, NothingIs DEF Nothing
  <1>10. Follows(FALSE, fresh, Nothing, <<>>, Nothing)
    BY <1>9, NothingFollows
  <1>11. Agrees(FALSE, fresh, Nothing, column)
    BY <1>7, <1>9 DEF Agrees, Matches, Nothing, Shown
  <1>12. Shows(FALSE, fresh, NoPage, none, <<>>, <<>>, column)
    BY <1>8, <1>9, <1>10, <1>11 DEF Shows
  <1>13. ShowsInv'
    BY <1>1, <1>2, <1>7, <1>12 DEF ShowsInv
  <1> QED BY <1>3, <1>4, <1>5, <1>6, <1>13 DEF Inv

LEMMA PageLoadsStep ==
  ASSUME Inv, PageLoads
  PROVE  Inv'
  <1>1. PICK m : m = [type |-> "monacoReady"]
    OBVIOUS
  <1>2. /\ disk' = disk /\ moved' = moved /\ apart' = apart /\ column' = column /\ leftGroup' = leftGroup
        /\ handed' = handed /\ isUp' = TRUE /\ page' = page /\ monacoReady' = monacoReady /\ pendingOps' = pendingOps
        /\ selectionRequests' = selectionRequests /\ toPage' = toPage /\ toSwift' = <<m>> /\ hasDied' = hasDied
        /\ events' = events /\ ~isUp
    BY <1>1 DEF PageLoads, columnSide
  <1>3. toSwift = <<>> /\ page = NoPage
    BY <1>2 DEF Inv, WiresInv
  <1>4. m \in ToSwift /\ m.type # "selection"
    BY <1>1 DEF ToSwift
  <1>5. Alive' = Alive /\ Fresh' = Fresh /\ Queue' = Queue /\ Fresh \in BOOLEAN
    BY <1>2, QueueIs DEF Alive, Fresh, Queue, Inv
  <1>6. PICK due \in Seq(Asked), v \in Viewed :
           /\ Answers(Fresh, selectionRequests, toSwift, due)
           /\ Follows(Alive, Fresh, View(Fresh, page, due), Queue, v)
           /\ Agrees(Alive, Fresh, v, column)
    BY DEF Inv, ShowsInv, Shows
  <1>7. toSwift' = Append(toSwift, m) /\ toSwift \in Seq(ToSwift)
    BY <1>2, <1>3 DEF Inv, WiresInv
  <1>8. Answers(Fresh, selectionRequests, toSwift', due) /\ toSwift' \in Seq(ToSwift)
    BY <1>4, <1>5, <1>6, <1>7, AnswersSame
  <1>9. ShowsInv'
    BY <1>2, <1>5, <1>6, <1>8 DEF ShowsInv, Shows
  <1>10. UnsavedInv'
    BY <1>2, <1>3, NoPageIs DEF UnsavedInv, Unsaved
  <1>11. FilesInv' /\ PageInv' /\ ColumnInv' /\ HandedInv'
    BY <1>2, <1>5 DEF Inv, FilesInv, PageInv, ColumnInv, HandedInv
  <1>12. WiresInv'
    BY <1>2, <1>8 DEF Inv, WiresInv
  <1> QED BY <1>9, <1>10, <1>11, <1>12 DEF Inv
-----------------------------------------------------------------------------
(* The column acts                                                         *)

LEMMA InvIs ==
  ASSUME Inv
  PROVE  /\ column \in ColumnState /\ Tabbed(column) /\ column.out = <<>>
         /\ column.dirtyByPath \in SUBSET Files /\ column.diskModifiedWhileDirty \in SUBSET Files
         /\ HasTabs(column, column.tabPaths)
         /\ Alive \in BOOLEAN /\ Fresh \in BOOLEAN /\ (Fresh => Alive)
         /\ disk \in [Files -> Texts] /\ \A path \in Files : disk[path] \in Texts
         /\ moved \in SUBSET OpenPaths(column) /\ apart \in SUBSET Files /\ events \in 0..MaxEvents
  <1>1. column \in ColumnState /\ Tabbed(column) /\ column.out = <<>>
    BY DEF Inv, ColumnInv
  <1>2. Alive \in BOOLEAN /\ Fresh \in BOOLEAN /\ (Fresh => Alive)
    BY QueueIs DEF Inv
  <1>3. disk \in [Files -> Texts] /\ moved \in SUBSET OpenPaths(column) /\ apart \in SUBSET Files
        /\ events \in 0..MaxEvents
    BY DEF Inv, FilesInv
  <1> QED BY <1>1, <1>2, <1>3, ColumnIs, ColumnHasTabs

LEMMA LooksAtTimeIs ==
  ASSUME Inv, NEW path \in Files, LooksAtTime(path)
  PROVE  disk' \in [Files -> Texts] /\ apart' \in SUBSET Files /\ moved' = moved \ {path}
  <1>1. disk \in [Files -> Texts] /\ apart \in SUBSET Files
    BY InvIs
  <1>2. \A text \in Texts : [disk EXCEPT ![path] = text] \in [Files -> Texts]
    BY <1>1
  <1>3. disk' \in [Files -> Texts]
    BY <1>1, <1>2 DEF LooksAtTime, Changed
  <1> QED BY <1>1, <1>3 DEF LooksAtTime

\* With the same tabs the same files are open.
LEMMA TabsSame ==
  ASSUME NEW c, HasTabs(c, column.tabPaths)
  PROVE  OpenPaths(c) = OpenPaths(column)
  BY OpenIsSame DEF HasTabs

\* The user asks something of the column, and no file is touched.
LEMMA ColumnAsksOnly ==
  ASSUME Inv, NEW c, ActsFor(Alive, Fresh, column, c), ColumnBecomes(c), OpenPaths(column) \subseteq OpenPaths(c),
         UNCHANGED <<noFiles, noTalk, pageSide>>, events' \in 0..MaxEvents
  PROVE  Inv'
  <1>1. disk' = disk /\ apart' = apart /\ moved' = moved
        /\ UNCHANGED <<pageSide, monacoReady, selectionRequests, handed>>
    BY DEF noFiles, noTalk
  <1>2. disk' \in [Files -> Texts] /\ apart' \in SUBSET Files /\ moved' \in SUBSET OpenPaths(c)
    BY <1>1, InvIs
  <1> QED BY <1>1, <1>2, ColumnAsks

LEMMA OpenStep ==
  ASSUME Inv, NEW path \in Files, Open(path)
  PROVE  Inv'
  <1>1. events' \in 0..MaxEvents /\ path \in Paths
    BY InvIs, EventCounts, NamesApart DEF Open
  <1>2. CASE IsOpen(column, path)
    <2>1. PICK c : c = Say(SwitchTo(column, path), [type |-> "goToLine", path |-> path])
      OBVIOUS
    <2>2. ColumnBecomes(c) /\ UNCHANGED <<noFiles, noTalk, pageSide>>
      BY <1>2, <2>1 DEF Open
    <2>3. ActsFor(Alive, Fresh, column, c)
      <3>1. ASSUME NEW v \in Viewed, Acts(Alive, Fresh, v, column, column) PROVE Acts(Alive, Fresh, v, column, c)
        BY <1>2, <2>1, <3>1, InvIs, OpenAgainActs
      <3> QED BY <3>1 DEF ActsFor
    <2>4. HasTabs(c, column.tabPaths)
      BY <2>1, InvIs, SwitchTabs, SayTabs
    <2> QED BY <1>1, <2>2, <2>3, <2>4, TabsSame, ColumnAsksOnly
  <1>3. CASE ~IsOpen(column, path)
    <2>1. PICK c : c = OpenBuffer(column, path)
      OBVIOUS
    <2>2. ColumnBecomes(c) /\ LooksAtTime(path) /\ UNCHANGED <<pageSide, monacoReady, selectionRequests, handed>>
      BY <1>3, <2>1 DEF Open, noTalk
    <2>3. ActsFor(Alive, Fresh, column, c)
      <3>1. ASSUME NEW v \in Viewed, Acts(Alive, Fresh, v, column, column) PROVE Acts(Alive, Fresh, v, column, c)
        BY <1>3, <2>1, <3>1, InvIs, ActsActing, OpenActs
      <3> QED BY <3>1 DEF ActsFor
    <2>4. disk' \in [Files -> Texts] /\ apart' \in SUBSET Files /\ moved' = moved \ {path}
      BY <2>2, LooksAtTimeIs
    <2>5. moved' \in SUBSET OpenPaths(c)
      BY <2>1, <2>4, InvIs, OpenedTabs
    <2> QED BY <1>1, <2>2, <2>3, <2>4, <2>5, ColumnAsks
  <1> QED BY <1>2, <1>3

LEMMA ClickTabStep ==
  ASSUME Inv, NEW path \in Paths, ClickTab(path)
  PROVE  Inv'
  <1>1. PICK c : c = SwitchTo(column, path)
    OBVIOUS
  <1>2. ColumnBecomes(c) /\ Happens /\ UNCHANGED <<noFiles, noTalk, pageSide>>
    BY <1>1 DEF ClickTab
  <1>3. ActsFor(Alive, Fresh, column, c)
    <2>1. ASSUME NEW v \in Viewed, Acts(Alive, Fresh, v, column, column) PROVE Acts(Alive, Fresh, v, column, c)
      BY <1>1, <2>1, InvIs, SwitchActs
    <2> QED BY <2>1 DEF ActsFor
  <1>4. OpenPaths(c) = OpenPaths(column)
    BY <1>1, InvIs, SwitchTabs, TabsSame
  <1> QED BY <1>2, <1>3, <1>4, InvIs, EventCounts, ColumnAsksOnly

LEMMA ToggleDiffStep ==
  ASSUME Inv, NEW mode \in Modes, ToggleDiff(mode)
  PROVE  Inv'
  <1>1. PICK path : path = column.activePath
    OBVIOUS
  <1>2. PICK c : c = Toggled(column, path, mode)
    OBVIOUS
  <1>3. path # None /\ ColumnBecomes(c) /\ Happens /\ UNCHANGED <<noFiles, noTalk, pageSide>>
    BY <1>1, <1>2 DEF ToggleDiff, Toggled
  <1>4. ActsFor(Alive, Fresh, column, c)
    <2>1. ASSUME NEW v \in Viewed, Acts(Alive, Fresh, v, column, column) PROVE Acts(Alive, Fresh, v, column, c)
      BY <1>1, <1>2, <1>3, <2>1, InvIs, ToggleActs
    <2> QED BY <2>1 DEF ActsFor
  <1>5. HasTabs(c, column.tabPaths)
    <2>1. PICK without, with : /\ without = [column EXCEPT !.diffModeByPath = Without(@, path)]
                               /\ with = [column EXCEPT !.diffModeByPath = With(@, path, mode)]
      OBVIOUS
    <2>2. HasTabs(without, column.tabPaths) /\ HasTabs(with, column.tabPaths)
      BY <2>1, InvIs DEF HasTabs
    <2>3. HasTabs(StopDiff(without), column.tabPaths) /\ HasTabs(EnterDiff(with, path, mode), column.tabPaths)
      BY <2>2, StopTabs, EnterDiffTabs
    <2>4. c = StopDiff(without) \/ c = EnterDiff(with, path, mode)
      BY <1>2, <2>1 DEF Toggled
    <2> QED BY <2>3, <2>4
  <1> QED BY <1>3, <1>4, <1>5, InvIs, TabsSame, EventCounts, ColumnAsksOnly

LEMMA ShowDiffStep ==
  ASSUME Inv, NEW path \in Files, NEW mode \in Modes, ShowDiff(path, mode)
  PROVE  Inv'
  <1>1. PICK c : c = ShownDiff(column, path, mode)
    OBVIOUS
  <1>2. ColumnBecomes(c) /\ Happens /\ UNCHANGED <<noTalk, pageSide>>
    BY <1>1 DEF ShowDiff, ShownDiff
  <1>3. ActsFor(Alive, Fresh, column, c)
    <2>1. ASSUME NEW v \in Viewed, Acts(Alive, Fresh, v, column, column) PROVE Acts(Alive, Fresh, v, column, c)
      BY <1>1, <2>1, InvIs, ShowDiffActs
    <2> QED BY <2>1 DEF ActsFor
  <1>4. OpenPaths(column) \subseteq OpenPaths(c)
    BY <1>1, InvIs, ShownTabs
  <1>5. events' \in 0..MaxEvents
    BY <1>2, InvIs, EventCounts
  <1>6. CASE IsOpen(column, path)
    <2>1. UNCHANGED <<noFiles, noTalk, pageSide>>
      BY <1>2, <1>6 DEF ShowDiff
    <2> QED BY <1>2, <1>3, <1>4, <1>5, <2>1, ColumnAsksOnly
  <1>7. CASE ~IsOpen(column, path)
    <2>1. LooksAtTime(path) /\ UNCHANGED <<pageSide, monacoReady, selectionRequests, handed>>
      BY <1>2, <1>7 DEF ShowDiff, noTalk
    <2>2. disk' \in [Files -> Texts] /\ apart' \in SUBSET Files /\ moved' = moved \ {path}
      BY <2>1, LooksAtTimeIs
    <2>3. moved' \in SUBSET OpenPaths(c)
      BY <1>4, <2>2, InvIs
    <2> QED BY <1>2, <1>3, <1>5, <2>1, <2>2, <2>3, ColumnAsks
  <1> QED BY <1>6, <1>7

LEMMA ShowDiffCollectionStep ==
  ASSUME Inv, NEW mode \in Modes, ShowDiffCollection(mode)
  PROVE  Inv'
  <1>1. PICK d : Collects(column, mode, d)
    BY DEF Collects
  <1>2. PICK c : c = SendDiffGroup(d, mode)
    OBVIOUS
  <1>3. ColumnBecomes(c) /\ Happens /\ UNCHANGED <<noFiles, noTalk, pageSide>>
    BY <1>1, <1>2 DEF ShowDiffCollection, Collects
  <1>4. ActsFor(Alive, Fresh, column, c)
    <2>1. ASSUME NEW v \in Viewed, Acts(Alive, Fresh, v, column, column) PROVE Acts(Alive, Fresh, v, column, c)
      BY <1>1, <1>2, <2>1, InvIs, CollectionActs
    <2> QED BY <2>1 DEF ActsFor
  <1>5. OpenPaths(column) \subseteq OpenPaths(c)
    BY <1>1, <1>2, InvIs, CollectionTabs
  <1> QED BY <1>3, <1>4, <1>5, InvIs, EventCounts, ColumnAsksOnly

LEMMA LoadAnsweredStep ==
  ASSUME Inv, LoadAnswered
  PROVE  Inv'
  <1>1. PICK found, c :
          /\ found \in BOOLEAN
          /\ column.load # NoLoad
          /\ events' = events \/ Happens
          /\ column.load.kind = "file" /\ found => ~IsGroup(column.load.path)
          /\ c = IF column.load.kind = "file" THEN TakeDiff(column, found) ELSE TakeGroup(column, found)
          /\ ColumnBecomes(c) /\ UNCHANGED <<noFiles, noTalk, pageSide>>
    BY DEF LoadAnswered
  <1>2. column.load.kind \in {"file", "group"}
    BY <1>1, InvIs, ColumnIs, LoadIs
  <1>3. events' \in 0..MaxEvents
    BY <1>1, InvIs, EventCounts
  <1>4. CASE column.load.kind = "file"
    <2>1. c = TakeDiff(column, found) /\ (found => ~IsGroup(column.load.path))
      BY <1>1, <1>4
    <2>2. ActsFor(Alive, Fresh, column, c)
      <3>1. ASSUME NEW v \in Viewed, Acts(Alive, Fresh, v, column, column) PROVE Acts(Alive, Fresh, v, column, c)
        BY <1>1, <1>4, <2>1, <3>1, InvIs, TakeDiffActs
      <3> QED BY <3>1 DEF ActsFor
    <2>3. OpenPaths(c) = OpenPaths(column)
      BY <2>1, InvIs, TakeDiffTabs, TabsSame
    <2> QED BY <1>1, <1>3, <2>2, <2>3, ColumnAsksOnly
  <1>5. CASE column.load.kind = "group"
    <2>1. c = TakeGroup(column, found)
      BY <1>1, <1>5
    <2>2. ActsFor(Alive, Fresh, column, c)
      <3>1. ASSUME NEW v \in Viewed, Acts(Alive, Fresh, v, column, column) PROVE Acts(Alive, Fresh, v, column, c)
        BY <1>1, <1>5, <2>1, <3>1, InvIs, TakeGroupActs
      <3> QED BY <3>1 DEF ActsFor
    <2>3. OpenPaths(column) \subseteq OpenPaths(c)
      BY <1>1, <1>5, <2>1, InvIs, TakeGroupTabs
    <2> QED BY <1>1, <1>3, <2>2, <2>3, ColumnAsksOnly
  <1> QED BY <1>2, <1>4, <1>5

LEMMA SaveAllStep ==
  ASSUME Inv, SaveAll
  PROVE  Inv'
  <1>1. PICK m : m = [type |-> "saveAll", skipPaths |-> column.diskModifiedWhileDirty]
    OBVIOUS
  <1>2. m \in ToPage /\ m.type = "saveAll"
    BY <1>1, InvIs, ColumnSays
  <1>3. PICK c : c = Say(column, m)
    OBVIOUS
  <1>4. ColumnBecomes(c) /\ Happens /\ UNCHANGED <<noFiles, noTalk, pageSide>>
    BY <1>1, <1>3 DEF SaveAll
  <1>5. ActsFor(Alive, Fresh, column, c)
    <2>1. ASSUME NEW v \in Viewed, Acts(Alive, Fresh, v, column, column) PROVE Acts(Alive, Fresh, v, column, c)
      BY <1>2, <1>3, <2>1, InvIs, SavesActs
    <2> QED BY <2>1 DEF ActsFor
  <1>6. OpenPaths(c) = OpenPaths(column)
    BY <1>3, InvIs, SayTabs, TabsSame
  <1> QED BY <1>4, <1>5, <1>6, InvIs, EventCounts, ColumnAsksOnly
\* Closing a tab whose diff is noted still, though a collection shows, makes the page
\* leave the collection: then no longer "fresh".
LEMMA CloseStep ==
  ASSUME Inv, NEW path \in Paths, Close(path)
  PROVE  Inv'
  <1>1. PICK c : c = Closed(column, path)
    OBVIOUS
  <1>2. /\ IsOpen(column, path) /\ Happens /\ ColumnBecomes(c) /\ moved' = moved \ {path}
        /\ leftGroup' = (leftGroup \/ StrayExit(path))
        /\ disk' = disk /\ apart' = apart /\ monacoReady' = monacoReady /\ selectionRequests' = selectionRequests
        /\ handed' = handed /\ page' = page /\ isUp' = isUp /\ toSwift' = toSwift /\ hasDied' = hasDied
    BY <1>1 DEF Close, noTalk
  <1>3. PICK fresh : fresh = Fresh'
    OBVIOUS
  <1>4. /\ leftGroup' \in BOOLEAN /\ fresh \in BOOLEAN /\ Alive' = Alive /\ (fresh => Fresh)
        /\ (fresh => ~StrayExit(path)) /\ (fresh => Alive)
    BY <1>2, <1>3 DEF Fresh, Alive, StrayExit, Inv, WiresInv
  <1>5. /\ PageInv /\ WiresInv /\ ColumnInv /\ HandedInv /\ ShowsInv /\ UnsavedInv
        /\ page \in PageState /\ PageFits(Alive, page) /\ toSwift \in Seq(ToSwift) /\ Queue \in Seq(ToPage)
    BY QueueIs DEF Inv, PageInv, WiresInv
  <1>6. Shows(Alive, fresh, page, selectionRequests, toSwift, Queue, column)
    <2>1. CASE fresh = Fresh
      BY <1>5, <2>1 DEF ShowsInv
    <2>2. CASE fresh # Fresh
      <3>1. fresh = FALSE /\ Fresh = TRUE
        BY <1>4, <2>2, InvIs
      <3>2. Shows(Alive, TRUE, page, selectionRequests, toSwift, Queue, column)
        BY <1>5, <3>1 DEF ShowsInv
      <3>3. Shows(Alive, FALSE, page, selectionRequests, toSwift, Queue, column)
        BY <1>5, <3>2, InvIs, ShowsStale
      <3> QED BY <3>1, <3>3
    <2> QED BY <2>1, <2>2
  <1>7. ActsFor(Alive, fresh, column, c)
    <2>1. fresh => ~(column.diffActivePath = path /\ column.activePath # path /\ IsGroup(column.activePath))
      BY <1>4 DEF StrayExit
    <2>2. ASSUME NEW v \in Viewed, Acts(Alive, fresh, v, column, column) PROVE Acts(Alive, fresh, v, column, c)
      BY <1>1, <1>2, <1>4, <2>1, <2>2, InvIs, ClosedActs
    <2> QED BY <2>2 DEF ActsFor
  <1>8. /\ Alive' \in BOOLEAN /\ Fresh' \in BOOLEAN
        /\ Shows(Alive', Fresh', page', selectionRequests', toSwift', Queue, column)
        /\ Unsaved(page', toSwift', column.dirtyByPath, Queue) /\ ActsFor(Alive', Fresh', column, c)
    BY <1>2, <1>3, <1>4, <1>5, <1>6, <1>7, InvIs DEF UnsavedInv
  <1>9. /\ ColumnInv' /\ ShowsInv' /\ UnsavedInv' /\ OpenPaths(column') = OpenPaths(c)
        /\ toPage' \in Seq(ToPage) /\ pendingOps' \in Seq(ToPage)
        /\ monacoReady' => pendingOps' = <<>>
        /\ ~monacoReady' => toPage' = <<>>
    BY <1>2, <1>5, <1>8, ColumnSteps
  <1>10. moved' \in SUBSET OpenPaths(column')
    <2>1. OpenPaths(c) = OpenPaths(column) \ {path}
      BY <1>1, <1>2, InvIs, ClosedTabs
    <2> QED BY <1>2, <1>9, <2>1, InvIs
  <1>11. FilesInv'
    BY <1>2, <1>10, InvIs, EventCounts DEF FilesInv
  <1>12. WiresInv'
    BY <1>2, <1>4, <1>5, <1>9 DEF WiresInv
  <1>13. PageInv'
    BY <1>2, <1>4, <1>5 DEF PageInv
  <1>14. HandedInv'
    BY <1>2, <1>3, <1>4, <1>5 DEF HandedInv
  <1> QED BY <1>9, <1>11, <1>12, <1>13, <1>14 DEF Inv

LEMMA RequestSelectionStep ==
  ASSUME Inv, RequestSelection
  PROVE  Inv'
  <1>1. PICK m, c, path : m = [type |-> "getSelection"] /\ c = Say(column, m) /\ path = column.activePath
    OBVIOUS
  <1>2. /\ Happens /\ selectionRequests' = Append(selectionRequests, path) /\ ColumnBecomes(c)
        /\ disk' = disk /\ moved' = moved /\ apart' = apart /\ monacoReady' = monacoReady /\ handed' = handed
        /\ page' = page /\ isUp' = isUp /\ toSwift' = toSwift /\ hasDied' = hasDied /\ leftGroup' = leftGroup
    BY <1>1 DEF RequestSelection, noFiles, pageSide
  <1>3. PageInv /\ WiresInv /\ HandedInv /\ ShowsInv /\ UnsavedInv
        /\ page \in PageState /\ toSwift \in Seq(ToSwift) /\ Queue \in Seq(ToPage)
    BY QueueIs DEF Inv, PageInv, WiresInv
  <1>4. Alive' = Alive /\ Fresh' = Fresh
    BY <1>2 DEF Alive, Fresh
  <1>5. Shows(Alive, Fresh, page, Append(selectionRequests, path), toSwift, Append(Queue, m), column)
    BY <1>1, <1>3, InvIs, ShowsAsked DEF ShowsInv
  <1>6. m \in ToPage
    BY <1>1, ColumnSays
  <1>7. /\ c \in ColumnState /\ c.out = <<m>> /\ c.dirtyByPath = column.dirtyByPath
        /\ OpenPaths(c) = OpenPaths(column) /\ Tabbed(c)
        /\ \A v : Agrees(Alive, Fresh, v, column) => Agrees(Alive, Fresh, v, c)
    <2>1. /\ c \in ColumnState /\ c.out = Append(column.out, m)
          /\ c.tabPaths = column.tabPaths /\ c.activePath = column.activePath /\ c.dirtyByPath = column.dirtyByPath
          /\ c.diskModifiedWhileDirty = column.diskModifiedWhileDirty /\ c.diffActivePath = column.diffActivePath
          /\ c.diffActiveMode = column.diffActiveMode /\ c.diffGroupTabs = column.diffGroupTabs /\ c.load = column.load
      BY <1>1, <1>6, InvIs, SaidIs
    <2>2. OpenPaths(c) = OpenPaths(column) /\ Tabbed(c)
      BY <2>1, InvIs, OpenIsSame, TabbedSame
    <2>3. \A v : Agrees(Alive, Fresh, v, column) => Agrees(Alive, Fresh, v, c)
      BY <2>1, <2>2 DEF Agrees, Matches
    <2>4. c.out = <<m>>
      <3>1. column.out = <<>>
        BY InvIs
      <3> QED BY <2>1, <3>1
    <2> QED BY <2>1, <2>2, <2>3, <2>4
  <1>8. /\ column' = Silent(c) /\ Queue' = Queue \o c.out
        /\ toPage' \in Seq(ToPage) /\ pendingOps' \in Seq(ToPage)
        /\ monacoReady' => pendingOps' = <<>>
        /\ ~monacoReady' => toPage' = <<>>
    BY <1>2, <1>3, <1>7, ColumnSends
  <1>9. PICK d : d = Silent(c)
    OBVIOUS
  <1>10. /\ d \in ColumnState /\ Tabbed(d) /\ d.out = <<>> /\ d.dirtyByPath = column.dirtyByPath
         /\ OpenPaths(d) = OpenPaths(column)
         /\ \A v : Agrees(Alive, Fresh, v, column) => Agrees(Alive, Fresh, v, d)
    BY <1>7, <1>9, SilentColumn
  <1>11. Queue' = Append(Queue, m)
    BY <1>3, <1>6, <1>7, <1>8
  <1>12. ShowsInv'
    <2>1. Shows(Alive, Fresh, page, Append(selectionRequests, path), toSwift, Append(Queue, m), d)
      BY <1>5, <1>10 DEF Shows
    <2> QED BY <1>2, <1>4, <1>8, <1>9, <1>11, <2>1 DEF ShowsInv
  <1>13. UnsavedInv'
    <2>1. \A p : ~NoneIn(Queue, Resets(p)) => ~NoneIn(Append(Queue, m), Resets(p))
      BY <1>3, <1>6, LastInMore
    <2>2. Unsaved(page, toSwift, column.dirtyByPath, Append(Queue, m))
      BY <1>3, <2>1 DEF UnsavedInv, Unsaved
    <2> QED BY <1>2, <1>8, <1>9, <1>10, <1>11, <2>2 DEF UnsavedInv
  <1>14. ColumnInv'
    BY <1>8, <1>9, <1>10 DEF ColumnInv
  <1>15. FilesInv'
    BY <1>2, <1>8, <1>9, <1>10, InvIs, EventCounts DEF FilesInv
  <1>16. selectionRequests' \in Seq(Asked)
    <2>1. path \in Asked
      BY <1>1, InvIs, ColumnIs
    <2> QED BY <1>2, <1>3, <2>1, AppendProperties DEF WiresInv
  <1>17. WiresInv'
    BY <1>2, <1>3, <1>8, <1>16 DEF WiresInv
  <1>18. PageInv' /\ HandedInv'
    BY <1>2, <1>3, <1>4 DEF PageInv, HandedInv
  <1> QED BY <1>12, <1>13, <1>14, <1>15, <1>17, <1>18 DEF Inv

LEMMA CheckDiskStep ==
  ASSUME Inv, CheckDisk
  PROVE  Inv'
  <1> DEFINE late == moved \cap OpenPaths(column)
             conflicts == {p \in late : SeesConflict(p)}
             reloads == {p \in late : SeesReload(p)}
             flagged == [column EXCEPT !.diskModifiedWhileDirty = @ \cup conflicts]
             seq == column.tabPaths
             n == Len(seq)
  <1>1. PICK c : /\ ReloadEnds(n, seq, flagged, reloads, c)
                 /\ ColumnBecomes(c) /\ moved' = moved \ (conflicts \cup reloads)
                 /\ UNCHANGED <<disk, apart, events, noTalk, pageSide>>
    BY DEF CheckDisk, ReloadEnds
  <1>2. PICK changed : changed = column.diskModifiedWhileDirty \cup conflicts
    OBVIOUS
  <1>3. flagged = [column EXCEPT !.diskModifiedWhileDirty = changed]
    BY <1>2
  <1>4. changed \subseteq OpenPaths(column) /\ reloads \subseteq OpenPaths(column)
    BY <1>2, InvIs DEF Tabbed
  <1> HIDE DEF late, conflicts, reloads, flagged, seq, n
  <1>5. n = Len(seq) /\ seq = column.tabPaths
    BY DEF n, seq
  <1>6. ASSUME NEW v \in Viewed, Acts(Alive, Fresh, v, column, column)
        PROVE  Acts(Alive, Fresh, v, column, c) /\ c.tabPaths = seq
    <2>1. Acts(Alive, Fresh, v, column, flagged) /\ flagged.tabPaths = column.tabPaths
      BY <1>3, <1>4, <1>6, ChangedActs
    <2>2. reloads \subseteq OpenPaths(flagged) /\ seq = flagged.tabPaths
      BY <1>4, <1>5, <2>1, OpenIsSame
    <2>3. Acts(Alive, Fresh, v, column, c) /\ c.tabPaths = flagged.tabPaths
      <3>1. Alive \in BOOLEAN /\ Fresh \in BOOLEAN /\ (Fresh => Alive) /\ disk \in [Files -> Texts]
        BY InvIs
      <3>2. ReloadEnds(n, seq, flagged, reloads, c) /\ n = Len(seq)
        BY <1>1, <1>5
      <3>3. Rereads(flagged, reloads, seq, n)
        BY <2>2, <3>2 DEF Rereads
      <3> QED BY <2>1, <3>1, <3>2, <3>3, ReloadsActs
    <2> QED BY <1>5, <2>1, <2>3
  <1>7. ActsFor(Alive, Fresh, column, c)
    BY <1>6 DEF ActsFor
  <1>8. c.tabPaths = column.tabPaths
    <2>1. PICK due \in Seq(Asked), v \in Viewed : Agrees(Alive, Fresh, v, column)
      BY DEF Inv, ShowsInv, Shows
    <2>2. Acts(Alive, Fresh, v, column, column)
      BY <2>1, InvIs, ActsNothing
    <2> QED BY <1>5, <1>6, <2>2
  <1>9. moved' \in SUBSET OpenPaths(c)
    BY <1>1, <1>8, InvIs, OpenIsSame
  <1>10. /\ disk' \in [Files -> Texts] /\ apart' \in SUBSET Files /\ events' \in 0..MaxEvents
         /\ UNCHANGED <<pageSide, monacoReady, selectionRequests, handed>>
    BY <1>1, InvIs DEF noTalk
  <1> QED BY <1>1, <1>7, <1>9, <1>10, ColumnAsks

LEMMA ResolveConflictStep ==
  ASSUME Inv, NEW reload \in BOOLEAN, ResolveConflict(reload)
  PROVE  Inv'
  <1>1. PICK path : path = column.activePath
    OBVIOUS
  <1>2. path \in column.diskModifiedWhileDirty /\ Happens /\ UNCHANGED <<noTalk, pageSide>>
    BY <1>1 DEF ResolveConflict
  <1>3. path \in Files /\ IsOpen(column, path)
    BY <1>2, InvIs DEF Tabbed, OpenPaths
  <1>4. events' \in 0..MaxEvents /\ UNCHANGED <<pageSide, monacoReady, selectionRequests, handed>>
    BY <1>2, InvIs, EventCounts DEF noTalk
  <1>5. CASE reload
    <2>1. PICK c : c = ReloadFromDisk(column, path)
      OBVIOUS
    <2>2. ColumnBecomes(c) /\ LooksAtTime(path)
      BY <1>1, <1>5, <2>1 DEF ResolveConflict
    <2>3. ActsFor(Alive, Fresh, column, c)
      <3>1. ASSUME NEW v \in Viewed, Acts(Alive, Fresh, v, column, column) PROVE Acts(Alive, Fresh, v, column, c)
        BY <1>3, <2>1, <3>1, InvIs, ReloadActs
      <3> QED BY <3>1 DEF ActsFor
    <2>4. HasTabs(c, column.tabPaths)
      <3>1. PICK d : d = [column EXCEPT !.diskModifiedWhileDirty = @ \ {path}]
        OBVIOUS
      <3>2. HasTabs(d, column.tabPaths)
        BY <3>1, InvIs DEF HasTabs
      <3>3. \A m : HasTabs(Say(d, m), column.tabPaths)
        BY <3>2, SayTabs
      <3> QED BY <2>1, <3>1, <3>3 DEF ReloadFromDisk
    <2>5. disk' \in [Files -> Texts] /\ apart' \in SUBSET Files /\ moved' = moved \ {path}
      BY <1>3, <2>2, LooksAtTimeIs
    <2>6. moved' \in SUBSET OpenPaths(c)
      BY <2>4, <2>5, InvIs, TabsSame
    <2> QED BY <1>4, <2>2, <2>3, <2>5, <2>6, ColumnAsks
  <1>6. CASE ~reload
    <2>1. PICK changed, c : /\ changed = column.diskModifiedWhileDirty \ {path}
                            /\ c = [column EXCEPT !.diskModifiedWhileDirty = changed]
      OBVIOUS
    <2>2. ColumnBecomes(c) /\ moved' = moved \ {path} /\ apart' = apart \cup {path} /\ disk' = disk
      BY <1>1, <1>6, <2>1 DEF ResolveConflict
    <2>3. changed \subseteq OpenPaths(column)
      BY <2>1, InvIs DEF Tabbed
    <2>4. ActsFor(Alive, Fresh, column, c)
      <3>1. ASSUME NEW v \in Viewed, Acts(Alive, Fresh, v, column, column) PROVE Acts(Alive, Fresh, v, column, c)
        BY <2>1, <2>3, <3>1, ChangedActs
      <3> QED BY <3>1 DEF ActsFor
    <2>5. OpenPaths(c) = OpenPaths(column)
      BY <2>1, InvIs, SetsKeepTabs, TabsSame
    <2>6. disk' \in [Files -> Texts] /\ apart' \in SUBSET Files /\ moved' \in SUBSET OpenPaths(c)
      BY <1>3, <2>2, <2>5, InvIs
    <2> QED BY <1>4, <2>2, <2>4, <2>6, ColumnAsks
  <1> QED BY <1>5, <1>6
\* A save's text is written, or it fails; the page is told of the one that did.
LEMMA HandleSaveStep ==
  ASSUME Inv, HandleSave
  PROVE  Inv'
  <1>1. PICK m, known : m = Head(toSwift) /\ known = column.dirtyByPath
    OBVIOUS
  <1>2. PICK said, changed, d, saved :
          /\ said = [type |-> "markSaved", path |-> m.path]
          /\ changed = column.diskModifiedWhileDirty \ {m.path}
          /\ d = [column EXCEPT !.diskModifiedWhileDirty = changed]
          /\ saved = Say(d, said)
    OBVIOUS
  <1>3. /\ Received("save")
        /\ monacoReady' = monacoReady /\ selectionRequests' = selectionRequests /\ handed' = handed
        /\ page' = page /\ isUp' = isUp /\ hasDied' = hasDied /\ leftGroup' = leftGroup
    BY DEF HandleSave, noTalk
  <1>4. /\ toSwift # <<>> /\ m.type = "save" /\ m \in ToSwift /\ toSwift \in Seq(ToSwift) /\ isUp
        /\ toSwift' = Tail(toSwift) /\ toSwift' \in Seq(ToSwift)
    BY <1>1, <1>3, TakesSaid DEF Inv, WiresInv
  <1>5. m.path \in Files /\ m.content \in Texts
    BY <1>4, ColumnMessage
  <1>6. PICK files : files = {[disk EXCEPT ![m.path] = text] : text \in Texts}
    OBVIOUS
  <1>7. files \subseteq [Files -> Texts]
    BY <1>6, InvIs
  <1>8. \/ /\ disk' = disk /\ moved' = moved /\ apart' = apart /\ column' = column
           /\ toPage' = toPage /\ pendingOps' = pendingOps /\ events' = events
        \/ /\ IsOpen(column, m.path) /\ disk' \in files /\ moved' = moved \ {m.path} /\ ColumnBecomes(saved)
           /\ apart' = apart /\ events' = events
        \/ /\ IsOpen(column, m.path) /\ Happens /\ disk' \in files /\ moved' = moved \ {m.path}
           /\ apart' = apart \cup {m.path} /\ ColumnBecomes(saved)
        \/ /\ Happens /\ apart' = apart \cup {m.path} /\ disk' = disk /\ moved' = moved /\ column' = column
           /\ toPage' = toPage /\ pendingOps' = pendingOps
    BY <1>1, <1>2, <1>5, <1>6 DEF HandleSave, noFiles
  <1>9. events' \in 0..MaxEvents /\ disk' \in [Files -> Texts] /\ apart' \in SUBSET Files
    BY <1>5, <1>7, <1>8, InvIs, EventCounts
  <1>10. Alive' = Alive /\ Fresh' = Fresh /\ Alive \in BOOLEAN /\ Fresh \in BOOLEAN /\ (Fresh => Alive)
    BY <1>3, InvIs DEF Alive, Fresh
  <1>11. Shows(Alive, Fresh, page, selectionRequests, Tail(toSwift), Queue, column)
    BY <1>1, <1>4, <1>10, ShowsSaid DEF Inv, ShowsInv
  <1>12. Unsaved(page, Tail(toSwift), column.dirtyByPath, Queue)
    BY <1>1, <1>4, UnsavedTold DEF Inv, UnsavedInv
  <1>13. PageInv' /\ HandedInv'
    BY <1>3, <1>10 DEF Inv, PageInv, HandedInv
  <1>14. CASE column' = column /\ toPage' = toPage /\ pendingOps' = pendingOps /\ moved' = moved
    <2>1. Queue' = Queue
      BY <1>3, <1>14 DEF Queue
    <2>2. ShowsInv' /\ UnsavedInv'
      BY <1>3, <1>4, <1>10, <1>11, <1>12, <1>14, <2>1 DEF ShowsInv, UnsavedInv
    <2>3. FilesInv' /\ ColumnInv'
      BY <1>9, <1>14 DEF Inv, FilesInv, ColumnInv
    <2>4. WiresInv'
      BY <1>3, <1>4, <1>14 DEF Inv, WiresInv
    <2> QED BY <1>13, <2>2, <2>3, <2>4 DEF Inv
  <1>15. CASE IsOpen(column, m.path) /\ ColumnBecomes(saved) /\ moved' = moved \ {m.path}
    <2>1. changed \subseteq OpenPaths(column)
      BY <1>2, InvIs DEF Tabbed
    <2>2. said \in ToPage /\ said.type = "markSaved"
      BY <1>2, <1>5, ColumnSays
    <2>3. ActsFor(Alive, Fresh, column, saved)
      <3>1. ASSUME NEW v \in Viewed, Acts(Alive, Fresh, v, column, column)
            PROVE  Acts(Alive, Fresh, v, column, saved)
        <4>1. Acts(Alive, Fresh, v, column, d)
          BY <1>2, <2>1, <3>1, ChangedActs
        <4> QED BY <1>2, <1>10, <2>2, <4>1, SavesActs
      <3> QED BY <3>1 DEF ActsFor
    <2>4. OpenPaths(saved) = OpenPaths(column)
      <3>1. HasTabs(d, column.tabPaths)
        BY <1>2, InvIs, SetsKeepTabs
      <3>2. HasTabs(saved, column.tabPaths)
        BY <1>2, <3>1, SayTabs
      <3> QED BY <3>2, TabsSame
    <2>5. /\ Shows(Alive', Fresh', page', selectionRequests', toSwift', Queue, column)
          /\ Unsaved(page', toSwift', column.dirtyByPath, Queue)
          /\ ActsFor(Alive', Fresh', column, saved) /\ Alive' \in BOOLEAN /\ Fresh' \in BOOLEAN
      BY <1>3, <1>4, <1>10, <1>11, <1>12, <2>3
    <2>6. /\ ColumnInv' /\ ShowsInv' /\ UnsavedInv' /\ OpenPaths(column') = OpenPaths(saved)
          /\ toPage' \in Seq(ToPage) /\ pendingOps' \in Seq(ToPage)
          /\ monacoReady' => pendingOps' = <<>>
          /\ ~monacoReady' => toPage' = <<>>
      BY <1>3, <1>15, <2>5, ColumnSteps DEF Inv
    <2>7. FilesInv'
      BY <1>9, <1>15, <2>4, <2>6, InvIs DEF FilesInv
    <2>8. WiresInv'
      BY <1>3, <1>4, <2>6 DEF Inv, WiresInv
    <2> QED BY <1>13, <2>6, <2>7, <2>8 DEF Inv
  <1> QED BY <1>8, <1>14, <1>15

-----------------------------------------------------------------------------
(* The theorems                                                            *)

LEMMA NoPageAtFirst ==
  ASSUME Init
  PROVE  PageInv /\ UnsavedInv /\ HandedInv /\ Alive = TRUE /\ Fresh = TRUE
  <1>1. page = NoPage /\ handed.got = None /\ hasDied = FALSE /\ leftGroup = FALSE
    BY DEF Init
  <1>2. PageInv
    BY <1>1, NoPageIs DEF PageInv
  <1>3. UnsavedInv
    BY <1>1, NoPageIs DEF UnsavedInv, Unsaved
  <1>4. Alive = TRUE /\ Fresh = TRUE
    BY <1>1 DEF Alive, Fresh
  <1> QED BY <1>1, <1>2, <1>3, <1>4 DEF HandedInv

\* The restored tabs are opened: what they say waits for the page.
LEMMA InitInv ==
  ASSUME Init
  PROVE  Inv
  <1>1. PICK c : c = FoldLeft(OpenBuffer, NoColumn, Restored)
    OBVIOUS
  <1>2. /\ disk = [p \in Files |-> 1] /\ moved = {} /\ apart = {} /\ events = 0
        /\ column = Silent(c) /\ pendingOps = c.out /\ monacoReady = FALSE /\ selectionRequests = <<>>
        /\ page = NoPage /\ isUp = FALSE /\ toPage = <<>> /\ toSwift = <<>>
        /\ hasDied = FALSE /\ leftGroup = FALSE
    BY <1>1 DEF Init, Silent
  <1>3. disk \in [Files -> Texts]
    BY <1>2, EditorAssumption DEF Texts
  <1>4. Acts(TRUE, TRUE, Nothing, NoColumn, c)
    BY <1>1, <1>3, RestoredActs
  <1>5. PICK w : Acted(TRUE, TRUE, Nothing, NoColumn, c, w) /\ Agrees(TRUE, TRUE, w, c)
    BY <1>4 DEF Acts
  <1>6. c \in ColumnState /\ Tabbed(c) /\ Follows(TRUE, TRUE, Nothing, c.out, w) /\ w \in Viewed
    BY <1>5 DEF Acted, Agrees, Matches
  <1>7. /\ Silent(c) \in ColumnState /\ Tabbed(Silent(c)) /\ Silent(c).out = <<>>
        /\ \A v : Agrees(TRUE, TRUE, v, c) => Agrees(TRUE, TRUE, v, Silent(c))
    BY <1>6, SilentColumn
  <1>8. ColumnInv
    BY <1>2, <1>7 DEF ColumnInv
  <1>9. FilesInv
    BY <1>2, <1>3, EditorAssumption DEF FilesInv
  <1>10. PICK none \in Seq(Asked) : none = <<>>
    <2>1. <<>> \in Seq(Asked)
      OBVIOUS
    <2> QED BY <2>1
  <1>11. Answers(TRUE, none, <<>>, none)
    BY NothingAnswers
  <1>12. View(TRUE, NoPage, none) = Nothing
    BY <1>10, NoPageIs DEF Nothing
  <1>13. Shows(TRUE, TRUE, NoPage, none, <<>>, c.out, Silent(c))
    BY <1>5, <1>6, <1>7, <1>11, <1>12 DEF Shows
  <1>14. ShowsInv
    BY <1>2, <1>10, <1>13, NoPageAtFirst DEF ShowsInv, Queue
  <1>15. WiresInv
    <2>1. <<>> \in Seq(ToPage)
      OBVIOUS
    <2>2. <<>> \in Seq(ToSwift)
      OBVIOUS
    <2>3. c.out \in Seq(ToPage)
      BY <1>6, ColumnIs
    <2> QED BY <1>2, <1>10, <2>1, <2>2, <2>3 DEF WiresInv
  <1> QED BY <1>8, <1>9, <1>14, <1>15, NoPageAtFirst DEF Inv

LEMMA Stutters ==
  ASSUME Inv, UNCHANGED vars
  PROVE  Inv'
  <1>1. /\ disk' = disk /\ moved' = moved /\ column' = column /\ monacoReady' = monacoReady
        /\ pendingOps' = pendingOps /\ selectionRequests' = selectionRequests /\ page' = page
        /\ isUp' = isUp /\ toPage' = toPage /\ toSwift' = toSwift /\ events' = events
        /\ hasDied' = hasDied /\ leftGroup' = leftGroup /\ apart' = apart /\ handed' = handed
    BY DEF vars
  <1>2. FilesInv' /\ ColumnInv' /\ PageInv' /\ WiresInv'
    BY <1>1 DEF Inv, FilesInv, ColumnInv, PageInv, WiresInv, Alive
  <1>3. Queue' = Queue /\ Alive' = Alive /\ Fresh' = Fresh
    BY <1>1 DEF Queue, Alive, Fresh
  <1>4. ShowsInv' /\ UnsavedInv' /\ HandedInv'
    BY <1>1, <1>3 DEF Inv, ShowsInv, UnsavedInv, HandedInv
  <1> QED BY <1>2, <1>4 DEF Inv

LEMMA NextInv ==
  ASSUME Inv, [Next]_vars
  PROVE  Inv'
  <1>1. CASE UNCHANGED vars
    BY <1>1, Stutters
  <1>2. CASE UserAsks
    <2>1. ASSUME NEW p \in Files, Open(p) PROVE Inv'
      BY <2>1, OpenStep
    <2>2. ASSUME NEW p \in Paths, ClickTab(p) PROVE Inv'
      BY <2>2, ClickTabStep
    <2>3. ASSUME NEW p \in Paths, Close(p) PROVE Inv'
      BY <2>3, CloseStep
    <2>4. ASSUME NEW m \in Modes, ToggleDiff(m) PROVE Inv'
      BY <2>4, ToggleDiffStep
    <2>5. ASSUME NEW m \in Modes, ShowDiffCollection(m) PROVE Inv'
      BY <2>5, ShowDiffCollectionStep
    <2>6. ASSUME NEW m \in Modes, NEW p \in Files, ShowDiff(p, m) PROVE Inv'
      BY <2>6, ShowDiffStep
    <2>7. CASE SaveAll
      BY <2>7, SaveAllStep
    <2>8. CASE RequestSelection
      BY <2>8, RequestSelectionStep
    <2>9. ASSUME NEW reload \in BOOLEAN, ResolveConflict(reload) PROVE Inv'
      BY <2>9, ResolveConflictStep
    <2> QED BY <1>2, <2>1, <2>2, <2>3, <2>4, <2>5, <2>6, <2>7, <2>8, <2>9 DEF UserAsks
  <1>3. ASSUME NEW t \in Texts, Type(t) PROVE Inv'
    BY <1>3, TypeStep
  <1>4. ASSUME NEW t \in Texts, NEW p \in Files, OthersWrite(p, t) PROVE Inv'
    BY <1>4, OthersWriteStep
  <1>5. CASE RequestSave
    BY <1>5, RequestSaveStep
  <1>6. CASE PageReceives
    BY <1>6, ReceivesStep
  <1>7. CASE DrawFails
    BY <1>7, DrawFailsStep
  <1>8. CASE Redraw
    BY <1>8, RedrawStep
  <1>9. CASE LoadAnswered
    BY <1>9, LoadAnsweredStep
  <1>10. CASE CheckDisk
    BY <1>10, CheckDiskStep
  <1>11. CASE MonacoReady
    BY <1>11, MonacoReadyStep
  <1>12. CASE TakeDirty
    BY <1>12, TakeDirtyStep
  <1>13. CASE HandleSave
    BY <1>13, HandleSaveStep
  <1>14. CASE TakeSelection
    BY <1>14, TakeSelectionStep
  <1>15. CASE PageDies
    BY <1>15, PageDiesStep
  <1>16. CASE PageLoads
    BY <1>16, PageLoadsStep
  <1> QED BY <1>1, <1>2, <1>3, <1>4, <1>5, <1>6, <1>7, <1>8, <1>9, <1>10, <1>11, <1>12,
             <1>13, <1>14, <1>15, <1>16 DEF Next

\* In every reachable state there is a tab of answers and an order of messages that
\* leads from what the page shows to what the column takes it to show, and no text of
\* the page is unsaved unknown to it (the messages of bridge.js and EditorColumn).
THEOREM Invariant == Spec => []Inv
  <1>1. Init => Inv
    BY InitInv
  <1>2. Inv /\ [Next]_vars => Inv'
    BY NextInv
  <1> QED BY <1>1, <1>2, PTL DEF Spec
LEMMA PageTypes ==
  ASSUME Inv
  PROVE  PageType
  <1>1. page \in PageState /\ PageFits(Alive, page)
    BY DEF Inv, PageInv
  <1>2. /\ page.models \in Models /\ page.pendingSaves \in Saves /\ page.currentPath \in DOMAIN page.models \cup {None}
        /\ page.diffMode \in {None, "monaco", "pierre", "pierre-group"}
        /\ DOMAIN page.pendingSaves \subseteq DOMAIN page.models /\ page.redraws \in BOOLEAN
        /\ page.redraws => ShowsDiff(page)
    BY <1>1, PageIs DEF PageFits
  <1>3. /\ DOMAIN page.models \subseteq Files
        /\ \A p \in DOMAIN page.models : page.models[p].value \in Texts /\ page.models[p].cleanValue \in Texts
    BY <1>2 DEF Models, Maps, Entry
  <1>4. \A p \in DOMAIN page.pendingSaves : page.pendingSaves[p].count > 0
    BY <1>2 DEF Saves, Maps, Saving
  <1> QED BY <1>2, <1>3, <1>4 DEF PageType

LEMMA ColumnTypes ==
  ASSUME Inv
  PROVE  ColumnType
  <1>1. column \in ColumnState /\ Tabbed(column) /\ moved \in SUBSET OpenPaths(column)
    BY InvIs
  <1>2. PICK tabs : tabs = column.tabPaths
    OBVIOUS
  <1>3. tabs \in Seq(Paths)
    BY <1>1, <1>2, ColumnIs
  <1>4. ToSet(tabs) \subseteq Paths
    BY <1>3 DEF ToSet
  <1> QED BY <1>1, <1>2, <1>4 DEF Tabbed, ColumnType

\* Once everything was delivered the column and the page agree.
LEMMA QuietAgrees ==
  ASSUME Inv, Quiet
  PROVE  /\ Agrees(Alive, Fresh, View(Fresh, page, <<>>), column)
         /\ page \in PageState /\ PageFits(Alive, page) /\ ~page.redraws
  <1>1. monacoReady /\ toPage = <<>> /\ toSwift = <<>> /\ ~page.redraws
    BY DEF Quiet
  <1>2. Queue = <<>>
    BY <1>1, QueueIs DEF Inv
  <1>3. PICK due \in Seq(Asked), v \in Viewed :
           /\ Answers(Fresh, selectionRequests, toSwift, due)
           /\ Follows(Alive, Fresh, View(Fresh, page, due), Queue, v)
           /\ Agrees(Alive, Fresh, v, column)
    BY DEF Inv, ShowsInv, Shows
  <1>4. PICK run : run[0] = View(Fresh, page, due) /\ run[Len(<<>>)] = v
    BY <1>2, <1>3 DEF Follows
  <1>5. v = View(Fresh, page, due)
    <2>1. Len(<<>>) = 0
      OBVIOUS
    <2> QED BY <1>4, <2>1
  <1>6. v.due = due
    BY <1>5 DEF View, Shown
  <1>7. v.due = <<>>
    BY <1>3 DEF Agrees, Matches
  <1> QED BY <1>1, <1>3, <1>5, <1>6, <1>7 DEF Inv, PageInv

LEMMA QuietTab ==
  ASSUME Inv
  PROVE  SameTab
  <1> SUFFICES ASSUME Quiet, ~hasDied, ~leftGroup
               PROVE  /\ DOMAIN page.models = OpenPaths(column)
                      /\ LET path == column.activePath IN
                           /\ path \in Files \cup {None} => page.currentPath = path /\ page.diffMode # "pierre-group"
                           /\ IsGroup(path) =>
                                /\ page.diffMode = "pierre-group"
                                /\ page.drawn = [path |-> path, loading |-> column.diffGroupTabs[path] = "loading"]
    BY DEF SameTab
  <1>1. PICK v : v = View(Fresh, page, <<>>)
    OBVIOUS
  <1>2. Alive /\ Fresh
    BY DEF Alive, Fresh
  <1>3. Agrees(Alive, Fresh, v, column)
    BY <1>1, QuietAgrees
  <1>4. /\ v.models = DOMAIN page.models /\ v.path = page.currentPath
        /\ v.mode = "group" <=> page.diffMode = "pierre-group"
        /\ page.diffMode = "pierre-group" => v.drawn = page.drawn
    BY <1>1, <1>2 DEF View, Shown, ShowsDiff
  <1>5. v.models = OpenPaths(column)
    BY <1>2, <1>3 DEF Agrees, Matches
  <1>6. CASE IsGroup(column.activePath)
    <2>1. v.mode = "group" /\ v.drawn = [path |-> column.activePath,
                                         loading |-> column.diffGroupTabs[column.activePath] = "loading"]
      BY <1>2, <1>3, <1>6 DEF Agrees
    <2>2. column.activePath \notin Files \cup {None}
      BY <1>6, NamesApart DEF IsGroup
    <2> QED BY <1>4, <1>5, <2>1, <2>2
  <1>7. CASE ~IsGroup(column.activePath)
    <2>1. v.path = column.activePath /\ v.mode # "group"
      BY <1>2, <1>3, <1>7 DEF Agrees
    <2> QED BY <1>4, <1>5, <1>7, <2>1
  <1> QED BY <1>6, <1>7

LEMMA QuietDiff ==
  ASSUME Inv
  PROVE  DiffIsOfItsFile
  <1> SUFFICES ASSUME ShowsDiff(page)
               PROVE  /\ page.currentPath = page.original.path \/ (hasDied /\ page.currentPath = None)
                      /\ page.drawn # NoDiff => page.drawn.path = page.original.path
                      /\ Quiet /\ ~hasDied =>
                           /\ column.diffActivePath = page.currentPath
                           /\ column.diffActiveMode = page.original.mode
                           /\ page.drawn.text = page.models[page.currentPath].value
    BY DEF DiffIsOfItsFile
  <1>1. /\ page.currentPath = page.original.path \/ (~Alive /\ page.currentPath = None)
        /\ page.drawn # NoDiff => page.drawn.path = page.original.path
        /\ page.currentPath # None /\ ~page.redraws => page.drawn = Drawing(page)
    BY DEF Inv, PageInv, PageFits
  <1>2. ASSUME Quiet, ~hasDied
        PROVE  /\ column.diffActivePath = page.currentPath
               /\ column.diffActiveMode = page.original.mode
               /\ page.drawn.text = page.models[page.currentPath].value
    <2>1. PICK v : v = View(Fresh, page, <<>>)
      OBVIOUS
    <2>2. Alive /\ Agrees(Alive, Fresh, v, column) /\ ~page.redraws
      BY <1>2, <2>1, QuietAgrees DEF Alive
    <2>3. v.mode = "file" /\ v.path = page.currentPath /\ v.original = page.original
      BY <2>1 DEF View, Shown
    <2>4. v.path # None /\ column.diffActivePath = v.path /\ column.diffActiveMode = v.original.mode
      BY <2>2, <2>3 DEF Agrees
    <2>5. page.drawn = Drawing(page)
      BY <1>1, <2>2, <2>3, <2>4
    <2> QED BY <2>3, <2>4, <2>5 DEF Drawing
  <1> QED BY <1>1, <1>2 DEF Alive

LEMMA QuietUnsaved ==
  ASSUME Inv
  PROVE  UnsavedIsKnown
  <1> SUFFICES ASSUME Quiet, NEW p \in DOMAIN page.models, IsDirty(page.models[p])
               PROVE  p \in column.dirtyByPath
    BY DEF UnsavedIsKnown
  <1>1. toSwift = <<>> /\ Queue = <<>>
    BY QueueIs DEF Inv, Quiet
  <1>2. ~LastIn(<<>>, DirtyTold(p), DirtyOf(p)) /\ NoneIn(<<>>, Resets(p))
    BY DEF LastIn, NoneIn
  <1> QED BY <1>1, <1>2 DEF Inv, UnsavedInv, Unsaved

\* The two sides' states keep their types: a page shows a file it has and waits for
\* saves of files it has, and a column's active tab, its diff and its conflicts are of
\* its tabs (bridge.js models, EditorColumn tabPaths).
THEOREM TypeCorrect == Spec => []TypeOK
  <1>1. Inv => TypeOK
    BY PageTypes, ColumnTypes DEF Inv, FilesInv, WiresInv, TypeOK
  <1> QED BY <1>1, Invariant, PTL

\* Once everything was delivered the page has the models of the open files and shows
\* what the active tab names (EditorColumn switchTo, close; bridge.js switchToPath).
THEOREM TabsAgree == Spec => []SameTab
  <1>1. Inv => SameTab
    BY QuietTab
  <1> QED BY <1>1, Invariant, PTL

\* A diff on screen is of the file shown, with its own original and the buffer's text
\* (EditorColumn enterDiff, bridge.js renderPierreDiff).
THEOREM DiffsAgree == Spec => []DiffIsOfItsFile
  <1>1. Inv => DiffIsOfItsFile
    BY QuietDiff
  <1> QED BY <1>1, Invariant, PTL

\* No unsaved text of the page is unknown to the column once everything was delivered
\* (bridge.js reportDirtyFor, EditorColumn unsavedPaths).
THEOREM UnsavedKnown == Spec => []UnsavedIsKnown
  <1>1. Inv => UnsavedIsKnown
    BY QuietUnsaved
  <1> QED BY <1>1, Invariant, PTL

\* An agent is handed the selection of the tab that was active when it was asked for,
\* or none (bridge.js reportSelection, EditorColumn requestSelection).
THEOREM HandsActive == Spec => []HandedIsActive
  <1>1. Inv => HandedIsActive
    BY DEF Inv, HandedInv, HandedIsActive, Fresh
  <1> QED BY <1>1, Invariant, PTL
=============================================================================
