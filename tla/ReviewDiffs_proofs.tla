------------------------- MODULE ReviewDiffs_proofs -------------------------
(***************************************************************************)
(* Proofs about ReviewDiffs, for any files, versions and bounds: no diff   *)
(* is drawn as another's lines, a mark of Reviewed is of the lines the     *)
(* user had before them, and every click of Reviewed is answered, after    *)
(* which the page shows the review file's marks.                           *)
(*                                                                         *)
(* Page and column name a file by its place in the snapshot and by the     *)
(* snapshot's generation. The argument is that a generation has one set of *)
(* files wherever it is, on the page, in the column or on its way: what a  *)
(* message says of a generation is then still right when it is taken, or   *)
(* its generation is past and the message is dropped.                      *)
(*                                                                         *)
(* The clicks: what is on its way to the page leads it, message by         *)
(* message, to the review the column has (PageLeads); an answer that waits *)
(* leads the column to the marks the review file has (MarksLead); and for  *)
(* each click the page counts as waiting, something on its way still       *)
(* answers it (ClicksLead).                                                *)
(***************************************************************************)
EXTENDS ReviewDiffs, FiniteSetTheorems, SequenceTheorems, WellFoundedInduction, TLAPS

-----------------------------------------------------------------------------
(* Types                                                                   *)

Version == 0..MaxVersion

\* A snapshot's files, and versions of some files.
Shot == UNION {[paths -> 1..MaxVersion] : paths \in SUBSET Files}
Lines(files) == UNION {[paths -> Version] : paths \in SUBSET files}

Explained == [run : Nat, wrong : BOOLEAN]
Mark == [ver : Version, seen : Version]
Record == [marks : [Files -> Mark], expl : Explained]

\* What a read found; no branch has no files.
Snapshot == {s \in [head : Nat, files : Shot] : s.head = 0 => s.files = Empty}
Read == {r \in [head : Nat, files : Shot, expl : Explained] : r.head = 0 => r.files = Empty}

Page == [gen : Nat, files : Shot, notesVersion : Nat]
States == UNION {[paths -> {"none", "reviewed", "changed"}] : paths \in SUBSET Files}
Review == [gen : Nat, acknowledged : Nat, states : States]

\* What is on its way to the page.
Showing == [type : {"show"}, page : Page, review : Review]
Diff == [type : {"showDiff"}, id : Nat, gen : Nat, path : Files, ver : Version,
         notesVersion : Nat, note : [id : Nat, wrong : BOOLEAN]]
\* A version of the notes, and the one it became.
Versions == {<<>>} \cup (Nat \X Nat)

Other == [type : {"showReview"}, review : Review]
           \cup [type : {"markNote"}, id : Nat, wrong : {"wrong", "right", "kept"}, versions : Versions]
           \cup [type : {"showReload", "hideReload", "showStatus"}]
Message == Showing \cup Diff \cup Other

\* What is on its way to the column.
Load == [type : {"loadFile"}, id : Nat, gen : Nat]
Click == [type : {"reviewed"}, ids : SUBSET Nat, reviewed : BOOLEAN, gen : Nat,
          sequence : Nat, seen : Lines(Files)]
Wish == [type : {"markWrong"}, id : Nat, wrong : BOOLEAN]
          \cup [type : {"selection"}, active : BOOLEAN] \cup [type : {"reload"}]
Request == Load \cup Click \cup Wish

\* What the review file is asked, and what it answers.
Marking == [type : {"reviewed"}, reviewed : BOOLEAN, sequence : Nat,
            marks : UNION {[paths -> Mark] : paths \in SUBSET Files}]
Change == Marking \cup [type : {"markWrong"}, id : Nat, wrong : BOOLEAN, sequence : {0}]
Result == [kind : {"write", "reload"}, state : Record, changes : Seq(Change)]
            \cup [kind : {"open"}, gen : Nat, state : Record, changes : {<<>>}]

ShownTyped ==
    /\ snapshot \in Snapshot /\ snapshotCount \in Nat \ {0}
    /\ status \in BOOLEAN /\ banner \in {"none", "moved", "failed"}
    /\ pending \in Read /\ held \in Read
    /\ readFiles \in Lines(Long) /\ opening \in Nat
    /\ explanation \in Explained /\ explanationVersion \in Nat /\ pageNotesVersion \in Nat
    /\ explanationWaits \in BOOLEAN

ReadTyped ==
    /\ reading \in [reason : {"none", "user", "watcher"}, found : {"no", "read", "failed"},
                    read : Read, newer : BOOLEAN]
    /\ readAfterRead \in BOOLEAN /\ changed \in BOOLEAN
    /\ tree \in [Files -> Version] /\ head \in Nat \ {0}
    /\ patchQueue \in Seq([path : Long, gen : Nat])
    /\ patchResults \in Seq([path : Long, gen : Nat, ver : Version])

WriteTyped ==
    /\ disk \in Record /\ review \in Record
    /\ asked \in Seq(Change)
    /\ reviewQueue \in Seq({"write", "reload"}) /\ reviewResults \in Seq(Result)

PageTyped ==
    /\ page \in Page
    /\ stored \in Review /\ open \subseteq Files
    /\ node \in [Files -> [kind : {"none", "loading", "message", "diff"}, ver : Version,
                           notesVersion : Nat, stale : BOOLEAN]]
    /\ note \in [id : Nat, isWrong : BOOLEAN, settled : BOOLEAN, inFlight : Nat]
    /\ DOMAIN clicks \subseteq Files
    /\ clicks \in [DOMAIN clicks -> [reviewed : BOOLEAN, sequence : Nat]]

ChannelsTyped ==
    /\ toSwift \in Seq(Request) /\ toPage \in Seq(Message)
    /\ isPageReady \in BOOLEAN /\ pageHasSelection \in BOOLEAN

Typed == ShownTyped /\ ReadTyped /\ WriteTyped /\ PageTyped /\ ChannelsTyped

-----------------------------------------------------------------------------
(* The inductive invariant                                                 *)

Elems(s) == {s[i] : i \in DOMAIN s}

\* Somewhere, generation gen has these files.
Has(gen, files) ==
    \/ gen = page.gen /\ files = page.files
    \/ gen = snapshotCount /\ files = snapshot.files
    \/ \E m \in Elems(toPage) : m.type = "show" /\ gen = m.page.gen /\ files = m.page.files

\* A generation has one set of files, and none is to come.
OneShot ==
    /\ \A gen, files : Has(gen, files) => gen \in 0..snapshotCount
    /\ \A gen, files, others : Has(gen, files) /\ Has(gen, others) => files = others
    /\ \A m \in Elems(toPage) : m.type = "show" => m.page.gen # 0

\* A diff is of its generation's lines, unless its file is long.
IsTrue(m) ==
    \A files : Has(m.gen, files) /\ m.path \in DOMAIN files \ Long => m.ver = files[m.path]

DiffsTrue ==
    \A m \in Elems(toPage) : m.type = "showDiff" =>
        m.gen \in 1..snapshotCount /\ IsTrue(m)

\* A row asks for a file of its generation.
Names(m) ==
    \A files : Has(m.gen, files) => \E p \in DOMAIN files : m.id = IdOf(files, p)

\* A click is on files of its generation, and says what they show.
Clicks(m) ==
    \A files : Has(m.gen, files) =>
        /\ DOMAIN m.seen \subseteq DOMAIN files
        /\ m.ids = {IdOf(files, p) : p \in DOMAIN m.seen}
        /\ \A p \in DOMAIN m.seen \ Long : m.seen[p] = files[p]

Right(m) ==
    /\ m.type \in {"loadFile", "reviewed"} => m.gen \in 1..snapshotCount
    /\ m.type = "loadFile" => Names(m)
    /\ m.type = "reviewed" => Clicks(m)

RequestsTrue == \A m \in Elems(toSwift) : Right(m)

\* What the review file has of Reviewed, or is asked to take, is of what was seen.
ChangesTrue ==
    \A c \in Elems(asked) : c.type = "reviewed" =>
        \A p \in DOMAIN c.marks \ Long : c.marks[p].ver = c.marks[p].seen

\* Clicks are numbered as they come, and answered by their numbers.
ClicksNumbered ==
    /\ clickCount \in Nat
    /\ \A p \in DOMAIN clicks : clicks[p].sequence \in 1..clickCount
    /\ \A m \in Elems(toSwift) : m.type = "reviewed" => m.sequence \in 1..clickCount

AnswersNumbered ==
    /\ \A c \in Elems(asked) : c.sequence \in 0..clickCount
    /\ \A r \in Elems(reviewResults) : \A c \in Elems(r.changes) : c.sequence \in 0..clickCount
    /\ waiting \in 0..clickCount /\ acknowledged \in 0..clickCount

\* Claude's note is drawn in a diff of its file.
NoteInDiff == note.id # None => node[Noted].kind = "diff"

Drawn == NeverAnothersLines /\ NoteInDiff

IInv ==
    /\ Typed /\ OneShot /\ DiffsTrue /\ RequestsTrue /\ ChangesTrue
    /\ ClicksNumbered /\ AnswersNumbered /\ Drawn /\ MarksWhatWasSeen
-----------------------------------------------------------------------------
(* Counting, and folds                                                     *)

\* The least number of a set.
LEMMA LeastNumber ==
  ASSUME NEW T \in SUBSET Nat, T # {}
  PROVE  \E n \in T : \A m \in T : n <= m
  <1>1. PICK n \in T : \A m \in T : ~(<<m, n>> \in OpToRel(<, Nat))
    BY NatLessThanWellFounded, WFMin
  <1>2. \A m \in T : ~(m < n)
    BY <1>1 DEF OpToRel
  <1> QED BY <1>2

\* Counting up to n.
LEMMA CountsTo ==
  ASSUME NEW n \in Nat, NEW T, 0 \in T, \A k \in 0..(n - 1) : k \in T => k + 1 \in T
  PROVE  n \in T
  <1> SUFFICES ASSUME n \notin T PROVE FALSE
    OBVIOUS
  <1> DEFINE U == {k \in 0..n : k \notin T}
  <1>1. U \in SUBSET Nat /\ U # {}
    OBVIOUS
  <1>2. PICK k \in U : \A m \in U : k <= m
    <2> HIDE DEF U
    <2> QED BY <1>1, LeastNumber
  <1>3. k \in 1..n /\ k - 1 \notin U
    BY <1>2
  <1>4. k - 1 \in 0..(n - 1) /\ k - 1 \in T
    BY <1>3
  <1>5. (k - 1) + 1 \in T
    BY <1>4
  <1> QED BY <1>2, <1>3, <1>5

LEMMA MaxOf ==
  ASSUME NEW n \in Nat, NEW s \in SUBSET (0..n), s # {}
  PROVE  Max(s) \in s /\ \A k \in s : k <= Max(s)
  <1> DEFINE U == {k \in 0..n : \A i \in s : i <= k}
  <1>1. n \in U
    OBVIOUS
  <1>2. PICK k \in U : \A m \in U : k <= m
    <2>1. U \in SUBSET Nat /\ U # {}
      BY <1>1
    <2> HIDE DEF U
    <2> QED BY <2>1, LeastNumber
  <1>3. k \in s
    <2> SUFFICES ASSUME k \notin s PROVE FALSE
      OBVIOUS
    <2>0. PICK i \in s : i # k
      BY TRUE
    <2>1. k # 0
      <3>1. i \in 0..n /\ k \in 0..n /\ i <= k
        BY <1>2
      <3> QED BY <2>0, <3>1
    <2>2. \A j \in s : j <= k - 1
      BY <1>2, <2>1
    <2>3. k - 1 \in U
      BY <1>2, <2>1, <2>2
    <2> QED BY <1>2, <2>3
  <1>4. \E x \in s : \A y \in s : x >= y
    BY <1>2, <1>3
  <1> QED BY <1>4 DEF Max

\* h is the fold of step over the numbers up to n.

FoldOf(h, n, base, step) ==
    \A s \in SUBSET (1..n) :
       h[s] = IF s = {} THEN base ELSE step[h[s \ {Max(s)}], Max(s)]

LEMMA FoldExists ==
  ASSUME NEW n \in Nat, NEW T, NEW base \in T, NEW step \in [T \X (1..n) -> T]
  PROVE  \E h \in [SUBSET (1..n) -> T] : FoldOf(h, n, base, step)
  <1> DEFINE U == {k \in 0..n : \E h \in [SUBSET (1..k) -> T] : FoldOf(h, k, base, step)}
  <1>1. 0 \in U
    <2> DEFINE h == [s \in SUBSET (1..0) |-> base]
    <2>1. h \in [SUBSET (1..0) -> T]
      OBVIOUS
    <2>2. \A s \in SUBSET (1..0) : s = {}
      OBVIOUS
    <2>3. FoldOf(h, 0, base, step)
      BY <2>2 DEF FoldOf
    <2> QED BY <2>1, <2>3
  <1>2. ASSUME NEW k \in 0..(n - 1), k \in U
        PROVE  k + 1 \in U
    <2>1. PICK h \in [SUBSET (1..k) -> T] : FoldOf(h, k, base, step)
      BY <1>2
    <2> DEFINE g == [s \in SUBSET (1..(k + 1)) |->
                       IF k + 1 \in s THEN step[h[s \ {k + 1}], k + 1] ELSE h[s]]
    <2>2. ASSUME NEW s \in SUBSET (1..(k + 1)), k + 1 \in s
          PROVE  /\ Max(s) = k + 1 /\ s \ {k + 1} \in SUBSET (1..k)
                 /\ g[s] = step[h[s \ {k + 1}], k + 1] /\ g[s] \in T
                 /\ g[s \ {k + 1}] = h[s \ {k + 1}]
      <3>1. s \in SUBSET (0..(k + 1)) /\ k + 1 \in Nat
        OBVIOUS
      <3>2. Max(s) \in s /\ k + 1 <= Max(s)
        BY <2>2, <3>1, MaxOf
      <3>3. s \ {k + 1} \in SUBSET (1..k)
        BY <2>2
      <3>4. <<h[s \ {k + 1}], k + 1>> \in T \X (1..n)
        BY <3>3
      <3>5. k + 1 \notin s \ {k + 1} /\ s \ {k + 1} \in SUBSET (1..(k + 1))
        OBVIOUS
      <3>6. Max(s) = k + 1
        <4>1. PICK x : x = Max(s)
          OBVIOUS
        <4>2. x \in s /\ k + 1 <= x
          BY <4>1, <3>2
        <4>3. x \in 1..(k + 1) /\ k \in Nat
          BY <4>2
        <4> QED BY <4>1, <4>2, <4>3
      <3>7. g[s] = step[h[s \ {k + 1}], k + 1]
        BY <2>2
      <3>8. g[s] \in T
        BY <3>4, <3>7
      <3>9. g[s \ {k + 1}] = h[s \ {k + 1}]
        BY <3>5
      <3> QED BY <3>3, <3>6, <3>7, <3>8, <3>9
    <2>3. ASSUME NEW s \in SUBSET (1..(k + 1)), k + 1 \notin s
          PROVE  /\ s \in SUBSET (1..k) /\ g[s] = h[s] /\ g[s] \in T
                 /\ s # {} => /\ Max(s) \in s /\ s \ {Max(s)} \in SUBSET (1..k)
                              /\ g[s \ {Max(s)}] = h[s \ {Max(s)}]
      <3>1. s \in SUBSET (1..k)
        BY <2>3
      <3>2. g[s] = h[s] /\ g[s] \in T
        BY <2>3, <3>1
      <3>3. ASSUME s # {} PROVE Max(s) \in s
        BY <3>1, <3>3, MaxOf, s \in SUBSET (0..k), k \in Nat
      <3>4. s \ {Max(s)} \in SUBSET (1..k) /\ k + 1 \notin s \ {Max(s)}
        BY <3>1, <2>3
      <3>5. s \ {Max(s)} \in SUBSET (1..(k + 1))
        BY <3>4
      <3>6. g[s \ {Max(s)}] = h[s \ {Max(s)}]
        BY <3>4, <3>5
      <3> QED BY <3>1, <3>2, <3>3, <3>4, <3>6
    <2>4. g \in [SUBSET (1..(k + 1)) -> T]
      BY <2>2, <2>3
    <2>5. FoldOf(g, k + 1, base, step)
      <3> SUFFICES ASSUME NEW s \in SUBSET (1..(k + 1))
                   PROVE  g[s] = IF s = {} THEN base ELSE step[g[s \ {Max(s)}], Max(s)]
        BY DEF FoldOf
      <3> HIDE DEF g
      <3>1. CASE k + 1 \in s
        BY <3>1, <2>2
      <3>2. CASE k + 1 \notin s
        <4>1. s \in SUBSET (1..k) /\ g[s] = h[s]
          BY <3>2, <2>3
        <4>2. h[s] = IF s = {} THEN base ELSE step[h[s \ {Max(s)}], Max(s)]
          BY <2>1, <4>1 DEF FoldOf
        <4> QED BY <4>1, <4>2, <3>2, <2>3
      <3> QED BY <3>1, <3>2
    <2> HIDE DEF g
    <2> QED BY <2>4, <2>5
  <1> HIDE DEF U
  <1>3. n \in U
    BY <1>1, <1>2, CountsTo
  <1> QED BY <1>3 DEF U

\* A fold whose every step stays in T ends in T.
LEMMA FoldStays ==
  ASSUME NEW n \in Nat, NEW T, NEW h,
         h[{}] \in T,
         \A s \in SUBSET (1..n) : s # {} /\ h[s \ {Max(s)}] \in T => h[s] \in T
  PROVE  h[1..n] \in T
  <1> DEFINE U == {k \in 0..n : h[1..k] \in T}
  <1>1. 0 \in U
    <2>1. 1..0 = {}
      OBVIOUS
    <2> QED BY <2>1
  <1>2. ASSUME NEW k \in 0..(n - 1), k \in U PROVE k + 1 \in U
    <2>0. k \in Nat /\ k + 1 \in 0..n
      OBVIOUS
    <2>1. (1..(k + 1)) \in SUBSET (1..n) /\ k + 1 \in 1..(k + 1)
      BY <2>0
    <2>2. Max(1..(k + 1)) = k + 1
      <3>1. Max(1..(k + 1)) \in 1..(k + 1) /\ \A i \in 1..(k + 1) : i <= Max(1..(k + 1))
        BY <2>1, MaxOf, 1..(k + 1) \in SUBSET (0..n)
      <3>2. k + 1 \in 1..(k + 1)
        OBVIOUS
      <3> QED BY <3>1, <3>2
    <2>3. (1..(k + 1)) \ {k + 1} = 1..k
      OBVIOUS
    <2>4. h[1..k] \in T
      BY <1>2
    <2>5. h[1..(k + 1)] \in T
      BY <2>1, <2>2, <2>3, <2>4
    <2> QED BY <2>0, <2>5
  <1> HIDE DEF U
  <1>3. n \in U
    BY <1>1, <1>2, CountsTo
  <1> QED BY <1>3 DEF U

\* The record as the changes leave it.
LEMMA ChangedFold ==
  ASSUME NEW T, NEW base \in T, NEW n \in Nat, NEW cs, DOMAIN cs = 1..n,
         \A d \in T, i \in 1..n : Changed(d, cs[i]) \in T
  PROVE  FoldLeft(Changed, base, cs) \in T
  <1> DEFINE step == [x \in T \X (1..n) |-> Changed(x[1], cs[x[2]])]
  <1>1. step \in [T \X (1..n) -> T]
    OBVIOUS
  <1>2. PICK g \in [SUBSET (1..n) -> T] : FoldOf(g, n, base, step)
    <2> HIDE DEF step
    <2> QED BY <1>1, FoldExists
  <1>3. ASSUME NEW s \in SUBSET (1..n), s # {}
        PROVE  Max(s) \in 1..n
    BY <1>3, MaxOf, s \in SUBSET (0..n)
  <1>4. \A s \in SUBSET (1..n) : g[s] = IF s = {} THEN base ELSE Changed(g[s \ {Max(s)}], cs[Max(s)])
    <2> SUFFICES ASSUME NEW s \in SUBSET (1..n), s # {}
                 PROVE  g[s] = Changed(g[s \ {Max(s)}], cs[Max(s)])
      BY <1>2 DEF FoldOf
    <2>1. g[s] = step[g[s \ {Max(s)}], Max(s)]
      BY <1>2 DEF FoldOf
    <2>2. <<g[s \ {Max(s)}], Max(s)>> \in T \X (1..n)
      BY <1>3
    <2> QED BY <2>1, <2>2
  <1>5. PICK h : h = CHOOSE f : f = [s \in SUBSET (1..n) |->
                        IF s = {} THEN base ELSE Changed(f[s \ {Max(s)}], cs[Max(s)])]
    OBVIOUS
  <1>6. FoldLeft(Changed, base, cs) = h[1..n]
    BY <1>5 DEF FoldLeft, MapThenFoldSet
  <1>7. h = [s \in SUBSET (1..n) |->
                        IF s = {} THEN base ELSE Changed(h[s \ {Max(s)}], cs[Max(s)])]
    <2>1. g = [s \in SUBSET (1..n) |->
                        IF s = {} THEN base ELSE Changed(g[s \ {Max(s)}], cs[Max(s)])]
      BY <1>4
    <2> QED BY <2>1, <1>5
  <1>8. h[{}] \in T
    BY <1>7
  <1>9. \A s \in SUBSET (1..n) : s # {} /\ h[s \ {Max(s)}] \in T => h[s] \in T
    BY <1>7, <1>3
  <1>10. h[1..n] \in T
    <2> HIDE DEF step
    <2> QED BY <1>8, <1>9, FoldStays, Zenon
  <1> QED BY <1>6, <1>10
-----------------------------------------------------------------------------
(* Sequences and their elements                                            *)

LEMMA ElemsAre ==
  ASSUME NEW S, NEW s \in Seq(S)
  PROVE  Elems(s) \subseteq S
  BY DEF Elems

LEMMA ElemsTail ==
  ASSUME NEW S, NEW s \in Seq(S), s # <<>>
  PROVE  /\ Head(s) \in Elems(s) /\ Head(s) \in S
         /\ Tail(s) \in Seq(S) /\ Elems(Tail(s)) \subseteq Elems(s)
  <1>1. Tail(s) \in Seq(S) /\ \A i \in 1..Len(Tail(s)) : Tail(s)[i] = s[i + 1] /\ i + 1 \in 1..Len(s)
    BY HeadTailProperties
  <1>2. DOMAIN s = 1..Len(s) /\ DOMAIN Tail(s) = 1..Len(Tail(s)) /\ 1 \in 1..Len(s)
    BY <1>1, LenProperties, EmptySeq
  <1>3. Head(s) = s[1]
    OBVIOUS
  <1> QED BY <1>1, <1>2, <1>3 DEF Elems

LEMMA ElemsConcat ==
  ASSUME NEW S, NEW s \in Seq(S), NEW t \in Seq(S)
  PROVE  s \o t \in Seq(S) /\ Elems(s \o t) \subseteq Elems(s) \cup Elems(t)
  <1>1. /\ s \o t \in Seq(S) /\ Len(s \o t) = Len(s) + Len(t)
        /\ \A i \in 1..Len(s) + Len(t) : (s \o t)[i] = IF i <= Len(s) THEN s[i] ELSE t[i - Len(s)]
    BY ConcatProperties
  <1>2. DOMAIN s = 1..Len(s) /\ DOMAIN t = 1..Len(t) /\ DOMAIN (s \o t) = 1..Len(s) + Len(t)
    BY <1>1, LenProperties
  <1>3. ASSUME NEW i \in 1..Len(s) + Len(t) PROVE (s \o t)[i] \in Elems(s) \cup Elems(t)
    <2>1. Len(s) \in Nat /\ Len(t) \in Nat
      OBVIOUS
    <2>2. CASE i <= Len(s)
      BY <1>1, <1>2, <2>1, <2>2 DEF Elems
    <2>3. CASE ~(i <= Len(s))
      <3>1. i - Len(s) \in DOMAIN t
        BY <1>2, <2>1, <2>3
      <3> QED BY <1>1, <2>3, <3>1 DEF Elems
    <2> QED BY <2>2, <2>3
  <1> QED BY <1>1, <1>2, <1>3 DEF Elems

LEMMA ElemsAppend ==
  ASSUME NEW S, NEW s \in Seq(S), NEW e \in S
  PROVE  Append(s, e) \in Seq(S) /\ Elems(Append(s, e)) = Elems(s) \cup {e}
  <1>1. /\ Append(s, e) \in Seq(S) /\ Len(Append(s, e)) = Len(s) + 1
        /\ \A i \in 1..Len(s) : Append(s, e)[i] = s[i]
        /\ Append(s, e)[Len(s) + 1] = e
    BY AppendProperties
  <1>2. DOMAIN s = 1..Len(s) /\ DOMAIN Append(s, e) = 1..Len(s) + 1 /\ Len(s) \in Nat
    BY <1>1, LenProperties
  <1> QED BY <1>1, <1>2 DEF Elems

LEMMA ElemsSubSeq ==
  ASSUME NEW S, NEW s \in Seq(S), NEW n \in 0..Len(s)
  PROVE  SubSeq(s, 1, n) \in Seq(S) /\ Elems(SubSeq(s, 1, n)) \subseteq Elems(s)
  <1>1. \A i \in 1..n : s[i] \in S /\ i \in DOMAIN s
    BY LenProperties
  <1>2. /\ SubSeq(s, 1, n) \in Seq(S) /\ \A i \in 1..n : SubSeq(s, 1, n)[i] = s[i]
        /\ Len(SubSeq(s, 1, n)) = n
    BY <1>1, SubSeqProperties
  <1>3. DOMAIN SubSeq(s, 1, n) = 1..n
    BY <1>2, LenProperties
  <1> QED BY <1>1, <1>2, <1>3 DEF Elems

LEMMA OneOf ==
  ASSUME NEW S, NEW e \in S
  PROVE  <<e>> \in Seq(S) /\ Elems(<<e>>) = {e}
  BY DEF Elems

-----------------------------------------------------------------------------
(* A path and its place                                                    *)

LEMMA PlacesFinite ==
  ASSUME NEW paths \in SUBSET Files, NEW p \in paths
  PROVE  /\ IsFiniteSet(paths) /\ Cardinality(paths) \in Nat
         /\ PlaceIn(paths, p) \in 1..Cardinality(paths)
  <1> DEFINE below == {q \in paths : q <= p}
  <1>1. IsFiniteSet(paths)
    BY FilesAssumption, FS_Subset
  <1>2. /\ IsFiniteSet(below) /\ Cardinality(below) <= Cardinality(paths)
        /\ Cardinality(below) \in Nat /\ Cardinality(paths) \in Nat
    BY <1>1, FS_Subset, FS_CardinalityType, below \in SUBSET paths
  <1>3. p \in below
    BY FilesAssumption
  <1>4. Cardinality(below) # 0
    BY <1>2, <1>3, FS_EmptySet
  <1> QED BY <1>1, <1>2, <1>4 DEF PlaceIn

LEMMA PlacesRise ==
  ASSUME NEW paths \in SUBSET Files, NEW p \in paths, NEW q \in paths, p < q
  PROVE  PlaceIn(paths, p) # PlaceIn(paths, q)
  <1> DEFINE below == {r \in paths : r <= p}
             upTo == {r \in paths : r <= q}
  <1>0. \A r \in paths : r \in Nat
    BY FilesAssumption
  <1>1. IsFiniteSet(upTo)
    BY PlacesFinite, FS_Subset, upTo \in SUBSET paths
  <1>2. below \in SUBSET upTo
    BY <1>0
  <1>3. q \in upTo /\ q \notin below
    BY <1>0
  <1>4. Cardinality(below) = Cardinality(upTo) => below = upTo
    BY <1>1, <1>2, FS_Subset
  <1> QED BY <1>3, <1>4 DEF PlaceIn

LEMMA PlacesDiffer ==
  ASSUME NEW paths \in SUBSET Files, NEW p \in paths, NEW q \in paths,
         PlaceIn(paths, p) = PlaceIn(paths, q)
  PROVE  p = q
  <1>1. p \in Nat /\ q \in Nat
    BY FilesAssumption
  <1>2. p < q \/ q < p \/ p = q
    BY <1>1
  <1> QED BY <1>2, PlacesRise

LEMMA PathOfPlace ==
  ASSUME NEW paths \in SUBSET Files, NEW p \in paths
  PROVE  PathAt(paths, PlaceIn(paths, p)) = p
  BY PlacesDiffer DEF PathAt

\* Every place up to the last is a path's.
LEMMA PathAtPlace ==
  ASSUME NEW paths \in SUBSET Files, NEW i \in 1..Cardinality(paths)
  PROVE  PathAt(paths, i) \in paths
  <1> DEFINE n == Cardinality(paths)
             place == [p \in paths |-> PlaceIn(paths, p)]
  <1>1. IsFiniteSet(paths) /\ n \in Nat
    BY FilesAssumption, FS_Subset, FS_CardinalityType
  <1>2. IsFiniteSet(1..n) /\ Cardinality(1..n) = n
    BY <1>1, FS_Interval
  <1>3. place \in Injection(paths, 1..n)
    BY PlacesFinite, PlacesDiffer DEF Injection, IsInjective
  <1>4. place \in Surjection(paths, 1..n)
    <2> HIDE DEF place
    <2> QED BY <1>2, <1>3, FS_Injection
  <1>5. PICK p \in paths : PlaceIn(paths, p) = i
    BY <1>4 DEF Surjection
  <1> QED BY <1>5, PathOfPlace
-----------------------------------------------------------------------------
(* What is made has its type                                               *)

LEMMA ShotIs ==
  ASSUME NEW paths \in SUBSET Files, NEW f \in [paths -> 1..MaxVersion]
  PROVE  f \in Shot
  BY DEF Shot

LEMMA IsShot ==
  ASSUME NEW f \in Shot
  PROVE  /\ DOMAIN f \in SUBSET Files /\ f \in [DOMAIN f -> 1..MaxVersion]
         /\ \A p \in DOMAIN f : f[p] \in Version /\ f[p] # None
  BY FilesAssumption DEF Shot, Version, None

LEMMA IsLines ==
  ASSUME NEW among, NEW f \in Lines(among)
  PROVE  DOMAIN f \in SUBSET among /\ f \in [DOMAIN f -> Version]
  BY DEF Lines

LEMMA EmptyTyped ==
  /\ Empty \in Shot /\ Empty \in Lines(Long) /\ Empty \in Lines(Files)
  /\ DOMAIN Empty = {} /\ NoRead \in Read
  <1>1. Empty \in [{} -> 1..MaxVersion] /\ Empty \in [{} -> Version] /\ DOMAIN Empty = {}
    BY DEF Empty
  <1>2. Empty \in Shot /\ Empty \in Lines(Long) /\ Empty \in Lines(Files)
    BY <1>1 DEF Shot, Lines
  <1> QED BY <1>1, <1>2 DEF NoRead, Read, Explained, None

LEMMA PresentTyped ==
  ASSUME NEW t \in [Files -> Version]
  PROVE  Present(t) \in Shot
  <1> DEFINE paths == {q \in Files : t[q] # None}
  <1>1. \A p \in paths : t[p] \in 1..MaxVersion
    BY FilesAssumption DEF Version, None
  <1>2. Present(t) \in [paths -> 1..MaxVersion]
    BY <1>1 DEF Present
  <1> QED BY <1>2, ShotIs

\* What is of the generation count, whose files these are.
Sent(count, files) ==
    {m \in Message :
       /\ m.type = "show" => m.page.gen = count /\ m.page.files = files
       /\ m.type = "showDiff" => /\ m.gen = count
                                 /\ m.path \in DOMAIN files \ Long => m.ver = files[m.path]}

LEMMA MessageIs ==
  ASSUME NEW m \in Message
  PROVE  /\ m.type = "show" => m \in Showing
         /\ m.type = "showDiff" => m \in Diff
         /\ m.type = "showReview" => m.review \in Review
         /\ m.type = "markNote" => /\ m.id \in Nat /\ m.wrong \in {"wrong", "right", "kept"}
                                   /\ m.versions \in Versions
         /\ m.type \in {"show", "showDiff", "showReview", "markNote", "showReload", "hideReload", "showStatus"}
  BY DEF Message, Showing, Diff, Other

LEMMA ShowingIs ==
  ASSUME NEW m \in Showing
  PROVE  /\ m.type = "show" /\ m.page \in Page /\ m.review \in Review
         /\ m.page.gen \in Nat /\ m.page.files \in Shot /\ m.page.notesVersion \in Nat
  BY DEF Showing, Page

LEMMA DiffIs ==
  ASSUME NEW m \in Diff
  PROVE  /\ m.type = "showDiff" /\ m.id \in Nat /\ m.gen \in Nat /\ m.path \in Files
         /\ m.ver \in Version /\ m.notesVersion \in Nat /\ m.note.id \in Nat /\ m.note.wrong \in BOOLEAN
  BY DEF Diff

LEMMA PageReviewTyped ==
  ASSUME NEW files \in Shot, NEW read \in Lines(Files), NEW gen \in Nat,
         NEW marks \in [Files -> Mark], NEW ack \in Nat
  PROVE  PageReview(files, read, gen, marks, ack) \in Review
  <1> DEFINE states == [p \in DOMAIN files |-> ReviewedState(marks[p].ver, PatchHash(files, read, p))]
  <1>1. states \in [DOMAIN files -> {"none", "reviewed", "changed"}]
    BY DEF ReviewedState
  <1>2. states \in States
    BY <1>1, IsShot DEF States
  <1> HIDE DEF states
  <1>3. [gen |-> gen, acknowledged |-> ack, states |-> states] \in Review
    BY <1>2 DEF Review
  <1> QED BY <1>3 DEF PageReview, states

LEMMA ShowPageSent ==
  ASSUME NEW files \in Shot, NEW read \in Lines(Files), NEW gen \in Nat, NEW version \in Nat,
         NEW marks \in [Files -> Mark], acknowledged \in Nat
  PROVE  ShowPage(files, read, gen, version, marks) \in Sent(gen, files)
  <1>1. PICK shown : shown = PageReview(files, read, gen, marks, acknowledged)
    OBVIOUS
  <1>2. shown \in Review
    BY <1>1, PageReviewTyped
  <1>3. ShowPage(files, read, gen, version, marks) =
          [type |-> "show", page |-> [gen |-> gen, files |-> files, notesVersion |-> version], review |-> shown]
    BY <1>1 DEF ShowPage
  <1>4. ShowPage(files, read, gen, version, marks) \in Showing
    BY <1>2, <1>3 DEF Showing, Page
  <1> QED BY <1>3, <1>4 DEF Sent, Message

LEMMA ReviewSent ==
  ASSUME snapshot \in Snapshot, snapshotCount \in Nat, NEW read \in Lines(Files),
         NEW marks \in [Files -> Mark], NEW ack \in Nat, NEW count, NEW files
  PROVE  ReviewMessage(read, marks, ack) \in Seq(Sent(count, files))
  <1>1. PICK shown : shown = PageReview(snapshot.files, read, snapshotCount, marks, ack)
    OBVIOUS
  <1>2. shown \in Review
    BY <1>1, PageReviewTyped DEF Snapshot
  <1>3. [type |-> "showReview", review |-> shown] \in Sent(count, files)
    BY <1>2 DEF Sent, Message, Other
  <1>4. ReviewMessage(read, marks, ack) \in {<<>>, <<[type |-> "showReview", review |-> shown]>>}
    BY <1>1 DEF ReviewMessage
  <1> QED BY <1>3, <1>4, OneOf, EmptySeq

LEMMA DiffSent ==
  ASSUME snapshot \in Snapshot, snapshotCount \in Nat, explanation \in Explained, explanationVersion \in Nat,
         NEW p \in Files, NEW ver \in Version,
         p \in DOMAIN snapshot.files \ Long => ver = snapshot.files[p]
  PROVE  DiffMessage(p, ver) \in Sent(snapshotCount, snapshot.files)
  <1>1. PICK id : id = IdOf(snapshot.files, p)
    OBVIOUS
  <1>2. id \in Nat
    <2>1. snapshot.files \in Shot
      BY DEF Snapshot
    <2>2. DOMAIN snapshot.files \in SUBSET Files
      BY <2>1, IsShot
    <2>3. {q \in DOMAIN snapshot.files : q <= p} \in SUBSET Files
      BY <2>2
    <2>4. Cardinality({q \in DOMAIN snapshot.files : q <= p}) \in Nat
      BY <2>3, FilesAssumption, FS_Subset, FS_CardinalityType
    <2> QED BY <1>1, <2>4 DEF IdOf, PlaceIn
  <1>3. DiffMessage(p, ver) =
          [type |-> "showDiff", id |-> id, gen |-> snapshotCount, path |-> p, ver |-> ver,
           notesVersion |-> explanationVersion, note |-> [id |-> explanation.run, wrong |-> explanation.wrong]]
    BY <1>1 DEF DiffMessage
  <1>4. DiffMessage(p, ver) \in Diff
    BY <1>2, <1>3 DEF Diff, Explained
  <1> QED BY <1>3, <1>4 DEF Sent, Message

LEMMA PlainSent ==
  ASSUME NEW count, NEW files, NEW type \in {"showReload", "hideReload", "showStatus"}
  PROVE  [type |-> type] \in Sent(count, files) /\ <<[type |-> type]>> \in Seq(Sent(count, files))
  <1>1. [type |-> type] \in Sent(count, files)
    BY DEF Sent, Message, Other
  <1> QED BY <1>1, OneOf

LEMMA NoteAnswerSent ==
  ASSUME NEW id \in Nat, NEW wrong \in {"wrong", "right", "kept"}, NEW versions \in Versions,
         NEW count, NEW files
  PROVE  NoteAnswer(id, wrong, versions) \in Sent(count, files)
  BY DEF NoteAnswer, Sent, Message, Other

LEMMA CurrentSent ==
  ASSUME snapshot \in Snapshot, snapshotCount \in Nat, readFiles \in Lines(Long), acknowledged \in Nat,
         NEW version \in Nat, NEW marks \in [Files -> Mark]
  PROVE  Current(version, marks) \in Seq(Sent(snapshotCount, snapshot.files))
  <1>1. readFiles \in Lines(Files)
    BY FilesAssumption DEF Lines
  <1>2. <<ShowPage(snapshot.files, readFiles, snapshotCount, version, marks)>> \in Seq(Sent(snapshotCount, snapshot.files))
    BY <1>1, ShowPageSent, OneOf DEF Snapshot
  <1>3. (IF banner = "none" THEN <<>> ELSE <<[type |-> "showReload"]>>) \in Seq(Sent(snapshotCount, snapshot.files))
    BY PlainSent, EmptySeq
  <1>4. <<[type |-> "showStatus"]>> \in Seq(Sent(snapshotCount, snapshot.files))
    BY PlainSent
  <1> QED BY <1>2, <1>3, <1>4, ElemsConcat DEF Current

-----------------------------------------------------------------------------
(* Generations: a step keeps what was said of one                          *)

Turns ==
    \/ snapshotCount' = snapshotCount /\ snapshot'.files = snapshot.files
    \/ snapshotCount' = snapshotCount + 1

SentNow ==
    /\ toPage' \in Seq(Message)
    /\ \A m \in Elems(toPage') : m \in Elems(toPage) \/ m \in Sent(snapshotCount', snapshot'.files)

\* Of a generation there was, the files are as they were.
Past == \A gen \in 1..snapshotCount : \A files : Has(gen, files)' => Has(gen, files)

LEMMA GenerationsKept ==
  ASSUME snapshotCount \in Nat \ {0}, OneShot, DiffsTrue,
         Turns, SentNow, Has(page'.gen, page'.files)
  PROVE  OneShot' /\ DiffsTrue' /\ Past /\ snapshotCount' \in Nat \ {0} /\ snapshotCount <= snapshotCount'
  <1>0. snapshotCount' \in Nat \ {0} /\ snapshotCount <= snapshotCount'
    BY DEF Turns
  <1>1. ASSUME NEW gen, NEW files, Has(gen, files)'
        PROVE  \/ Has(gen, files)
               \/ snapshotCount' = snapshotCount + 1 /\ gen = snapshotCount + 1 /\ files = snapshot'.files
    <2>1. CASE gen = page'.gen /\ files = page'.files
      BY <2>1
    <2>2. CASE gen = snapshotCount' /\ files = snapshot'.files
      BY <2>2 DEF Turns, Has
    <2>3. ASSUME NEW m \in Elems(toPage'), m.type = "show", gen = m.page.gen, files = m.page.files
          PROVE  \/ Has(gen, files)
                 \/ gen = snapshotCount' /\ files = snapshot'.files
      BY <2>3 DEF SentNow, Has, Sent
    <2> QED BY <1>1, <2>1, <2>2, <2>3 DEF Has, Turns
  <1>2. Past
    BY <1>1 DEF Past
  <1>3. OneShot'
    <2>1. ASSUME NEW gen, NEW files, Has(gen, files)' PROVE gen \in 0..snapshotCount'
      <3>1. CASE Has(gen, files)
        BY <1>0, <3>1 DEF OneShot
      <3> QED BY <1>0, <1>1, <2>1, <3>1
    <2>2. ASSUME NEW gen, NEW files, NEW others, Has(gen, files)', Has(gen, others)'
          PROVE  files = others
      BY <1>1, <2>2 DEF OneShot
    <2>3. ASSUME NEW m \in Elems(toPage'), m.type = "show" PROVE m.page.gen # 0
      BY <1>0, <2>3 DEF SentNow, OneShot, Sent
    <2> QED BY <2>1, <2>2, <2>3 DEF OneShot
  <1>4. ASSUME NEW m \in Elems(toPage'), m.type = "showDiff"
        PROVE  m.gen \in 1..snapshotCount' /\ IsTrue(m)'
    <2>1. CASE m \in Elems(toPage)
      <3>1. m.gen \in 1..snapshotCount /\ IsTrue(m)
        BY <1>4, <2>1 DEF DiffsTrue
      <3>2. IsTrue(m)'
        BY <1>2, <3>1 DEF IsTrue, Past
      <3> QED BY <1>0, <3>1, <3>2
    <2>2. CASE m \in Sent(snapshotCount', snapshot'.files)
      <3>1. /\ m.gen = snapshotCount'
            /\ m.path \in DOMAIN snapshot'.files \ Long => m.ver = (snapshot'.files)[m.path]
        BY <1>4, <2>2 DEF Sent
      <3>2. ASSUME NEW files, Has(m.gen, files)' PROVE files = snapshot'.files
        BY <1>3, <3>1, <3>2 DEF OneShot, Has
      <3> QED BY <1>0, <3>1, <3>2 DEF IsTrue
    <2> QED BY <2>1, <2>2 DEF SentNow
  <1> QED BY <1>0, <1>2, <1>3, <1>4 DEF DiffsTrue

LEMMA RightKept ==
  ASSUME snapshotCount \in Nat \ {0}, snapshotCount' \in Nat, snapshotCount <= snapshotCount',
         Past, NEW m, Right(m)
  PROVE  Right(m)'
  <1>1. ASSUME m.type \in {"loadFile", "reviewed"}
        PROVE  m.gen \in 1..snapshotCount /\ m.gen \in 1..snapshotCount'
    BY <1>1 DEF Right
  <1>2. ASSUME m.type = "loadFile" PROVE Names(m)'
    BY <1>1, <1>2 DEF Right, Past, Names
  <1>3. ASSUME m.type = "reviewed" PROVE Clicks(m)'
    BY <1>1, <1>3 DEF Right, Past, Clicks
  <1> QED BY <1>1, <1>2, <1>3 DEF Right

-----------------------------------------------------------------------------
(* A step of the page, and a step of the column                            *)

LEMMA PageStep ==
  ASSUME IInv, UNCHANGED <<worktreeVars, disk, columnVars, isPageReady>>,
         SentNow, Has(page'.gen, page'.files),
         PageTyped', Drawn', clickCount' \in Nat, clickCount <= clickCount',
         \A p \in DOMAIN clicks' : (clicks'[p]).sequence \in 1..clickCount',
         toSwift' \in Seq(Request),
         \A m \in Elems(toSwift') :
            \/ m \in Elems(toSwift)
            \/ Right(m) /\ (m.type = "reviewed" => m.sequence \in 1..clickCount')
  PROVE  IInv'
  <1> USE DEF columnVars, shownVars, readVars, writeVars, worktreeVars
  <1>0. Typed /\ snapshotCount \in Nat \ {0} /\ Turns
    BY DEF IInv, Typed, ShownTyped, Turns
  <1>1. OneShot' /\ DiffsTrue' /\ Past
    BY <1>0, GenerationsKept DEF IInv
  <1>2. RequestsTrue'
    BY <1>0, <1>1, RightKept DEF IInv, RequestsTrue
  <1>3. ClicksNumbered'
    BY DEF IInv, ClicksNumbered
  <1>4. AnswersNumbered'
    BY DEF IInv, ClicksNumbered, AnswersNumbered
  <1>5. ShownTyped' /\ ReadTyped' /\ WriteTyped'
    BY <1>0 DEF Typed, ShownTyped, ReadTyped, WriteTyped
  <1>6. ChannelsTyped'
    BY <1>0 DEF Typed, ChannelsTyped, SentNow
  <1>7. ChangesTrue' /\ MarksWhatWasSeen'
    BY DEF IInv, ChangesTrue, MarksWhatWasSeen
  <1> QED BY <1>1, <1>2, <1>3, <1>4, <1>5, <1>6, <1>7 DEF IInv, Typed

LEMMA ColumnStep ==
  ASSUME IInv, UNCHANGED pageVars, Turns, SentNow,
         ShownTyped', ReadTyped', WriteTyped', pageHasSelection' \in BOOLEAN, isPageReady' \in BOOLEAN,
         toSwift' \in Seq(Request), Elems(toSwift') \subseteq Elems(toSwift),
         ChangesTrue', AnswersNumbered', MarksWhatWasSeen'
  PROVE  IInv'
  <1> USE DEF pageVars
  <1>0. Typed /\ snapshotCount \in Nat \ {0} /\ Has(page'.gen, page'.files)
    BY DEF IInv, Typed, ShownTyped, Has
  <1>1. OneShot' /\ DiffsTrue' /\ Past /\ snapshotCount' \in Nat /\ snapshotCount <= snapshotCount'
    BY <1>0, GenerationsKept DEF IInv
  <1>2. RequestsTrue'
    BY <1>0, <1>1, RightKept DEF IInv, RequestsTrue
  <1>3. ClicksNumbered'
    BY DEF IInv, ClicksNumbered
  <1>4. PageTyped'
    BY <1>0 DEF Typed, PageTyped
  <1>5. Drawn'
    BY DEF IInv, Drawn, NeverAnothersLines, NoteInDiff
  <1>6. ChannelsTyped'
    BY <1>0 DEF Typed, ChannelsTyped, SentNow
  <1> QED BY <1>1, <1>2, <1>3, <1>4, <1>5, <1>6 DEF IInv, Typed

-----------------------------------------------------------------------------
(* What the page does                                                      *)

LEMMA PageStays ==
  ASSUME IInv, UNCHANGED <<page, toPage>>
  PROVE  SentNow /\ Has(page'.gen, page'.files)
  BY DEF IInv, Typed, ChannelsTyped, SentNow, Has

\* The user acts on the page: what it asks is appended.
LEMMA UserStep ==
  ASSUME IInv, UNCHANGED <<worktreeVars, disk, columnVars, isPageReady, page, toPage>>,
         PageTyped', Drawn', clickCount' \in Nat, clickCount <= clickCount',
         \A p \in DOMAIN clicks' : (clicks'[p]).sequence \in 1..clickCount',
         NEW m \in Request, Right(m), m.type = "reviewed" => m.sequence \in 1..clickCount',
         toSwift' = toSwift \/ toSwift' = Append(toSwift, m)
  PROVE  IInv'
  <1>1. toSwift \in Seq(Request)
    BY DEF IInv, Typed, ChannelsTyped
  <1>2. Append(toSwift, m) \in Seq(Request) /\ Elems(Append(toSwift, m)) = Elems(toSwift) \cup {m}
    BY <1>1, ElemsAppend
  <1>3. toSwift' \in Seq(Request) /\ \A r \in Elems(toSwift') : r \in Elems(toSwift) \/ r = m
    <2>1. CASE toSwift' = toSwift
      BY <1>1, <2>1
    <2>2. CASE toSwift' = Append(toSwift, m)
      BY <1>2, <2>2
    <2> QED BY <2>1, <2>2
  <1> QED BY <1>3, PageStays, PageStep

LEMMA RequestIs ==
  ASSUME NEW m \in Request
  PROVE  /\ m.type = "loadFile" => m \in Load
         /\ m.type = "reviewed" => m \in Click
         /\ m.type = "markWrong" => m.id \in Nat /\ m.wrong \in BOOLEAN
         /\ m.type = "selection" => m.active \in BOOLEAN
  BY DEF Request, Load, Click, Wish

LEMMA LoadRight ==
  ASSUME OneShot, snapshotCount \in Nat, NEW pg \in Page, Has(pg.gen, pg.files), pg.gen # 0,
         NEW p \in DOMAIN pg.files
  PROVE  /\ LoadFile(p, pg) \in Request /\ Right(LoadFile(p, pg))
         /\ LoadFile(p, pg).type = "loadFile"
  <1>1. PICK id : id = IdOf(pg.files, p)
    OBVIOUS
  <1>2. pg.files \in Shot /\ pg.gen \in 1..snapshotCount /\ pg.gen \in Nat
    BY DEF Page, OneShot
  <1>3. id \in Nat
    <2>1. DOMAIN pg.files \in SUBSET Files
      BY <1>2, IsShot
    <2> QED BY <1>1, <2>1, PlacesFinite DEF IdOf
  <1>4. PICK m : m = LoadFile(p, pg)
    OBVIOUS
  <1>5. m = [type |-> "loadFile", id |-> id, gen |-> pg.gen]
    BY <1>1, <1>4 DEF LoadFile
  <1>6. m \in Request
    BY <1>2, <1>3, <1>5 DEF Request, Load
  <1>7. Names(m)
    BY <1>1, <1>5 DEF Names, OneShot
  <1> QED BY <1>2, <1>4, <1>5, <1>6, <1>7 DEF Right

\* The page shown is of a generation there was.
LEMMA ShownPage ==
  ASSUME IInv, Shows
  PROVE  /\ page \in Page /\ page.gen \in 1..snapshotCount /\ Has(page.gen, page.files)
         /\ page.files \in Shot /\ DOMAIN page.files \in SUBSET Files /\ snapshotCount \in Nat
         /\ OneShot /\ page.gen # 0
  <1>1. page \in Page /\ page.gen # 0 /\ snapshotCount \in Nat /\ OneShot
    BY DEF IInv, Typed, ShownTyped, PageTyped, Shows
  <1>2. Has(page.gen, page.files)
    BY DEF Has
  <1>3. page.gen \in 1..snapshotCount
    BY <1>1, <1>2 DEF OneShot
  <1>4. page.files \in Shot
    BY <1>1 DEF Page
  <1> QED BY <1>1, <1>2, <1>3, <1>4, IsShot

\* A wish of the user's is right whatever the page shows.
LEMMA WishRight ==
  ASSUME NEW m \in Wish
  PROVE  m \in Request /\ Right(m) /\ m.type # "reviewed"
  BY DEF Wish, Request, Right

LEMMA ReloadingTyped == [type |-> "reload"] \in Wish
  BY DEF Wish

NodeType == [kind : {"none", "loading", "message", "diff"}, ver : Version, notesVersion : Nat, stale : BOOLEAN]

LEMMA NodesTyped == NoNode \in NodeType /\ Loading \in NodeType /\ Loading.kind = "loading" /\ NoNode.kind = "none"
  <1>1. NoNode = [kind |-> "none", ver |-> 0, notesVersion |-> 0, stale |-> FALSE]
    BY DEF NoNode, None
  <1>2. 0 \in Version
    BY FilesAssumption DEF Version
  <1>3. NoNode \in NodeType
    BY <1>1, <1>2 DEF NodeType
  <1>4. Loading \in NodeType /\ Loading.kind = "loading"
    BY <1>3 DEF Loading, NodeType
  <1> QED BY <1>1, <1>3, <1>4

LEMMA ToggleFileKeeps ==
  ASSUME IInv, NEW p \in Files, ToggleFile(p)
  PROVE  IInv'
  <1>1. Shows /\ p \in DOMAIN page.files
    BY DEF ToggleFile
  <1>2. page \in Page /\ Has(page.gen, page.files) /\ OneShot /\ snapshotCount \in Nat /\ page.gen # 0
    BY <1>1, ShownPage
  <1>3. PICK m : m = LoadFile(p, page)
    OBVIOUS
  <1>4. m \in Request /\ Right(m) /\ m.type = "loadFile"
    BY <1>1, <1>2, <1>3, LoadRight
  <1>5. toSwift' = toSwift \/ toSwift' = Append(toSwift, m)
    BY <1>3 DEF ToggleFile
  <1>6. \/ node' = node
        \/ node[p].kind = "none" /\ node' = [node EXCEPT ![p] = Loading]
    <2>1. CASE p \in open
      BY <2>1 DEF ToggleFile
    <2>2. CASE p \notin open
      BY <2>2 DEF ToggleFile
    <2> QED BY <2>1, <2>2
  <1>7. PageTyped'
    <2>1. node \in [Files -> NodeType]
      BY DEF IInv, Typed, PageTyped, NodeType
    <2>2. node' \in [Files -> NodeType]
      BY <1>6, <2>1, NodesTyped
    <2>3. open' \subseteq Files
      BY DEF IInv, Typed, PageTyped, ToggleFile
    <2> QED BY <2>2, <2>3 DEF IInv, Typed, PageTyped, NodeType, ToggleFile
  <1>8. Drawn'
    <2>0. node \in [Files -> NodeType]
      BY DEF IInv, Typed, PageTyped, NodeType
    <2>1. ASSUME NEW q \in Files
          PROVE  \/ node'[q] = node[q]
                 \/ node[q].kind = "none" /\ node'[q] = Loading
      BY <1>6, <2>0
    <2>2. NeverAnothersLines'
      <3>1. DOMAIN page.files \in SUBSET Files
        BY <1>1, ShownPage
      <3> QED BY <2>1, <3>1, NodesTyped DEF IInv, Drawn, NeverAnothersLines, ToggleFile
    <2>3. NoteInDiff'
      BY <2>1, FilesAssumption, NodesTyped DEF IInv, Drawn, NoteInDiff, ToggleFile
    <2> QED BY <2>2, <2>3 DEF Drawn
  <1>9. clickCount' = clickCount /\ clicks' = clicks /\ clickCount \in Nat
    BY DEF ToggleFile, IInv, ClicksNumbered
  <1>10. UNCHANGED <<worktreeVars, disk, columnVars, isPageReady, page, toPage>>
    BY DEF ToggleFile
  <1> QED BY <1>4, <1>5, <1>7, <1>8, <1>9, <1>10, UserStep DEF IInv, ClicksNumbered

LEMMA WishKeeps ==
  ASSUME IInv, NEW m \in Wish, toSwift' = Append(toSwift, m),
         UNCHANGED <<worktreeVars, disk, columnVars, isPageReady, page, toPage>>,
         UNCHANGED <<stored, open, node, clicks, clickCount>>,
         note' \in [id : Nat, isWrong : BOOLEAN, settled : BOOLEAN, inFlight : Nat], note'.id = note.id
  PROVE  IInv'
  <1>1. PageTyped' /\ Drawn'
    BY DEF IInv, Typed, PageTyped, Drawn, NeverAnothersLines, NoteInDiff
  <1>2. clickCount \in Nat /\ \A p \in DOMAIN clicks : clicks[p].sequence \in 1..clickCount
    BY DEF IInv, ClicksNumbered
  <1> QED BY <1>1, <1>2, WishRight, UserStep

LEMMA MarkWrongKeeps ==
  ASSUME IInv, MarkWrong
  PROVE  IInv'
  <1> DEFINE m == [type |-> "markWrong", id |-> note.id, wrong |-> ~note.isWrong]
  <1>1. note \in [id : Nat, isWrong : BOOLEAN, settled : BOOLEAN, inFlight : Nat]
    BY DEF IInv, Typed, PageTyped
  <1>2. m \in Wish
    BY <1>1 DEF Wish
  <1>3. /\ note' \in [id : Nat, isWrong : BOOLEAN, settled : BOOLEAN, inFlight : Nat]
        /\ note'.id = note.id
    <2>1. note' = [note EXCEPT !.isWrong = ~@, !.inFlight = @ + 1]
      BY DEF MarkWrong
    <2>2. (~note.isWrong) \in BOOLEAN /\ note.inFlight + 1 \in Nat
      BY <1>1
    <2> QED BY <1>1, <2>1, <2>2
  <1>4. toSwift' = Append(toSwift, m)
    BY DEF MarkWrong
  <1> HIDE DEF m
  <1> QED BY <1>2, <1>3, <1>4, WishKeeps DEF MarkWrong

LEMMA HoldsKeeps ==
  ASSUME IInv, NEW active \in BOOLEAN, Holds(active)
  PROVE  IInv'
  <1>1. [type |-> "selection", active |-> active] \in Wish
    BY DEF Wish
  <1>2. note' = note /\ note \in [id : Nat, isWrong : BOOLEAN, settled : BOOLEAN, inFlight : Nat]
    BY DEF IInv, Typed, PageTyped, Holds
  <1> QED BY <1>1, <1>2, WishKeeps DEF Holds

LEMMA ReloadKeeps ==
  ASSUME IInv, Reload
  PROVE  IInv'
  <1>1. note' = note /\ note \in [id : Nat, isWrong : BOOLEAN, settled : BOOLEAN, inFlight : Nat]
    BY DEF IInv, Typed, PageTyped, Reload, pageVars
  <1> QED BY <1>1, ReloadingTyped, WishKeeps DEF Reload, pageVars

LEMMA SeenIs ==
  ASSUME IInv, Shows, NEW p \in DOMAIN page.files
  PROVE  Seen(p) \in Version /\ (p \notin Long => Seen(p) = page.files[p])
  <1>1. page.files \in Shot /\ p \in Files
    BY ShownPage
  <1>2. page.files[p] \in Version
    BY <1>1, IsShot
  <1>3. node[p].ver \in Version
    BY <1>1 DEF IInv, Typed, PageTyped
  <1>4. None \in Version
    BY FilesAssumption DEF Version, None
  <1> QED BY <1>2, <1>3, <1>4 DEF Seen

LEMMA SetReviewedKeeps ==
  ASSUME IInv, Shows, NEW paths \in SUBSET (DOMAIN page.files), NEW reviewed \in BOOLEAN,
         SetReviewed(paths, reviewed)
  PROVE  IInv'
  <1>1. /\ page.gen \in 1..snapshotCount /\ page.gen \in Nat /\ Has(page.gen, page.files)
        /\ OneShot /\ paths \in SUBSET Files /\ DOMAIN page.files \in SUBSET Files
    BY ShownPage
  <1>2. PICK ids : ids = {IdOf(page.files, p) : p \in paths}
    OBVIOUS
  <1>3. ids \in SUBSET Nat
    <2>1. ASSUME NEW p \in paths PROVE PlaceIn(DOMAIN page.files, p) \in Nat
      <3>1. p \in DOMAIN page.files
        OBVIOUS
      <3> QED BY <1>1, <3>1, PlacesFinite
    <2> QED BY <1>2, <2>1 DEF IdOf
  <1>4. PICK seen : seen = [p \in paths |-> Seen(p)]
    OBVIOUS
  <1>5. seen \in [paths -> Version] /\ DOMAIN seen = paths
    BY <1>4, SeenIs
  <1>6. \A p \in DOMAIN seen \ Long : seen[p] = page.files[p]
    BY <1>4, <1>5, SeenIs
  <1>7. clickCount \in Nat
    BY DEF IInv, ClicksNumbered
  <1>8. PICK m : m = [type |-> "reviewed", ids |-> ids, reviewed |-> reviewed, gen |-> page.gen,
                      sequence |-> clickCount + 1, seen |-> seen]
    OBVIOUS
  <1>9. m \in Request
    <2>1. seen \in Lines(Files)
      BY <1>1, <1>5 DEF Lines
    <2> QED BY <1>1, <1>3, <1>7, <1>8, <2>1 DEF Request, Click
  <1>10. Right(m)
    <2>1. \A files : Has(page.gen, files) => files = page.files
      BY <1>1 DEF OneShot
    <2>2. Clicks(m)
      BY <1>2, <1>5, <1>6, <1>8, <2>1 DEF Clicks
    <2> QED BY <1>1, <1>8, <2>2 DEF Right
  <1>11. toSwift' = Append(toSwift, m)
    BY <1>2, <1>4, <1>8 DEF SetReviewed
  <1>12. clickCount' = clickCount + 1
    BY DEF SetReviewed
  <1>13. /\ DOMAIN clicks' = DOMAIN clicks \cup paths
         /\ \A p \in DOMAIN clicks' : clicks'[p] = IF p \in paths THEN [reviewed |-> reviewed, sequence |-> clickCount + 1]
                                                   ELSE clicks[p]
         /\ clicks' = [p \in DOMAIN clicks \cup paths |-> clicks'[p]]
    BY DEF SetReviewed
  <1>14. \A p \in DOMAIN clicks' : (clicks'[p]).sequence \in 1..clickCount'
    BY <1>7, <1>12, <1>13 DEF IInv, ClicksNumbered
  <1>15. PageTyped'
    <2>1. /\ DOMAIN clicks \subseteq Files
          /\ clicks \in [DOMAIN clicks -> [reviewed : BOOLEAN, sequence : Nat]]
          /\ open \subseteq Files
      BY DEF IInv, Typed, PageTyped
    <2>2. \A p \in DOMAIN clicks' : clicks'[p] \in [reviewed : BOOLEAN, sequence : Nat]
      BY <1>7, <1>13, <2>1
    <2>3. DOMAIN clicks' \subseteq Files /\ clicks' \in [DOMAIN clicks' -> [reviewed : BOOLEAN, sequence : Nat]]
      BY <1>1, <1>13, <2>1, <2>2
    <2>4. open' \subseteq Files
      BY <2>1 DEF SetReviewed
    <2> QED BY <2>3, <2>4 DEF IInv, Typed, PageTyped, SetReviewed
  <1>16. Drawn'
    BY DEF IInv, Drawn, NeverAnothersLines, NoteInDiff, SetReviewed
  <1>17. UNCHANGED <<worktreeVars, disk, columnVars, isPageReady, page, toPage>>
    BY DEF SetReviewed
  <1>18. clickCount' \in Nat /\ clickCount <= clickCount' /\ m.sequence \in 1..clickCount'
    BY <1>7, <1>8, <1>12
  <1> QED BY <1>9, <1>10, <1>11, <1>14, <1>15, <1>16, <1>17, <1>18, UserStep

LEMMA ToggleReviewedKeeps ==
  ASSUME IInv, NEW p \in Files, ToggleReviewed(p)
  PROVE  IInv'
  <1>1. Shows /\ {p} \in SUBSET (DOMAIN page.files) /\ (ReviewStates[p] # "reviewed") \in BOOLEAN
    BY DEF ToggleReviewed
  <1> QED BY <1>1, SetReviewedKeeps DEF ToggleReviewed

LEMMA ToggleGroupKeeps ==
  ASSUME IInv, ToggleGroupReviewed
  PROVE  IInv'
  <1>1. PICK unmarked : unmarked = {p \in DOMAIN page.files : ReviewStates[p] # "reviewed"}
    OBVIOUS
  <1>2. PICK paths : paths = IF unmarked = {} THEN DOMAIN page.files ELSE unmarked
    OBVIOUS
  <1>3. Shows /\ paths \in SUBSET (DOMAIN page.files) /\ SetReviewed(paths, unmarked # {})
    BY <1>1, <1>2 DEF ToggleGroupReviewed
  <1> QED BY <1>3, SetReviewedKeeps, (unmarked # {}) \in BOOLEAN

-----------------------------------------------------------------------------
(* What the page is told                                                   *)

NoteType == [id : Nat, isWrong : BOOLEAN, settled : BOOLEAN, inFlight : Nat]

LEMMA NoNoteTyped == NoNote \in NoteType /\ NoNote.id = None
  BY DEF NoNote, NoteType, None

LEMMA ReopenedIs ==
  ASSUME NEW n \in NodeType, NEW pg, NEW p
  PROVE  /\ Reopened(n, p, pg) \in NodeType
         /\ LET r == Reopened(n, p, pg) IN
              p \notin Long /\ r.kind = "diff" /\ ~r.stale => r.ver = pg.files[p]
  <1>1. CASE n.kind # "diff" \/ p \in Long
    BY <1>1, NodesTyped DEF Reopened
  <1>2. CASE ~(n.kind # "diff" \/ p \in Long)
    <2>1. PICK stale \in BOOLEAN : stale = (n.ver # pg.files[p] \/ n.notesVersion # pg.notesVersion)
      OBVIOUS
    <2>2. Reopened(n, p, pg) = [n EXCEPT !.stale = stale]
      BY <1>2, <2>1 DEF Reopened
    <2>3. [n EXCEPT !.stale = stale] \in NodeType
      BY DEF NodeType
    <2>4. [n EXCEPT !.stale = stale].stale = stale /\ [n EXCEPT !.stale = stale].ver = n.ver
      BY DEF NodeType
    <2> QED BY <2>1, <2>2, <2>3, <2>4
  <1> QED BY <1>1, <1>2

\* The clicks a review answers are let go.
LEMMA TakeReviewKeeps ==
  ASSUME IInv, NEW s \in Review, TakeReview(s), clickCount' = clickCount
  PROVE  /\ stored' \in Review /\ DOMAIN clicks' \subseteq Files
         /\ clicks' \in [DOMAIN clicks' -> [reviewed : BOOLEAN, sequence : Nat]]
         /\ \A p \in DOMAIN clicks' : (clicks'[p]).sequence \in 1..clickCount'
  <1> DEFINE left == {q \in DOMAIN clicks : clicks[q].sequence > s.acknowledged}
  <1>1. /\ DOMAIN clicks \subseteq Files
        /\ clicks \in [DOMAIN clicks -> [reviewed : BOOLEAN, sequence : Nat]]
        /\ \A p \in DOMAIN clicks : clicks[p].sequence \in 1..clickCount
    BY DEF IInv, Typed, PageTyped, ClicksNumbered
  <1>2. clicks' = [p \in left |-> clicks[p]] /\ left \subseteq DOMAIN clicks
    BY DEF TakeReview
  <1> HIDE DEF left
  <1> QED BY <1>1, <1>2 DEF TakeReview

LEMMA LoadsRight ==
  ASSUME OneShot, snapshotCount \in Nat, NEW pg \in Page, Has(pg.gen, pg.files), pg.gen # 0,
         NEW asks \in SUBSET (DOMAIN pg.files)
  PROVE  LET loads == [i \in 1..Cardinality(asks) |-> LoadFile(PathAt(asks, i), pg)]
         IN  /\ loads \in Seq(Request)
             /\ \A m \in Elems(loads) : Right(m) /\ m.type = "loadFile"
  <1> DEFINE loads == [i \in 1..Cardinality(asks) |-> LoadFile(PathAt(asks, i), pg)]
  <1>1. asks \in SUBSET Files
    <2>1. pg.files \in Shot
      BY DEF Page
    <2> QED BY <2>1, IsShot
  <1>2. Cardinality(asks) \in Nat
    BY <1>1, FilesAssumption, FS_Subset, FS_CardinalityType
  <1>3. ASSUME NEW i \in 1..Cardinality(asks)
        PROVE  /\ LoadFile(PathAt(asks, i), pg) \in Request
               /\ Right(LoadFile(PathAt(asks, i), pg)) /\ LoadFile(PathAt(asks, i), pg).type = "loadFile"
    <2>1. PathAt(asks, i) \in DOMAIN pg.files
      BY <1>1, PathAtPlace
    <2> QED BY <2>1, LoadRight
  <1>4. loads \in Seq(Request)
    BY <1>2, <1>3
  <1>5. DOMAIN loads = 1..Cardinality(asks) /\ \A i \in DOMAIN loads : Right(loads[i]) /\ loads[i].type = "loadFile"
    BY <1>3
  <1> QED BY <1>4, <1>5 DEF Elems

LEMMA RenderKeeps ==
  ASSUME IInv, SentNow, NEW m \in Elems(toPage), m \in Showing, Render(m),
         UNCHANGED <<worktreeVars, disk, columnVars, isPageReady>>
  PROVE  IInv'
  <1>0. /\ OneShot /\ snapshotCount \in Nat /\ toSwift \in Seq(Request)
        /\ node \in [Files -> NodeType] /\ note \in NoteType /\ clickCount \in Nat
    BY DEF IInv, Typed, ShownTyped, PageTyped, ChannelsTyped, NodeType, NoteType, ClicksNumbered
  <1>1. page' = m.page /\ m.page \in Page /\ Has(m.page.gen, m.page.files) /\ m.page.gen # 0 /\ m.review \in Review
    BY <1>0, ShowingIs DEF Render, Has, OneShot
  <1>2. PICK rows : rows = open \cap DOMAIN m.page.files
    OBVIOUS
  <1>3. PICK built : built = [p \in Files |-> IF p \in rows THEN Reopened(node[p], p, m.page) ELSE NoNode]
    OBVIOUS
  <1>4. PICK asks : asks = {p \in rows : Asks(built[p])}
    OBVIOUS
  <1>5. PICK loads : loads = [i \in 1..Cardinality(asks) |-> LoadFile(PathAt(asks, i), m.page)]
    OBVIOUS
  <1>6. /\ node' = built /\ note' = NoteLeft(built) /\ toSwift' = toSwift \o loads
        /\ TakeReview(m.review) /\ UNCHANGED <<open, clickCount>>
    BY <1>2, <1>3, <1>4, <1>5 DEF Render
  <1>7. built \in [Files -> NodeType]
    BY <1>0, <1>3, ReopenedIs, NodesTyped
  <1>8. note' \in NoteType
    BY <1>0, <1>6, NoNoteTyped DEF NoteLeft
  <1>9. loads \in Seq(Request) /\ \A r \in Elems(loads) : Right(r) /\ r.type = "loadFile"
    <2>1. asks \in SUBSET (DOMAIN m.page.files)
      BY <1>2, <1>4
    <2> QED BY <1>0, <1>1, <1>5, <2>1, LoadsRight
  <1>10. toSwift' \in Seq(Request) /\ \A r \in Elems(toSwift') : r \in Elems(toSwift) \/ r \in Elems(loads)
    BY <1>0, <1>6, <1>9, ElemsConcat
  <1>11. PageTyped' /\ \A p \in DOMAIN clicks' : (clicks'[p]).sequence \in 1..clickCount'
    <2>1. /\ stored' \in Review /\ DOMAIN clicks' \subseteq Files
          /\ clicks' \in [DOMAIN clicks' -> [reviewed : BOOLEAN, sequence : Nat]]
          /\ \A p \in DOMAIN clicks' : (clicks'[p]).sequence \in 1..clickCount'
      BY <1>1, <1>6, TakeReviewKeeps
    <2>2. open' \subseteq Files
      BY <1>6 DEF IInv, Typed, PageTyped
    <2> QED BY <1>1, <1>6, <1>7, <1>8, <2>1, <2>2 DEF PageTyped, NodeType, NoteType
  <1>12. NeverAnothersLines'
    <2>1. DOMAIN m.page.files \in SUBSET Files
      BY <1>1, IsShot DEF Page
    <2>2. ASSUME NEW p \in DOMAIN m.page.files \ Long, built[p].kind = "diff", ~built[p].stale
          PROVE  built[p].ver = m.page.files[p]
      BY <1>0, <1>3, <2>1, <2>2, ReopenedIs, NodesTyped
    <2> QED BY <1>1, <1>6, <2>2 DEF NeverAnothersLines
  <1>13. NoteInDiff'
    BY <1>6, NoNoteTyped DEF NoteInDiff, NoteLeft
  <1> QED BY <1>0, <1>1, <1>6, <1>9, <1>10, <1>11, <1>12, <1>13, PageStep DEF Drawn

\* What changes neither the page nor what it asks.
LEMMA ToldStep ==
  ASSUME IInv, SentNow, UNCHANGED <<worktreeVars, disk, columnVars, isPageReady, toSwift, clickCount, open>>,
         page'.gen = page.gen, page'.files = page.files, page' \in Page, stored' \in Review,
         node' \in [Files -> NodeType], note' \in NoteType, Drawn',
         DOMAIN clicks' \subseteq Files,
         clicks' \in [DOMAIN clicks' -> [reviewed : BOOLEAN, sequence : Nat]],
         \A p \in DOMAIN clicks' : (clicks'[p]).sequence \in 1..clickCount'
  PROVE  IInv'
  <1>1. PageTyped'
    BY DEF IInv, Typed, PageTyped, NodeType, NoteType
  <1>2. toSwift' \in Seq(Request) /\ clickCount' \in Nat /\ clickCount <= clickCount'
    BY DEF IInv, Typed, ChannelsTyped, ClicksNumbered
  <1> QED BY <1>1, <1>2, PageStep DEF Has

LEMMA PageIs ==
  ASSUME IInv
  PROVE  /\ page \in Page /\ stored \in Review /\ node \in [Files -> NodeType] /\ note \in NoteType
         /\ DOMAIN clicks \subseteq Files
         /\ clicks \in [DOMAIN clicks -> [reviewed : BOOLEAN, sequence : Nat]]
         /\ \A p \in DOMAIN clicks : clicks[p].sequence \in 1..clickCount
         /\ NeverAnothersLines /\ NoteInDiff
  BY DEF IInv, Typed, PageTyped, NodeType, NoteType, ClicksNumbered, Drawn

LEMMA ShowDiffKeeps ==
  ASSUME IInv, SentNow, NEW d \in Elems(toPage), d \in Diff, ShowDiff(d),
         UNCHANGED <<worktreeVars, disk, columnVars, isPageReady>>
  PROVE  IInv'
  <1>0. /\ page \in Page /\ stored \in Review /\ node \in [Files -> NodeType] /\ note \in NoteType
        /\ DOMAIN clicks \subseteq Files
        /\ clicks \in [DOMAIN clicks -> [reviewed : BOOLEAN, sequence : Nat]]
        /\ \A p \in DOMAIN clicks : clicks[p].sequence \in 1..clickCount
        /\ NeverAnothersLines /\ NoteInDiff
    BY PageIs
  <1>1. UNCHANGED <<page, stored, open, clicks, clickCount, toSwift>>
    BY DEF ShowDiff
  <1>2. CASE ~IsForPage(d)
    <2>1. UNCHANGED <<node, note>>
      BY <1>2 DEF ShowDiff
    <2>2. Drawn'
      BY <1>0, <1>1, <2>1 DEF Drawn, NeverAnothersLines, NoteInDiff
    <2> QED BY <1>0, <1>1, <2>1, <2>2, ToldStep
  <1>3. CASE IsForPage(d)
    <2>0. /\ d.path \in Files /\ d.ver \in Version /\ d.notesVersion \in Nat /\ d.note.id \in Nat
          /\ d.note.wrong \in BOOLEAN /\ d.type = "showDiff"
      BY DiffIs
    <2>1. PICK n : n = [kind |-> IF d.ver = None THEN "message" ELSE "diff",
                        ver |-> d.ver, notesVersion |-> d.notesVersion, stale |-> FALSE]
      OBVIOUS
    <2>2. n \in NodeType /\ n.ver = d.ver /\ (d.ver # None => n.kind = "diff")
      BY <2>0, <2>1 DEF NodeType
    <2>3. node' = [node EXCEPT ![d.path] = n]
      BY <1>3, <2>1 DEF ShowDiff
    <2>4. node' \in [Files -> NodeType] /\ \A q \in Files : node'[q] = IF q = d.path THEN n ELSE node[q]
      BY <1>0, <2>2, <2>3
    <2>5. note' \in NoteType
      BY <1>0, <1>3, <2>0, NoNoteTyped DEF ShowDiff, NoteType
    <2>6. NoteInDiff'
      <3>1. CASE d.path # Noted
        BY <1>0, <1>3, <2>4, <3>1, FilesAssumption DEF ShowDiff, NoteInDiff
      <3>2. CASE d.path = Noted /\ d.ver = None
        BY <1>3, <3>2, NoNoteTyped DEF ShowDiff, NoteInDiff
      <3>3. CASE d.path = Noted /\ d.ver # None
        BY <2>2, <2>4, <3>3, FilesAssumption DEF NoteInDiff
      <3> QED BY <3>1, <3>2, <3>3
    <2>7. NeverAnothersLines'
      <3>1. DOMAIN page.files \in SUBSET Files
        BY <1>0, IsShot DEF Page
      <3>2. d.path \notin Long => d.ver = page.files[d.path]
        BY <1>3, <2>0 DEF IInv, DiffsTrue, IsTrue, IsForPage, Has
      <3> QED BY <1>0, <1>1, <2>2, <2>4, <3>1, <3>2 DEF NeverAnothersLines
    <2> QED BY <1>0, <1>1, <2>4, <2>5, <2>6, <2>7, ToldStep DEF Drawn
  <1> QED BY <1>2, <1>3

LEMMA MarkNoteKeeps ==
  ASSUME IInv, SentNow, NEW m \in Message, m.type = "markNote", MarkNote(m),
         UNCHANGED <<worktreeVars, disk, columnVars, isPageReady>>
  PROVE  IInv'
  <1>0. /\ page \in Page /\ stored \in Review /\ node \in [Files -> NodeType] /\ note \in NoteType
        /\ DOMAIN clicks \subseteq Files
        /\ clicks \in [DOMAIN clicks -> [reviewed : BOOLEAN, sequence : Nat]]
        /\ \A p \in DOMAIN clicks : clicks[p].sequence \in 1..clickCount
        /\ NeverAnothersLines /\ NoteInDiff
    BY PageIs
  <1>1. UNCHANGED <<stored, open, clicks, clickCount, toSwift>>
    BY DEF MarkNote
  <1>2. m.versions \in Versions
    BY MessageIs
  <1>3. note' \in NoteType /\ note'.id = note.id
    <2>1. note' = note \/ note' = Answered(note, m.wrong)
      BY DEF MarkNote
    <2>2. Answered(note, m.wrong) \in NoteType /\ Answered(note, m.wrong).id = note.id
      <3>1. PICK left : left = IF note.inFlight = 0 THEN 0 ELSE note.inFlight - 1
        OBVIOUS
      <3>2. PICK settled : settled = IF m.wrong = "kept" THEN note.settled ELSE m.wrong = "wrong"
        OBVIOUS
      <3>3. left \in Nat /\ settled \in BOOLEAN
        <4>1. note.inFlight \in Nat /\ note.settled \in BOOLEAN
          BY <1>0 DEF NoteType
        <4>2. left \in Nat
          BY <3>1, <4>1
        <4>3. settled \in BOOLEAN
          BY <3>2, <4>1
        <4> QED BY <4>2, <4>3
      <3>4. PICK isWrong \in BOOLEAN : isWrong = IF left = 0 THEN settled ELSE note.isWrong
        BY <1>0, <3>3 DEF NoteType
      <3>5. Answered(note, m.wrong) = [note EXCEPT !.inFlight = left, !.settled = settled, !.isWrong = isWrong]
        BY <1>0, <3>1, <3>2, <3>4 DEF Answered, NoteType
      <3> QED BY <1>0, <3>3, <3>5 DEF NoteType
    <2> QED BY <1>0, <2>1, <2>2
  <1>4. CASE m.versions # <<>> /\ page.gen # 0 /\ page.notesVersion = m.versions[1]
    <2>1. /\ page' = [page EXCEPT !.notesVersion = m.versions[2]]
          /\ node' = [p \in Files |-> IF node[p].notesVersion = m.versions[1] /\ node[p].kind = "diff"
                                        THEN [node[p] EXCEPT !.notesVersion = m.versions[2]] ELSE node[p]]
      BY <1>4 DEF MarkNote
    <2>2. m.versions[2] \in Nat
      BY <1>2, <1>4 DEF Versions
    <2>3. page' \in Page /\ page'.gen = page.gen /\ page'.files = page.files
      BY <1>0, <2>1, <2>2 DEF Page
    <2>4. ASSUME NEW p \in Files
          PROVE  /\ node'[p] \in NodeType /\ node'[p].kind = node[p].kind
                 /\ node'[p].ver = node[p].ver /\ node'[p].stale = node[p].stale
      BY <1>0, <2>1, <2>2 DEF NodeType
    <2>5. node' \in [Files -> NodeType]
      BY <2>1, <2>4
    <2>6. DOMAIN page.files \in SUBSET Files
      BY <1>0, IsShot DEF Page
    <2>7. Drawn'
      BY <1>0, <1>3, <2>3, <2>4, <2>6, FilesAssumption DEF Drawn, NeverAnothersLines, NoteInDiff
    <2> QED BY <1>0, <1>1, <1>3, <2>3, <2>5, <2>7, ToldStep
  <1>5. CASE ~(m.versions # <<>> /\ page.gen # 0 /\ page.notesVersion = m.versions[1])
    <2>1. UNCHANGED <<page, node>>
      BY <1>5 DEF MarkNote
    <2>2. Drawn'
      BY <1>0, <1>3, <2>1 DEF Drawn, NeverAnothersLines, NoteInDiff
    <2> QED BY <1>0, <1>1, <1>3, <2>1, <2>2, ToldStep
  <1> QED BY <1>4, <1>5

LEMMA ShowReviewKeeps ==
  ASSUME IInv, SentNow, NEW s \in Review, ShowReview(s),
         UNCHANGED <<worktreeVars, disk, columnVars, isPageReady>>
  PROVE  IInv'
  <1>0. /\ page \in Page /\ stored \in Review /\ node \in [Files -> NodeType] /\ note \in NoteType
        /\ DOMAIN clicks \subseteq Files
        /\ clicks \in [DOMAIN clicks -> [reviewed : BOOLEAN, sequence : Nat]]
        /\ \A p \in DOMAIN clicks : clicks[p].sequence \in 1..clickCount
        /\ NeverAnothersLines /\ NoteInDiff
    BY PageIs
  <1>1. UNCHANGED <<page, open, node, note, clickCount, toSwift>>
    BY DEF ShowReview
  <1>2. Drawn'
    BY <1>0, <1>1 DEF Drawn, NeverAnothersLines, NoteInDiff
  <1>3. UNCHANGED <<stored, clicks>> \/ TakeReview(s)
    BY DEF ShowReview
  <1>4. /\ stored' \in Review /\ DOMAIN clicks' \subseteq Files
        /\ clicks' \in [DOMAIN clicks' -> [reviewed : BOOLEAN, sequence : Nat]]
        /\ \A p \in DOMAIN clicks' : (clicks'[p]).sequence \in 1..clickCount'
    BY <1>0, <1>1, <1>3, TakeReviewKeeps
  <1> QED BY <1>0, <1>1, <1>2, <1>4, ToldStep

\* A banner or a status is only shown.
LEMMA OnlyShown ==
  ASSUME IInv, SentNow, UNCHANGED <<page, stored, open, node, note, clicks, clickCount, toSwift>>,
         UNCHANGED <<worktreeVars, disk, columnVars, isPageReady>>
  PROVE  IInv'
  <1>1. /\ page \in Page /\ stored \in Review /\ node \in [Files -> NodeType] /\ note \in NoteType
        /\ DOMAIN clicks \subseteq Files
        /\ clicks \in [DOMAIN clicks -> [reviewed : BOOLEAN, sequence : Nat]]
        /\ \A p \in DOMAIN clicks : clicks[p].sequence \in 1..clickCount
        /\ NeverAnothersLines /\ NoteInDiff
    BY PageIs
  <1>2. Drawn'
    BY <1>1 DEF Drawn, NeverAnothersLines, NoteInDiff
  <1> QED BY <1>1, <1>2, ToldStep

LEMMA PageReceivesKeeps ==
  ASSUME IInv, PageReceives
  PROVE  IInv'
  <1>1. toPage \in Seq(Message) /\ toPage # <<>> /\ toPage' = Tail(toPage)
    BY DEF IInv, Typed, ChannelsTyped, PageReceives
  <1>2. PICK m : m = Head(toPage)
    OBVIOUS
  <1>3. m \in Elems(toPage) /\ m \in Message
    BY <1>1, <1>2, ElemsTail
  <1>4. SentNow
    BY <1>1, ElemsTail DEF SentNow
  <1>5. UNCHANGED <<worktreeVars, disk, columnVars, isPageReady>>
    BY DEF PageReceives
  <1>6. \/ m.type = "show" /\ Render(m)
        \/ m.type = "showDiff" /\ ShowDiff(m)
        \/ m.type = "markNote" /\ MarkNote(m)
        \/ m.type = "showReview" /\ ShowReview(m.review)
        \/ ShowBanner(TRUE) \/ ShowBanner(FALSE) \/ ShowStatus
    BY <1>2 DEF PageReceives
  <1>7. CASE m.type = "show" /\ Render(m)
    BY <1>3, <1>4, <1>5, <1>7, MessageIs, RenderKeeps
  <1>8. CASE m.type = "showDiff" /\ ShowDiff(m)
    BY <1>3, <1>4, <1>5, <1>8, MessageIs, ShowDiffKeeps
  <1>9. CASE m.type = "markNote" /\ MarkNote(m)
    BY <1>3, <1>4, <1>5, <1>9, MarkNoteKeeps
  <1>10. CASE m.type = "showReview" /\ ShowReview(m.review)
    BY <1>3, <1>4, <1>5, <1>10, MessageIs, ShowReviewKeeps
  <1>11. CASE ShowBanner(TRUE) \/ ShowBanner(FALSE) \/ ShowStatus
    <2>1. UNCHANGED <<page, stored, open, node, note, clicks, clickCount, toSwift>>
      BY <1>11 DEF ShowBanner, ShowStatus
    <2> QED BY <1>4, <1>5, <2>1, OnlyShown
  <1> QED BY <1>6, <1>7, <1>8, <1>9, <1>10, <1>11

\* A page that died shows no generation.
LEMMA PageDiesKeeps ==
  ASSUME IInv, PageDies
  PROVE  IInv'
  <1> USE DEF columnVars, shownVars, readVars, writeVars, worktreeVars
  <1>1. /\ page' = NoPage /\ toPage' = <<>> /\ open' = {} /\ node' = [p \in Files |-> NoNode]
        /\ note' = NoNote /\ clicks' = Empty /\ isPageReady' = FALSE
        /\ stored' = PageReview(Empty, Empty, 0, review.marks, 0)
    BY DEF PageDies
  <1>2. UNCHANGED <<clickCount, worktreeVars, disk, columnVars>>
    BY DEF PageDies
  <1>3. /\ snapshotCount \in Nat \ {0} /\ toSwift \in Seq(Request) /\ review \in Record
        /\ OneShot /\ RequestsTrue
    BY DEF IInv, Typed, ShownTyped, WriteTyped, ChannelsTyped
  <1>4. toSwift' \in Seq(Request) /\ Elems(toSwift') \subseteq Elems(toSwift)
    BY <1>3, ElemsSubSeq DEF PageDies
  <1>5. Elems(toPage') = {} /\ toPage' \in Seq(Message)
    BY <1>1, EmptySeq DEF Elems
  <1>6. page'.gen = 0 /\ page'.files = Empty /\ page' \in Page
    BY <1>1, EmptyTyped DEF NoPage, Page
  <1>7. ASSUME NEW gen, NEW files, Has(gen, files)'
        PROVE  \/ gen = 0 /\ files = Empty
               \/ gen = snapshotCount /\ files = snapshot.files /\ Has(gen, files)
    BY <1>2, <1>5, <1>6, <1>7 DEF Has
  <1>8. OneShot'
    BY <1>2, <1>3, <1>5, <1>7 DEF OneShot
  <1>9. Past
    BY <1>7 DEF Past
  <1>10. RequestsTrue'
    BY <1>2, <1>3, <1>4, <1>9, RightKept DEF RequestsTrue
  <1>11. DiffsTrue'
    BY <1>5 DEF DiffsTrue
  <1>12. ShownTyped' /\ ReadTyped' /\ WriteTyped' /\ ChannelsTyped'
    <2>1. ShownTyped /\ ReadTyped /\ WriteTyped /\ ChannelsTyped
      BY DEF IInv, Typed
    <2>2. UNCHANGED <<tree, head, reading, readAfterRead, changed, patchQueue, patchResults, pageHasSelection>>
      BY DEF PageDies, worktreeVars, columnVars, readVars
    <2>3. ShownTyped' /\ WriteTyped'
      BY <1>2, <2>1 DEF ShownTyped, WriteTyped
    <2>4. ReadTyped'
      BY <2>1, <2>2 DEF ReadTyped
    <2>5. ChannelsTyped'
      BY <1>1, <1>4, <1>5, <2>1, <2>2 DEF ChannelsTyped
    <2> QED BY <2>3, <2>4, <2>5
  <1>13. PageTyped'
    <2>1. stored' \in Review
      <3>1. review.marks \in [Files -> Mark]
        BY <1>3 DEF Record
      <3> QED BY <1>1, <3>1, EmptyTyped, PageReviewTyped
    <2>2. node' \in [Files -> NodeType] /\ note' \in NoteType
      BY <1>1, NodesTyped, NoNoteTyped
    <2>3. DOMAIN clicks' \subseteq Files /\ clicks' \in [DOMAIN clicks' -> [reviewed : BOOLEAN, sequence : Nat]]
      BY <1>1 DEF Empty
    <2> QED BY <1>1, <1>6, <2>1, <2>2, <2>3 DEF PageTyped, NodeType, NoteType
  <1>14. ChangesTrue' /\ MarksWhatWasSeen'
    BY <1>2 DEF IInv, ChangesTrue, MarksWhatWasSeen
  <1>15. ClicksNumbered'
    BY <1>1, <1>2, <1>4 DEF IInv, ClicksNumbered, Empty
  <1>16. AnswersNumbered'
    BY <1>2 DEF IInv, AnswersNumbered
  <1>17. Drawn'
    BY <1>1, <1>6, NoNoteTyped, EmptyTyped DEF Drawn, NeverAnothersLines, NoteInDiff
  <1> QED BY <1>8, <1>10, <1>11, <1>12, <1>13, <1>14, <1>15, <1>16, <1>17 DEF IInv, Typed

-----------------------------------------------------------------------------
(* What the column shows                                                   *)

LEMMA SendsKeep ==
  ASSUME toPage \in Seq(Message), NEW count, NEW files, NEW ms \in Seq(Sent(count, files)), Sends(ms),
         count = snapshotCount', files = snapshot'.files
  PROVE  SentNow
  <1>1. ms \in Seq(Message) /\ Elems(ms) \subseteq Sent(count, files)
    <2>1. Sent(count, files) \subseteq Message
      BY DEF Sent
    <2> HIDE DEF Sent
    <2> QED BY <2>1, SeqMonotonic, ElemsAre
  <1>2. toPage \o ms \in Seq(Message) /\ Elems(toPage \o ms) \subseteq Elems(toPage) \cup Elems(ms)
    BY <1>1, ElemsConcat
  <1>3. toPage' = toPage \/ toPage' = toPage \o ms
    BY DEF Sends
  <1> QED BY <1>1, <1>2, <1>3 DEF SentNow

LEMMA NothingSent ==
  ASSUME toPage \in Seq(Message), toPage' = toPage
  PROVE  SentNow
  BY DEF SentNow

LEMMA ColumnIs ==
  ASSUME IInv
  PROVE  /\ snapshot \in Snapshot /\ snapshotCount \in Nat \ {0} /\ pending \in Read /\ held \in Read
         /\ explanation \in Explained /\ explanationVersion \in Nat /\ pageNotesVersion \in Nat
         /\ readFiles \in Lines(Long) /\ acknowledged \in Nat
         /\ review \in Record /\ review.marks \in [Files -> Mark] /\ disk \in Record
         /\ toPage \in Seq(Message) /\ toSwift \in Seq(Request)
         /\ ShownTyped /\ ReadTyped /\ WriteTyped /\ ChangesTrue /\ AnswersNumbered /\ MarksWhatWasSeen
         /\ pageHasSelection \in BOOLEAN /\ isPageReady \in BOOLEAN
  <1>1. ShownTyped /\ ReadTyped /\ WriteTyped /\ ChannelsTyped /\ ChangesTrue /\ AnswersNumbered /\ MarksWhatWasSeen
    BY DEF IInv, Typed
  <1>2. acknowledged \in Nat
    BY DEF IInv, ClicksNumbered, AnswersNumbered
  <1>3. review \in Record /\ review.marks \in [Files -> Mark] /\ disk \in Record
    BY <1>1 DEF WriteTyped, Record
  <1> QED BY <1>1, <1>2, <1>3 DEF ShownTyped, ChannelsTyped

\* A step of the column that neither writes nor takes a request.
LEMMA ShownStep ==
  ASSUME IInv, UNCHANGED <<pageVars, writeVars, disk, isPageReady, toSwift>>, Turns, SentNow,
         ShownTyped', ReadTyped', pageHasSelection' \in BOOLEAN
  PROVE  IInv'
  <1> USE DEF writeVars, pageVars
  <1>1. WriteTyped /\ ChangesTrue /\ AnswersNumbered /\ MarksWhatWasSeen /\ isPageReady \in BOOLEAN
        /\ toSwift \in Seq(Request)
    BY ColumnIs
  <1>2. WriteTyped' /\ ChangesTrue' /\ AnswersNumbered' /\ MarksWhatWasSeen'
    BY <1>1 DEF WriteTyped, ChangesTrue, AnswersNumbered, MarksWhatWasSeen
  <1> QED BY <1>1, <1>2, ColumnStep

LEMMA NothingShown ==
  ASSUME IInv, UNCHANGED shownVars
  PROVE  Turns /\ ShownTyped'
  BY ColumnIs DEF shownVars, Turns, ShownTyped

LEMMA ShowTypes ==
  ASSUME IInv, NEW r \in Read, Show(r)
  PROVE  /\ ShownTyped' /\ Turns /\ snapshotCount' = snapshotCount + 1 /\ snapshot'.files = r.files
         /\ Shown(r) \in Seq(Sent(snapshotCount + 1, r.files))
  <1>1. /\ explanation \in Explained /\ explanationVersion \in Nat /\ snapshotCount \in Nat \ {0}
        /\ acknowledged \in Nat /\ review.marks \in [Files -> Mark]
    BY ColumnIs
  <1>2. r.head \in Nat /\ r.files \in Shot /\ r.expl \in Explained /\ (r.head = 0 => r.files = Empty)
    BY DEF Read
  <1>3. PICK version : version = VersionOf(r.expl)
    OBVIOUS
  <1>4. version \in Nat
    BY <1>1, <1>3 DEF VersionOf
  <1>5. /\ snapshot' = [head |-> r.head, files |-> r.files] /\ snapshotCount' = snapshotCount + 1
        /\ status' = FALSE /\ banner' = "none" /\ pending' = NoRead /\ held' = NoRead
        /\ readFiles' = Empty /\ opening' = snapshotCount + 1
        /\ explanation' = r.expl /\ explanationVersion' = version
        /\ pageNotesVersion' = version /\ explanationWaits' = FALSE
    BY <1>3 DEF Show
  <1>6. snapshot' \in Snapshot /\ snapshot'.files = r.files
    BY <1>2, <1>5 DEF Snapshot
  <1>7. ShownTyped'
    <2>1. snapshotCount' \in Nat \ {0} /\ opening' \in Nat
      BY <1>1, <1>5
    <2>2. pending' \in Read /\ held' \in Read /\ readFiles' \in Lines(Long)
      BY <1>5, EmptyTyped
    <2>3. explanation' \in Explained /\ explanationVersion' \in Nat /\ pageNotesVersion' \in Nat
      BY <1>2, <1>4, <1>5
    <2>4. status' \in BOOLEAN /\ banner' \in {"none", "moved", "failed"} /\ explanationWaits' \in BOOLEAN
      BY <1>5
    <2> QED BY <1>6, <2>1, <2>2, <2>3, <2>4 DEF ShownTyped
  <1>8. Shown(r) \in Seq(Sent(snapshotCount + 1, r.files))
    <2>1. Empty \in Lines(Files) /\ snapshotCount + 1 \in Nat
      BY <1>1, EmptyTyped
    <2>2. ShowPage(r.files, Empty, snapshotCount + 1, version, review.marks) \in Sent(snapshotCount + 1, r.files)
      BY <1>1, <1>2, <1>4, <2>1, ShowPageSent
    <2> QED BY <1>3, <2>2, OneOf DEF Shown
  <1> QED BY <1>5, <1>6, <1>7, <1>8 DEF Turns

\* A read becomes what the page shows, and is sent.
LEMMA ShowsKeep ==
  ASSUME IInv, NEW r \in Read, Show(r), Sends(Shown(r)) \/ toPage' = Shown(r)
  PROVE  ShownTyped' /\ Turns /\ SentNow
  <1>1. /\ ShownTyped' /\ Turns /\ snapshotCount' = snapshotCount + 1 /\ snapshot'.files = r.files
        /\ Shown(r) \in Seq(Sent(snapshotCount + 1, r.files))
    BY ShowTypes
  <1>2. toPage \in Seq(Message)
    BY ColumnIs
  <1>3. CASE Sends(Shown(r))
    BY <1>1, <1>2, <1>3, SendsKeep
  <1>4. CASE toPage' = Shown(r)
    <2>1. Sent(snapshotCount + 1, r.files) \subseteq Message
      BY DEF Sent
    <2>2. toPage' \in Seq(Message) /\ Elems(toPage') \subseteq Sent(snapshotCount + 1, r.files)
      <3> HIDE DEF Sent
      <3> QED BY <1>1, <1>4, <2>1, SeqMonotonic, ElemsAre
    <2> QED BY <1>1, <2>2 DEF SentNow
  <1> QED BY <1>1, <1>3, <1>4

LEMMA ReadingsTyped ==
  /\ NotReading \in [reason : {"none", "user", "watcher"}, found : {"no", "read", "failed"}, read : Read, newer : BOOLEAN]
  /\ \A reason \in {"user", "watcher"} :
       ReadFor(reason) \in [reason : {"none", "user", "watcher"}, found : {"no", "read", "failed"}, read : Read, newer : BOOLEAN]
  <1>1. NoRead \in Read
    BY EmptyTyped
  <1>2. NotReading \in [reason : {"none", "user", "watcher"}, found : {"no", "read", "failed"}, read : Read, newer : BOOLEAN]
    BY <1>1 DEF NotReading
  <1> QED BY <1>2 DEF ReadFor

-----------------------------------------------------------------------------
(* Reads of the branch, and the worktree                                   *)

LEMMA RefreshKeeps ==
  ASSUME IInv, Refresh
  PROVE  IInv'
  <1>1. ReadTyped'
    BY ColumnIs, ReadingsTyped DEF ReadTyped, Refresh, worktreeVars
  <1>2. UNCHANGED <<pageVars, writeVars, disk, isPageReady, toSwift, pageHasSelection, shownVars, toPage>>
    BY DEF Refresh
  <1> QED BY <1>1, <1>2, ColumnIs, NothingShown, NothingSent, ShownStep

LEMMA ReadWatchedKeeps ==
  ASSUME IInv, ReadWatched
  PROVE  IInv'
  <1>1. ReadTyped'
    BY ColumnIs, ReadingsTyped DEF ReadTyped, ReadWatched, worktreeVars
  <1>2. UNCHANGED <<pageVars, writeVars, disk, isPageReady, toSwift, pageHasSelection, shownVars, toPage>>
    BY DEF ReadWatched
  <1> QED BY <1>1, <1>2, ColumnIs, NothingShown, NothingSent, ShownStep

LEMMA ReadBranchKeeps ==
  ASSUME IInv, NEW fails \in BOOLEAN, ReadBranch(fails)
  PROVE  IInv'
  <1>1. PICK r : r = [head |-> head, files |-> Present(tree), expl |-> disk.expl]
    OBVIOUS
  <1>2. ReadTyped /\ disk \in Record
    BY ColumnIs
  <1>3. r \in Read
    BY <1>1, <1>2, PresentTyped DEF ReadTyped, Record, Read
  <1>4. \/ reading' = [reading EXCEPT !.found = "failed"]
        \/ reading' = [reading EXCEPT !.found = "read", !.read = r]
    BY <1>1 DEF ReadBranch
  <1>5. ReadTyped'
    BY <1>2, <1>3, <1>4 DEF ReadTyped, ReadBranch, worktreeVars
  <1>6. UNCHANGED <<pageVars, writeVars, disk, isPageReady, toSwift, pageHasSelection, shownVars, toPage>>
    BY DEF ReadBranch
  <1> QED BY <1>5, <1>6, ColumnIs, NothingShown, NothingSent, ShownStep

LEMMA EditsKeeps ==
  ASSUME IInv, NEW p \in Files, NEW v \in 0..MaxVersion, Edits(p, v)
  PROVE  IInv'
  <1>1. ReadTyped'
    BY ColumnIs DEF ReadTyped, Edits, Version
  <1>2. UNCHANGED <<pageVars, writeVars, disk, isPageReady, toSwift, pageHasSelection, shownVars, toPage>>
    BY DEF Edits
  <1> QED BY <1>1, <1>2, ColumnIs, NothingShown, NothingSent, ShownStep

LEMMA CommitsKeeps ==
  ASSUME IInv, Commits
  PROVE  IInv'
  <1>1. ReadTyped'
    BY ColumnIs DEF ReadTyped, Commits
  <1>2. UNCHANGED <<pageVars, writeVars, disk, isPageReady, toSwift, pageHasSelection, shownVars, toPage>>
    BY DEF Commits
  <1> QED BY <1>1, <1>2, ColumnIs, NothingShown, NothingSent, ShownStep

LEMMA FoundIs ==
  ASSUME IInv
  PROVE  Found \in Read
  BY ColumnIs DEF Found, ReadTyped, Read

LEMMA BannerTypes ==
  ASSUME IInv, NEW kind \in {"moved", "failed"}, NEW r \in Read, Banner(kind, r)
  PROVE  ShownTyped' /\ Turns
  <1>1. ShownTyped
    BY ColumnIs
  <1>2. /\ held' = NoRead /\ banner' = kind /\ pending' = r
        /\ UNCHANGED <<snapshot, snapshotCount, status, readFiles, opening, explanation, explanationVersion,
                       pageNotesVersion, explanationWaits>>
    BY DEF Banner
  <1> QED BY <1>1, <1>2, EmptyTyped DEF ShownTyped, Turns

LEMMA ShowInsteadTypes ==
  ASSUME IInv, ShowInstead
  PROVE  ShownTyped' /\ Turns
  <1>1. ShownTyped
    BY ColumnIs
  <1>2. /\ snapshot' = [head |-> 0, files |-> Empty]
        /\ snapshotCount' = IF HasSnapshot THEN snapshotCount + 1 ELSE snapshotCount
        /\ status' = TRUE /\ pending' = NoRead /\ held' = NoRead
        /\ readFiles' = IF HasSnapshot THEN Empty ELSE readFiles
        /\ UNCHANGED <<banner, opening, explanation, explanationVersion, pageNotesVersion, explanationWaits>>
    BY DEF ShowInstead
  <1>3. snapshot' \in Snapshot
    BY <1>2, EmptyTyped DEF Snapshot
  <1>4. snapshotCount' \in Nat \ {0} /\ readFiles' \in Lines(Long)
    BY <1>1, <1>2, EmptyTyped DEF ShownTyped
  <1>5. ShownTyped'
    BY <1>1, <1>2, <1>3, <1>4, EmptyTyped DEF ShownTyped
  <1>6. Turns
    BY <1>1, <1>2 DEF Turns, HasSnapshot, ShownTyped, Snapshot
  <1> QED BY <1>5, <1>6

LEMMA PlainSends ==
  ASSUME toPage \in Seq(Message), NEW type \in {"showReload", "hideReload", "showStatus"},
         NEW ms \in {<<>>, <<[type |-> type]>>}, Sends(ms)
  PROVE  SentNow
  <1>1. ms \in Seq(Sent(snapshotCount', snapshot'.files))
    BY PlainSent, EmptySeq
  <1> QED BY <1>1, SendsKeep

LEMMA ApplyReadKeeps ==
  ASSUME IInv, ApplyRead
  PROVE  IInv'
  <1>0. PICK r : r = Found
    OBVIOUS
  <1>1. r \in Read /\ toPage \in Seq(Message)
    BY <1>0, FoundIs, ColumnIs
  <1>2. \/ Banner("failed", NoRead) /\ (Sends(<<>>) \/ Sends(<<[type |-> "showReload"]>>))
        \/ ShowInstead /\ Sends(<<[type |-> "showStatus"]>>)
        \/ Banner("moved", r) /\ (Sends(<<>>) \/ Sends(<<[type |-> "showReload"]>>))
        \/ /\ held' \in {NoRead, r} /\ banner' = "none" /\ pending' \in {pending, NoRead}
           /\ Sends(<<>>) \/ Sends(<<[type |-> "hideReload"]>>)
           /\ UNCHANGED <<snapshot, snapshotCount, status, readFiles, opening, explanation, explanationVersion,
                          pageNotesVersion, explanationWaits>>
        \/ Show(r) /\ Sends(Shown(r))
    BY <1>0 DEF ApplyRead
  <1>3. ShownTyped' /\ Turns /\ SentNow
    <2>1. CASE Banner("failed", NoRead) /\ (Sends(<<>>) \/ Sends(<<[type |-> "showReload"]>>))
      BY <1>1, <2>1, BannerTypes, PlainSends, EmptyTyped
    <2>2. CASE ShowInstead /\ Sends(<<[type |-> "showStatus"]>>)
      BY <1>1, <2>2, ShowInsteadTypes, PlainSends
    <2>3. CASE Banner("moved", r) /\ (Sends(<<>>) \/ Sends(<<[type |-> "showReload"]>>))
      BY <1>1, <2>3, BannerTypes, PlainSends
    <2>4. CASE /\ held' \in {NoRead, r} /\ banner' = "none" /\ pending' \in {pending, NoRead}
               /\ Sends(<<>>) \/ Sends(<<[type |-> "hideReload"]>>)
               /\ UNCHANGED <<snapshot, snapshotCount, status, readFiles, opening, explanation, explanationVersion,
                              pageNotesVersion, explanationWaits>>
      <3>1. ShownTyped' /\ Turns
        BY <1>1, <2>4, ColumnIs, EmptyTyped DEF ShownTyped, Turns
      <3>2. SentNow
        BY <1>1, <2>4, PlainSends
      <3> QED BY <3>1, <3>2
    <2>5. CASE Show(r) /\ Sends(Shown(r))
      BY <1>1, <2>5, ShowsKeep
    <2> QED BY <1>2, <2>1, <2>2, <2>3, <2>4, <2>5
  <1>4. ReadTyped'
    BY ColumnIs, ReadingsTyped DEF ReadTyped, ApplyRead, worktreeVars
  <1>5. UNCHANGED <<pageVars, writeVars, disk, isPageReady, toSwift, pageHasSelection>>
    BY DEF ApplyRead
  <1> QED BY <1>3, <1>4, <1>5, ColumnIs, ShownStep

-----------------------------------------------------------------------------
(* Hunks read since                                                        *)

LEMMA ReadPatchKeeps ==
  ASSUME IInv, NEW fails \in BOOLEAN, ReadPatch(fails)
  PROVE  IInv'
  <1>1. ReadTyped
    BY ColumnIs
  <1>2. patchQueue \in Seq([path : Long, gen : Nat]) /\ patchQueue # <<>> /\ patchQueue' = Tail(patchQueue)
    BY <1>1 DEF ReadTyped, ReadPatch
  <1>3. PICK m : m = Head(patchQueue)
    OBVIOUS
  <1>4. m \in [path : Long, gen : Nat] /\ patchQueue' \in Seq([path : Long, gen : Nat])
    BY <1>2, <1>3, ElemsTail
  <1>5. PICK ver : ver = IF fails THEN None ELSE tree[m.path]
    OBVIOUS
  <1>6. ver \in Version
    <2>1. None \in Version
      BY FilesAssumption DEF Version, None
    <2>2. tree \in [Files -> Version] /\ m.path \in Files
      BY <1>1, <1>4, FilesAssumption DEF ReadTyped
    <2> QED BY <1>5, <2>1, <2>2
  <1>7. \/ patchResults' = patchResults
        \/ patchResults' = Append(patchResults, [path |-> m.path, gen |-> m.gen, ver |-> ver])
    BY <1>3, <1>5 DEF ReadPatch
  <1>8. patchResults' \in Seq([path : Long, gen : Nat, ver : Version])
    <2>1. patchResults \in Seq([path : Long, gen : Nat, ver : Version])
      BY <1>1 DEF ReadTyped
    <2>2. [path |-> m.path, gen |-> m.gen, ver |-> ver] \in [path : Long, gen : Nat, ver : Version]
      BY <1>4, <1>6
    <2>3. Append(patchResults, [path |-> m.path, gen |-> m.gen, ver |-> ver])
            \in Seq([path : Long, gen : Nat, ver : Version])
      BY <2>1, <2>2, AppendProperties
    <2> QED BY <1>7, <2>1, <2>3
  <1>9. ReadTyped'
    BY <1>1, <1>4, <1>8 DEF ReadTyped, ReadPatch, readVars, worktreeVars
  <1>10. UNCHANGED <<pageVars, writeVars, disk, isPageReady, toSwift, pageHasSelection, shownVars, toPage>>
    BY DEF ReadPatch
  <1> QED BY <1>9, <1>10, ColumnIs, NothingShown, NothingSent, ShownStep

LEMMA PatchIsReadKeeps ==
  ASSUME IInv, PatchIsRead
  PROVE  IInv'
  <1>1. /\ ReadTyped /\ ShownTyped /\ toPage \in Seq(Message) /\ snapshot \in Snapshot /\ snapshotCount \in Nat
        /\ readFiles \in Lines(Long) /\ explanation \in Explained /\ explanationVersion \in Nat
        /\ review.marks \in [Files -> Mark] /\ acknowledged \in Nat
    BY ColumnIs
  <1>2. /\ patchResults \in Seq([path : Long, gen : Nat, ver : Version])
        /\ patchResults # <<>> /\ patchResults' = Tail(patchResults)
    BY <1>1 DEF ReadTyped, PatchIsRead
  <1>3. PICK m : m = Head(patchResults)
    OBVIOUS
  <1>4. /\ m.path \in Long /\ m.ver \in Version /\ m.path \in Files
        /\ patchResults' \in Seq([path : Long, gen : Nat, ver : Version])
    <2>1. m \in [path : Long, gen : Nat, ver : Version]
      BY <1>2, <1>3, ElemsTail
    <2> QED BY <1>2, <2>1, ElemsTail, FilesAssumption
  <1>5. PICK read : read = [p \in DOMAIN readFiles \cup {m.path} |-> IF p = m.path THEN m.ver ELSE readFiles[p]]
    OBVIOUS
  <1>6. read \in Lines(Long) /\ read \in Lines(Files)
    <2>1. DOMAIN readFiles \in SUBSET Long /\ readFiles \in [DOMAIN readFiles -> Version]
      BY <1>1, IsLines
    <2>2. read \in [DOMAIN readFiles \cup {m.path} -> Version]
      BY <1>4, <1>5, <2>1
    <2>3. DOMAIN readFiles \cup {m.path} \in SUBSET Long /\ Long \subseteq Files
      BY <1>4, <2>1, FilesAssumption
    <2> QED BY <2>2, <2>3 DEF Lines
  <1>7. UNCHANGED <<snapshot, snapshotCount, status, banner, pending, held, opening, explanation,
                    explanationVersion, pageNotesVersion, explanationWaits>>
    BY DEF PatchIsRead
  <1>8. \/ readFiles' = readFiles /\ toPage' = toPage
        \/ readFiles' = readFiles /\ Sends(<<DiffMessage(m.path, None)>>)
        \/ readFiles' = read /\ Sends(ReviewMessage(read, review.marks, acknowledged) \o <<DiffMessage(m.path, m.ver)>>)
    BY <1>3, <1>5 DEF PatchIsRead
  <1>9. ShownTyped' /\ Turns
    BY <1>1, <1>6, <1>7, <1>8 DEF ShownTyped, Turns
  <1>10. SentNow
    <2>1. None \in Version
      BY FilesAssumption DEF Version, None
    <2>2. /\ DiffMessage(m.path, None) \in Sent(snapshotCount, snapshot.files)
          /\ DiffMessage(m.path, m.ver) \in Sent(snapshotCount, snapshot.files)
      BY <1>1, <1>4, <2>1, DiffSent
    <2>3. ReviewMessage(read, review.marks, acknowledged) \in Seq(Sent(snapshotCount, snapshot.files))
      BY <1>1, <1>6, ReviewSent
    <2>4. /\ <<DiffMessage(m.path, None)>> \in Seq(Sent(snapshotCount, snapshot.files))
          /\ <<DiffMessage(m.path, m.ver)>> \in Seq(Sent(snapshotCount, snapshot.files))
      BY <2>2, OneOf
    <2>5. ReviewMessage(read, review.marks, acknowledged) \o <<DiffMessage(m.path, m.ver)>>
            \in Seq(Sent(snapshotCount, snapshot.files))
      BY <2>3, <2>4, ElemsConcat
    <2> QED BY <1>1, <1>7, <1>8, <2>4, <2>5, SendsKeep, NothingSent
  <1>11. ReadTyped'
    BY <1>1, <1>4 DEF ReadTyped, PatchIsRead, readVars, worktreeVars
  <1>12. UNCHANGED <<pageVars, writeVars, disk, isPageReady, toSwift, pageHasSelection>>
    BY DEF PatchIsRead
  <1> QED BY <1>9, <1>10, <1>11, <1>12, ColumnIs, ShownStep

-----------------------------------------------------------------------------
(* What the column is asked                                                *)

\* A step that takes the first request, and neither writes nor reads a branch.
LEMMA TakesStep ==
  ASSUME IInv, UNCHANGED <<pageVars, disk, isPageReady, worktreeVars>>,
         toSwift # <<>>, toSwift' = Tail(toSwift), Turns, SentNow,
         ShownTyped', ReadTyped', WriteTyped', ChangesTrue', AnswersNumbered', pageHasSelection' \in BOOLEAN
  PROVE  IInv'
  <1>1. toSwift' \in Seq(Request) /\ Elems(toSwift') \subseteq Elems(toSwift) /\ isPageReady \in BOOLEAN
    BY ColumnIs, ElemsTail
  <1>2. MarksWhatWasSeen'
    BY ColumnIs DEF MarksWhatWasSeen
  <1> QED BY <1>1, <1>2, ColumnStep

LEMMA NothingWritten ==
  ASSUME IInv, UNCHANGED <<writeVars, disk, clickCount>>
  PROVE  WriteTyped' /\ ChangesTrue' /\ AnswersNumbered'
  BY ColumnIs DEF writeVars, WriteTyped, ChangesTrue, AnswersNumbered

\* A row's diff is of the lines of its file.
LEMMA LoadedSent ==
  ASSUME IInv, toSwift # <<>>, NEW m, m = Head(toSwift), m.type = "loadFile", m.gen = snapshotCount,
         NEW p, p = PathAt(DOMAIN snapshot.files, m.id)
  PROVE  DiffMessage(p, snapshot.files[p]) \in Sent(snapshotCount, snapshot.files)
  <1>1. /\ snapshot \in Snapshot /\ snapshotCount \in Nat /\ explanation \in Explained /\ explanationVersion \in Nat
        /\ snapshot.files \in Shot /\ DOMAIN snapshot.files \in SUBSET Files
    BY ColumnIs, IsShot DEF Snapshot
  <1>2. Has(snapshotCount, snapshot.files)
    BY DEF Has
  <1>3. m \in Elems(toSwift)
    BY ColumnIs, ElemsTail
  <1>4. PICK q \in DOMAIN snapshot.files : m.id = IdOf(snapshot.files, q)
    BY <1>2, <1>3 DEF IInv, RequestsTrue, Right, Names
  <1>5. p = q
    BY <1>1, <1>4, PathOfPlace DEF IdOf
  <1>6. p \in Files /\ snapshot.files[p] \in Version
    BY <1>1, <1>4, <1>5, IsShot
  <1> QED BY <1>1, <1>6, DiffSent

LEMMA LoadsFileKeeps ==
  ASSUME IInv, toSwift # <<>>, NEW m, m = Head(toSwift), m.type = "loadFile", LoadsFile(m),
         toSwift' = Tail(toSwift), UNCHANGED <<worktreeVars, disk, pageVars, isPageReady>>
  PROVE  IInv'
  <1>1. /\ ReadTyped /\ toPage \in Seq(Message) /\ toSwift \in Seq(Request) /\ snapshot \in Snapshot
        /\ snapshotCount \in Nat /\ explanation \in Explained /\ explanationVersion \in Nat
        /\ pageHasSelection \in BOOLEAN
    BY ColumnIs
  <1>2. m \in Load /\ Names(m) /\ m.gen \in Nat
    <2>1. m \in Request /\ m \in Elems(toSwift)
      BY <1>1, ElemsTail
    <2>2. m \in Load /\ Names(m)
      BY <2>1, RequestIs DEF IInv, RequestsTrue, Right
    <2> QED BY <2>2 DEF Load
  <1>3. PICK p : p = PathAt(DOMAIN snapshot.files, m.id)
    OBVIOUS
  <1>4. UNCHANGED <<shownVars, pageHasSelection, readVars, patchResults, writeVars>>
    BY DEF LoadsFile
  <1>5. \/ UNCHANGED <<patchQueue, toPage>>
        \/ /\ m.gen = snapshotCount /\ p \in Long
           /\ patchQueue' = Append(patchQueue, [path |-> p, gen |-> m.gen]) /\ UNCHANGED toPage
        \/ /\ m.gen = snapshotCount /\ p \notin Long
           /\ Sends(<<DiffMessage(p, snapshot.files[p])>>) /\ UNCHANGED patchQueue
    BY <1>3 DEF LoadsFile, AsksOfThisPage
  <1>6. Turns /\ ShownTyped'
    BY <1>4, NothingShown
  <1>7. SentNow
    <2>1. CASE toPage' = toPage
      BY <1>1, <2>1, NothingSent
    <2>2. CASE m.gen = snapshotCount /\ Sends(<<DiffMessage(p, snapshot.files[p])>>)
      <3>1. DiffMessage(p, snapshot.files[p]) \in Sent(snapshotCount, snapshot.files)
        BY <1>3, <2>2, LoadedSent
      <3>2. <<DiffMessage(p, snapshot.files[p])>> \in Seq(Sent(snapshotCount, snapshot.files))
        BY <3>1, OneOf
      <3>3. snapshotCount' = snapshotCount /\ snapshot' = snapshot
        BY <1>4 DEF shownVars
      <3> QED BY <1>1, <2>2, <3>2, <3>3, SendsKeep
    <2> QED BY <1>5, <2>1, <2>2
  <1>8. ReadTyped'
    <2>1. patchQueue \in Seq([path : Long, gen : Nat])
      BY <1>1 DEF ReadTyped
    <2>2. ASSUME p \in Long PROVE Append(patchQueue, [path |-> p, gen |-> m.gen]) \in Seq([path : Long, gen : Nat])
      <3>1. [path |-> p, gen |-> m.gen] \in [path : Long, gen : Nat]
        BY <1>2, <2>2
      <3> QED BY <2>1, <3>1, AppendProperties
    <2>3. patchQueue' \in Seq([path : Long, gen : Nat])
      BY <1>5, <2>1, <2>2
    <2> QED BY <1>1, <1>4, <2>3 DEF ReadTyped, readVars, worktreeVars
  <1>9. WriteTyped' /\ ChangesTrue' /\ AnswersNumbered'
    BY <1>4, NothingWritten DEF pageVars
  <1> QED BY <1>1, <1>4, <1>6, <1>7, <1>8, <1>9, TakesStep

LEMMA SelectionKeeps ==
  ASSUME IInv, toSwift # <<>>, NEW m, m = Head(toSwift), m.type = "selection", SelectionChanged(m),
         toSwift' = Tail(toSwift), UNCHANGED <<worktreeVars, disk, pageVars, isPageReady>>
  PROVE  IInv'
  <1>1. /\ ReadTyped /\ ShownTyped /\ toPage \in Seq(Message) /\ toSwift \in Seq(Request) /\ snapshot \in Snapshot
        /\ snapshotCount \in Nat /\ explanationVersion \in Nat /\ held \in Read /\ readFiles \in Lines(Long)
        /\ review.marks \in [Files -> Mark] /\ acknowledged \in Nat
    BY ColumnIs
  <1>2. m.active \in BOOLEAN
    BY <1>1, ElemsTail, RequestIs
  <1>3. \/ Show(held) /\ Sends(Shown(held))
        \/ /\ explanationWaits' = FALSE
           /\ pageNotesVersion' = IF HasSnapshot THEN explanationVersion ELSE pageNotesVersion
           /\ Sends(Current(explanationVersion, review.marks))
           /\ UNCHANGED <<snapshot, snapshotCount, status, banner, pending, held, readFiles, opening,
                          explanation, explanationVersion>>
        \/ UNCHANGED <<shownVars, toPage>>
    BY DEF SelectionChanged
  <1>4. ShownTyped' /\ Turns /\ SentNow
    <2>1. CASE Show(held) /\ Sends(Shown(held))
      BY <1>1, <2>1, ShowsKeep
    <2>2. CASE /\ explanationWaits' = FALSE
               /\ pageNotesVersion' = IF HasSnapshot THEN explanationVersion ELSE pageNotesVersion
               /\ Sends(Current(explanationVersion, review.marks))
               /\ UNCHANGED <<snapshot, snapshotCount, status, banner, pending, held, readFiles, opening,
                              explanation, explanationVersion>>
      <3>1. ShownTyped' /\ Turns
        BY <1>1, <2>2 DEF ShownTyped, Turns
      <3>2. Current(explanationVersion, review.marks) \in Seq(Sent(snapshotCount, snapshot.files))
        BY <1>1, CurrentSent
      <3> QED BY <1>1, <2>2, <3>1, <3>2, SendsKeep
    <2>3. CASE UNCHANGED <<shownVars, toPage>>
      BY <1>1, <2>3, NothingShown, NothingSent
    <2> QED BY <1>3, <2>1, <2>2, <2>3
  <1>5. ReadTyped'
    BY <1>1 DEF ReadTyped, SelectionChanged, readVars, worktreeVars
  <1>6. WriteTyped' /\ ChangesTrue' /\ AnswersNumbered'
    BY NothingWritten DEF pageVars, SelectionChanged
  <1>7. pageHasSelection' \in BOOLEAN
    BY <1>2 DEF SelectionChanged
  <1> QED BY <1>4, <1>5, <1>6, <1>7, TakesStep

LEMMA BannerClickedKeeps ==
  ASSUME IInv, toSwift # <<>>, BannerClicked,
         toSwift' = Tail(toSwift), UNCHANGED <<worktreeVars, disk, pageVars, isPageReady>>
  PROVE  IInv'
  <1>1. ReadTyped /\ toPage \in Seq(Message) /\ pending \in Read /\ pageHasSelection \in BOOLEAN
    BY ColumnIs
  <1>2. \/ Show(pending) /\ Sends(Shown(pending))
        \/ UNCHANGED <<shownVars, toPage>>
    BY DEF BannerClicked
  <1>3. ShownTyped' /\ Turns /\ SentNow
    BY <1>1, <1>2, ShowsKeep, NothingShown, NothingSent
  <1>4. /\ reading' = reading \/ reading' = ReadFor("user")
        /\ readAfterRead' = readAfterRead \/ readAfterRead' = TRUE
        /\ UNCHANGED <<changed, pageHasSelection, patchQueue, patchResults, writeVars>>
    BY DEF BannerClicked
  <1>5. ReadTyped'
    BY <1>1, <1>4, ReadingsTyped DEF ReadTyped, worktreeVars
  <1>6. WriteTyped' /\ ChangesTrue' /\ AnswersNumbered'
    BY <1>4, NothingWritten DEF pageVars
  <1> QED BY <1>1, <1>3, <1>4, <1>5, <1>6, TakesStep

-----------------------------------------------------------------------------
(* Writes of the review file                                               *)

\* The changes asked or answered are numbered as clicks are.
LEMMA MaxBounded ==
  ASSUME NEW n \in Nat, NEW s \in SUBSET (0..n), s # {}
  PROVE  Max(s) \in 0..n
  BY MaxOf

LEMMA EnqueueTypes ==
  ASSUME IInv, NEW c \in Change, c.sequence \in 0..clickCount, Enqueue(c), UNCHANGED <<disk, clickCount>>,
         c.type = "reviewed" => \A p \in DOMAIN c.marks \ Long : c.marks[p].ver = c.marks[p].seen
  PROVE  WriteTyped' /\ ChangesTrue' /\ AnswersNumbered'
  <1>1. WriteTyped /\ ChangesTrue /\ AnswersNumbered
    BY ColumnIs
  <1>2. /\ asked' = Append(asked, c) /\ reviewQueue' = Append(reviewQueue, "write")
        /\ UNCHANGED <<review, reviewResults, acknowledged, waiting>>
    BY DEF Enqueue
  <1>3. asked' \in Seq(Change) /\ Elems(asked') = Elems(asked) \cup {c}
    BY <1>1, <1>2, ElemsAppend DEF WriteTyped
  <1>4. reviewQueue' \in Seq({"write", "reload"})
    BY <1>1, <1>2, AppendProperties DEF WriteTyped
  <1>5. WriteTyped'
    BY <1>1, <1>2, <1>3, <1>4 DEF WriteTyped
  <1>6. ChangesTrue'
    BY <1>1, <1>3 DEF ChangesTrue
  <1>7. AnswersNumbered'
    BY <1>1, <1>2, <1>3 DEF AnswersNumbered
  <1> QED BY <1>5, <1>6, <1>7

LEMMA EnqueueSends ==
  ASSUME IInv, NEW c, Enqueue(c)
  PROVE  SentNow
  BY ColumnIs, NothingSent DEF Enqueue

LEMMA AcknowledgeTypes ==
  ASSUME IInv, NEW sequence \in 1..clickCount, Acknowledge(sequence),
         UNCHANGED <<disk, clickCount, shownVars>>
  PROVE  WriteTyped' /\ ChangesTrue' /\ AnswersNumbered' /\ SentNow
  <1>1. /\ WriteTyped /\ ChangesTrue /\ AnswersNumbered /\ clickCount \in Nat /\ toPage \in Seq(Message)
        /\ snapshot \in Snapshot /\ snapshotCount \in Nat /\ readFiles \in Lines(Files)
        /\ review.marks \in [Files -> Mark]
    BY ColumnIs, FilesAssumption DEF IInv, ClicksNumbered, Lines
  <1>2. UNCHANGED <<review, asked, reviewQueue, reviewResults>>
    BY DEF Acknowledge
  <1>3. PICK first : first = Max({waiting, sequence})
    OBVIOUS
  <1>4. PICK last : last = Max({acknowledged, sequence, waiting})
    OBVIOUS
  <1>5. {waiting, sequence} \in SUBSET (0..clickCount) /\ {acknowledged, sequence, waiting} \in SUBSET (0..clickCount)
    BY <1>1 DEF AnswersNumbered
  <1>6. first \in 0..clickCount /\ last \in 0..clickCount
    BY <1>1, <1>3, <1>4, <1>5, MaxBounded
  <1>7. \/ waiting' = first /\ UNCHANGED <<acknowledged, toPage>>
        \/ /\ acknowledged' = last /\ waiting' = 0
           /\ Sends(<<>>) \/ Sends(ReviewMessage(readFiles, review.marks, last))
    BY <1>3, <1>4 DEF Acknowledge
  <1>8. WriteTyped' /\ ChangesTrue'
    BY <1>1, <1>2 DEF WriteTyped, ChangesTrue
  <1>9. AnswersNumbered'
    BY <1>1, <1>2, <1>6, <1>7 DEF AnswersNumbered
  <1>10. SentNow
    <2>1. /\ <<>> \in Seq(Sent(snapshotCount, snapshot.files))
          /\ ReviewMessage(readFiles, review.marks, last) \in Seq(Sent(snapshotCount, snapshot.files))
      BY <1>1, <1>6, ReviewSent, EmptySeq
    <2>2. snapshotCount' = snapshotCount /\ snapshot' = snapshot
      BY DEF shownVars
    <2> QED BY <1>1, <1>7, <2>1, <2>2, SendsKeep, NothingSent
  <1> QED BY <1>8, <1>9, <1>10

\* A click on the page shown marks what it says was seen.
LEMMA ClickedSeen ==
  ASSUME IInv, NEW m \in Click, Clicks(m), NEW p \in Clicked(m)
  PROVE  /\ p \in DOMAIN snapshot.files /\ p \in Files /\ p \in DOMAIN m.seen
         /\ PatchHash(snapshot.files, readFiles, p) \in Version
         /\ m.seen[p] \in Version
         /\ p \notin Long => PatchHash(snapshot.files, readFiles, p) = m.seen[p]
  <1>1. snapshot.files \in Shot /\ readFiles \in Lines(Long)
    BY ColumnIs DEF Snapshot
  <1>2. DOMAIN snapshot.files \in SUBSET Files /\ m.seen \in Lines(Files)
    BY <1>1, IsShot DEF Click
  <1>3. /\ p \in DOMAIN snapshot.files /\ m.gen = snapshotCount
        /\ IdOf(snapshot.files, p) \in m.ids
    BY DEF Clicked
  <1>4. /\ DOMAIN m.seen \subseteq DOMAIN snapshot.files
        /\ m.ids = {IdOf(snapshot.files, q) : q \in DOMAIN m.seen}
        /\ \A q \in DOMAIN m.seen \ Long : m.seen[q] = snapshot.files[q]
    BY <1>3 DEF Clicks, Has
  <1>5. PICK q \in DOMAIN m.seen : IdOf(snapshot.files, p) = IdOf(snapshot.files, q)
    BY <1>3, <1>4
  <1>6. p = q
    BY <1>2, <1>3, <1>4, <1>5, PlacesDiffer DEF IdOf
  <1>7. PatchHash(snapshot.files, readFiles, p) \in Version
    BY <1>1, <1>3, IsShot, IsLines DEF PatchHash
  <1>8. m.seen[p] \in Version
    BY <1>2, <1>5, <1>6, IsLines
  <1>9. p \notin Long => PatchHash(snapshot.files, readFiles, p) = snapshot.files[p]
    BY <1>1, IsLines DEF PatchHash
  <1> QED BY <1>2, <1>3, <1>4, <1>5, <1>6, <1>7, <1>8, <1>9

LEMMA MarksReviewedKeeps ==
  ASSUME IInv, toSwift # <<>>, NEW m, m = Head(toSwift), m.type = "reviewed", MarksReviewed(m),
         toSwift' = Tail(toSwift), UNCHANGED <<worktreeVars, disk, pageVars, isPageReady>>
  PROVE  IInv'
  <1>1. ReadTyped /\ toPage \in Seq(Message) /\ toSwift \in Seq(Request) /\ pageHasSelection \in BOOLEAN
    BY ColumnIs
  <1>2. m \in Click /\ Clicks(m) /\ m.sequence \in 1..clickCount /\ m.reviewed \in BOOLEAN /\ m.sequence \in Nat
    <2>1. m \in Request /\ m \in Elems(toSwift)
      BY <1>1, ElemsTail
    <2>2. m \in Click /\ Clicks(m) /\ m.sequence \in 1..clickCount
      BY <2>1, RequestIs DEF IInv, RequestsTrue, Right, ClicksNumbered
    <2> QED BY <2>2 DEF Click
  <1>3. UNCHANGED <<shownVars, pageHasSelection, readVars, patchQueue, patchResults>> /\ UNCHANGED clickCount
    BY DEF MarksReviewed, pageVars
  <1>4. WriteTyped' /\ ChangesTrue' /\ AnswersNumbered' /\ SentNow
    <2>1. CASE Clicked(m) = {}
      BY <1>2, <1>3, <2>1, AcknowledgeTypes DEF MarksReviewed
    <2>2. CASE Clicked(m) # {}
      <3>1. PICK marks : marks = [p \in Clicked(m) |->
                [ver |-> PatchHash(snapshot.files, readFiles, p), seen |-> IF p \in DOMAIN m.seen THEN m.seen[p] ELSE None]]
        OBVIOUS
      <3>2. PICK c : c = [type |-> "reviewed", reviewed |-> m.reviewed, sequence |-> m.sequence, marks |-> marks]
        OBVIOUS
      <3>3. Enqueue(c)
        BY <2>2, <3>1, <3>2 DEF MarksReviewed
      <3>4. ASSUME NEW p \in Clicked(m)
            PROVE  /\ p \in Files /\ marks[p] \in Mark
                   /\ p \notin Long => marks[p].ver = marks[p].seen
        BY <1>2, <3>1, ClickedSeen DEF Mark
      <3>5. marks \in [Clicked(m) -> Mark] /\ Clicked(m) \in SUBSET Files
        BY <3>1, <3>4
      <3>6. marks \in UNION {[paths -> Mark] : paths \in SUBSET Files} /\ DOMAIN marks = Clicked(m)
        BY <3>5
      <3>7. c \in Change
        BY <1>2, <3>2, <3>6 DEF Change, Marking
      <3>8. \A p \in DOMAIN c.marks \ Long : c.marks[p].ver = c.marks[p].seen
        BY <3>2, <3>4, <3>6
      <3>9. c.sequence \in 0..clickCount
        BY <1>2, <3>2
      <3> QED BY <1>3, <3>3, <3>7, <3>8, <3>9, EnqueueTypes, EnqueueSends
    <2> QED BY <2>1, <2>2
  <1>5. Turns /\ ShownTyped'
    BY <1>3, NothingShown
  <1>6. ReadTyped'
    BY <1>1, <1>3 DEF ReadTyped, readVars, worktreeVars
  <1> QED BY <1>1, <1>3, <1>4, <1>5, <1>6, TakesStep

LEMMA MarksWrongKeeps ==
  ASSUME IInv, toSwift # <<>>, NEW m, m = Head(toSwift), m.type = "markWrong", MarksWrong(m),
         toSwift' = Tail(toSwift), UNCHANGED <<worktreeVars, disk, pageVars, isPageReady>>
  PROVE  IInv'
  <1>1. ReadTyped /\ toPage \in Seq(Message) /\ toSwift \in Seq(Request) /\ pageHasSelection \in BOOLEAN
    BY ColumnIs
  <1>2. m.id \in Nat /\ m.wrong \in BOOLEAN
    BY <1>1, ElemsTail, RequestIs
  <1>3. UNCHANGED <<shownVars, pageHasSelection, readVars, patchQueue, patchResults>> /\ UNCHANGED clickCount
    BY DEF MarksWrong, pageVars
  <1>4. PICK c : c = [type |-> "markWrong", id |-> m.id, wrong |-> m.wrong, sequence |-> 0]
    OBVIOUS
  <1>5. \/ Sends(<<NoteAnswer(m.id, "kept", <<>>)>>) /\ UNCHANGED writeVars
        \/ Enqueue(c)
    BY <1>4 DEF MarksWrong
  <1>6. WriteTyped' /\ ChangesTrue' /\ AnswersNumbered' /\ SentNow
    <2>1. CASE Sends(<<NoteAnswer(m.id, "kept", <<>>)>>) /\ UNCHANGED writeVars
      <3>1. <<>> \in Versions
        BY DEF Versions
      <3>2. <<NoteAnswer(m.id, "kept", <<>>)>> \in Seq(Sent(snapshotCount', snapshot'.files))
        BY <1>2, <3>1, NoteAnswerSent, OneOf
      <3> QED BY <1>1, <1>3, <2>1, <3>2, SendsKeep, NothingWritten
    <2>2. CASE Enqueue(c)
      <3>1. c \in Change /\ c.type # "reviewed" /\ c.sequence = 0
        BY <1>2, <1>4 DEF Change
      <3>2. c.sequence \in 0..clickCount
        BY <3>1 DEF IInv, ClicksNumbered
      <3> QED BY <1>3, <2>2, <3>1, <3>2, EnqueueTypes, EnqueueSends
    <2> QED BY <1>5, <2>1, <2>2
  <1>7. Turns /\ ShownTyped'
    BY <1>3, NothingShown
  <1>8. ReadTyped'
    BY <1>1, <1>3 DEF ReadTyped, readVars, worktreeVars
  <1> QED BY <1>1, <1>3, <1>6, <1>7, <1>8, TakesStep

LEMMA SwiftReceivesKeeps ==
  ASSUME IInv, SwiftReceives
  PROVE  IInv'
  <1>1. PICK m : m = Head(toSwift)
    OBVIOUS
  <1>2. /\ toSwift # <<>> /\ toSwift' = Tail(toSwift)
        /\ UNCHANGED <<worktreeVars, disk, pageVars, isPageReady>>
    BY DEF SwiftReceives
  <1>3. \/ m.type = "loadFile" /\ LoadsFile(m)
        \/ m.type = "selection" /\ SelectionChanged(m)
        \/ BannerClicked
        \/ m.type = "reviewed" /\ MarksReviewed(m)
        \/ m.type = "markWrong" /\ MarksWrong(m)
    BY <1>1 DEF SwiftReceives
  <1> QED BY <1>1, <1>2, <1>3, LoadsFileKeeps, SelectionKeeps, BannerClickedKeeps, MarksReviewedKeeps, MarksWrongKeeps

-----------------------------------------------------------------------------
(* What the review file takes                                              *)

\* Records whose marks are of what was seen.
SeenRecord == {d \in Record : \A p \in Files \ Long : d.marks[p].ver = d.marks[p].seen}

LEMMA ChangeIs ==
  ASSUME NEW c \in Change
  PROVE  /\ c.type \in {"reviewed", "markWrong"} /\ c.sequence \in Nat
         /\ c.type = "reviewed" => /\ c.reviewed \in BOOLEAN
                                   /\ DOMAIN c.marks \in SUBSET Files /\ c.marks \in [DOMAIN c.marks -> Mark]
         /\ c.type = "markWrong" => c.id \in Nat /\ c.wrong \in BOOLEAN
  <1>1. CASE c \in Marking
    <2>1. /\ c.type = "reviewed" /\ c.reviewed \in BOOLEAN /\ c.sequence \in Nat
          /\ c.marks \in UNION {[paths -> Mark] : paths \in SUBSET Files}
      BY <1>1 DEF Marking
    <2> QED BY <2>1
  <1>2. CASE c \in [type : {"markWrong"}, id : Nat, wrong : BOOLEAN, sequence : {0}]
    BY <1>2
  <1> QED BY <1>1, <1>2 DEF Change

LEMMA ChangedSeen ==
  ASSUME NEW d \in SeenRecord, NEW c \in Change,
         c.type = "reviewed" => \A p \in DOMAIN c.marks \ Long : c.marks[p].ver = c.marks[p].seen
  PROVE  Changed(d, c) \in SeenRecord
  <1>1. /\ d \in Record /\ d.marks \in [Files -> Mark] /\ d.expl \in Explained
        /\ \A p \in Files \ Long : d.marks[p].ver = d.marks[p].seen
    BY DEF SeenRecord, Record
  <1>2. CASE c.type = "markWrong"
    <2>1. c.wrong \in BOOLEAN
      BY <1>2, ChangeIs
    <2>2. PICK e : e = [d.expl EXCEPT !.wrong = c.wrong]
      OBVIOUS
    <2>3. e \in Explained
      BY <1>1, <2>1, <2>2 DEF Explained
    <2>4. Changed(d, c) = d \/ Changed(d, c) = [d EXCEPT !.expl = e]
      BY <1>2, <2>2 DEF Changed
    <2> QED BY <1>1, <2>3, <2>4 DEF SeenRecord, Record
  <1>3. CASE c.type = "reviewed"
    <2>1. DOMAIN c.marks \in SUBSET Files /\ c.marks \in [DOMAIN c.marks -> Mark]
      BY <1>3, ChangeIs
    <2>2. PICK none : none = [ver |-> None, seen |-> None]
      OBVIOUS
    <2>3. none \in Mark /\ none.ver = none.seen
      BY <2>2, FilesAssumption DEF Mark, Version, None
    <2>4. PICK marks : marks = [p \in Files |-> IF p \notin DOMAIN c.marks THEN d.marks[p]
                                                ELSE IF ~c.reviewed THEN none ELSE c.marks[p]]
      OBVIOUS
    <2>5. Changed(d, c) = [d EXCEPT !.marks = marks]
      BY <1>3, <2>2, <2>4 DEF Changed
    <2>6. marks \in [Files -> Mark] /\ \A p \in Files \ Long : marks[p].ver = marks[p].seen
      BY <1>1, <1>3, <2>1, <2>3, <2>4
    <2> QED BY <1>1, <2>5, <2>6 DEF SeenRecord, Record
  <1> QED BY <1>2, <1>3, ChangeIs

LEMMA FileSeen ==
  ASSUME IInv
  PROVE  /\ disk \in SeenRecord /\ asked \in Seq(Change)
         /\ FoldLeft(Changed, disk, asked) \in SeenRecord
  <1>1. disk \in SeenRecord /\ asked \in Seq(Change) /\ ChangesTrue
    BY ColumnIs DEF SeenRecord, MarksWhatWasSeen, WriteTyped
  <1>2. PICK n \in Nat : DOMAIN asked = 1..n
    BY <1>1, LenProperties
  <1>3. ASSUME NEW i \in 1..n
        PROVE  /\ asked[i] \in Change
               /\ asked[i].type = "reviewed" =>
                    \A p \in DOMAIN asked[i].marks \ Long : asked[i].marks[p].ver = asked[i].marks[p].seen
    <2>1. asked[i] \in Elems(asked)
      BY <1>2 DEF Elems
    <2>2. asked[i] \in Change
      BY <1>1, <2>1, ElemsAre
    <2> QED BY <1>1, <2>1, <2>2 DEF ChangesTrue
  <1>4. \A d \in SeenRecord, i \in 1..n : Changed(d, asked[i]) \in SeenRecord
    BY <1>3, ChangedSeen
  <1> QED BY <1>1, <1>2, <1>4, ChangedFold

\* A step of the review's queue, which shows nothing.
LEMMA WritesStep ==
  ASSUME IInv, UNCHANGED <<pageVars, isPageReady, toSwift, toPage, worktreeVars, pageHasSelection>>,
         UNCHANGED <<readVars, patchQueue, patchResults>>,
         Turns, ShownTyped', WriteTyped', ChangesTrue', AnswersNumbered', disk' \in SeenRecord
  PROVE  IInv'
  <1>1. SentNow
    BY ColumnIs, NothingSent
  <1>2. ReadTyped'
    BY ColumnIs DEF ReadTyped, readVars, worktreeVars
  <1>3. MarksWhatWasSeen'
    BY DEF MarksWhatWasSeen, SeenRecord
  <1>4. toSwift' \in Seq(Request) /\ Elems(toSwift') \subseteq Elems(toSwift)
        /\ pageHasSelection' \in BOOLEAN /\ isPageReady' \in BOOLEAN
    BY ColumnIs
  <1> QED BY <1>1, <1>2, <1>3, <1>4, ColumnStep

LEMMA ExplainEndsKeeps ==
  ASSUME IInv, ExplainEnds
  PROVE  IInv'
  <1>1. PICK e : e = [run |-> disk.expl.run + 1, wrong |-> FALSE]
    OBVIOUS
  <1>2. disk \in SeenRecord /\ disk \in Record
    BY FileSeen, ColumnIs
  <1>3. e \in Explained
    BY <1>1, <1>2 DEF Record, Explained
  <1>4. disk' = [disk EXCEPT !.expl = e]
    BY <1>1 DEF ExplainEnds
  <1>5. disk' \in SeenRecord /\ disk' \in Record
    BY <1>2, <1>3, <1>4 DEF SeenRecord, Record
  <1>6. /\ reviewQueue' = Append(reviewQueue, "reload")
        /\ UNCHANGED <<worktreeVars, shownVars, pageHasSelection, readVars, patchQueue, patchResults, review, asked>>
        /\ UNCHANGED <<reviewResults, acknowledged, waiting, pageVars, toSwift, toPage, isPageReady>>
    BY DEF ExplainEnds
  <1>7. WriteTyped /\ ChangesTrue /\ AnswersNumbered
    BY ColumnIs
  <1>8. reviewQueue' \in Seq({"write", "reload"})
    BY <1>6, <1>7, AppendProperties DEF WriteTyped
  <1>9. WriteTyped' /\ ChangesTrue' /\ AnswersNumbered'
    BY <1>5, <1>6, <1>7, <1>8 DEF WriteTyped, ChangesTrue, AnswersNumbered, pageVars
  <1> QED BY <1>5, <1>6, <1>9, NothingShown, WritesStep

LEMMA RunReviewTaskKeeps ==
  ASSUME IInv, NEW fails \in BOOLEAN, RunReviewTask(fails)
  PROVE  IInv'
  <1>1. WriteTyped /\ ChangesTrue /\ AnswersNumbered
    BY ColumnIs
  <1>2. /\ disk \in SeenRecord /\ FoldLeft(Changed, disk, asked) \in SeenRecord
        /\ asked \in Seq(Change) /\ reviewResults \in Seq(Result) /\ reviewQueue \in Seq({"write", "reload"})
    BY <1>1, FileSeen DEF WriteTyped
  <1>3. PICK task : task = Head(reviewQueue)
    OBVIOUS
  <1>4. reviewQueue # <<>> /\ reviewQueue' = Tail(reviewQueue)
    BY DEF RunReviewTask
  <1>5. task \in {"write", "reload"} /\ reviewQueue' \in Seq({"write", "reload"})
    BY <1>2, <1>3, <1>4, ElemsTail
  <1>6. PICK changes : changes = IF task = "write" THEN asked ELSE <<>>
    OBVIOUS
  <1>7. PICK result : result = [kind |-> task, state |-> disk', changes |-> changes]
    OBVIOUS
  <1>8. /\ disk' \in {disk, FoldLeft(Changed, disk, asked)}
        /\ reviewResults' = reviewResults \/ reviewResults' = Append(reviewResults, result)
        /\ asked' = asked \/ asked' = <<>>
    BY <1>3, <1>6, <1>7 DEF RunReviewTask
  <1>9. UNCHANGED <<worktreeVars, shownVars, pageHasSelection, readVars, patchQueue, patchResults, review,
                    acknowledged, waiting, pageVars, toSwift, toPage, isPageReady>>
    BY DEF RunReviewTask
  <1>10. disk' \in SeenRecord /\ disk' \in Record
    BY <1>2, <1>8 DEF SeenRecord
  <1>11. changes \in Seq(Change) /\ Elems(changes) \subseteq Elems(asked)
    <2>1. Elems(<<>>) = {} /\ <<>> \in Seq(Change)
      BY EmptySeq DEF Elems
    <2> QED BY <1>2, <1>6, <2>1
  <1>12. result \in Result
    BY <1>5, <1>7, <1>10, <1>11 DEF Result
  <1>13. reviewResults' \in Seq(Result) /\ \A r \in Elems(reviewResults') : r \in Elems(reviewResults) \/ r = result
    <2>1. Append(reviewResults, result) \in Seq(Result) /\ Elems(Append(reviewResults, result)) = Elems(reviewResults) \cup {result}
      BY <1>2, <1>12, ElemsAppend
    <2>2. CASE reviewResults' = reviewResults
      BY <1>2, <2>2
    <2>3. CASE reviewResults' = Append(reviewResults, result)
      BY <2>1, <2>3
    <2> QED BY <1>8, <2>2, <2>3
  <1>14. asked' \in Seq(Change) /\ Elems(asked') \subseteq Elems(asked)
    <2>1. Elems(<<>>) = {} /\ <<>> \in Seq(Change)
      BY EmptySeq DEF Elems
    <2> QED BY <1>2, <1>8, <2>1
  <1>15. WriteTyped'
    BY <1>1, <1>5, <1>9, <1>10, <1>13, <1>14 DEF WriteTyped
  <1>16. ChangesTrue'
    BY <1>1, <1>14 DEF ChangesTrue
  <1>17. AnswersNumbered'
    <2>1. \A c \in Elems(asked) : c.sequence \in 0..clickCount
      BY <1>1 DEF AnswersNumbered
    <2>2. \A c \in Elems(result.changes) : c.sequence \in 0..clickCount
      BY <1>7, <1>11, <2>1
    <2> QED BY <1>1, <1>9, <1>13, <1>14, <2>1, <2>2 DEF AnswersNumbered, pageVars
  <1> QED BY <1>9, <1>10, <1>15, <1>16, <1>17, NothingShown, WritesStep

LEMMA OpenReviewKeeps ==
  ASSUME IInv, OpenReview
  PROVE  IInv'
  <1>1. WriteTyped /\ ChangesTrue /\ AnswersNumbered /\ ShownTyped /\ disk \in SeenRecord
    BY ColumnIs, FileSeen
  <1>2. PICK result : result = [kind |-> "open", gen |-> opening, state |-> disk, changes |-> <<>>]
    OBVIOUS
  <1>3. /\ opening' = 0 /\ reviewResults' = Append(reviewResults, result)
        /\ UNCHANGED <<worktreeVars, disk, snapshot, snapshotCount, status, banner, pending, held, readFiles, explanation,
                       explanationVersion, pageNotesVersion, explanationWaits, pageHasSelection, readVars, patchQueue>>
        /\ UNCHANGED <<patchResults, review, asked, reviewQueue, acknowledged, waiting, pageVars, toSwift, toPage, isPageReady>>
    BY <1>2 DEF OpenReview
  <1>4. result \in Result /\ Elems(result.changes) = {}
    BY <1>1, <1>2 DEF Result, WriteTyped, ShownTyped, Elems
  <1>5. /\ reviewResults' \in Seq(Result)
        /\ Elems(reviewResults') = Elems(reviewResults) \cup {result}
    BY <1>1, <1>3, <1>4, ElemsAppend DEF WriteTyped
  <1>6. ShownTyped' /\ Turns
    BY <1>1, <1>3 DEF ShownTyped, Turns
  <1>7. WriteTyped' /\ ChangesTrue'
    BY <1>1, <1>3, <1>5 DEF WriteTyped, ChangesTrue
  <1>8. AnswersNumbered'
    BY <1>1, <1>3, <1>4, <1>5 DEF AnswersNumbered, pageVars
  <1> QED BY <1>1, <1>3, <1>6, <1>7, <1>8, WritesStep

LEMMA PageLoadsKeeps ==
  ASSUME IInv, PageLoads
  PROVE  IInv'
  <1>1. /\ ReadTyped /\ ShownTyped /\ toPage \in Seq(Message) /\ toSwift \in Seq(Request) /\ snapshot \in Snapshot
        /\ snapshotCount \in Nat /\ explanationVersion \in Nat /\ held \in Read /\ readFiles \in Lines(Long)
        /\ review.marks \in [Files -> Mark] /\ acknowledged \in Nat /\ MarksWhatWasSeen
        /\ WriteTyped /\ ChangesTrue /\ AnswersNumbered
    BY ColumnIs
  <1>2. \/ Show(held) /\ toPage' = Shown(held)
        \/ /\ pageNotesVersion' = IF HasSnapshot THEN explanationVersion ELSE pageNotesVersion
           /\ toPage' = Current(explanationVersion, review.marks)
           /\ UNCHANGED <<snapshot, snapshotCount, status, banner, pending, held, readFiles, opening, explanation,
                          explanationVersion, explanationWaits>>
    BY DEF PageLoads
  <1>3. ShownTyped' /\ Turns /\ SentNow
    <2>1. CASE Show(held) /\ toPage' = Shown(held)
      BY <1>1, <2>1, ShowsKeep
    <2>2. CASE /\ pageNotesVersion' = IF HasSnapshot THEN explanationVersion ELSE pageNotesVersion
               /\ toPage' = Current(explanationVersion, review.marks)
               /\ UNCHANGED <<snapshot, snapshotCount, status, banner, pending, held, readFiles, opening, explanation,
                              explanationVersion, explanationWaits>>
      <3>1. ShownTyped' /\ Turns
        BY <1>1, <2>2 DEF ShownTyped, Turns
      <3>2. toPage' \in Seq(Sent(snapshotCount, snapshot.files))
        BY <1>1, <2>2, CurrentSent
      <3>3. toPage' \in Seq(Message) /\ Elems(toPage') \subseteq Sent(snapshotCount, snapshot.files)
        <4>1. Sent(snapshotCount, snapshot.files) \subseteq Message
          BY DEF Sent
        <4> HIDE DEF Sent
        <4> QED BY <3>2, <4>1, SeqMonotonic, ElemsAre
      <3> QED BY <2>2, <3>1, <3>3 DEF SentNow
    <2> QED BY <1>2, <2>1, <2>2
  <1>4. /\ isPageReady' = TRUE /\ pageHasSelection' = FALSE
        /\ UNCHANGED <<worktreeVars, disk, readVars, patchQueue, patchResults, writeVars, pageVars, toSwift>>
    BY DEF PageLoads
  <1>5. ReadTyped' /\ MarksWhatWasSeen'
    BY <1>1, <1>4 DEF ReadTyped, readVars, worktreeVars, MarksWhatWasSeen
  <1>6. WriteTyped' /\ ChangesTrue' /\ AnswersNumbered'
    BY <1>4, NothingWritten DEF pageVars
  <1> QED BY <1>1, <1>3, <1>4, <1>5, <1>6, ColumnStep

-----------------------------------------------------------------------------
(* The answers of the review's queue                                       *)

\* The column's notes as answers change them, and what they tell the page.
NotesType ==
    [expl : Explained, version : Nat, pageVersion : Nat, waits : BOOLEAN, pending : Read, held : Read,
     out : Seq(Sent(snapshotCount, snapshot.files))]

LEMMA ResultIs ==
  ASSUME NEW m \in Result
  PROVE  m.state \in Record /\ m.changes \in Seq(Change) /\ m.kind \in {"write", "reload", "open"}
  BY EmptySeq DEF Result

LEMMA NotesTyped ==
  ASSUME IInv
  PROVE  Notes \in NotesType
  <1>1. <<>> \in Seq(Sent(snapshotCount, snapshot.files))
    BY EmptySeq
  <1> QED BY <1>1, ColumnIs DEF Notes, NotesType, ShownTyped

LEMMA NotesIs ==
  ASSUME NEW s \in NotesType
  PROVE  /\ s.expl \in Explained /\ s.version \in Nat /\ s.pageVersion \in Nat /\ s.waits \in BOOLEAN
         /\ s.pending \in Read /\ s.held \in Read /\ s.out \in Seq(Sent(snapshotCount, snapshot.files))
  BY DEF NotesType

LEMMA DrawnAgainTyped ==
  ASSUME IInv, NEW s \in NotesType, NEW state \in Record
  PROVE  DrawnAgain(s, state) \in NotesType
  <1>1. s.version \in Nat /\ s.out \in Seq(Sent(snapshotCount, snapshot.files))
    BY NotesIs
  <1>2. state.marks \in [Files -> Mark]
    BY DEF Record
  <1>3. PICK out : out = s.out \o Current(s.version, state.marks)
    OBVIOUS
  <1>4. Current(s.version, state.marks) \in Seq(Sent(snapshotCount, snapshot.files))
    BY <1>1, <1>2, ColumnIs, CurrentSent
  <1>5. out \in Seq(Sent(snapshotCount, snapshot.files))
    BY <1>1, <1>3, <1>4, ElemsConcat
  <1>6. /\ [s EXCEPT !.waits = TRUE] \in NotesType
        /\ [s EXCEPT !.pageVersion = s.version, !.out = out] \in NotesType
    BY <1>1, <1>5 DEF NotesType
  <1> QED BY <1>3, <1>6 DEF DrawnAgain

LEMMA ReadMarked ==
  ASSUME NEW r \in Read, NEW id, NEW wrong \in BOOLEAN
  PROVE  WithMark(r, id, wrong) \in Read
  <1>1. PICK e : e = [r.expl EXCEPT !.wrong = wrong]
    OBVIOUS
  <1>2. e \in Explained
    BY <1>1 DEF Read, Explained
  <1>3. [r EXCEPT !.expl = e] \in Read
    BY <1>2 DEF Read
  <1> QED BY <1>1, <1>3 DEF WithMark

LEMMA MarkedTyped ==
  ASSUME IInv, NEW s \in NotesType, NEW c \in Change, NEW state \in Record
  PROVE  Marked(s, c, state) \in NotesType
  <1>1. CASE c.type # "markWrong"
    BY <1>1 DEF Marked
  <1>2. CASE c.type = "markWrong"
    <2>1. /\ s.expl \in Explained /\ s.version \in Nat /\ s.pending \in Read /\ s.held \in Read
          /\ s.out \in Seq(Sent(snapshotCount, snapshot.files))
      BY NotesIs
    <2>2. c.id \in Nat /\ state.expl \in Explained /\ state.expl.wrong \in BOOLEAN
      BY <1>2, ChangeIs DEF Record, Explained
    <2>3. PICK e : e = IF HasSnapshot THEN state.expl ELSE s.expl
      OBVIOUS
    <2>4. PICK version : version = IF e = s.expl THEN s.version ELSE s.version + 1
      OBVIOUS
    <2>5. PICK wrong : wrong = IF e.run = c.id /\ e.wrong THEN "wrong" ELSE "right"
      OBVIOUS
    <2>6. PICK current \in BOOLEAN : current = (e.run = s.expl.run /\ s.pageVersion = s.version)
      OBVIOUS
    <2>7. PICK waits : waits = IF HasSnapshot /\ state.expl.run = c.id
                                 THEN WithMark(s.pending, c.id, state.expl.wrong) ELSE s.pending
      OBVIOUS
    <2>8. PICK holds : holds = IF HasSnapshot /\ state.expl.run = c.id
                                 THEN WithMark(s.held, c.id, state.expl.wrong) ELSE s.held
      OBVIOUS
    <2>9. PICK versions : versions = IF current THEN <<s.version, version>> ELSE <<>>
      OBVIOUS
    <2>10. PICK out : out = Append(s.out, NoteAnswer(c.id, wrong, versions))
      OBVIOUS
    <2>11. PICK next : next = [s EXCEPT !.expl = e, !.version = version, !.pending = waits, !.held = holds, !.out = out]
      OBVIOUS
    <2>12. e \in Explained /\ version \in Nat /\ waits \in Read /\ holds \in Read
      BY <2>1, <2>2, <2>3, <2>4, <2>7, <2>8, ReadMarked
    <2>13. versions \in Versions /\ wrong \in {"wrong", "right", "kept"}
      BY <2>1, <2>5, <2>9, <2>12 DEF Versions
    <2>14. NoteAnswer(c.id, wrong, versions) \in Sent(snapshotCount, snapshot.files)
      BY <2>2, <2>13, NoteAnswerSent
    <2>15. out \in Seq(Sent(snapshotCount, snapshot.files))
      BY <2>1, <2>10, <2>14, AppendProperties
    <2>16. next \in NotesType
      BY <2>11, <2>12, <2>15 DEF NotesType
    <2>17. [next EXCEPT !.pageVersion = version] \in NotesType
      BY <2>12, <2>16 DEF NotesType
    <2>18. Marked(s, c, state) = IF current THEN [next EXCEPT !.pageVersion = version] ELSE DrawnAgain(next, state)
      BY <1>2, <2>3, <2>4, <2>5, <2>6, <2>7, <2>8, <2>9, <2>10, <2>11 DEF Marked
    <2> QED BY <2>16, <2>17, <2>18, DrawnAgainTyped
  <1> QED BY <1>1, <1>2

LEMMA AdoptedTyped ==
  ASSUME IInv, NEW s \in NotesType, NEW state \in Record
  PROVE  Adopted(s, state) \in NotesType
  <1>1. PICK e : e = state.expl
    OBVIOUS
  <1>2. PICK version : version = IF e = s.expl THEN s.version ELSE s.version + 1
    OBVIOUS
  <1>3. PICK waits : waits = IF s.pending = NoRead THEN s.pending ELSE [s.pending EXCEPT !.expl = e]
    OBVIOUS
  <1>4. PICK holds : holds = IF s.held = NoRead THEN s.held ELSE [s.held EXCEPT !.expl = e]
    OBVIOUS
  <1>5. PICK next : next = [s EXCEPT !.expl = e, !.version = version, !.pending = waits, !.held = holds]
    OBVIOUS
  <1>6. e \in Explained /\ version \in Nat
    BY <1>1, <1>2, NotesIs DEF Record
  <1>7. \A r \in Read : [r EXCEPT !.expl = e] \in Read
    BY <1>6 DEF Read
  <1>8. waits \in Read /\ holds \in Read
    BY <1>3, <1>4, <1>7, NotesIs
  <1>9. next \in NotesType
    BY <1>5, <1>6, <1>8 DEF NotesType
  <1>10. pageHasSelection \in BOOLEAN
    BY ColumnIs
  <1>11. [next EXCEPT !.waits = pageHasSelection] \in NotesType
    BY <1>9, <1>10 DEF NotesType
  <1>12. Adopted(s, state) = IF e = s.expl THEN next
                             ELSE IF HasSnapshot /\ ~pageHasSelection THEN DrawnAgain(next, state)
                             ELSE [next EXCEPT !.waits = pageHasSelection]
    BY <1>1, <1>2, <1>3, <1>4, <1>5 DEF Adopted
  <1> QED BY <1>9, <1>11, <1>12, DrawnAgainTyped

\* The notes as the changes of an answer leave them.
AllMarked(state, changes) == FoldLeft(LAMBDA t, c : Marked(t, c, state), Notes, changes)

LEMMA MarkedFold ==
  ASSUME NEW T, Notes \in T, NEW n \in Nat, NEW changes, DOMAIN changes = 1..n, NEW state,
         \A d \in T, i \in 1..n : Marked(d, changes[i], state) \in T
  PROVE  AllMarked(state, changes) \in T
  <1> DEFINE step == [x \in T \X (1..n) |-> Marked(x[1], changes[x[2]], state)]
  <1>1. step \in [T \X (1..n) -> T]
    OBVIOUS
  <1>2. PICK g \in [SUBSET (1..n) -> T] : FoldOf(g, n, Notes, step)
    <2> HIDE DEF step
    <2> QED BY <1>1, FoldExists
  <1>3. ASSUME NEW s \in SUBSET (1..n), s # {}
        PROVE  Max(s) \in 1..n
    BY <1>3, MaxOf, s \in SUBSET (0..n)
  <1>4. \A s \in SUBSET (1..n) :
          g[s] = IF s = {} THEN Notes ELSE Marked(g[s \ {Max(s)}], changes[Max(s)], state)
    <2> SUFFICES ASSUME NEW s \in SUBSET (1..n), s # {}
                 PROVE  g[s] = Marked(g[s \ {Max(s)}], changes[Max(s)], state)
      BY <1>2 DEF FoldOf
    <2>1. g[s] = step[g[s \ {Max(s)}], Max(s)]
      BY <1>2 DEF FoldOf
    <2>2. <<g[s \ {Max(s)}], Max(s)>> \in T \X (1..n)
      BY <1>3
    <2> QED BY <2>1, <2>2
  <1>5. PICK h : h = CHOOSE f : f = [s \in SUBSET (1..n) |->
                        IF s = {} THEN Notes ELSE Marked(f[s \ {Max(s)}], changes[Max(s)], state)]
    OBVIOUS
  <1>6. AllMarked(state, changes) = h[1..n]
    BY <1>5 DEF AllMarked, FoldLeft, MapThenFoldSet
  <1>7. h = [s \in SUBSET (1..n) |->
                        IF s = {} THEN Notes ELSE Marked(h[s \ {Max(s)}], changes[Max(s)], state)]
    <2>1. g = [s \in SUBSET (1..n) |->
                        IF s = {} THEN Notes ELSE Marked(g[s \ {Max(s)}], changes[Max(s)], state)]
      BY <1>4
    <2> QED BY <2>1, <1>5
  <1>8. h[{}] \in T
    BY <1>7
  <1>9. \A s \in SUBSET (1..n) : s # {} /\ h[s \ {Max(s)}] \in T => h[s] \in T
    BY <1>7, <1>3
  <1>10. h[1..n] \in T
    <2> HIDE DEF step
    <2> QED BY <1>8, <1>9, FoldStays, Zenon
  <1> QED BY <1>6, <1>10

LEMMA AllMarkedTyped ==
  ASSUME IInv, NEW changes \in Seq(Change), NEW state \in Record
  PROVE  AllMarked(state, changes) \in NotesType
  <1>1. PICK n \in Nat : DOMAIN changes = 1..n
    BY LenProperties
  <1>2. \A i \in 1..n : changes[i] \in Change
    BY <1>1, ElementOfSeq, LenProperties
  <1>3. \A d \in NotesType, i \in 1..n : Marked(d, changes[i], state) \in NotesType
    BY <1>2, MarkedTyped
  <1> QED BY <1>1, <1>3, NotesTyped, MarkedFold

\* The numbers of an answer's clicks.
LEMMA AnswerNumbered ==
  ASSUME IInv, reviewResults # <<>>, NEW m, m = Head(reviewResults)
  PROVE  /\ m \in Result /\ clickCount \in Nat
         /\ ({waiting} \cup {m.changes[i].sequence : i \in DOMAIN m.changes}) \in SUBSET (0..clickCount)
  <1>1. reviewResults \in Seq(Result) /\ AnswersNumbered /\ clickCount \in Nat
    BY ColumnIs DEF IInv, ClicksNumbered, WriteTyped
  <1>2. m \in Elems(reviewResults) /\ m \in Result
    BY <1>1, ElemsTail
  <1>3. \A c \in Elems(m.changes) : c.sequence \in 0..clickCount
    BY <1>1, <1>2 DEF AnswersNumbered
  <1>4. \A i \in DOMAIN m.changes : m.changes[i].sequence \in 0..clickCount
    BY <1>3 DEF Elems
  <1> QED BY <1>1, <1>2, <1>4 DEF AnswersNumbered

\* What an answer of the review's queue does.
ResultApplies(m) == IF m.kind = "open" THEN m.gen = snapshotCount ELSE HasSnapshot
NotesAfter(m) == IF m.kind = "reload" THEN Adopted(Notes, m.state) ELSE AllMarked(m.state, m.changes)
LastClick(m) == Max({waiting} \cup {m.changes[i].sequence : i \in DOMAIN m.changes})
AnswersClicks(m) ==
    /\ m.kind = "write"
    /\ asked = <<>> /\ \A i \in 2..Len(reviewResults) : reviewResults[i].changes = <<>>
    /\ LastClick(m) > 0
ReviewSentFor(m) == IF ResultApplies(m) /\ m.state # review
                      THEN ReviewMessage(readFiles, m.state.marks, acknowledged) ELSE <<>>
AnswerSentFor(m, marks) == IF AnswersClicks(m) /\ HasSnapshot
                             THEN ReviewMessage(readFiles, marks, Max({acknowledged, LastClick(m)})) ELSE <<>>

LEMMA ResultTaken ==
  ASSUME TakeReviewResult, NEW m, m = Head(reviewResults)
  PROVE  /\ reviewResults # <<>> /\ reviewResults' = Tail(reviewResults)
         /\ review' = IF ResultApplies(m) THEN m.state ELSE review
         /\ explanation' = NotesAfter(m).expl /\ explanationVersion' = NotesAfter(m).version
         /\ pageNotesVersion' = NotesAfter(m).pageVersion /\ explanationWaits' = NotesAfter(m).waits
         /\ pending' = NotesAfter(m).pending /\ held' = NotesAfter(m).held
         /\ \E newer \in BOOLEAN : reading' = [reading EXCEPT !.newer = newer]
         /\ acknowledged' = IF AnswersClicks(m) THEN Max({acknowledged, LastClick(m)}) ELSE acknowledged
         /\ waiting' = IF AnswersClicks(m) THEN 0 ELSE LastClick(m)
         /\ Sends(ReviewSentFor(m) \o NotesAfter(m).out \o AnswerSentFor(m, review'.marks))
         /\ UNCHANGED <<worktreeVars, disk, snapshot, snapshotCount, status, banner, readFiles, opening, pageHasSelection>>
         /\ UNCHANGED <<readAfterRead, changed, patchQueue, patchResults, asked, reviewQueue>>
         /\ UNCHANGED <<pageVars, toSwift, isPageReady>>
  <1>1. /\ reviewResults # <<>> /\ reviewResults' = Tail(reviewResults)
        /\ UNCHANGED <<worktreeVars, disk, snapshot, snapshotCount, status, banner, readFiles, opening, pageHasSelection>>
        /\ UNCHANGED <<readAfterRead, changed, patchQueue, patchResults, asked, reviewQueue>>
        /\ UNCHANGED <<pageVars, toSwift, isPageReady>>
    BY DEF TakeReviewResult
  <1>2. /\ review' = IF ResultApplies(m) THEN m.state ELSE review
    BY DEF TakeReviewResult, ResultApplies
  <1>3. /\ explanation' = NotesAfter(m).expl /\ explanationVersion' = NotesAfter(m).version
        /\ pageNotesVersion' = NotesAfter(m).pageVersion /\ explanationWaits' = NotesAfter(m).waits
        /\ pending' = NotesAfter(m).pending /\ held' = NotesAfter(m).held
    <2>1. /\ explanation' = NotesAfter(Head(reviewResults)).expl
          /\ explanationVersion' = NotesAfter(Head(reviewResults)).version
          /\ pageNotesVersion' = NotesAfter(Head(reviewResults)).pageVersion
          /\ explanationWaits' = NotesAfter(Head(reviewResults)).waits
          /\ pending' = NotesAfter(Head(reviewResults)).pending
          /\ held' = NotesAfter(Head(reviewResults)).held
      BY DEF TakeReviewResult, NotesAfter, AllMarked
    <2> QED BY <2>1
  <1>4. \E newer \in BOOLEAN : reading' = [reading EXCEPT !.newer = newer]
    <2>1. PICK newer \in BOOLEAN : newer = (reading.newer \/ (IsReading /\ (m.kind = "reload"
                            \/ (HasSnapshot /\ \E i \in DOMAIN m.changes : m.changes[i].type = "markWrong"))))
      OBVIOUS
    <2>2. reading' = [reading EXCEPT !.newer = newer]
      BY <2>1 DEF TakeReviewResult
    <2> QED BY <2>2
  <1>5. /\ acknowledged' = IF AnswersClicks(m) THEN Max({acknowledged, LastClick(m)}) ELSE acknowledged
        /\ waiting' = IF AnswersClicks(m) THEN 0 ELSE LastClick(m)
    BY DEF TakeReviewResult, AnswersClicks, LastClick
  <1>6. Sends(ReviewSentFor(m) \o NotesAfter(m).out \o AnswerSentFor(m, review'.marks))
    <2>1. Sends(ReviewSentFor(Head(reviewResults)) \o NotesAfter(Head(reviewResults)).out
                  \o AnswerSentFor(Head(reviewResults), review'.marks))
      BY DEF TakeReviewResult, ReviewSentFor, ResultApplies, NotesAfter, AllMarked, AnswerSentFor, AnswersClicks, LastClick
    <2> QED BY <2>1
  <1> QED BY <1>1, <1>2, <1>3, <1>4, <1>5, <1>6

LEMMA TakeReviewResultKeeps ==
  ASSUME IInv, TakeReviewResult
  PROVE  IInv'
  <1>1. /\ ShownTyped /\ ReadTyped /\ WriteTyped /\ ChangesTrue /\ AnswersNumbered /\ MarksWhatWasSeen
        /\ toPage \in Seq(Message) /\ toSwift \in Seq(Request) /\ snapshot \in Snapshot /\ snapshotCount \in Nat
        /\ readFiles \in Lines(Files) /\ acknowledged \in Nat /\ review \in Record
        /\ pageHasSelection \in BOOLEAN /\ isPageReady \in BOOLEAN
    BY ColumnIs, FilesAssumption DEF Lines
  <1>2. reviewResults # <<>> /\ reviewResults' = Tail(reviewResults)
    BY DEF TakeReviewResult
  <1>3. PICK m : m = Head(reviewResults)
    OBVIOUS
  <1>4. m \in Result /\ m.state \in Record /\ m.changes \in Seq(Change)
    BY <1>2, <1>3, AnswerNumbered, ResultIs
  <1>5. PICK s : s = NotesAfter(m)
    OBVIOUS
  <1>6. s \in NotesType
    BY <1>4, <1>5, NotesTyped, AdoptedTyped, AllMarkedTyped DEF NotesAfter
  <1>7. PICK last : last = LastClick(m)
    OBVIOUS
  <1>8. PICK answered : answered = Max({acknowledged, last})
    OBVIOUS
  <1>9. last \in 0..clickCount /\ clickCount \in Nat
    <2>1. PICK all : all = {waiting} \cup {m.changes[i].sequence : i \in DOMAIN m.changes}
      OBVIOUS
    <2>2. all \in SUBSET (0..clickCount) /\ all # {} /\ clickCount \in Nat
      BY <1>2, <1>3, <2>1, AnswerNumbered
    <2>3. last = Max(all)
      BY <1>7, <2>1 DEF LastClick
    <2> QED BY <2>2, <2>3, MaxBounded
  <1>10. answered \in 0..clickCount /\ answered \in Nat
    <2>1. {acknowledged, last} \in SUBSET (0..clickCount)
      BY <1>1, <1>9 DEF AnswersNumbered
    <2> QED BY <1>8, <1>9, <2>1, MaxBounded
  <1>11. PICK sent, told : sent = ReviewSentFor(m) /\ told = AnswerSentFor(m, review'.marks)
    OBVIOUS
  <1>12. /\ review' = IF ResultApplies(m) THEN m.state ELSE review
         /\ explanation' = s.expl /\ explanationVersion' = s.version
         /\ pageNotesVersion' = s.pageVersion /\ explanationWaits' = s.waits
         /\ pending' = s.pending /\ held' = s.held
         /\ \E newer \in BOOLEAN : reading' = [reading EXCEPT !.newer = newer]
         /\ acknowledged' = IF AnswersClicks(m) THEN answered ELSE acknowledged
         /\ waiting' = IF AnswersClicks(m) THEN 0 ELSE last
         /\ Sends(sent \o s.out \o told)
    BY <1>3, <1>5, <1>7, <1>8, <1>11, ResultTaken
  <1>13. /\ UNCHANGED <<worktreeVars, disk, snapshot, snapshotCount, status, banner, readFiles, opening, pageHasSelection>>
         /\ UNCHANGED <<readAfterRead, changed, patchQueue, patchResults, asked, reviewQueue>>
         /\ UNCHANGED <<pageVars, toSwift, isPageReady>>
    BY <1>3, ResultTaken
  <1>14. review' \in Record /\ review'.marks \in [Files -> Mark]
    BY <1>1, <1>4, <1>12 DEF Record
  <1>15. ShownTyped' /\ Turns
    <2>1. /\ s.expl \in Explained /\ s.version \in Nat /\ s.pageVersion \in Nat /\ s.waits \in BOOLEAN
          /\ s.pending \in Read /\ s.held \in Read
      BY <1>6, NotesIs
    <2> QED BY <1>1, <1>12, <1>13, <2>1 DEF ShownTyped, Turns
  <1>16. ReadTyped'
    BY <1>1, <1>12, <1>13 DEF ReadTyped, worktreeVars
  <1>17. SentNow
    <2>1. m.state.marks \in [Files -> Mark]
      BY <1>4 DEF Record
    <2>2. /\ <<>> \in Seq(Sent(snapshotCount, snapshot.files))
          /\ s.out \in Seq(Sent(snapshotCount, snapshot.files))
          /\ ReviewMessage(readFiles, m.state.marks, acknowledged) \in Seq(Sent(snapshotCount, snapshot.files))
          /\ ReviewMessage(readFiles, review'.marks, answered) \in Seq(Sent(snapshotCount, snapshot.files))
      BY <1>1, <1>6, <1>10, <1>14, <2>1, NotesIs, ReviewSent, EmptySeq
    <2>3. sent \in {<<>>, ReviewMessage(readFiles, m.state.marks, acknowledged)}
          /\ told \in {<<>>, ReviewMessage(readFiles, review'.marks, answered)}
      BY <1>7, <1>8, <1>11 DEF ReviewSentFor, AnswerSentFor
    <2>4. sent \o s.out \o told \in Seq(Sent(snapshotCount, snapshot.files))
      <3>1. sent \in Seq(Sent(snapshotCount, snapshot.files)) /\ told \in Seq(Sent(snapshotCount, snapshot.files))
        BY <2>2, <2>3
      <3>2. sent \o s.out \in Seq(Sent(snapshotCount, snapshot.files))
        BY <2>2, <3>1, ElemsConcat
      <3> QED BY <3>1, <3>2, ElemsConcat
    <2> QED BY <1>1, <1>12, <1>13, <2>4, SendsKeep
  <1>18. reviewResults' \in Seq(Result) /\ Elems(reviewResults') \subseteq Elems(reviewResults)
    BY <1>1, <1>2, ElemsTail DEF WriteTyped
  <1>19. WriteTyped' /\ ChangesTrue' /\ MarksWhatWasSeen'
    BY <1>1, <1>13, <1>14, <1>18 DEF WriteTyped, ChangesTrue, MarksWhatWasSeen
  <1>20. AnswersNumbered'
    BY <1>1, <1>9, <1>10, <1>12, <1>13, <1>18 DEF AnswersNumbered, pageVars
  <1>21. toSwift' \in Seq(Request) /\ Elems(toSwift') \subseteq Elems(toSwift)
         /\ pageHasSelection' \in BOOLEAN /\ isPageReady' \in BOOLEAN
    BY <1>1, <1>13
  <1> QED BY <1>13, <1>15, <1>16, <1>17, <1>19, <1>20, <1>21, ColumnStep

-----------------------------------------------------------------------------
(* What leads the page to the review file's marks                          *)

\* How each file of a page is marked.
StatesOf(files, read, marks) ==
    [p \in DOMAIN files |-> ReviewedState(marks[p].ver, PatchHash(files, read, p))]

\* What the page shows of a generation's marks, and what the column would have it show.
Viewed == [gen : Nat, states : States]
PageView == [gen |-> page.gen, states |-> stored.states]
ColumnView == [gen |-> snapshotCount, states |-> StatesOf(snapshot.files, readFiles, review.marks)]

\* The page takes a message: a review comes while its generation is shown.
Taken ==
    {step \in Viewed \X Message \X Viewed :
       LET m == step[2] IN
         /\ m.type = "show" => step[3] = [gen |-> m.page.gen, states |-> m.review.states]
         /\ m.type = "showReview" => /\ m.review.gen = step[1].gen
                                     /\ step[3] = [gen |-> step[1].gen, states |-> m.review.states]
         /\ m.type \notin {"show", "showReview"} => step[3] = step[1]}

\* Taking ms, the page comes from v to w.
Leads(v, ms, w) ==
    \E run \in [0..Len(ms) -> Viewed] :
        /\ run[0] = v /\ run[Len(ms)] = w
        /\ \A i \in 1..Len(ms) : <<run[i - 1], ms[i], run[i]>> \in Taken

\* Once it has taken what is on its way, the page shows the column's review.
PageLeads == isPageReady => \E w \in Viewed : Leads(PageView, toPage, w) /\ (~status => w = ColumnView)

\* An answer the column takes for the page it shows.
Opens(r) == r.kind # "open" \/ r.gen = snapshotCount

\* The review file's marks are the column's, or the last answer brings them.
MarksLead ==
    HasSnapshot =>
      \/ opening = snapshotCount
      \/ \E i \in DOMAIN reviewResults :
           /\ Opens(reviewResults[i]) /\ reviewResults[i].state.marks = disk.marks
           /\ \A j \in DOMAIN reviewResults : j > i => ~Opens(reviewResults[j])
      \/ (\A r \in Elems(reviewResults) : ~Opens(r)) /\ review.marks = disk.marks

\* The answer of the clicks up to q is still to come.
AnswerComes(q) ==
    \/ \E m \in Elems(toSwift) : m.type = "reviewed" /\ m.sequence >= q
    \/ \E c \in Elems(asked) : c.sequence >= q
    \/ \E r \in Elems(reviewResults) : \E c \in Elems(r.changes) : c.sequence >= q
    \/ waiting >= q /\ Writing
    \/ acknowledged >= q /\ status
    \/ \E m \in Elems(toPage) : m.type \in {"show", "showReview"} /\ m.review.acknowledged >= q

ClicksLead == \A p \in DOMAIN clicks : AnswerComes(clicks[p].sequence)

\* What is asked is written, and only a write answers it.
Queued ==
    /\ asked # <<>> => "write" \in Elems(reviewQueue)
    /\ \A r \in Elems(reviewResults) : r.kind # "write" => r.changes = <<>>

\* A page that died knows nothing.
Gone == ~isPageReady => clicks = Empty /\ toPage = <<>> /\ page.gen = 0

\* A status shows when no branch does; what waits to be shown is of a branch.
Real ==
    /\ status = ~HasSnapshot
    /\ pending # NoRead => pending.head # 0
    /\ held # NoRead => held.head # 0
    /\ reading.found = "read" => reading.read.head # 0

\* Each of Claude's notes is of a run.
Runs ==
    /\ disk.expl.run # 0
    /\ \A r \in Elems(reviewResults) : r.state.expl.run # 0

Answering == Real /\ Runs /\ Queued /\ Gone /\ MarksLead /\ PageLeads /\ ClicksLead

-----------------------------------------------------------------------------
(* Messages that lead on                                                   *)

LEMMA NothingLeads ==
  ASSUME NEW v \in Viewed
  PROVE  Leads(v, <<>>, v)
  <1> DEFINE run == [i \in 0..Len(<<>>) |-> v]
  <1>1. Len(<<>>) = 0
    OBVIOUS
  <1>2. run \in [0..Len(<<>>) -> Viewed] /\ run[0] = v /\ run[Len(<<>>)] = v
    BY <1>1
  <1>3. \A i \in 1..Len(<<>>) : FALSE
    BY <1>1
  <1> HIDE DEF run
  <1> QED BY <1>2, <1>3 DEF Leads

LEMMA NothingLed ==
  ASSUME NEW v, NEW w, Leads(v, <<>>, w)
  PROVE  w = v
  BY Len(<<>>) = 0 DEF Leads

LEMMA OneLeads ==
  ASSUME NEW v \in Viewed, NEW w \in Viewed, NEW m, <<v, m, w>> \in Taken
  PROVE  Leads(v, <<m>>, w)
  <1> DEFINE run == [i \in 0..1 |-> IF i = 0 THEN v ELSE w]
  <1>1. Len(<<m>>) = 1 /\ <<m>>[1] = m
    OBVIOUS
  <1>2. run \in [0..1 -> Viewed] /\ run[0] = v /\ run[1] = w
    OBVIOUS
  <1>3. \A i \in 1..1 : <<run[i - 1], <<m>>[i], run[i]>> \in Taken
    BY <1>1, <1>2
  <1> HIDE DEF run
  <1> QED BY <1>1, <1>2, <1>3 DEF Leads

LEMMA LeadsOn ==
  ASSUME NEW v, NEW w, NEW u, NEW ms \in Seq(Message), NEW more \in Seq(Message),
         Leads(v, ms, w), Leads(w, more, u)
  PROVE  Leads(v, ms \o more, u)
  <1>1. PICK run \in [0..Len(ms) -> Viewed] :
          /\ run[0] = v /\ run[Len(ms)] = w
          /\ \A i \in 1..Len(ms) : <<run[i - 1], ms[i], run[i]>> \in Taken
    BY DEF Leads
  <1>2. PICK next \in [0..Len(more) -> Viewed] :
          /\ next[0] = w /\ next[Len(more)] = u
          /\ \A i \in 1..Len(more) : <<next[i - 1], more[i], next[i]>> \in Taken
    BY DEF Leads
  <1>3. PICK n, k : n = Len(ms) /\ k = Len(more)
    OBVIOUS
  <1>4. n \in Nat /\ k \in Nat
    BY <1>3, LenProperties
  <1>5. PICK all : all = ms \o more
    OBVIOUS
  <1>6. Len(all) = n + k /\ \A i \in 1..(n + k) : all[i] = IF i <= n THEN ms[i] ELSE more[i - n]
    BY <1>3, <1>4, <1>5, ConcatProperties
  <1> DEFINE whole == [i \in 0..(n + k) |-> IF i <= n THEN run[i] ELSE next[i - n]]
  <1>7. whole \in [0..(n + k) -> Viewed] /\ whole[0] = v /\ whole[n + k] = u
    BY <1>1, <1>2, <1>3, <1>4
  <1>8. ASSUME NEW i \in 1..(n + k) PROVE <<whole[i - 1], all[i], whole[i]>> \in Taken
    <2>1. CASE i <= n
      <3>1. i \in 1..n /\ whole[i - 1] = run[i - 1] /\ whole[i] = run[i] /\ all[i] = ms[i]
        BY <1>4, <1>6, <2>1
      <3> QED BY <3>1, <1>1, <1>3
    <2>2. CASE i > n
      <3>1. PICK j : j = i - n
        OBVIOUS
      <3>2. j \in 1..k /\ whole[i] = next[j] /\ all[i] = more[j]
        BY <1>4, <1>6, <2>2, <3>1
      <3>3. whole[i - 1] = next[j - 1]
        <4>1. CASE j = 1
          <5>1. i - 1 = n /\ n \in 0..(n + k) /\ n <= n /\ j - 1 = 0
            BY <4>1, <1>4, <3>1
          <5>2. whole[n] = run[n]
            BY <5>1
          <5>3. run[n] = w /\ next[0] = w
            BY <1>1, <1>2, <1>3
          <5> QED BY <5>1, <5>2, <5>3
        <4>2. CASE j # 1
          <5>1. i - 1 \in 0..(n + k) /\ ~(i - 1 <= n) /\ (i - 1) - n = j - 1
            BY <4>2, <1>4, <3>1, <3>2
          <5> QED BY <5>1
        <4> QED BY <4>1, <4>2
      <3>4. <<next[j - 1], more[j], next[j]>> \in Taken
        BY <1>2, <1>3, <3>2
      <3> QED BY <3>2, <3>3, <3>4
    <2> QED BY <2>1, <2>2, <1>4
  <1> HIDE DEF whole
  <1> QED BY <1>5, <1>6, <1>7, <1>8 DEF Leads

LEMMA RestLeads ==
  ASSUME NEW v, NEW w, NEW ms \in Seq(Message), ms # <<>>, Leads(v, ms, w)
  PROVE  \E u \in Viewed : <<v, Head(ms), u>> \in Taken /\ Leads(u, Tail(ms), w)
  <1>1. PICK run \in [0..Len(ms) -> Viewed] :
          /\ run[0] = v /\ run[Len(ms)] = w
          /\ \A i \in 1..Len(ms) : <<run[i - 1], ms[i], run[i]>> \in Taken
    BY DEF Leads
  <1>2. PICK n : n = Len(ms)
    OBVIOUS
  <1>3. n \in Nat \ {0} /\ Head(ms) = ms[1]
    BY <1>2, EmptySeq
  <1>4. PICK rest : rest = Tail(ms)
    OBVIOUS
  <1>5. Len(rest) = n - 1 /\ \A i \in 1..(n - 1) : rest[i] = ms[i + 1]
    BY <1>2, <1>4, HeadTailProperties
  <1>6. run[1] \in Viewed /\ <<v, ms[1], run[1]>> \in Taken
    <2>1. 1 \in 1..n /\ 1 \in 0..n /\ 1 - 1 = 0
      BY <1>3
    <2> QED BY <1>1, <1>2, <2>1
  <1> DEFINE shorter == [i \in 0..(n - 1) |-> run[i + 1]]
  <1>7. shorter \in [0..(n - 1) -> Viewed] /\ shorter[0] = run[1] /\ shorter[n - 1] = w
    BY <1>1, <1>2, <1>3
  <1>8. ASSUME NEW i \in 1..(n - 1) PROVE <<shorter[i - 1], rest[i], shorter[i]>> \in Taken
    <2>1. i + 1 \in 1..n /\ shorter[i - 1] = run[i] /\ shorter[i] = run[i + 1] /\ rest[i] = ms[i + 1]
      BY <1>3, <1>5
    <2>2. PICK j : j = i + 1
      OBVIOUS
    <2>3. j \in 1..n /\ j - 1 = i
      BY <2>1, <2>2
    <2>4. <<run[j - 1], ms[j], run[j]>> \in Taken
      BY <1>1, <1>2, <2>3
    <2> QED BY <2>1, <2>2, <2>3, <2>4
  <1>9. Leads(run[1], rest, w)
    <2> HIDE DEF shorter
    <2> QED BY <1>5, <1>7, <1>8 DEF Leads
  <1> QED BY <1>3, <1>4, <1>6, <1>9

LEMMA TakenIs ==
  ASSUME NEW v \in Viewed, NEW m \in Message, NEW w \in Viewed
  PROVE  <<v, m, w>> \in Taken <=>
           /\ m.type = "show" => w = [gen |-> m.page.gen, states |-> m.review.states]
           /\ m.type = "showReview" => m.review.gen = v.gen /\ w = [gen |-> v.gen, states |-> m.review.states]
           /\ m.type \notin {"show", "showReview"} => w = v
  BY DEF Taken

\* The elements of what is appended to, or of what is left.
LEMMA ElemsKept ==
  ASSUME NEW S, NEW s \in Seq(S), NEW t \in Seq(S)
  PROVE  Elems(s) \subseteq Elems(s \o t) /\ Elems(t) \subseteq Elems(s \o t)
  <1>1. PICK n, k : n = Len(s) /\ k = Len(t)
    OBVIOUS
  <1>2. PICK all : all = s \o t
    OBVIOUS
  <1>3. /\ n \in Nat /\ k \in Nat /\ DOMAIN s = 1..n /\ DOMAIN t = 1..k /\ DOMAIN all = 1..(n + k)
        /\ \A i \in 1..(n + k) : all[i] = IF i <= n THEN s[i] ELSE t[i - n]
    BY <1>1, <1>2, ConcatProperties, LenProperties
  <1>4. ASSUME NEW i \in 1..n PROVE s[i] \in Elems(all)
    <2>1. i \in 1..(n + k) /\ i <= n
      BY <1>3
    <2> QED BY <1>3, <2>1 DEF Elems
  <1>5. ASSUME NEW i \in 1..k PROVE t[i] \in Elems(all)
    <2>1. n + i \in 1..(n + k) /\ ~(n + i <= n) /\ (n + i) - n = i
      BY <1>3
    <2> QED BY <1>3, <2>1 DEF Elems
  <1> QED BY <1>2, <1>3, <1>4, <1>5 DEF Elems

LEMMA ElemsRest ==
  ASSUME NEW S, NEW s \in Seq(S), s # <<>>, NEW e \in Elems(s), e # Head(s)
  PROVE  e \in Elems(Tail(s))
  <1>1. PICK n, rest : n = Len(s) /\ rest = Tail(s)
    OBVIOUS
  <1>2. /\ n \in Nat \ {0} /\ Head(s) = s[1] /\ DOMAIN s = 1..n
        /\ DOMAIN rest = 1..(n - 1) /\ \A i \in 1..(n - 1) : rest[i] = s[i + 1]
    BY <1>1, HeadTailProperties, LenProperties, EmptySeq
  <1>3. PICK i \in 1..n : e = s[i] /\ i # 1
    BY <1>2 DEF Elems
  <1>4. i - 1 \in 1..(n - 1) /\ (i - 1) + 1 = i
    BY <1>2, <1>3
  <1>5. rest[i - 1] = e
    BY <1>2, <1>3, <1>4
  <1> QED BY <1>1, <1>2, <1>4, <1>5 DEF Elems

-----------------------------------------------------------------------------
(* What each message leads to                                              *)

LEMMA StatesTyped ==
  ASSUME NEW files \in Shot, NEW read, NEW marks
  PROVE  /\ StatesOf(files, read, marks) \in States
         /\ \A gen, ack : PageReview(files, read, gen, marks, ack).states = StatesOf(files, read, marks)
  <1>1. StatesOf(files, read, marks) \in [DOMAIN files -> {"none", "reviewed", "changed"}]
    BY DEF StatesOf, ReviewedState
  <1> QED BY <1>1, IsShot DEF States, StatesOf, PageReview

LEMMA ViewsTyped ==
  ASSUME IInv
  PROVE  /\ PageView \in Viewed /\ ColumnView \in Viewed /\ snapshot.files \in Shot
         /\ \A read, marks : [gen |-> snapshotCount, states |-> StatesOf(snapshot.files, read, marks)] \in Viewed
  <1>1. snapshot.files \in Shot /\ snapshotCount \in Nat
    BY ColumnIs DEF Snapshot
  <1>2. \A read, marks : StatesOf(snapshot.files, read, marks) \in States
    BY <1>1, StatesTyped
  <1>3. page.gen \in Nat /\ stored.states \in States
    BY PageIs DEF Page, Review
  <1> QED BY <1>1, <1>2, <1>3 DEF PageView, ColumnView, Viewed

\* A diff, an answer of a note, a banner or a status.
Plain == {m \in Message : m.type \notin {"show", "showReview"}}

LEMMA PlainLeads ==
  ASSUME NEW v \in Viewed, NEW m \in Plain
  PROVE  Leads(v, <<m>>, v) /\ <<m>> \in Seq(Message) /\ Leads(v, <<>>, v) /\ <<>> \in Seq(Message)
  <1>1. m \in Message /\ m.type \notin {"show", "showReview"}
    BY DEF Plain
  <1>2. <<v, m, v>> \in Taken
    BY <1>1, TakenIs
  <1> QED BY <1>1, <1>2, OneLeads, NothingLeads, EmptySeq

LEMMA PlainAre ==
  /\ \A type \in {"showReload", "hideReload", "showStatus"} : [type |-> type] \in Plain
  /\ \A id \in Nat, wrong \in {"wrong", "right", "kept"}, versions \in Versions :
       NoteAnswer(id, wrong, versions) \in Plain
  BY DEF Plain, Message, Other, NoteAnswer

\* A page leads to its own marks.
LEMMA PageTold ==
  ASSUME acknowledged \in Nat, NEW files \in Shot, NEW read \in Lines(Files), NEW gen \in Nat,
         NEW version \in Nat, NEW marks \in [Files -> Mark], NEW v \in Viewed
  PROVE  /\ <<ShowPage(files, read, gen, version, marks)>> \in Seq(Message)
         /\ Leads(v, <<ShowPage(files, read, gen, version, marks)>>,
                  [gen |-> gen, states |-> StatesOf(files, read, marks)])
         /\ ShowPage(files, read, gen, version, marks).type = "show"
         /\ ShowPage(files, read, gen, version, marks).review.acknowledged = acknowledged
  <1>1. PICK m : m = ShowPage(files, read, gen, version, marks)
    OBVIOUS
  <1>2. m \in Message
    BY <1>1, ShowPageSent DEF Sent
  <1>3. PICK states : states = StatesOf(files, read, marks)
    OBVIOUS
  <1>4. states \in States /\ [gen |-> gen, states |-> states] \in Viewed
    BY <1>3, StatesTyped DEF Viewed
  <1>5. PICK shown : shown = PageReview(files, read, gen, marks, acknowledged)
    OBVIOUS
  <1>6. shown.states = states /\ shown.acknowledged = acknowledged
    BY <1>3, <1>5, StatesTyped DEF PageReview
  <1>7. m = [type |-> "show", page |-> [gen |-> gen, files |-> files, notesVersion |-> version], review |-> shown]
    BY <1>1, <1>5 DEF ShowPage
  <1>8. m.type = "show" /\ m.page.gen = gen /\ m.review.states = states /\ m.review.acknowledged = acknowledged
    BY <1>6, <1>7
  <1>9. <<v, m, [gen |-> gen, states |-> states]>> \in Taken
    BY <1>2, <1>4, <1>8, TakenIs
  <1> QED BY <1>1, <1>2, <1>3, <1>4, <1>8, <1>9, OneLeads

\* A review leads the generation shown to its marks.
LEMMA ReviewTold ==
  ASSUME IInv, NEW read \in Lines(Files), NEW marks \in [Files -> Mark], NEW ack \in Nat,
         NEW states \in States
  PROVE  /\ ReviewMessage(read, marks, ack) \in Seq(Message)
         /\ ~status => /\ Leads([gen |-> snapshotCount, states |-> states], ReviewMessage(read, marks, ack),
                                [gen |-> snapshotCount, states |-> StatesOf(snapshot.files, read, marks)])
                       /\ \E m \in Elems(ReviewMessage(read, marks, ack)) :
                            m.type = "showReview" /\ m.review.acknowledged = ack
         /\ status => ReviewMessage(read, marks, ack) = <<>>
  <1>0. snapshot \in Snapshot /\ snapshotCount \in Nat /\ snapshot.files \in Shot
    BY ColumnIs, ViewsTyped
  <1>1. PICK shown : shown = PageReview(snapshot.files, read, snapshotCount, marks, ack)
    OBVIOUS
  <1>2. shown \in Review /\ shown.gen = snapshotCount /\ shown.acknowledged = ack
    BY <1>0, <1>1, PageReviewTyped DEF PageReview
  <1>3. shown.states = StatesOf(snapshot.files, read, marks)
    BY <1>0, <1>1, StatesTyped
  <1>4. PICK m : m = [type |-> "showReview", review |-> shown]
    OBVIOUS
  <1>5. m \in Message /\ m.type = "showReview" /\ m.review = shown
    BY <1>2, <1>4 DEF Message, Other
  <1>6. ReviewMessage(read, marks, ack) = IF status THEN <<>> ELSE <<m>>
    BY <1>1, <1>4 DEF ReviewMessage
  <1>7. PICK v, w : v = [gen |-> snapshotCount, states |-> states] /\ w = [gen |-> snapshotCount, states |-> shown.states]
    OBVIOUS
  <1>8. v \in Viewed /\ w \in Viewed /\ v.gen = snapshotCount
    BY <1>0, <1>2, <1>7 DEF Viewed, Review
  <1>9. <<v, m, w>> \in Taken
    BY <1>2, <1>5, <1>7, <1>8, TakenIs
  <1>10. Leads(v, <<m>>, w)
    BY <1>8, <1>9, OneLeads
  <1>11. <<m>> \in Seq(Message) /\ <<>> \in Seq(Message) /\ Elems(<<m>>) = {m}
    BY <1>5, OneOf, EmptySeq
  <1>12. CASE status
    BY <1>6, <1>11, <1>12
  <1>13. CASE ~status
    BY <1>2, <1>3, <1>5, <1>6, <1>7, <1>10, <1>11, <1>13
  <1> QED BY <1>12, <1>13

\* The page shown again leads to the marks it is given.
LEMMA CurrentTold ==
  ASSUME IInv, NEW version \in Nat, NEW marks \in [Files -> Mark], NEW v \in Viewed
  PROVE  /\ Current(version, marks) \in Seq(Message)
         /\ HasSnapshot => Leads(v, Current(version, marks),
                                 [gen |-> snapshotCount, states |-> StatesOf(snapshot.files, readFiles, marks)])
         /\ ~HasSnapshot => Leads(v, Current(version, marks), v)
  <1>0. /\ snapshot.files \in Shot /\ snapshotCount \in Nat /\ acknowledged \in Nat /\ readFiles \in Lines(Files)
        /\ [gen |-> snapshotCount, states |-> StatesOf(snapshot.files, readFiles, marks)] \in Viewed
    BY ColumnIs, ViewsTyped, FilesAssumption DEF Lines
  <1>1. CASE ~HasSnapshot
    BY <1>1, PlainAre, PlainLeads DEF Current
  <1>2. CASE HasSnapshot
    <2>1. PICK w : w = [gen |-> snapshotCount, states |-> StatesOf(snapshot.files, readFiles, marks)]
      OBVIOUS
    <2>2. PICK ms : ms = <<ShowPage(snapshot.files, readFiles, snapshotCount, version, marks)>>
      OBVIOUS
    <2>3. PICK more : more = IF banner = "none" THEN <<>> ELSE <<[type |-> "showReload"]>>
      OBVIOUS
    <2>4. ms \in Seq(Message) /\ Leads(v, ms, w)
      BY <1>0, <2>1, <2>2, PageTold
    <2>5. more \in Seq(Message) /\ Leads(w, more, w)
      <3>1. w \in Viewed
        BY <1>0, <2>1
      <3> QED BY <2>3, <3>1, PlainAre, PlainLeads
    <2>6. Current(version, marks) = ms \o more
      BY <1>2, <2>2, <2>3 DEF Current
    <2>7. ms \o more \in Seq(Message)
      BY <2>4, <2>5, ElemsConcat
    <2> QED BY <1>2, <2>1, <2>4, <2>5, <2>6, <2>7, LeadsOn
  <1> QED BY <1>1, <1>2

-----------------------------------------------------------------------------
(* What the column sends                                                   *)

\* ms lead from the column's view to what it becomes.
Brings(ms) ==
    \A v \in Viewed : (~status => v = ColumnView) =>
        \E w \in Viewed : Leads(v, ms, w) /\ (~status' => w = ColumnView')

LEMMA PlainBrings ==
  ASSUME NEW m \in Plain, NEW ms \in {<<>>, <<m>>}, ~status' => ~status /\ ColumnView' = ColumnView
  PROVE  Brings(ms) /\ ms \in Seq(Message)
  <1>1. \A v \in Viewed : Leads(v, ms, v)
    BY PlainLeads
  <1>2. <<m>> \in Seq(Message) /\ <<>> \in Seq(Message)
    BY OneOf, EmptySeq DEF Plain
  <1> QED BY <1>1, <1>2 DEF Brings

LEMMA BringsOn ==
  ASSUME NEW ms \in Seq(Message), Brings(ms), PageLeads, isPageReady' = isPageReady, Sends(ms),
         UNCHANGED <<page, stored>>, toPage \in Seq(Message)
  PROVE  PageLeads'
  <1> SUFFICES ASSUME isPageReady PROVE \E w \in Viewed : Leads(PageView, toPage', w) /\ (~status' => w = ColumnView')
    BY DEF PageLeads, PageView
  <1>1. PICK v \in Viewed : Leads(PageView, toPage, v) /\ (~status => v = ColumnView)
    BY DEF PageLeads
  <1>2. PICK w \in Viewed : Leads(v, ms, w) /\ (~status' => w = ColumnView')
    BY <1>1 DEF Brings
  <1>3. toPage' = toPage \o ms
    BY DEF Sends
  <1>4. Leads(PageView, toPage \o ms, w)
    BY <1>1, <1>2, LeadsOn
  <1> QED BY <1>2, <1>3, <1>4

\* What was said stays to be taken, and so does what is sent.
LEMMA SendsMore ==
  ASSUME NEW ms \in Seq(Message), Sends(ms), toPage \in Seq(Message)
  PROVE  /\ Elems(toPage) \subseteq Elems(toPage')
         /\ isPageReady => Elems(ms) \subseteq Elems(toPage')
  BY ElemsKept DEF Sends

LEMMA NoneSent ==
  ASSUME toPage \in Seq(Message), toPage' = toPage
  PROVE  Sends(<<>>)
  <1>1. toPage \o <<>> = toPage
    OBVIOUS
  <1> QED BY <1>1 DEF Sends

\* A step of the column, of what it is asked, or of the review's queue.
LEMMA ColumnLeads ==
  ASSUME IInv, Answering, UNCHANGED <<pageVars, isPageReady>>,
         NEW ms \in Seq(Message), Sends(ms), Brings(ms),
         Real', Runs', Queued', MarksLead',
         \A q \in Nat \ {0} : isPageReady /\ AnswerComes(q) => AnswerComes(q)'
  PROVE  Answering'
  <1>1. UNCHANGED <<page, stored, clicks>>
    BY DEF pageVars
  <1>2. PageLeads'
    BY <1>1, BringsOn, ColumnIs DEF Answering
  <1>3. Gone'
    BY <1>1 DEF Answering, Gone, Sends
  <1>4. ClicksLead'
    <2> SUFFICES ASSUME NEW p \in DOMAIN clicks PROVE AnswerComes(clicks[p].sequence)'
      BY <1>1 DEF ClicksLead
    <2>1. isPageReady
      BY DEF Answering, Gone, Empty
    <2>2. AnswerComes(clicks[p].sequence)
      BY DEF Answering, ClicksLead
    <2>3. PICK q : q = clicks[p].sequence
      OBVIOUS
    <2>4. q \in Nat \ {0}
      BY <2>3 DEF IInv, ClicksNumbered
    <2>5. AnswerComes(q)'
      BY <2>1, <2>2, <2>3, <2>4
    <2>6. q = (clicks[p].sequence)'
      BY <1>1, <2>3
    <2> QED BY <2>5, <2>6 DEF AnswerComes
  <1> QED BY <1>2, <1>3, <1>4 DEF Answering

\* What answers the clicks stays, while nothing writes: a page shown in a
\* status's place answers them as it would have.
LEMMA AnswersStay ==
  ASSUME UNCHANGED writeVars, Elems(toPage) \subseteq Elems(toPage'),
         \A m \in Elems(toSwift) : m.type = "reviewed" => m \in Elems(toSwift'),
         status => status' \/ \E m \in Elems(toPage') : m.type = "show" /\ m.review.acknowledged = acknowledged,
         NEW q, AnswerComes(q)
  PROVE  AnswerComes(q)'
  <1>1. UNCHANGED <<asked, reviewResults, waiting, acknowledged, Writing>>
    BY DEF writeVars, Writing
  <1>2. CASE acknowledged >= q /\ status
    BY <1>1, <1>2 DEF AnswerComes
  <1>3. CASE ~(acknowledged >= q /\ status)
    BY <1>1, <1>3 DEF AnswerComes
  <1> QED BY <1>2, <1>3

-----------------------------------------------------------------------------
(* The page's steps lead on                                                *)

\* Of what the column holds.
LEMMA ColumnStays ==
  ASSUME Answering, UNCHANGED <<disk, columnVars>>
  PROVE  Real' /\ Runs' /\ Queued' /\ MarksLead' /\ ColumnView' = ColumnView
  BY DEF columnVars, shownVars, readVars, writeVars, Answering, Real, Runs, Queued, MarksLead, ColumnView,
         HasSnapshot, Opens

\* The user acts on the page: what it asks is appended.
LEMMA UserLeads ==
  ASSUME Answering, UNCHANGED <<disk, columnVars, isPageReady, page, stored, toPage>>,
         Elems(toSwift) \subseteq Elems(toSwift'), Shows \/ clicks' = clicks,
         \A p \in DOMAIN clicks' :
           \/ p \in DOMAIN clicks /\ clicks'[p] = clicks[p]
           \/ \E m \in Elems(toSwift') : m.type = "reviewed" /\ m.sequence >= (clicks'[p]).sequence
  PROVE  Answering'
  <1>1. Real' /\ Runs' /\ Queued' /\ MarksLead' /\ ColumnView' = ColumnView
    BY ColumnStays
  <1>2. status' = status
    BY DEF columnVars, shownVars
  <1>3. PageLeads'
    BY <1>1, <1>2 DEF Answering, PageLeads, PageView
  <1>4. Gone'
    BY DEF Answering, Gone, Shows
  <1>5. ASSUME NEW q, AnswerComes(q) PROVE AnswerComes(q)'
    <2>1. UNCHANGED writeVars
      BY DEF columnVars
    <2> QED BY <1>2, <1>5, <2>1, AnswersStay
  <1>6. ClicksLead'
    <2> SUFFICES ASSUME NEW p \in DOMAIN clicks' PROVE AnswerComes((clicks[p]).sequence)'
      BY DEF ClicksLead
    <2>1. CASE p \in DOMAIN clicks /\ clicks'[p] = clicks[p]
      <3>1. AnswerComes(clicks[p].sequence)
        BY <2>1 DEF Answering, ClicksLead
      <3>2. PICK q : q = clicks[p].sequence
        OBVIOUS
      <3>3. AnswerComes(q)' /\ q = (clicks'[p]).sequence
        BY <1>5, <2>1, <3>1, <3>2
      <3> QED BY <3>3 DEF AnswerComes
    <2>2. CASE \E m \in Elems(toSwift') : m.type = "reviewed" /\ m.sequence >= (clicks'[p]).sequence
      BY <2>2 DEF AnswerComes
    <2> QED BY <2>1, <2>2
  <1> QED BY <1>1, <1>3, <1>4, <1>6 DEF Answering

\* A request of the user's that marks no file.
LEMMA AskLeads ==
  ASSUME IInv, Answering, UNCHANGED <<disk, columnVars, isPageReady, page, stored, clicks, toPage>>,
         NEW m \in Request, toSwift' = toSwift \/ toSwift' = Append(toSwift, m)
  PROVE  Answering'
  <1>1. toSwift \in Seq(Request)
    BY ColumnIs
  <1>2. Elems(Append(toSwift, m)) = Elems(toSwift) \cup {m}
    BY <1>1, ElemsAppend
  <1>3. Elems(toSwift) \subseteq Elems(toSwift')
    <2>1. CASE toSwift' = toSwift
      BY <2>1
    <2>2. CASE toSwift' = Append(toSwift, m)
      BY <1>2, <2>2
    <2> QED BY <2>1, <2>2
  <1> QED BY <1>3, UserLeads

LEMMA ToggleFileLeads ==
  ASSUME IInv, Answering, NEW p \in Files, ToggleFile(p)
  PROVE  Answering'
  <1>1. p \in DOMAIN page.files /\ Shows
    BY DEF ToggleFile
  <1>2. LoadFile(p, page) \in Request
    <2>1. page.gen \in Nat /\ DOMAIN page.files \in SUBSET Files
      BY <1>1, ShownPage
    <2>2. PlaceIn(DOMAIN page.files, p) \in Nat
      BY <1>1, <2>1, PlacesFinite
    <2> QED BY <2>1, <2>2 DEF LoadFile, IdOf, Request, Load
  <1>3. /\ UNCHANGED <<disk, columnVars, isPageReady, page, stored, clicks, toPage>>
        /\ (toSwift' = toSwift \/ toSwift' = Append(toSwift, LoadFile(p, page)))
    BY DEF ToggleFile
  <1> QED BY <1>2, <1>3, AskLeads

LEMMA WishesLead ==
  ASSUME IInv, Answering,
         \/ MarkWrong \/ Reload \/ \E active \in BOOLEAN : Holds(active)
  PROVE  Answering'
  <1>1. note.id \in Nat /\ note.isWrong \in BOOLEAN
    BY PageIs DEF NoteType
  <1>2. PICK m : m = [type |-> "markWrong", id |-> note.id, wrong |-> ~note.isWrong]
    OBVIOUS
  <1>3. m \in Request
    BY <1>1, <1>2 DEF Request, Wish
  <1>4. CASE MarkWrong
    <2>1. /\ UNCHANGED <<disk, columnVars, isPageReady, page, stored, clicks, toPage>>
          /\ toSwift' = Append(toSwift, m)
      BY <1>2, <1>4 DEF MarkWrong
    <2> QED BY <1>3, <2>1, AskLeads
  <1>5. CASE Reload
    <2>1. [type |-> "reload"] \in Request
      BY DEF Request, Wish
    <2>2. /\ UNCHANGED <<disk, columnVars, isPageReady, page, stored, clicks, toPage>>
          /\ toSwift' = Append(toSwift, [type |-> "reload"])
      BY <1>5 DEF Reload, pageVars
    <2> QED BY <2>1, <2>2, AskLeads
  <1>6. ASSUME NEW active \in BOOLEAN, Holds(active) PROVE Answering'
    <2>1. [type |-> "selection", active |-> active] \in Request
      BY DEF Request, Wish
    <2>2. /\ UNCHANGED <<disk, columnVars, isPageReady, page, stored, clicks, toPage>>
          /\ toSwift' = Append(toSwift, [type |-> "selection", active |-> active])
      BY <1>6 DEF Holds
    <2> QED BY <2>1, <2>2, AskLeads
  <1> QED BY <1>4, <1>5, <1>6

\* A click on Reviewed tells the column its number.
LEMMA SetReviewedLeads ==
  ASSUME IInv, IInv', Answering, Shows, NEW paths, NEW reviewed, SetReviewed(paths, reviewed)
  PROVE  Answering'
  <1>1. PICK n : n = clickCount + 1
    OBVIOUS
  <1>2. PICK m : m = [type |-> "reviewed", ids |-> {IdOf(page.files, p) : p \in paths},
                      reviewed |-> reviewed, gen |-> page.gen, sequence |-> n,
                      seen |-> [p \in paths |-> Seen(p)]]
    OBVIOUS
  <1>3. /\ toSwift' = Append(toSwift, m)
        /\ clicks' = [p \in DOMAIN clicks \cup paths |->
                        IF p \in paths THEN [reviewed |-> reviewed, sequence |-> n] ELSE clicks[p]]
        /\ UNCHANGED <<disk, columnVars, isPageReady, page, stored, toPage>>
    BY <1>1, <1>2 DEF SetReviewed
  <1>4. toSwift \in Seq(Request) /\ toSwift' \in Seq(Request) /\ n \in Nat
    BY <1>1, ColumnIs DEF IInv, ClicksNumbered, Typed, ChannelsTyped
  <1>5. Elems(toSwift) \subseteq Elems(toSwift') /\ m \in Elems(toSwift')
    <2>1. PICK k : k = Len(toSwift)
      OBVIOUS
    <2>2. /\ k \in Nat /\ DOMAIN toSwift = 1..k /\ DOMAIN toSwift' = 1..(k + 1)
          /\ \A i \in 1..k : toSwift'[i] = toSwift[i]
          /\ toSwift'[k + 1] = m
      BY <1>3, <1>4, <2>1
    <2>3. k + 1 \in 1..(k + 1) /\ 1..k \subseteq 1..(k + 1)
      BY <2>2
    <2> QED BY <2>2, <2>3 DEF Elems
  <1>6. m.type = "reviewed" /\ m.sequence = n
    BY <1>2
  <1>7. ASSUME NEW p \in DOMAIN clicks'
        PROVE  \/ p \in DOMAIN clicks /\ clicks'[p] = clicks[p]
               \/ m.sequence >= (clicks'[p]).sequence
    <2>1. CASE p \in paths
      BY <1>3, <1>4, <1>6, <2>1
    <2>2. CASE p \notin paths
      BY <1>3, <2>2
    <2> QED BY <2>1, <2>2
  <1> QED BY <1>3, <1>5, <1>6, <1>7, UserLeads

\* A message of no review: the page goes on showing what it did.
LEMMA TellingLeads ==
  ASSUME Answering, UNCHANGED <<disk, columnVars, isPageReady, clicks>>, isPageReady,
         Elems(toSwift) \subseteq Elems(toSwift'),
         toPage \in Seq(Message), toPage # <<>>, toPage' = Tail(toPage), Head(toPage).type \notin {"show", "showReview"},
         page'.gen = page.gen, stored' = stored
  PROVE  Answering'
  <1>1. Real' /\ Runs' /\ Queued' /\ MarksLead' /\ ColumnView' = ColumnView
    BY ColumnStays
  <1>2. status' = status /\ UNCHANGED writeVars
    BY DEF columnVars, shownVars
  <1>3. PageLeads'
    <2>1. PICK w \in Viewed : Leads(PageView, toPage, w) /\ (~status => w = ColumnView)
      BY DEF Answering, PageLeads
    <2>2. PICK u \in Viewed : <<PageView, Head(toPage), u>> \in Taken /\ Leads(u, Tail(toPage), w)
      BY <2>1, RestLeads
    <2>3. u = PageView
      BY <2>2 DEF Taken
    <2>4. PageView' = PageView
      BY DEF PageView
    <2> QED BY <1>1, <1>2, <2>1, <2>2, <2>3, <2>4 DEF PageLeads
  <1>4. Gone'
    BY DEF Gone
  <1>5. ASSUME NEW q, AnswerComes(q) PROVE AnswerComes(q)'
    <2>1. UNCHANGED <<asked, reviewResults, waiting, acknowledged, Writing>>
      BY <1>2 DEF writeVars, Writing
    <2>2. ASSUME NEW m \in Elems(toPage), m.type \in {"show", "showReview"} PROVE m \in Elems(toPage')
      BY <2>2, ElemsRest
    <2> QED BY <1>2, <1>5, <2>1, <2>2 DEF AnswerComes
  <1>6. ClicksLead'
    <2> SUFFICES ASSUME NEW p \in DOMAIN clicks PROVE AnswerComes(clicks[p].sequence)'
      BY DEF ClicksLead
    <2>1. PICK q : q = clicks[p].sequence
      OBVIOUS
    <2>2. AnswerComes(q)' /\ q = (clicks[p].sequence)'
      BY <1>5, <2>1 DEF Answering, ClicksLead
    <2> QED BY <2>2 DEF AnswerComes
  <1> QED BY <1>1, <1>3, <1>4, <1>6 DEF Answering

\* A review: its marks show, and it answers the clicks up to its number.
LEMMA ReviewLeads ==
  ASSUME IInv, Answering, UNCHANGED <<disk, columnVars, isPageReady>>, isPageReady,
         Elems(toSwift) \subseteq Elems(toSwift'),
         toPage \in Seq(Message), toPage # <<>>, toPage' = Tail(toPage),
         NEW m \in Message, m = Head(toPage),
         \/ m.type = "show" /\ page'.gen = m.page.gen
         \/ m.type = "showReview" /\ page'.gen = page.gen,
         (m.type = "showReview" /\ m.review.gen # page.gen) \/ TakeReview(m.review)
  PROVE  Answering'
  <1>1. Real' /\ Runs' /\ Queued' /\ MarksLead' /\ ColumnView' = ColumnView
    BY ColumnStays
  <1>2. status' = status /\ UNCHANGED writeVars
    BY DEF columnVars, shownVars
  <1>3. PICK w \in Viewed : Leads(PageView, toPage, w) /\ (~status => w = ColumnView)
    BY DEF Answering, PageLeads
  <1>4. PICK u \in Viewed : <<PageView, m, u>> \in Taken /\ Leads(u, Tail(toPage), w)
    BY <1>3, RestLeads
  <1>5. PageView \in Viewed /\ PageView.gen = page.gen
    BY ViewsTyped DEF PageView
  <1>6. /\ m.type = "show" => u = [gen |-> m.page.gen, states |-> m.review.states]
        /\ m.type = "showReview" => m.review.gen = page.gen /\ u = [gen |-> page.gen, states |-> m.review.states]
    BY <1>4, <1>5, TakenIs
  <1>7. stored' = m.review
        /\ clicks' = [p \in {q \in DOMAIN clicks : clicks[q].sequence > m.review.acknowledged} |-> clicks[p]]
    BY <1>6 DEF TakeReview
  <1>8. PageView' = u
    BY <1>6, <1>7 DEF PageView
  <1>9. PageLeads'
    BY <1>1, <1>2, <1>3, <1>4, <1>8 DEF PageLeads
  <1>10. Gone'
    BY DEF Gone
  <1>11. ASSUME NEW q \in Nat, q > m.review.acknowledged, AnswerComes(q) PROVE AnswerComes(q)'
    <2>1. UNCHANGED <<asked, reviewResults, waiting, acknowledged, Writing>>
      BY <1>2 DEF writeVars, Writing
    <2>2. m.review.acknowledged \in Nat
      BY MessageIs, ShowingIs DEF Review
    <2>3. ASSUME NEW n \in Elems(toPage), n.type \in {"show", "showReview"}, n.review.acknowledged >= q
          PROVE  n \in Elems(toPage')
      <3>1. n # m
        BY <1>11, <2>2, <2>3
      <3> QED BY <3>1, ElemsRest
    <2> QED BY <1>2, <1>11, <2>1, <2>3 DEF AnswerComes
  <1>12. ClicksLead'
    <2> SUFFICES ASSUME NEW p \in DOMAIN clicks' PROVE AnswerComes((clicks[p]).sequence)'
      BY DEF ClicksLead
    <2>1. PICK q : q = clicks[p].sequence
      OBVIOUS
    <2>2. p \in DOMAIN clicks /\ clicks'[p] = clicks[p] /\ q > m.review.acknowledged
      BY <1>7, <2>1
    <2>3. q \in Nat /\ AnswerComes(q)
      BY <2>1, <2>2, PageIs DEF Answering, ClicksLead
    <2>4. AnswerComes(q)' /\ q = (clicks'[p]).sequence
      BY <1>11, <2>1, <2>2, <2>3
    <2> QED BY <2>4 DEF AnswerComes
  <1> QED BY <1>1, <1>9, <1>10, <1>12 DEF Answering

\* A page drawn anew asks for what it lacks.
LEMMA RenderAsks ==
  ASSUME IInv, NEW m \in Elems(toPage), m \in Showing, Render(m)
  PROVE  Elems(toSwift) \subseteq Elems(toSwift')
  <1>0. OneShot /\ snapshotCount \in Nat /\ toSwift \in Seq(Request)
    BY ColumnIs DEF IInv
  <1>1. m.page \in Page /\ Has(m.page.gen, m.page.files) /\ m.page.gen # 0
    BY <1>0, ShowingIs DEF Has, OneShot
  <1>2. PICK rows : rows = open \cap DOMAIN m.page.files
    OBVIOUS
  <1>3. PICK asks : asks = {p \in rows : Asks((IF p \in rows THEN Reopened(node[p], p, m.page) ELSE NoNode))}
    OBVIOUS
  <1>4. PICK loads : loads = [i \in 1..Cardinality(asks) |-> LoadFile(PathAt(asks, i), m.page)]
    OBVIOUS
  <1>5. toSwift' = toSwift \o loads
    <2>1. rows \subseteq Files
      BY <1>2 DEF IInv, Typed, PageTyped
    <2>2. asks = {p \in rows : Asks([q \in Files |-> IF q \in rows THEN Reopened(node[q], q, m.page) ELSE NoNode][p])}
      BY <1>3, <2>1
    <2> QED BY <1>2, <1>4, <2>2 DEF Render
  <1>6. asks \in SUBSET (DOMAIN m.page.files)
    BY <1>2, <1>3
  <1>7. loads \in Seq(Request)
    BY <1>0, <1>1, <1>4, <1>6, LoadsRight
  <1> QED BY <1>0, <1>5, <1>7, ElemsKept

LEMMA PageReceivesLeads ==
  ASSUME IInv, IInv', Answering, PageReceives
  PROVE  Answering'
  <1>1. toPage \in Seq(Message) /\ toPage # <<>> /\ toPage' = Tail(toPage) /\ toSwift \in Seq(Request)
    BY ColumnIs DEF PageReceives
  <1>2. PICK m : m = Head(toPage)
    OBVIOUS
  <1>3. m \in Message
    BY <1>1, <1>2, ElemsTail
  <1>4. UNCHANGED <<disk, columnVars, isPageReady>>
    BY DEF PageReceives
  <1>5. isPageReady
    BY <1>1 DEF Answering, Gone
  <1>6. \/ m.type = "show" /\ Render(m)
        \/ m.type = "showReview" /\ ShowReview(m.review)
        \/ /\ m.type \notin {"show", "showReview"}
           /\ (ShowDiff(m) \/ MarkNote(m) \/ ShowBanner(TRUE) \/ ShowBanner(FALSE) \/ ShowStatus)
    BY <1>2 DEF PageReceives
  <1>7. CASE m.type = "show" /\ Render(m)
    <2>2. Elems(toSwift) \subseteq Elems(toSwift')
      <3>1. m \in Elems(toPage) /\ m \in Showing
        BY <1>1, <1>2, <1>3, <1>7, ElemsTail, MessageIs
      <3> QED BY <1>7, <3>1, RenderAsks
    <2>3. page' = m.page /\ TakeReview(m.review)
      BY <1>7 DEF Render
    <2> QED BY <1>1, <1>2, <1>3, <1>4, <1>5, <1>7, <2>2, <2>3, ReviewLeads
  <1>8. CASE m.type = "showReview" /\ ShowReview(m.review)
    <2>1. UNCHANGED <<page, toSwift>> /\ (m.review.gen # page.gen \/ TakeReview(m.review))
      BY <1>8 DEF ShowReview
    <2> QED BY <1>1, <1>2, <1>3, <1>4, <1>5, <1>8, <2>1, ReviewLeads
  <1>9. CASE /\ m.type \notin {"show", "showReview"}
             /\ (ShowDiff(m) \/ MarkNote(m) \/ ShowBanner(TRUE) \/ ShowBanner(FALSE) \/ ShowStatus)
    <2>1. page'.gen = page.gen /\ UNCHANGED <<stored, clicks, toSwift>>
      BY <1>9, PageIs DEF ShowDiff, MarkNote, ShowBanner, ShowStatus, Page
    <2> QED BY <1>1, <1>2, <1>4, <1>5, <1>9, <2>1, TellingLeads
  <1> QED BY <1>6, <1>7, <1>8, <1>9

LEMMA PageDiesLeads ==
  ASSUME IInv, Answering, PageDies
  PROVE  Answering'
  <1>1. /\ clicks' = Empty /\ toPage' = <<>> /\ page' = NoPage /\ isPageReady' = FALSE
        /\ UNCHANGED <<disk, columnVars>>
    BY DEF PageDies
  <1>2. Real' /\ Runs' /\ Queued' /\ MarksLead'
    BY <1>1, ColumnStays
  <1>3. Gone' /\ PageLeads' /\ ClicksLead'
    BY <1>1 DEF Gone, PageLeads, ClicksLead, NoPage, Empty
  <1> QED BY <1>2, <1>3 DEF Answering

-----------------------------------------------------------------------------
(* What the column shows leads on                                          *)

\* A step of the column that writes nothing.
LEMMA TellsLead ==
  ASSUME IInv, Answering, UNCHANGED <<pageVars, isPageReady, writeVars, disk>>,
         NEW ms \in Seq(Message), Sends(ms), Brings(ms), Real', MarksLead',
         \A m \in Elems(toSwift) : m.type = "reviewed" => m \in Elems(toSwift'),
         status => status' \/ \E m \in Elems(ms) : m.type = "show" /\ m.review.acknowledged = acknowledged
  PROVE  Answering'
  <1>1. Runs' /\ Queued'
    BY DEF Answering, Runs, Queued, writeVars
  <1>2. Elems(toPage) \subseteq Elems(toPage') /\ (isPageReady => Elems(ms) \subseteq Elems(toPage'))
    BY SendsMore, ColumnIs
  <1>3. ASSUME NEW q \in Nat, isPageReady, AnswerComes(q) PROVE AnswerComes(q)'
    BY <1>2, <1>3, AnswersStay
  <1> QED BY <1>1, <1>3, ColumnLeads

\* The column shows what it did, in other words.
LEMMA SaysLead ==
  ASSUME IInv, Answering, UNCHANGED <<pageVars, isPageReady, writeVars, disk>>,
         UNCHANGED <<snapshot, snapshotCount, status, readFiles, opening>>,
         NEW m \in Plain, NEW ms \in {<<>>, <<m>>}, Sends(ms),
         pending' # NoRead => pending'.head # 0, held' # NoRead => held'.head # 0,
         reading'.found = "read" => reading'.read.head # 0,
         \A r \in Elems(toSwift) : r.type = "reviewed" => r \in Elems(toSwift')
  PROVE  Answering'
  <1>1. review' = review /\ reviewResults' = reviewResults
    BY DEF writeVars
  <1>2. ColumnView' = ColumnView
    BY <1>1 DEF ColumnView
  <1>3. MarksLead' /\ Real'
    BY <1>1 DEF Answering, MarksLead, Real, HasSnapshot, Opens
  <1>4. Brings(ms) /\ ms \in Seq(Message)
    BY <1>2, PlainBrings
  <1> QED BY <1>3, <1>4, TellsLead

LEMMA QuietLeads ==
  ASSUME IInv, Answering, UNCHANGED <<pageVars, isPageReady, writeVars, disk, shownVars, toPage, toSwift>>,
         reading'.found = "read" => reading'.read.head # 0
  PROVE  Answering'
  <1>1. [type |-> "showStatus"] \in Plain /\ Sends(<<>>)
    BY PlainAre, NoneSent, ColumnIs
  <1>2. UNCHANGED <<snapshot, snapshotCount, status, readFiles, opening, pending, held>>
    BY DEF shownVars
  <1>3. /\ pending' # NoRead => pending'.head # 0
        /\ held' # NoRead => held'.head # 0
    BY <1>2 DEF Answering, Real
  <1>4. PICK m \in Plain : m = [type |-> "showStatus"]
    BY <1>1
  <1> QED BY <1>1, <1>2, <1>3, SaysLead

LEMMA ReadsLead ==
  ASSUME IInv, Answering,
         \/ Refresh \/ ReadWatched \/ ReadBranch(TRUE) \/ ReadBranch(FALSE) \/ ReadPatch(TRUE) \/ ReadPatch(FALSE)
         \/ Commits \/ \E p \in Files, v \in 0..MaxVersion : Edits(p, v)
  PROVE  Answering'
  <1>1. /\ ReadFor("user").found = "no" /\ ReadFor("watcher").found = "no"
        /\ reading.found = "read" => reading.read.head # 0
    BY DEF ReadFor, NotReading, Answering, Real
  <1>2. head # 0 /\ reading \in [reason : {"none", "user", "watcher"}, found : {"no", "read", "failed"},
                    read : Read, newer : BOOLEAN]
    BY ColumnIs DEF ReadTyped
  <1>3. CASE Refresh
    <2>1. /\ UNCHANGED <<pageVars, isPageReady, writeVars, disk, shownVars, toPage, toSwift>>
          /\ reading' = reading \/ reading' = ReadFor("user")
      BY <1>3 DEF Refresh
    <2> QED BY <1>1, <2>1, QuietLeads
  <1>4. CASE ReadWatched
    <2>1. /\ UNCHANGED <<pageVars, isPageReady, writeVars, disk, shownVars, toPage, toSwift>>
          /\ reading' = ReadFor("watcher")
      BY <1>4 DEF ReadWatched
    <2> QED BY <1>1, <2>1, QuietLeads
  <1>5. ASSUME NEW fails \in BOOLEAN, ReadBranch(fails) PROVE Answering'
    <2>1. UNCHANGED <<pageVars, isPageReady, writeVars, disk, shownVars, toPage, toSwift>>
      BY <1>5 DEF ReadBranch
    <2>2. reading'.found = "read" => reading'.read.head # 0
      <3>1. CASE fails
        BY <1>2, <1>5, <3>1 DEF ReadBranch
      <3>2. CASE ~fails
        BY <1>2, <1>5, <3>2 DEF ReadBranch
      <3> QED BY <3>1, <3>2
    <2> QED BY <2>1, <2>2, QuietLeads
  <1>6. ASSUME NEW fails \in BOOLEAN, ReadPatch(fails) PROVE Answering'
    <2>1. UNCHANGED <<pageVars, isPageReady, writeVars, disk, shownVars, toPage, toSwift, reading>>
      BY <1>6 DEF ReadPatch, readVars
    <2> QED BY <1>1, <2>1, QuietLeads
  <1>7. CASE Commits
    <2>1. UNCHANGED <<pageVars, isPageReady, writeVars, disk, shownVars, toPage, toSwift, reading>>
      BY <1>7 DEF Commits
    <2> QED BY <1>1, <2>1, QuietLeads
  <1>8. ASSUME NEW p, NEW v, Edits(p, v) PROVE Answering'
    <2>1. UNCHANGED <<pageVars, isPageReady, writeVars, disk, shownVars, toPage, toSwift, reading>>
      BY <1>8 DEF Edits
    <2> QED BY <1>1, <2>1, QuietLeads
  <1> QED BY <1>3, <1>4, <1>5, <1>6, <1>7, <1>8

\* A read that becomes what the page shows: its review is opened next.
LEMMA ShowBrings ==
  ASSUME IInv, NEW r \in Read, r.head # 0, Show(r), review' = review,
         reading'.found = "read" => reading'.read.head # 0
  PROVE  /\ Real' /\ MarksLead' /\ Shown(r) \in Seq(Message)
         /\ \E m \in Elems(Shown(r)) : m.type = "show" /\ m.review.acknowledged = acknowledged
         /\ ~status' /\ \A v \in Viewed : Leads(v, Shown(r), ColumnView') /\ ColumnView' \in Viewed
  <1>1. /\ acknowledged \in Nat /\ review.marks \in [Files -> Mark] /\ snapshotCount \in Nat \ {0}
        /\ explanationVersion \in Nat /\ snapshotCount + 1 \in Nat
    BY ColumnIs
  <1>2. r.files \in Shot /\ Empty \in Lines(Files) /\ VersionOf(r.expl) \in Nat
    BY <1>1, EmptyTyped DEF Read, VersionOf
  <1>3. /\ snapshot' = [head |-> r.head, files |-> r.files] /\ snapshotCount' = snapshotCount + 1
        /\ status' = FALSE /\ pending' = NoRead /\ held' = NoRead /\ readFiles' = Empty
        /\ opening' = snapshotCount + 1
    BY DEF Show
  <1>4. Real' /\ MarksLead'
    BY <1>3 DEF Real, MarksLead, HasSnapshot
  <1>5. PICK m : m = ShowPage(r.files, Empty, snapshotCount + 1, VersionOf(r.expl), review.marks)
    OBVIOUS
  <1>6. Shown(r) = <<m>>
    BY <1>5 DEF Shown
  <1>7. PICK w : w = [gen |-> snapshotCount + 1, states |-> StatesOf(r.files, Empty, review.marks)]
    OBVIOUS
  <1>8. ColumnView' = w
    BY <1>3, <1>7 DEF ColumnView
  <1>9. w \in Viewed
    BY <1>1, <1>2, <1>7, StatesTyped DEF Viewed
  <1>10. ASSUME NEW v \in Viewed
         PROVE  /\ <<m>> \in Seq(Message) /\ Leads(v, <<m>>, w)
                /\ m.type = "show" /\ m.review.acknowledged = acknowledged
    BY <1>1, <1>2, <1>5, <1>7, PageTold
  <1>11. Elems(<<m>>) = {m}
    BY OneOf
  <1> QED BY <1>3, <1>4, <1>6, <1>8, <1>9, <1>10, <1>11

LEMMA ShowsLead ==
  ASSUME IInv, Answering, UNCHANGED <<pageVars, isPageReady, writeVars, disk>>,
         NEW r \in Read, r.head # 0, Show(r), Sends(Shown(r)),
         reading'.found = "read" => reading'.read.head # 0,
         \A m \in Elems(toSwift) : m.type = "reviewed" => m \in Elems(toSwift')
  PROVE  Answering'
  <1>1. review' = review
    BY DEF writeVars
  <1>2. /\ Real' /\ MarksLead' /\ Shown(r) \in Seq(Message)
        /\ \E m \in Elems(Shown(r)) : m.type = "show" /\ m.review.acknowledged = acknowledged
        /\ \A v \in Viewed : Leads(v, Shown(r), ColumnView') /\ ColumnView' \in Viewed
    BY <1>1, ShowBrings
  <1>3. Brings(Shown(r))
    BY <1>2 DEF Brings
  <1> QED BY <1>2, <1>3, TellsLead

LEMMA ApplyReadLeads ==
  ASSUME IInv, Answering, ApplyRead
  PROVE  Answering'
  <1>1. PICK r : r = Found
    OBVIOUS
  <1>2. reading.found \in {"read", "failed"}
    BY ColumnIs DEF ReadTyped, ApplyRead
  <1>3. r \in Read /\ (reading.found = "read" => r.head # 0)
    BY <1>1, FoundIs DEF Found, Answering, Real
  <1>4. /\ UNCHANGED <<pageVars, isPageReady, writeVars, disk, toSwift>>
        /\ reading'.found # "read"
    BY DEF ApplyRead, ReadFor, NotReading
  <1>5. /\ <<>> \in Seq(Message) /\ [type |-> "showReload"] \in Plain /\ [type |-> "hideReload"] \in Plain
        /\ [type |-> "showStatus"] \in Plain
    BY PlainAre, EmptySeq
  <1>6. \/ Banner("failed", NoRead) /\ (Sends(<<>>) \/ Sends(<<[type |-> "showReload"]>>))
        \/ ShowInstead /\ Sends(<<[type |-> "showStatus"]>>)
        \/ reading.found = "read" /\ Banner("moved", r) /\ (Sends(<<>>) \/ Sends(<<[type |-> "showReload"]>>))
        \/ /\ reading.found = "read"
           /\ held' \in {NoRead, r} /\ pending' \in {pending, NoRead}
           /\ Sends(<<>>) \/ Sends(<<[type |-> "hideReload"]>>)
           /\ UNCHANGED <<snapshot, snapshotCount, status, readFiles, opening>>
        \/ reading.found = "read" /\ Show(r) /\ Sends(Shown(r))
    BY <1>1, <1>2 DEF ApplyRead
  <1>7. CASE Banner("failed", NoRead) /\ (Sends(<<>>) \/ Sends(<<[type |-> "showReload"]>>))
    <2>1. pending' = NoRead /\ held' = NoRead /\ UNCHANGED <<snapshot, snapshotCount, status, readFiles, opening>>
      BY <1>7 DEF Banner
    <2> QED BY <1>4, <1>5, <1>7, <2>1, SaysLead
  <1>8. CASE ShowInstead /\ Sends(<<[type |-> "showStatus"]>>)
    <2>1. /\ snapshot' = [head |-> 0, files |-> Empty] /\ status' = TRUE
          /\ pending' = NoRead /\ held' = NoRead
      BY <1>8 DEF ShowInstead
    <2>2. Real' /\ MarksLead'
      BY <1>4, <2>1 DEF Real, MarksLead, HasSnapshot
    <2>3. Brings(<<[type |-> "showStatus"]>>) /\ <<[type |-> "showStatus"]>> \in Seq(Message)
      BY <1>5, <2>1, PlainBrings
    <2> QED BY <1>4, <1>8, <2>1, <2>2, <2>3, TellsLead
  <1>9. CASE reading.found = "read" /\ Banner("moved", r) /\ (Sends(<<>>) \/ Sends(<<[type |-> "showReload"]>>))
    <2>1. pending' = r /\ held' = NoRead /\ UNCHANGED <<snapshot, snapshotCount, status, readFiles, opening>>
      BY <1>9 DEF Banner
    <2> QED BY <1>3, <1>4, <1>5, <1>9, <2>1, SaysLead
  <1>10. CASE /\ reading.found = "read"
              /\ held' \in {NoRead, r} /\ pending' \in {pending, NoRead}
              /\ Sends(<<>>) \/ Sends(<<[type |-> "hideReload"]>>)
              /\ UNCHANGED <<snapshot, snapshotCount, status, readFiles, opening>>
    <2>1. /\ pending' # NoRead => pending'.head # 0
          /\ held' # NoRead => held'.head # 0
      BY <1>3, <1>10 DEF Answering, Real
    <2> QED BY <1>4, <1>5, <1>10, <2>1, SaysLead
  <1>11. CASE reading.found = "read" /\ Show(r) /\ Sends(Shown(r))
    BY <1>3, <1>4, <1>11, ShowsLead
  <1> QED BY <1>6, <1>7, <1>8, <1>9, <1>10, <1>11

LEMMA PatchIsReadLeads ==
  ASSUME IInv, Answering, PatchIsRead
  PROVE  Answering'
  <1>1. /\ snapshot \in Snapshot /\ snapshotCount \in Nat /\ explanation \in Explained /\ explanationVersion \in Nat
        /\ review.marks \in [Files -> Mark] /\ acknowledged \in Nat /\ readFiles \in Lines(Long)
        /\ toPage \in Seq(Message)
    BY ColumnIs
  <1>2. PICK m : m = Head(patchResults)
    OBVIOUS
  <1>3. m.path \in Files \cap Long /\ m.ver \in Version
    <2>1. patchResults \in Seq([path : Long, gen : Nat, ver : Version]) /\ patchResults # <<>>
      BY ColumnIs DEF ReadTyped, PatchIsRead
    <2>2. m \in [path : Long, gen : Nat, ver : Version]
      BY <1>2, <2>1, ElemsTail
    <2> QED BY <2>2, FilesAssumption
  <1>4. PICK read : read = [p \in DOMAIN readFiles \cup {m.path} |-> IF p = m.path THEN m.ver ELSE readFiles[p]]
    OBVIOUS
  <1>5. read \in Lines(Files)
    <2>1. DOMAIN readFiles \in SUBSET Long /\ readFiles \in [DOMAIN readFiles -> Version]
      BY <1>1, IsLines
    <2>2. read \in [DOMAIN readFiles \cup {m.path} -> Version]
      BY <1>3, <1>4, <2>1
    <2>3. DOMAIN readFiles \cup {m.path} \in SUBSET Files
      BY <1>3, <2>1, FilesAssumption
    <2> QED BY <2>2, <2>3 DEF Lines
  <1>6. DiffMessage(m.path, None) \in Plain /\ DiffMessage(m.path, m.ver) \in Plain
    <2>1. None \in Version
      BY FilesAssumption DEF Version, None
    <2>2. \A ver \in Version : DiffMessage(m.path, ver) \in Sent(snapshotCount, snapshot.files)
      BY <1>1, <1>3, DiffSent
    <2>3. \A ver : DiffMessage(m.path, ver).type = "showDiff"
      BY DEF DiffMessage
    <2> QED BY <1>3, <2>1, <2>2, <2>3 DEF Sent, Plain
  <1>7. /\ UNCHANGED <<pageVars, isPageReady, writeVars, disk, toSwift, reading>>
        /\ UNCHANGED <<snapshot, snapshotCount, status, pending, held, opening>>
    BY DEF PatchIsRead, readVars
  <1>8. /\ pending' # NoRead => pending'.head # 0
        /\ held' # NoRead => held'.head # 0
        /\ reading'.found = "read" => reading'.read.head # 0
    BY <1>7 DEF Answering, Real
  <1>9. \/ readFiles' = readFiles /\ toPage' = toPage
        \/ readFiles' = readFiles /\ Sends(<<DiffMessage(m.path, None)>>)
        \/ readFiles' = read /\ Sends(ReviewMessage(read, review.marks, acknowledged) \o <<DiffMessage(m.path, m.ver)>>)
    BY <1>2, <1>4 DEF PatchIsRead
  <1>10. CASE readFiles' = readFiles /\ toPage' = toPage
    BY <1>1, <1>6, <1>7, <1>8, <1>10, NoneSent, SaysLead
  <1>11. CASE readFiles' = readFiles /\ Sends(<<DiffMessage(m.path, None)>>)
    BY <1>6, <1>7, <1>8, <1>11, SaysLead
  <1>12. CASE readFiles' = read /\ Sends(ReviewMessage(read, review.marks, acknowledged) \o <<DiffMessage(m.path, m.ver)>>)
    <2>1. PICK told, ms : told = ReviewMessage(read, review.marks, acknowledged)
                          /\ ms = told \o <<DiffMessage(m.path, m.ver)>>
      OBVIOUS
    <2>2. review' = review /\ reviewResults' = reviewResults
      BY <1>7 DEF writeVars
    <2>3. PICK w : w = [gen |-> snapshotCount, states |-> StatesOf(snapshot.files, read, review.marks)]
      OBVIOUS
    <2>4. ColumnView' = w
      BY <1>7, <1>12, <2>2, <2>3 DEF ColumnView
    <2>5. w \in Viewed /\ ColumnView \in Viewed /\ snapshot.files \in Shot
      BY <2>3, ViewsTyped
    <2>6. told \in Seq(Message)
          /\ (~status => Leads(ColumnView, told, w)) /\ (status => told = <<>>)
      <3>1. StatesOf(snapshot.files, readFiles, review.marks) \in States
        BY <2>5, StatesTyped
      <3> QED BY <1>1, <1>5, <2>1, <2>3, <3>1, ReviewTold DEF ColumnView
    <2>7. <<DiffMessage(m.path, m.ver)>> \in Seq(Message)
          /\ \A v \in Viewed : Leads(v, <<DiffMessage(m.path, m.ver)>>, v) /\ Leads(v, <<>>, v)
      BY <1>6, <2>5, PlainLeads
    <2>8. ms \in Seq(Message)
      BY <2>1, <2>6, <2>7, ElemsConcat
    <2>9. Brings(ms)
      <3> SUFFICES ASSUME NEW v \in Viewed, ~status => v = ColumnView
                   PROVE  \E u \in Viewed : Leads(v, ms, u) /\ (~status => u = w)
        BY <1>7, <2>4 DEF Brings
      <3>1. CASE status
        BY <3>1, <2>1, <2>6, <2>7, LeadsOn
      <3>2. CASE ~status
        BY <3>2, <2>1, <2>5, <2>6, <2>7, LeadsOn
      <3> QED BY <3>1, <3>2
    <2>10. Real' /\ MarksLead'
      BY <1>7, <2>2 DEF Answering, Real, MarksLead, HasSnapshot, Opens
    <2> QED BY <1>7, <1>12, <2>1, <2>8, <2>9, <2>10, TellsLead
  <1> QED BY <1>9, <1>10, <1>11, <1>12

-----------------------------------------------------------------------------
(* What the column is asked leads on                                       *)

LEMMA ElemsAppended ==
  ASSUME NEW S, NEW s \in Seq(S), NEW e, Append(s, e) \in Seq(S)
  PROVE  Elems(Append(s, e)) = Elems(s) \cup {e}
  <1>1. PICK k, all : k = Len(s) /\ all = Append(s, e)
    OBVIOUS
  <1>2. k \in Nat /\ Len(all) = k + 1 /\ all[k + 1] = e /\ DOMAIN all = 1..(k + 1)
    BY <1>1, LenProperties
  <1>3. k + 1 \in 1..(k + 1)
    BY <1>2
  <1>4. e \in S
    BY <1>1, <1>2, <1>3, ElementOfSeq
  <1> QED BY <1>4, ElemsAppend

\* A request that clicks on no Reviewed leaves the clicks to come.
LEMMA RequestsLeft ==
  ASSUME IInv, toSwift # <<>>, toSwift' = Tail(toSwift), Head(toSwift).type # "reviewed"
  PROVE  \A m \in Elems(toSwift) : m.type = "reviewed" => m \in Elems(toSwift')
  BY ColumnIs, ElemsRest

LEMMA LoadsFileLeads ==
  ASSUME IInv, Answering, toSwift # <<>>, NEW m, m = Head(toSwift), m.type = "loadFile", LoadsFile(m),
         toSwift' = Tail(toSwift), UNCHANGED <<disk, pageVars, isPageReady>>
  PROVE  Answering'
  <1>1. PICK p : p = PathAt(DOMAIN snapshot.files, m.id)
    OBVIOUS
  <1>2. \/ toPage' = toPage
        \/ m.gen = snapshotCount /\ p \notin Long /\ Sends(<<DiffMessage(p, snapshot.files[p])>>)
    BY <1>1 DEF LoadsFile, AsksOfThisPage
  <1>3. UNCHANGED <<snapshot, snapshotCount, status, readFiles, opening, pending, held, reading, writeVars>>
    BY DEF LoadsFile, shownVars, readVars
  <1>4. /\ pending' # NoRead => pending'.head # 0
        /\ held' # NoRead => held'.head # 0
        /\ reading'.found = "read" => reading'.read.head # 0
    BY <1>3 DEF Answering, Real
  <1>5. \A r \in Elems(toSwift) : r.type = "reviewed" => r \in Elems(toSwift')
    BY RequestsLeft
  <1>6. CASE toPage' = toPage
    <2>1. [type |-> "showStatus"] \in Plain /\ Sends(<<>>)
      BY <1>6, PlainAre, NoneSent, ColumnIs
    <2>2. PICK n \in Plain : n = [type |-> "showStatus"]
      BY <2>1
    <2> QED BY <1>3, <1>4, <1>5, <2>1, SaysLead
  <1>7. CASE m.gen = snapshotCount /\ p \notin Long /\ Sends(<<DiffMessage(p, snapshot.files[p])>>)
    <2>1. DiffMessage(p, snapshot.files[p]) \in Sent(snapshotCount, snapshot.files)
      BY <1>1, <1>7, LoadedSent
    <2>2. DiffMessage(p, snapshot.files[p]).type = "showDiff"
      BY DEF DiffMessage
    <2>3. DiffMessage(p, snapshot.files[p]) \in Plain
      BY <2>1, <2>2 DEF Sent, Plain
    <2> QED BY <1>3, <1>4, <1>5, <1>7, <2>3, SaysLead
  <1> QED BY <1>2, <1>6, <1>7

\* The page shown again, of the marks it had.
LEMMA CurrentBrings ==
  ASSUME IInv, Answering, NEW version \in Nat
  PROVE  /\ Current(version, review.marks) \in Seq(Message)
         /\ \A v \in Viewed : \E w \in Viewed :
              Leads(v, Current(version, review.marks), w) /\ (~status => w = ColumnView)
  <1>1. review.marks \in [Files -> Mark] /\ ColumnView \in Viewed /\ status = ~HasSnapshot
    BY ColumnIs, ViewsTyped DEF Answering, Real
  <1>2. ASSUME NEW v \in Viewed
        PROVE  /\ Current(version, review.marks) \in Seq(Message)
               /\ HasSnapshot => Leads(v, Current(version, review.marks), ColumnView)
               /\ ~HasSnapshot => Leads(v, Current(version, review.marks), v)
    BY <1>1, CurrentTold DEF ColumnView
  <1> QED BY <1>1, <1>2

LEMMA SelectionLeads ==
  ASSUME IInv, Answering, toSwift # <<>>, NEW m, m = Head(toSwift), m.type = "selection", SelectionChanged(m),
         toSwift' = Tail(toSwift), UNCHANGED <<disk, pageVars, isPageReady>>
  PROVE  Answering'
  <1>1. UNCHANGED <<reading, writeVars, review, reviewResults>>
    BY DEF SelectionChanged, readVars, writeVars
  <1>2. \A r \in Elems(toSwift) : r.type = "reviewed" => r \in Elems(toSwift')
    BY RequestsLeft
  <1>3. reading'.found = "read" => reading'.read.head # 0
    BY <1>1 DEF Answering, Real
  <1>4. \/ held # NoRead /\ Show(held) /\ Sends(Shown(held))
        \/ /\ Sends(Current(explanationVersion, review.marks))
           /\ UNCHANGED <<snapshot, snapshotCount, status, pending, held, readFiles, opening>>
        \/ UNCHANGED <<shownVars, toPage>>
    BY DEF SelectionChanged
  <1>5. CASE held # NoRead /\ Show(held) /\ Sends(Shown(held))
    <2>1. held \in Read /\ held.head # 0
      BY <1>5, ColumnIs DEF Answering, Real
    <2> QED BY <1>1, <1>2, <1>3, <1>5, <2>1, ShowsLead
  <1>6. CASE /\ Sends(Current(explanationVersion, review.marks))
             /\ UNCHANGED <<snapshot, snapshotCount, status, pending, held, readFiles, opening>>
    <2>1. Real' /\ MarksLead' /\ ColumnView' = ColumnView
      BY <1>1, <1>6 DEF Answering, Real, MarksLead, HasSnapshot, Opens, ColumnView
    <2>2. Brings(Current(explanationVersion, review.marks)) /\ Current(explanationVersion, review.marks) \in Seq(Message)
      BY <1>6, <2>1, CurrentBrings, ColumnIs DEF Brings
    <2> QED BY <1>1, <1>2, <1>6, <2>1, <2>2, TellsLead
  <1>7. CASE UNCHANGED <<shownVars, toPage>>
    <2>1. [type |-> "showStatus"] \in Plain /\ Sends(<<>>)
      BY <1>7, PlainAre, NoneSent, ColumnIs
    <2>2. UNCHANGED <<snapshot, snapshotCount, status, readFiles, opening, pending, held>>
      BY <1>7 DEF shownVars
    <2>3. /\ pending' # NoRead => pending'.head # 0
          /\ held' # NoRead => held'.head # 0
      BY <2>2 DEF Answering, Real
    <2>4. PICK n \in Plain : n = [type |-> "showStatus"]
      BY <2>1
    <2> QED BY <1>1, <1>2, <1>3, <2>1, <2>2, <2>3, SaysLead
  <1> QED BY <1>4, <1>5, <1>6, <1>7

LEMMA BannerClickedLeads ==
  ASSUME IInv, Answering, toSwift # <<>>, Head(toSwift).type = "reload", BannerClicked,
         toSwift' = Tail(toSwift), UNCHANGED <<disk, pageVars, isPageReady>>
  PROVE  Answering'
  <1>1. UNCHANGED writeVars
    BY DEF BannerClicked
  <1>2. \A r \in Elems(toSwift) : r.type = "reviewed" => r \in Elems(toSwift')
    BY RequestsLeft
  <1>3. reading'.found = "read" => reading'.read.head # 0
    BY DEF BannerClicked, ReadFor, NotReading, Answering, Real
  <1>4. \/ pending # NoRead /\ Show(pending) /\ Sends(Shown(pending))
        \/ UNCHANGED <<shownVars, toPage>>
    BY DEF BannerClicked
  <1>5. CASE pending # NoRead /\ Show(pending) /\ Sends(Shown(pending))
    <2>1. pending \in Read /\ pending.head # 0
      BY <1>5, ColumnIs DEF Answering, Real
    <2> QED BY <1>1, <1>2, <1>3, <1>5, <2>1, ShowsLead
  <1>6. CASE UNCHANGED <<shownVars, toPage>>
    <2>1. [type |-> "showStatus"] \in Plain /\ Sends(<<>>)
      BY <1>6, PlainAre, NoneSent, ColumnIs
    <2>2. UNCHANGED <<snapshot, snapshotCount, status, readFiles, opening, pending, held>>
      BY <1>6 DEF shownVars
    <2>3. /\ pending' # NoRead => pending'.head # 0
          /\ held' # NoRead => held'.head # 0
      BY <2>2 DEF Answering, Real
    <2>4. PICK n \in Plain : n = [type |-> "showStatus"]
      BY <2>1
    <2> QED BY <1>1, <1>2, <1>3, <2>1, <2>2, <2>3, SaysLead
  <1> QED BY <1>4, <1>5, <1>6

-----------------------------------------------------------------------------
(* What the review file takes leads on                                     *)

LEMMA WritingIs ==
  Writing <=> asked # <<>> \/ \E r \in Elems(reviewResults) : r.changes # <<>>
  BY DEF Writing, Elems

\* A change asked is written, and the write answers its click.
LEMMA EnqueueLeads ==
  ASSUME IInv, IInv', Answering, NEW c, Enqueue(c), UNCHANGED <<pageVars, isPageReady, disk, shownVars, reading>>,
         \A m \in Elems(toSwift) : m.type = "reviewed" => m \in Elems(toSwift') \/ c.sequence >= m.sequence,
         c.sequence \in Nat
  PROVE  Answering'
  <1>1. /\ asked' = Append(asked, c) /\ reviewQueue' = Append(reviewQueue, "write")
        /\ UNCHANGED <<review, reviewResults, acknowledged, waiting, toPage>>
    BY DEF Enqueue
  <1>2. Elems(asked') = Elems(asked) \cup {c} /\ asked' # <<>>
    <2>1. asked \in Seq(Change) /\ asked' \in Seq(Change)
      BY DEF IInv, Typed, WriteTyped
    <2> QED BY <1>1, <2>1, ElemsAppended
  <1>3. Elems(reviewQueue') = Elems(reviewQueue) \cup {"write"}
    <2>1. reviewQueue \in Seq({"write", "reload"}) /\ "write" \in {"write", "reload"}
      BY ColumnIs DEF WriteTyped
    <2> QED BY <1>1, <2>1, ElemsAppend
  <1>4. UNCHANGED <<snapshot, snapshotCount, status, readFiles, opening, pending, held>>
    BY DEF shownVars
  <1>5. Real' /\ Runs' /\ Queued' /\ MarksLead' /\ ColumnView' = ColumnView
    BY <1>1, <1>3, <1>4 DEF Answering, Real, Runs, Queued, MarksLead, HasSnapshot, Opens, ColumnView
  <1>6. [type |-> "showStatus"] \in Plain /\ Sends(<<>>) /\ <<>> \in Seq(Message)
    BY <1>1, PlainAre, NoneSent, ColumnIs, EmptySeq
  <1>7. Brings(<<>>)
    <2>1. PICK n \in Plain : n = [type |-> "showStatus"]
      BY <1>6
    <2> QED BY <1>4, <1>5, PlainBrings
  <1>8. ASSUME NEW q \in Nat, AnswerComes(q) PROVE AnswerComes(q)'
    <2>1. Writing'
      BY <1>2 DEF Writing
    <2>2. CASE \E m \in Elems(toSwift) : m.type = "reviewed" /\ m.sequence >= q
      <3>1. PICK m \in Elems(toSwift) : m.type = "reviewed" /\ m.sequence >= q
        BY <2>2
      <3>2. m.sequence \in Nat
        BY <3>1 DEF IInv, ClicksNumbered
      <3>3. m \in Elems(toSwift') \/ c.sequence >= q
        BY <3>1, <3>2
      <3> QED BY <1>2, <3>1, <3>3 DEF AnswerComes
    <2>3. CASE ~ \E m \in Elems(toSwift) : m.type = "reviewed" /\ m.sequence >= q
      BY <1>1, <1>2, <1>4, <1>8, <2>1, <2>3 DEF AnswerComes
    <2> QED BY <2>2, <2>3
  <1> QED BY <1>5, <1>6, <1>7, <1>8, ColumnLeads

\* A click that marks nothing is answered with those before it.
LEMMA AcknowledgeLeads ==
  ASSUME IInv, Answering, NEW sequence \in 1..clickCount, Acknowledge(sequence),
         UNCHANGED <<pageVars, isPageReady, disk, shownVars, reading>>,
         \A m \in Elems(toSwift) : m.type = "reviewed" => m \in Elems(toSwift') \/ sequence >= m.sequence
  PROVE  Answering'
  <1>1. /\ UNCHANGED <<review, asked, reviewQueue, reviewResults, Writing>>
        /\ UNCHANGED <<snapshot, snapshotCount, status, readFiles, opening, pending, held>>
    BY DEF Acknowledge, shownVars, Writing
  <1>2. Real' /\ Runs' /\ Queued' /\ MarksLead' /\ ColumnView' = ColumnView
    BY <1>1 DEF Answering, Real, Runs, Queued, MarksLead, HasSnapshot, Opens, ColumnView
  <1>3. /\ clickCount \in Nat /\ waiting \in 0..clickCount /\ acknowledged \in 0..clickCount
        /\ sequence \in Nat
        /\ \A m \in Elems(toSwift) : m.type = "reviewed" => m.sequence \in Nat
    BY DEF IInv, ClicksNumbered, AnswersNumbered
  <1>4. PICK first : first = Max({waiting, sequence})
    OBVIOUS
  <1>5. PICK last : last = Max({acknowledged, sequence, waiting})
    OBVIOUS
  <1>6. first \in Nat /\ waiting <= first /\ sequence <= first
    <2>1. {waiting, sequence} \in SUBSET (0..clickCount)
      BY <1>3
    <2> QED BY <1>3, <1>4, <2>1, MaxOf
  <1>7. last \in Nat /\ acknowledged <= last /\ sequence <= last
    <2>1. PICK all : all = {acknowledged, sequence, waiting}
      OBVIOUS
    <2>2. all \in SUBSET (0..clickCount) /\ acknowledged \in all /\ sequence \in all /\ all # {}
      BY <1>3, <2>1
    <2>3. Max(all) \in all /\ \A k \in all : k <= Max(all)
      BY <1>3, <2>2, MaxOf
    <2> QED BY <1>3, <1>5, <2>1, <2>2, <2>3
  <1>8. CASE Writing
    <2>1. waiting' = first /\ UNCHANGED <<acknowledged, toPage>>
      BY <1>4, <1>8 DEF Acknowledge
    <2>2. [type |-> "showStatus"] \in Plain /\ Sends(<<>>) /\ <<>> \in Seq(Message)
      BY <2>1, PlainAre, NoneSent, ColumnIs, EmptySeq
    <2>3. Brings(<<>>)
      <3>1. PICK n \in Plain : n = [type |-> "showStatus"]
        BY <2>2
      <3> QED BY <1>1, <1>2, PlainBrings
    <2>4. ASSUME NEW q \in Nat, AnswerComes(q) PROVE AnswerComes(q)'
      <3>1. CASE \E m \in Elems(toSwift) : m.type = "reviewed" /\ m.sequence >= q
        <4>1. PICK m \in Elems(toSwift) : m.type = "reviewed" /\ m.sequence >= q
          BY <3>1
        <4>2. m \in Elems(toSwift') \/ waiting' >= q
          BY <1>3, <1>6, <2>1, <4>1
        <4> QED BY <1>1, <1>8, <4>1, <4>2 DEF AnswerComes
      <3>2. CASE waiting >= q
        BY <1>1, <1>3, <1>6, <1>8, <2>1, <3>2 DEF AnswerComes
      <3>3. CASE ~(waiting >= q) /\ ~ \E m \in Elems(toSwift) : m.type = "reviewed" /\ m.sequence >= q
        BY <1>1, <2>1, <2>4, <3>3 DEF AnswerComes
      <3> QED BY <3>1, <3>2, <3>3
    <2> QED BY <1>2, <2>2, <2>3, <2>4, ColumnLeads
  <1>9. CASE ~Writing
    <2>1. PICK ms : ms = IF HasSnapshot THEN ReviewMessage(readFiles, review.marks, last) ELSE <<>>
      OBVIOUS
    <2>2. acknowledged' = last /\ Sends(ms)
      BY <1>5, <1>9, <2>1 DEF Acknowledge
    <2>3. /\ ReviewMessage(readFiles, review.marks, last) \in Seq(Message)
          /\ ~status => /\ Leads(ColumnView, ReviewMessage(readFiles, review.marks, last), ColumnView)
                        /\ \E m \in Elems(ReviewMessage(readFiles, review.marks, last)) :
                             m.type = "showReview" /\ m.review.acknowledged = last
          /\ status => ReviewMessage(readFiles, review.marks, last) = <<>>
      <3>1. readFiles \in Lines(Files) /\ review.marks \in [Files -> Mark] /\ snapshot.files \in Shot
        BY ColumnIs, ViewsTyped, FilesAssumption DEF Lines
      <3>2. StatesOf(snapshot.files, readFiles, review.marks) \in States
        BY <3>1, StatesTyped
      <3> QED BY <1>7, <3>1, <3>2, ReviewTold DEF ColumnView
    <2>4. status = ~HasSnapshot /\ <<>> \in Seq(Message) /\ ColumnView \in Viewed
      BY EmptySeq, ViewsTyped DEF Answering, Real
    <2>5. /\ ms \in Seq(Message)
          /\ ~status => Leads(ColumnView, ms, ColumnView) /\ \E m \in Elems(ms) : m.type = "showReview" /\ m.review.acknowledged = last
          /\ status => ms = <<>>
      BY <2>1, <2>3, <2>4
    <2>6. Brings(ms)
      <3>1. ASSUME NEW v \in Viewed, status PROVE Leads(v, ms, v)
        BY <2>5, <3>1, NothingLeads
      <3> QED BY <1>1, <1>2, <2>4, <2>5, <3>1 DEF Brings
    <2>7. Elems(toPage) \subseteq Elems(toPage') /\ (isPageReady => Elems(ms) \subseteq Elems(toPage'))
      BY <2>2, <2>5, SendsMore, ColumnIs
    <2>8. ASSUME NEW q \in Nat, isPageReady, AnswerComes(q) PROVE AnswerComes(q)'
      <3>1. ASSUME last >= q PROVE AnswerComes(q)'
        <4>1. CASE status
          BY <1>1, <2>2, <3>1, <4>1 DEF AnswerComes
        <4>2. CASE ~status
          <5>1. PICK m \in Elems(ms) : m.type = "showReview" /\ m.review.acknowledged = last
            BY <2>5, <4>2
          <5> QED BY <2>7, <2>8, <3>1, <5>1 DEF AnswerComes
        <4> QED BY <4>1, <4>2
      <3>2. ASSUME NEW m \in Elems(toSwift), m.type = "reviewed", m.sequence >= q PROVE AnswerComes(q)'
        <4>1. m \in Elems(toSwift') \/ last >= q
          BY <1>3, <1>7, <3>2
        <4> QED BY <3>1, <3>2, <4>1 DEF AnswerComes
      <3>3. ASSUME acknowledged >= q PROVE last >= q
        BY <1>3, <1>7, <3>3
      <3>4. /\ ~ \E c \in Elems(asked) : c.sequence >= q
            /\ ~ \E r \in Elems(reviewResults) : \E c \in Elems(r.changes) : c.sequence >= q
        BY <1>9, WritingIs DEF Elems
      <3> QED BY <1>9, <2>7, <2>8, <3>1, <3>2, <3>3, <3>4 DEF AnswerComes
    <2> QED BY <1>2, <2>2, <2>5, <2>6, <2>8, ColumnLeads
  <1> QED BY <1>8, <1>9

LEMMA MarksReviewedLeads ==
  ASSUME IInv, IInv', Answering, toSwift # <<>>, NEW m, m = Head(toSwift), m.type = "reviewed", MarksReviewed(m),
         toSwift' = Tail(toSwift), UNCHANGED <<disk, pageVars, isPageReady>>
  PROVE  Answering'
  <1>1. toSwift \in Seq(Request) /\ m \in Elems(toSwift) /\ m.sequence \in 1..clickCount /\ m.sequence \in Nat
    <2>1. toSwift \in Seq(Request)
      BY ColumnIs
    <2>2. m \in Elems(toSwift)
      BY <2>1, ElemsTail
    <2> QED BY <2>1, <2>2 DEF IInv, ClicksNumbered
  <1>2. UNCHANGED <<shownVars, reading>>
    BY DEF MarksReviewed, readVars
  <1>3. \A r \in Elems(toSwift) : r.type = "reviewed" => r \in Elems(toSwift') \/ m.sequence >= r.sequence
    BY <1>1, ElemsRest
  <1>4. CASE Clicked(m) = {}
    BY <1>1, <1>2, <1>3, <1>4, AcknowledgeLeads DEF MarksReviewed
  <1>5. CASE Clicked(m) # {}
    <2>1. PICK marks : marks = [p \in Clicked(m) |->
              [ver |-> PatchHash(snapshot.files, readFiles, p), seen |-> IF p \in DOMAIN m.seen THEN m.seen[p] ELSE None]]
      OBVIOUS
    <2>2. PICK c : c = [type |-> "reviewed", reviewed |-> m.reviewed, sequence |-> m.sequence, marks |-> marks]
      OBVIOUS
    <2>3. Enqueue(c) /\ c.sequence = m.sequence
      BY <1>5, <2>1, <2>2 DEF MarksReviewed
    <2> QED BY <1>1, <1>2, <1>3, <2>3, EnqueueLeads
  <1> QED BY <1>4, <1>5

LEMMA MarksWrongLeads ==
  ASSUME IInv, IInv', Answering, toSwift # <<>>, NEW m, m = Head(toSwift), m.type = "markWrong", MarksWrong(m),
         toSwift' = Tail(toSwift), UNCHANGED <<disk, pageVars, isPageReady>>
  PROVE  Answering'
  <1>1. UNCHANGED <<shownVars, reading>> /\ m.id \in Nat
    <2>1. m \in Request
      BY ColumnIs, ElemsTail
    <2> QED BY <2>1, RequestIs DEF MarksWrong, readVars
  <1>2. \A r \in Elems(toSwift) : r.type = "reviewed" => r \in Elems(toSwift')
    BY RequestsLeft
  <1>3. PICK c : c = [type |-> "markWrong", id |-> m.id, wrong |-> m.wrong, sequence |-> 0]
    OBVIOUS
  <1>4. \/ Sends(<<NoteAnswer(m.id, "kept", <<>>)>>) /\ UNCHANGED writeVars
        \/ Enqueue(c)
    BY <1>3 DEF MarksWrong
  <1>5. CASE Sends(<<NoteAnswer(m.id, "kept", <<>>)>>) /\ UNCHANGED writeVars
    <2>1. NoteAnswer(m.id, "kept", <<>>) \in Plain
      BY <1>1, PlainAre DEF Versions
    <2>2. UNCHANGED <<snapshot, snapshotCount, status, readFiles, opening, pending, held>>
      BY <1>1 DEF shownVars
    <2>3. /\ pending' # NoRead => pending'.head # 0
          /\ held' # NoRead => held'.head # 0
          /\ reading'.found = "read" => reading'.read.head # 0
      BY <1>1, <2>2 DEF Answering, Real
    <2> QED BY <1>2, <1>5, <2>1, <2>2, <2>3, SaysLead
  <1>6. CASE Enqueue(c)
    BY <1>1, <1>2, <1>3, <1>6, EnqueueLeads
  <1> QED BY <1>4, <1>5, <1>6

LEMMA SwiftReceivesLeads ==
  ASSUME IInv, IInv', Answering, SwiftReceives
  PROVE  Answering'
  <1>1. PICK m : m = Head(toSwift)
    OBVIOUS
  <1>2. toSwift # <<>> /\ toSwift' = Tail(toSwift) /\ UNCHANGED <<disk, pageVars, isPageReady>>
    BY DEF SwiftReceives
  <1>3. \/ m.type = "loadFile" /\ LoadsFile(m)
        \/ m.type = "selection" /\ SelectionChanged(m)
        \/ m.type = "reload" /\ BannerClicked
        \/ m.type = "reviewed" /\ MarksReviewed(m)
        \/ m.type = "markWrong" /\ MarksWrong(m)
    BY <1>1 DEF SwiftReceives
  <1> QED BY <1>1, <1>2, <1>3, LoadsFileLeads, SelectionLeads, BannerClickedLeads, MarksReviewedLeads, MarksWrongLeads

\* An answer is appended to those that wait.
LEMMA ResultAppended ==
  ASSUME reviewResults \in Seq(Result), NEW r \in Result, reviewResults' = Append(reviewResults, r)
  PROVE  /\ Elems(reviewResults') = Elems(reviewResults) \cup {r}
         /\ \E n \in Nat : /\ DOMAIN reviewResults = 1..n /\ DOMAIN reviewResults' = 1..(n + 1)
                           /\ reviewResults'[n + 1] = r
                           /\ \A i \in 1..n : reviewResults'[i] = reviewResults[i]
  <1>1. Elems(reviewResults') = Elems(reviewResults) \cup {r}
    BY ElemsAppend
  <1>2. PICK n, all : n = Len(reviewResults) /\ all = reviewResults'
    OBVIOUS
  <1>3. /\ n \in Nat /\ DOMAIN reviewResults = 1..n /\ DOMAIN all = 1..(n + 1) /\ all[n + 1] = r
        /\ \A i \in 1..n : all[i] = reviewResults[i]
    BY <1>2, AppendProperties, LenProperties
  <1> QED BY <1>1, <1>2, <1>3

\* The last answer is of the marks the review file has.
LEMMA LastAnswers ==
  ASSUME reviewResults \in Seq(Result), NEW r \in Result, reviewResults' = Append(reviewResults, r),
         Opens(r)', r.state.marks = disk'.marks
  PROVE  MarksLead'
  <1>1. PICK n \in Nat : /\ DOMAIN reviewResults' = 1..(n + 1) /\ reviewResults'[n + 1] = r
    BY ResultAppended
  <1>2. n + 1 \in DOMAIN reviewResults' /\ \A j \in DOMAIN reviewResults' : ~(j > n + 1)
    BY <1>1
  <1> QED BY <1>1, <1>2 DEF MarksLead, Opens

\* An answer for a page gone leaves the others as they are.
LEMMA GoneAnswers ==
  ASSUME reviewResults \in Seq(Result), NEW r \in Result, reviewResults' = Append(reviewResults, r),
         ~Opens(r), UNCHANGED <<snapshot, snapshotCount, review>>, disk'.marks = disk.marks,
         MarksLead, opening # snapshotCount
  PROVE  MarksLead'
  <1> SUFFICES ASSUME HasSnapshot PROVE MarksLead'
    BY DEF MarksLead, HasSnapshot
  <1>1. PICK n \in Nat : /\ DOMAIN reviewResults = 1..n /\ DOMAIN reviewResults' = 1..(n + 1)
                         /\ reviewResults'[n + 1] = r /\ \A i \in 1..n : reviewResults'[i] = reviewResults[i]
    BY ResultAppended
  <1>2. \A x : Opens(x)' <=> Opens(x)
    BY DEF Opens
  <1>3. CASE \E i \in DOMAIN reviewResults :
               /\ Opens(reviewResults[i]) /\ reviewResults[i].state.marks = disk.marks
               /\ \A j \in DOMAIN reviewResults : j > i => ~Opens(reviewResults[j])
    <2>1. PICK i \in 1..n : /\ Opens(reviewResults[i]) /\ reviewResults[i].state.marks = disk.marks
                            /\ \A j \in 1..n : j > i => ~Opens(reviewResults[j])
      BY <1>1, <1>3
    <2>2. i \in DOMAIN reviewResults' /\ Opens(reviewResults'[i]) /\ reviewResults'[i].state.marks = disk'.marks
      BY <1>1, <2>1
    <2>3. \A j \in DOMAIN reviewResults' : j > i => ~Opens(reviewResults'[j])
      BY <1>1, <2>1
    <2>4. \E k \in DOMAIN reviewResults' :
            /\ Opens(reviewResults'[k]) /\ reviewResults'[k].state.marks = disk'.marks
            /\ \A j \in DOMAIN reviewResults' : j > k => ~Opens(reviewResults'[j])
      BY <2>2, <2>3
    <2> QED BY <2>4 DEF MarksLead, Opens
  <1>4. CASE (\A x \in Elems(reviewResults) : ~Opens(x)) /\ review.marks = disk.marks
    <2>1. \A x \in Elems(reviewResults') : ~Opens(x)
      BY <1>4, ResultAppended
    <2> QED BY <1>4, <2>1 DEF MarksLead, Opens
  <1> QED BY <1>3, <1>4 DEF MarksLead

\* Each record the review file comes to is of a run.
LEMMA FileRuns ==
  ASSUME IInv, disk.expl.run # 0
  PROVE  FoldLeft(Changed, disk, asked).expl.run # 0
  <1>1. PICK n \in Nat : DOMAIN asked = 1..n
    BY FileSeen, LenProperties
  <1>2. PICK T : T = {d \in Record : d.expl.run # 0}
    OBVIOUS
  <1>3. ASSUME NEW d \in T, NEW i \in 1..n PROVE Changed(d, asked[i]) \in T
    <2>1. d \in Record /\ d.expl \in Explained /\ d.expl.run # 0
      BY <1>2 DEF Record
    <2>2. asked[i] \in Change /\ asked[i] \in Elems(asked)
      BY <1>1, FileSeen, ElementOfSeq, LenProperties DEF Elems
    <2>3. PICK c : c = asked[i]
      OBVIOUS
    <2>4. CASE c.type = "markWrong"
      <3>1. c.wrong \in BOOLEAN
        BY <2>2, <2>3, <2>4, ChangeIs
      <3>2. PICK e : e = [d.expl EXCEPT !.wrong = c.wrong]
        OBVIOUS
      <3>3. e \in Explained /\ e.run = d.expl.run
        BY <2>1, <3>1, <3>2 DEF Explained
      <3>4. Changed(d, c) = d \/ Changed(d, c) = [d EXCEPT !.expl = e]
        BY <2>4, <3>2 DEF Changed
      <3> QED BY <1>2, <2>1, <2>3, <3>3, <3>4 DEF Record
    <2>5. CASE c.type # "markWrong"
      <3>1. c.reviewed \in BOOLEAN /\ DOMAIN c.marks \in SUBSET Files /\ c.marks \in [DOMAIN c.marks -> Mark]
        BY <2>2, <2>3, <2>5, ChangeIs
      <3>2. PICK none : none = [ver |-> None, seen |-> None]
        OBVIOUS
      <3>3. none \in Mark
        BY <3>2, FilesAssumption DEF Mark, Version, None
      <3>4. PICK marks : marks = [p \in Files |-> IF p \notin DOMAIN c.marks THEN d.marks[p]
                                                  ELSE IF ~c.reviewed THEN none ELSE c.marks[p]]
        OBVIOUS
      <3>5. Changed(d, c) = [d EXCEPT !.marks = marks]
        BY <2>5, <3>2, <3>4 DEF Changed
      <3>6. marks \in [Files -> Mark]
        BY <2>1, <3>1, <3>3, <3>4 DEF Record
      <3> QED BY <1>2, <2>1, <2>3, <3>5, <3>6 DEF Record
    <2> QED BY <2>4, <2>5
  <1>4. disk \in T
    BY <1>2, ColumnIs
  <1>5. FoldLeft(Changed, disk, asked) \in T
    BY <1>1, <1>3, <1>4, ChangedFold
  <1> QED BY <1>2, <1>5

\* The review's queue: a change asked is in an answer once it is written, or not.
LEMMA RunReviewTaskLeads ==
  ASSUME IInv, IInv', Answering, NEW fails \in BOOLEAN, RunReviewTask(fails)
  PROVE  Answering'
  <1>1. /\ asked \in Seq(Change) /\ reviewResults \in Seq(Result) /\ reviewQueue \in Seq({"write", "reload"})
        /\ reviewResults' \in Seq(Result) /\ disk' \in Record /\ toPage \in Seq(Message)
    BY ColumnIs DEF WriteTyped, IInv, Typed
  <1>2. PICK task : task = Head(reviewQueue)
    OBVIOUS
  <1>3. reviewQueue # <<>> /\ reviewQueue' = Tail(reviewQueue) /\ task \in {"write", "reload"}
    <2>1. reviewQueue # <<>> /\ reviewQueue' = Tail(reviewQueue)
      BY DEF RunReviewTask
    <2> QED BY <1>1, <1>2, <2>1, ElemsTail
  <1>4. PICK changes : changes = IF task = "write" THEN asked ELSE <<>>
    OBVIOUS
  <1>5. PICK result : result = [kind |-> task, state |-> disk', changes |-> changes]
    OBVIOUS
  <1>6. /\ UNCHANGED <<pageVars, isPageReady, toSwift, toPage, reading, review, acknowledged, waiting>>
        /\ UNCHANGED <<snapshot, snapshotCount, status, pending, held, readFiles, opening>>
    BY DEF RunReviewTask, shownVars, readVars
  <1>7. \/ task = "write" /\ asked = <<>> /\ UNCHANGED <<asked, reviewResults>> /\ disk' = FoldLeft(Changed, disk, asked)
        \/ /\ task = "reload" /\ disk' = disk /\ asked' = asked
           /\ reviewResults' = Append(reviewResults, result)
        \/ /\ task = "write" /\ asked # <<>> /\ disk' \in {disk, FoldLeft(Changed, disk, asked)} /\ asked' = <<>>
           /\ reviewResults' = Append(reviewResults, result)
    BY <1>2, <1>3, <1>4, <1>5 DEF RunReviewTask
  <1>8. Real'
    BY <1>6 DEF Answering, Real, HasSnapshot
  <1>9. disk'.expl.run # 0
    BY <1>7, FileRuns DEF Answering, Runs
  <1>10. Sends(<<>>) /\ Brings(<<>>) /\ <<>> \in Seq(Message)
    <2>1. [type |-> "showStatus"] \in Plain /\ Sends(<<>>)
      BY <1>1, <1>6, PlainAre, NoneSent
    <2>2. PICK n \in Plain : n = [type |-> "showStatus"]
      BY <2>1
    <2>3. ColumnView' = ColumnView
      BY <1>6 DEF ColumnView
    <2> QED BY <1>6, <2>1, <2>2, <2>3, PlainBrings
  <1>11. CASE task = "write" /\ asked = <<>> /\ UNCHANGED <<asked, reviewResults>> /\ disk' = FoldLeft(Changed, disk, asked)
    <2>1. disk' = disk
      <3>1. DOMAIN asked = 1..0
        BY <1>11
      <3>2. PICK T : T = {disk}
        OBVIOUS
      <3>3. disk \in T /\ 0 \in Nat /\ \A d \in T, i \in 1..0 : Changed(d, asked[i]) \in T
        BY <3>2
      <3>4. FoldLeft(Changed, disk, asked) \in T
        BY <3>1, <3>3, ChangedFold
      <3> QED BY <1>11, <3>2, <3>4
    <2>2. Runs' /\ Queued' /\ MarksLead'
      BY <1>6, <1>11, <2>1 DEF Answering, Runs, Queued, MarksLead, HasSnapshot, Opens
    <2>3. ASSUME NEW q \in Nat \ {0}, AnswerComes(q) PROVE AnswerComes(q)'
      BY <1>6, <1>11, <2>3 DEF AnswerComes, Writing
    <2> QED BY <1>6, <1>8, <1>10, <2>2, <2>3, ColumnLeads
  <1>12. CASE reviewResults' = Append(reviewResults, result) /\ asked' \in {asked, <<>>}
              /\ (task = "reload" => asked' = asked) /\ (task = "write" => asked # <<>> /\ asked' = <<>>)
    <2>1. changes \in Seq(Change)
      BY <1>1, <1>4, EmptySeq
    <2>2. result \in Result /\ result.kind # "open" /\ result.changes = changes
      BY <1>1, <1>3, <1>5, <2>1 DEF Result
    <2>3. Elems(reviewResults') = Elems(reviewResults) \cup {result}
      BY <1>1, <1>12, <2>2, ResultAppended
    <2>4. Runs'
      BY <1>5, <1>9, <2>3 DEF Answering, Runs
    <2>5. MarksLead'
      <3>1. Opens(result)' /\ result.state.marks = disk'.marks
        BY <1>5, <2>2 DEF Opens
      <3> QED BY <1>1, <1>12, <2>2, <3>1, LastAnswers
    <2>6. Queued'
      <3>1. \A r \in Elems(reviewResults') : r.kind # "write" => r.changes = <<>>
        BY <1>3, <1>4, <1>5, <2>3 DEF Answering, Queued
      <3>2. ASSUME asked' # <<>> PROVE "write" \in Elems(reviewQueue')
        <4>1. task = "reload" /\ asked # <<>>
          BY <1>3, <1>12, <3>2
        <4>2. "write" \in Elems(reviewQueue)
          BY <4>1 DEF Answering, Queued
        <4> QED BY <1>1, <1>2, <1>3, <4>1, <4>2, ElemsRest
      <3> QED BY <3>1, <3>2 DEF Queued
    <2>7. ASSUME NEW q \in Nat \ {0}, AnswerComes(q) PROVE AnswerComes(q)'
      <3>1. CASE task = "write"
        <4>1. asked # <<>> /\ result \in Elems(reviewResults') /\ result.changes = asked
          BY <1>4, <1>12, <2>2, <2>3, <3>1
        <4>2. Writing'
          <5>1. PICK i \in DOMAIN reviewResults' : reviewResults'[i] = result
            BY <4>1 DEF Elems
          <5> QED BY <4>1, <5>1 DEF Writing
        <4> QED BY <1>6, <2>3, <2>7, <4>1, <4>2 DEF AnswerComes
      <3>2. CASE task = "reload"
        <4>1. asked' = asked /\ Elems(reviewResults) \subseteq Elems(reviewResults')
          BY <1>12, <2>3, <3>2
        <4>2. Writing => Writing'
          <5>1. (\E r \in Elems(reviewResults) : r.changes # <<>>) => (\E i \in DOMAIN reviewResults' : reviewResults'[i].changes # <<>>)
            BY <4>1 DEF Elems
          <5> QED BY <4>1, <5>1, WritingIs DEF Writing
        <4> QED BY <1>6, <2>7, <4>1, <4>2 DEF AnswerComes
      <3> QED BY <1>3, <3>1, <3>2
    <2> QED BY <1>6, <1>8, <1>10, <2>4, <2>5, <2>6, <2>7, ColumnLeads
  <1> QED BY <1>3, <1>7, <1>11, <1>12

LEMMA OpenReviewLeads ==
  ASSUME IInv, Answering, OpenReview
  PROVE  Answering'
  <1>1. PICK result : result = [kind |-> "open", gen |-> opening, state |-> disk, changes |-> <<>>]
    OBVIOUS
  <1>2. /\ opening' = 0 /\ reviewResults' = Append(reviewResults, result)
        /\ UNCHANGED <<pageVars, isPageReady, toSwift, toPage, reading, disk, review, asked, reviewQueue, acknowledged, waiting>>
        /\ UNCHANGED <<snapshot, snapshotCount, status, pending, held, readFiles>>
    BY <1>1 DEF OpenReview, readVars
  <1>3. reviewResults \in Seq(Result) /\ disk \in Record /\ opening \in Nat /\ toPage \in Seq(Message)
    BY ColumnIs DEF WriteTyped, ShownTyped
  <1>4. result \in Result /\ result.kind = "open" /\ result.gen = opening /\ result.changes = <<>> /\ result.state = disk
    BY <1>1, <1>3 DEF Result
  <1>5. Elems(reviewResults') = Elems(reviewResults) \cup {result}
    BY <1>2, <1>3, <1>4, ResultAppended
  <1>6. Real' /\ Runs' /\ Queued'
    BY <1>2, <1>4, <1>5 DEF Answering, Real, Runs, Queued, HasSnapshot
  <1>7. MarksLead'
    <2>1. CASE opening = snapshotCount
      <3>1. Opens(result)' /\ result.state.marks = disk'.marks
        BY <1>2, <1>4, <2>1 DEF Opens
      <3> QED BY <1>2, <1>3, <1>4, <3>1, LastAnswers
    <2>2. CASE opening # snapshotCount
      <3>1. ~Opens(result)
        BY <1>4, <2>2 DEF Opens
      <3> QED BY <1>2, <1>3, <1>4, <2>2, <3>1, GoneAnswers DEF Answering
    <2> QED BY <2>1, <2>2
  <1>8. Sends(<<>>) /\ Brings(<<>>) /\ <<>> \in Seq(Message)
    <2>1. [type |-> "showStatus"] \in Plain /\ Sends(<<>>)
      BY <1>2, <1>3, PlainAre, NoneSent
    <2>2. PICK n \in Plain : n = [type |-> "showStatus"]
      BY <2>1
    <2>3. ColumnView' = ColumnView
      BY <1>2 DEF ColumnView
    <2> QED BY <1>2, <2>1, <2>2, <2>3, PlainBrings
  <1>9. Writing => Writing'
    <2>1. (\E r \in Elems(reviewResults) : r.changes # <<>>) => (\E i \in DOMAIN reviewResults' : reviewResults'[i].changes # <<>>)
      BY <1>5 DEF Elems
    <2> QED BY <1>2, <2>1, WritingIs DEF Writing
  <1>10. ASSUME NEW q \in Nat \ {0}, AnswerComes(q) PROVE AnswerComes(q)'
    BY <1>2, <1>5, <1>9, <1>10 DEF AnswerComes
  <1> QED BY <1>2, <1>6, <1>7, <1>8, <1>10, ColumnLeads

LEMMA ExplainEndsLeads ==
  ASSUME IInv, Answering, ExplainEnds
  PROVE  Answering'
  <1>1. /\ disk' = [disk EXCEPT !.expl = [run |-> disk.expl.run + 1, wrong |-> FALSE]]
        /\ reviewQueue' = Append(reviewQueue, "reload")
        /\ UNCHANGED <<pageVars, isPageReady, toSwift, toPage, reading, review, asked, reviewResults, acknowledged, waiting>>
        /\ UNCHANGED <<snapshot, snapshotCount, status, pending, held, readFiles, opening>>
    BY DEF ExplainEnds, shownVars, readVars
  <1>2. disk \in Record /\ toPage \in Seq(Message) /\ reviewQueue \in Seq({"write", "reload"})
    BY ColumnIs DEF WriteTyped
  <1>3. disk'.marks = disk.marks /\ disk'.expl.run # 0
    BY <1>1, <1>2 DEF Record, Explained
  <1>4. Elems(reviewQueue) \subseteq Elems(reviewQueue')
    BY <1>1, <1>2, ElemsAppend
  <1>5. Real' /\ Runs' /\ Queued' /\ MarksLead' /\ ColumnView' = ColumnView
    BY <1>1, <1>3, <1>4 DEF Answering, Real, Runs, Queued, MarksLead, HasSnapshot, Opens, ColumnView
  <1>6. Sends(<<>>) /\ Brings(<<>>) /\ <<>> \in Seq(Message)
    <2>1. [type |-> "showStatus"] \in Plain /\ Sends(<<>>)
      BY <1>1, <1>2, PlainAre, NoneSent
    <2>2. PICK n \in Plain : n = [type |-> "showStatus"]
      BY <2>1
    <2> QED BY <1>1, <1>5, <2>1, <2>2, PlainBrings
  <1>7. ASSUME NEW q \in Nat \ {0}, AnswerComes(q) PROVE AnswerComes(q)'
    BY <1>1, <1>7 DEF AnswerComes, Writing
  <1> QED BY <1>1, <1>5, <1>6, <1>7, ColumnLeads

-----------------------------------------------------------------------------
(* The answers of the review's queue lead on                               *)

\* A read of a branch, if there is one.
Branched(r) == r # NoRead => r.head # 0

\* The page's view of marks, were they the column's.
ViewOf(marks) == [gen |-> snapshotCount, states |-> StatesOf(snapshot.files, readFiles, marks)]

\* Notes that tell the page nothing of the marks that u does not have.
NotesLead(u) == {s \in NotesType : Leads(u, s.out, u) /\ Branched(s.pending) /\ Branched(s.held)}

LEMMA NotesLeadIs ==
  ASSUME NEW u, NEW s \in NotesLead(u)
  PROVE  /\ s \in NotesType /\ s.out \in Seq(Message) /\ Leads(u, s.out, u)
         /\ Branched(s.pending) /\ Branched(s.held)
  <1>1. Sent(snapshotCount, snapshot.files) \subseteq Message
    BY DEF Sent
  <1>2. s \in NotesType /\ s.out \in Seq(Sent(snapshotCount, snapshot.files))
    BY NotesIs DEF NotesLead
  <1>3. s.out \in Seq(Message)
    <2> HIDE DEF Sent
    <2> QED BY <1>1, <1>2, SeqMonotonic
  <1> QED BY <1>2, <1>3 DEF NotesLead

LEMMA NotesAsTheyAre ==
  ASSUME IInv, Answering, NEW u \in Viewed
  PROVE  Notes \in NotesLead(u)
  <1>1. Notes \in NotesType /\ Leads(u, <<>>, u)
    BY NotesTyped, NothingLeads
  <1>2. Notes.out = <<>> /\ Notes.pending = pending /\ Notes.held = held
    BY DEF Notes
  <1>3. Branched(pending) /\ Branched(held)
    BY DEF Answering, Real, Branched
  <1> QED BY <1>1, <1>2, <1>3 DEF NotesLead

LEMMA DrawnAgainLeads ==
  ASSUME IInv, NEW u \in Viewed, NEW s \in NotesLead(u), NEW state \in Record,
         HasSnapshot => u = ViewOf(state.marks)
  PROVE  DrawnAgain(s, state) \in NotesLead(u)
  <1>1. s \in NotesType /\ s.out \in Seq(Message) /\ Leads(u, s.out, u) /\ Branched(s.pending) /\ Branched(s.held)
    BY NotesLeadIs
  <1>2. DrawnAgain(s, state) \in NotesType
    BY <1>1, DrawnAgainTyped
  <1>3. s.version \in Nat /\ state.marks \in [Files -> Mark]
    BY <1>1, NotesIs DEF Record
  <1>4. PICK more : more = Current(s.version, state.marks)
    OBVIOUS
  <1>5. more \in Seq(Message) /\ (HasSnapshot => Leads(u, more, u))
    BY <1>3, <1>4, CurrentTold DEF ViewOf
  <1>6. HasSnapshot => Leads(u, s.out \o more, u)
    BY <1>1, <1>5, LeadsOn
  <1>7. \/ DrawnAgain(s, state).out = s.out
        \/ HasSnapshot /\ DrawnAgain(s, state).out = s.out \o more
    BY <1>1, <1>4 DEF DrawnAgain, NotesType
  <1>8. DrawnAgain(s, state).pending = s.pending /\ DrawnAgain(s, state).held = s.held
    BY <1>1 DEF DrawnAgain, NotesType
  <1> QED BY <1>1, <1>2, <1>6, <1>7, <1>8 DEF NotesLead

\* No read is of no run: there is no mark for it.
LEMMA MarkedBranched ==
  ASSUME NEW r \in Read, Branched(r), NEW id \in Nat \ {0}, NEW wrong
  PROVE  Branched(WithMark(r, id, wrong))
  <1>1. CASE r = NoRead
    <2>1. NoRead.expl.run = 0
      BY DEF NoRead, None
    <2> QED BY <1>1, <2>1 DEF WithMark, Branched
  <1>2. CASE r # NoRead
    <2>1. r.head # 0 /\ \A e : [r EXCEPT !.expl = e].head = r.head
      BY <1>2 DEF Branched, Read
    <2>2. WithMark(r, id, wrong).head = r.head
      BY <2>1 DEF WithMark
    <2> QED BY <2>1, <2>2 DEF Branched
  <1> QED BY <1>1, <1>2

LEMMA MarkedLeads ==
  ASSUME IInv, NEW u \in Viewed, NEW s \in NotesLead(u), NEW c \in Change, NEW state \in Record,
         state.expl.run # 0, HasSnapshot => u = ViewOf(state.marks)
  PROVE  Marked(s, c, state) \in NotesLead(u)
  <1>1. s \in NotesType /\ s.out \in Seq(Message) /\ Leads(u, s.out, u) /\ Branched(s.pending) /\ Branched(s.held)
    BY NotesLeadIs
  <1>2. Marked(s, c, state) \in NotesType
    BY <1>1, MarkedTyped
  <1>3. CASE c.type # "markWrong"
    BY <1>3 DEF Marked
  <1>4. CASE c.type = "markWrong"
    <2>1. /\ s.expl \in Explained /\ s.version \in Nat /\ s.pending \in Read /\ s.held \in Read
          /\ s.out \in Seq(Sent(snapshotCount, snapshot.files))
      BY <1>1, NotesIs
    <2>2. c.id \in Nat /\ state.expl \in Explained /\ state.expl.wrong \in BOOLEAN
      BY <1>4, ChangeIs DEF Record, Explained
    <2>3. PICK e : e = IF HasSnapshot THEN state.expl ELSE s.expl
      OBVIOUS
    <2>4. PICK version : version = IF e = s.expl THEN s.version ELSE s.version + 1
      OBVIOUS
    <2>5. PICK wrong : wrong = IF e.run = c.id /\ e.wrong THEN "wrong" ELSE "right"
      OBVIOUS
    <2>6. PICK current \in BOOLEAN : current = (e.run = s.expl.run /\ s.pageVersion = s.version)
      OBVIOUS
    <2>7. PICK waits : waits = IF HasSnapshot /\ state.expl.run = c.id
                                 THEN WithMark(s.pending, c.id, state.expl.wrong) ELSE s.pending
      OBVIOUS
    <2>8. PICK holds : holds = IF HasSnapshot /\ state.expl.run = c.id
                                 THEN WithMark(s.held, c.id, state.expl.wrong) ELSE s.held
      OBVIOUS
    <2>9. PICK versions : versions = IF current THEN <<s.version, version>> ELSE <<>>
      OBVIOUS
    <2>10. PICK out : out = Append(s.out, NoteAnswer(c.id, wrong, versions))
      OBVIOUS
    <2>11. PICK next : next = [s EXCEPT !.expl = e, !.version = version, !.pending = waits, !.held = holds, !.out = out]
      OBVIOUS
    <2>12. e \in Explained /\ version \in Nat /\ waits \in Read /\ holds \in Read
      BY <2>1, <2>2, <2>3, <2>4, <2>7, <2>8, ReadMarked
    <2>13. versions \in Versions /\ wrong \in {"wrong", "right", "kept"}
      BY <2>1, <2>5, <2>9, <2>12 DEF Versions
    <2>14. NoteAnswer(c.id, wrong, versions) \in Sent(snapshotCount, snapshot.files)
           /\ NoteAnswer(c.id, wrong, versions) \in Plain
      BY <2>2, <2>13, NoteAnswerSent, PlainAre
    <2>15. out \in Seq(Sent(snapshotCount, snapshot.files)) /\ Leads(u, out, u)
      <3>1. out = s.out \o <<NoteAnswer(c.id, wrong, versions)>> /\ out \in Seq(Sent(snapshotCount, snapshot.files))
        BY <2>1, <2>10, <2>14, AppendIsConcat, AppendProperties
      <3>2. PICK n \in Plain : n = NoteAnswer(c.id, wrong, versions)
        BY <2>14
      <3>3. Leads(u, <<n>>, u) /\ <<n>> \in Seq(Message)
        BY PlainLeads
      <3>4. Leads(u, s.out \o <<n>>, u)
        BY <1>1, <3>3, LeadsOn
      <3> QED BY <3>1, <3>2, <3>4
    <2>16. Branched(waits) /\ Branched(holds)
      BY <1>1, <2>1, <2>2, <2>7, <2>8, MarkedBranched
    <2>17. next \in NotesType /\ next.out = out /\ next.pending = waits /\ next.held = holds
      BY <1>1, <2>11, <2>12, <2>15 DEF NotesType
    <2>18. next \in NotesLead(u)
      BY <2>15, <2>16, <2>17 DEF NotesLead
    <2>19. PICK drawn : drawn = [next EXCEPT !.pageVersion = version]
      OBVIOUS
    <2>20. drawn \in NotesType /\ drawn.out = out /\ drawn.pending = waits /\ drawn.held = holds
      BY <2>12, <2>17, <2>19 DEF NotesType
    <2>21. drawn \in NotesLead(u)
      BY <2>15, <2>16, <2>20 DEF NotesLead
    <2>22. Marked(s, c, state) = IF current THEN drawn ELSE DrawnAgain(next, state)
      BY <1>4, <2>3, <2>4, <2>5, <2>6, <2>7, <2>8, <2>9, <2>10, <2>11, <2>19 DEF Marked
    <2> QED BY <2>18, <2>21, <2>22, DrawnAgainLeads
  <1> QED BY <1>3, <1>4

LEMMA AdoptedLeads ==
  ASSUME IInv, NEW u \in Viewed, NEW s \in NotesLead(u), NEW state \in Record,
         HasSnapshot => u = ViewOf(state.marks)
  PROVE  Adopted(s, state) \in NotesLead(u)
  <1>1. s \in NotesType /\ s.out \in Seq(Message) /\ Leads(u, s.out, u) /\ Branched(s.pending) /\ Branched(s.held)
        /\ s.pending \in Read /\ s.held \in Read
    BY NotesLeadIs, NotesIs
  <1>2. PICK e : e = state.expl
    OBVIOUS
  <1>3. PICK version : version = IF e = s.expl THEN s.version ELSE s.version + 1
    OBVIOUS
  <1>4. PICK waits : waits = IF s.pending = NoRead THEN s.pending ELSE [s.pending EXCEPT !.expl = e]
    OBVIOUS
  <1>5. PICK holds : holds = IF s.held = NoRead THEN s.held ELSE [s.held EXCEPT !.expl = e]
    OBVIOUS
  <1>6. PICK next : next = [s EXCEPT !.expl = e, !.version = version, !.pending = waits, !.held = holds]
    OBVIOUS
  <1>7. e \in Explained /\ version \in Nat
    BY <1>1, <1>2, <1>3, NotesIs DEF Record
  <1>8. \A r \in Read : [r EXCEPT !.expl = e] \in Read /\ [r EXCEPT !.expl = e].head = r.head
    BY <1>7 DEF Read
  <1>9. waits \in Read /\ holds \in Read /\ Branched(waits) /\ Branched(holds)
    BY <1>1, <1>4, <1>5, <1>8 DEF Branched
  <1>10. next \in NotesType /\ next.out = s.out /\ next.pending = waits /\ next.held = holds
    BY <1>1, <1>6, <1>7, <1>9 DEF NotesType
  <1>11. next \in NotesLead(u)
    BY <1>1, <1>9, <1>10 DEF NotesLead
  <1>12. PICK later : later = [next EXCEPT !.waits = pageHasSelection]
    OBVIOUS
  <1>13. later \in NotesType /\ later.out = s.out /\ later.pending = waits /\ later.held = holds
    BY <1>10, <1>12, ColumnIs DEF NotesType
  <1>14. later \in NotesLead(u)
    BY <1>1, <1>9, <1>13 DEF NotesLead
  <1>15. Adopted(s, state) = IF e = s.expl THEN next
                             ELSE IF HasSnapshot /\ ~pageHasSelection THEN DrawnAgain(next, state)
                             ELSE later
    BY <1>2, <1>3, <1>4, <1>5, <1>6, <1>12 DEF Adopted
  <1> QED BY <1>11, <1>14, <1>15, DrawnAgainLeads

\* Nothing but marks is told of the notes.
LEMMA ResultNotes ==
  ASSUME IInv, Answering, reviewResults # <<>>, NEW m, m = Head(reviewResults), NEW u \in Viewed,
         HasSnapshot /\ m.kind # "open" => u = ViewOf(m.state.marks)
  PROVE  NotesAfter(m) \in NotesLead(u)
  <1>1. /\ m \in Elems(reviewResults) /\ m.state \in Record /\ m.changes \in Seq(Change)
        /\ m.kind \in {"write", "reload", "open"}
    <2>1. reviewResults \in Seq(Result)
      BY ColumnIs DEF WriteTyped
    <2> QED BY <2>1, ElemsTail, ResultIs
  <1>2. Notes \in NotesLead(u)
    BY NotesAsTheyAre
  <1>3. m.state.expl.run # 0 /\ (m.kind # "write" => m.changes = <<>>)
    BY <1>1 DEF Answering, Runs, Queued
  <1>4. CASE m.kind = "reload"
    BY <1>1, <1>2, <1>4, AdoptedLeads DEF NotesAfter
  <1>5. CASE m.kind # "reload"
    <2>1. PICK n \in Nat : DOMAIN m.changes = 1..n
      BY <1>1, LenProperties
    <2>2. ASSUME NEW d \in NotesLead(u), NEW i \in 1..n
          PROVE  Marked(d, m.changes[i], m.state) \in NotesLead(u)
      <3>1. m.changes[i] \in Change /\ m.changes # <<>>
        <4>1. i \in DOMAIN m.changes
          BY <2>1
        <4> QED BY <1>1, <4>1, ElementOfSeq, LenProperties
      <3>2. m.kind = "write"
        BY <1>3, <3>1
      <3> QED BY <1>1, <1>3, <3>1, <3>2, MarkedLeads
    <2>3. AllMarked(m.state, m.changes) \in NotesLead(u)
      BY <1>2, <2>1, <2>2, MarkedFold
    <2> QED BY <1>5, <2>3 DEF NotesAfter
  <1> QED BY <1>4, <1>5

\* The messages of an answer lead to its marks.
LEMMA ResultBrings ==
  ASSUME IInv, Answering, TakeReviewResult, NEW m, m = Head(reviewResults),
         review' \in Record, Max({acknowledged, LastClick(m)}) \in Nat
  PROVE  /\ Branched(pending') /\ Branched(held')
         /\ \E ms \in Seq(Message) :
              /\ Sends(ms) /\ Brings(ms)
              /\ AnswersClicks(m) /\ ~status =>
                   \E n \in Elems(ms) : n.type = "showReview" /\ n.review.acknowledged = acknowledged'
  <1>1. /\ reviewResults # <<>>
        /\ review' = IF ResultApplies(m) THEN m.state ELSE review
        /\ pending' = NotesAfter(m).pending /\ held' = NotesAfter(m).held
        /\ UNCHANGED <<snapshot, snapshotCount, status, readFiles>>
    BY ResultTaken
  <1>2. PICK s : s = NotesAfter(m)
    OBVIOUS
  <1>3. PICK sent, told, ms : sent = ReviewSentFor(m) /\ told = AnswerSentFor(m, review'.marks) /\ ms = sent \o s.out \o told
    OBVIOUS
  <1>4. Sends(ms)
    BY <1>2, <1>3, ResultTaken
  <1>5. status = ~HasSnapshot
    BY DEF Answering, Real
  <1>6. PICK w : w = ViewOf(review'.marks)
    OBVIOUS
  <1>7. /\ w \in Viewed /\ ColumnView' = w /\ ColumnView \in Viewed /\ ColumnView = ViewOf(review.marks)
        /\ \A marks : ViewOf(marks) \in Viewed /\ StatesOf(snapshot.files, readFiles, marks) \in States
    <2>1. \A marks : StatesOf(snapshot.files, readFiles, marks) \in States
      BY ViewsTyped, StatesTyped
    <2> QED BY <1>1, <1>6, <2>1, ViewsTyped DEF ColumnView, ViewOf
  <1>8. ASSUME NEW u \in Viewed, HasSnapshot => u = w
        PROVE  s \in NotesLead(u)
    <2>1. HasSnapshot /\ m.kind # "open" => u = ViewOf(m.state.marks)
      BY <1>1, <1>6, <1>8 DEF ResultApplies
    <2> QED BY <1>1, <1>2, <2>1, ResultNotes
  <1>9. s \in NotesLead(w)
    BY <1>7, <1>8
  <1>10. s.out \in Seq(Message) /\ Branched(s.pending) /\ Branched(s.held)
    BY <1>9, NotesLeadIs
  <1>11. /\ review'.marks \in [Files -> Mark] /\ review.marks \in [Files -> Mark]
         /\ readFiles \in Lines(Files) /\ acknowledged \in Nat /\ <<>> \in Seq(Message)
    BY ColumnIs, FilesAssumption, EmptySeq DEF Lines, Record
  <1>12. PICK last : last = Max({acknowledged, LastClick(m)})
    OBVIOUS
  <1>13. ASSUME NEW marks \in [Files -> Mark], NEW ack \in Nat, NEW states \in States
         PROVE  /\ ReviewMessage(readFiles, marks, ack) \in Seq(Message)
                /\ ~status => /\ Leads([gen |-> snapshotCount, states |-> states], ReviewMessage(readFiles, marks, ack), ViewOf(marks))
                              /\ \E n \in Elems(ReviewMessage(readFiles, marks, ack)) :
                                   n.type = "showReview" /\ n.review.acknowledged = ack
                /\ status => ReviewMessage(readFiles, marks, ack) = <<>>
    BY <1>11, ReviewTold DEF ViewOf
  <1>14. /\ sent \in Seq(Message) /\ (~status => Leads(ColumnView, sent, w)) /\ (status => sent = <<>>)
    <2>1. CASE ResultApplies(m) /\ m.state # review
      <3>1. sent = ReviewMessage(readFiles, review'.marks, acknowledged)
        BY <1>1, <1>3, <2>1 DEF ReviewSentFor
      <3>2. ColumnView = [gen |-> snapshotCount, states |-> StatesOf(snapshot.files, readFiles, review.marks)]
            /\ StatesOf(snapshot.files, readFiles, review.marks) \in States
        BY <1>7 DEF ColumnView
      <3> QED BY <1>6, <1>11, <1>13, <3>1, <3>2
    <2>2. CASE ~(ResultApplies(m) /\ m.state # review)
      <3>1. sent = <<>> /\ w = ColumnView
        BY <1>1, <1>3, <1>6, <1>7, <2>2 DEF ReviewSentFor
      <3> QED BY <1>7, <1>11, <3>1, NothingLeads
    <2> QED BY <2>1, <2>2
  <1>15. /\ told \in Seq(Message) /\ (~status => Leads(w, told, w)) /\ (status => told = <<>>)
         /\ AnswersClicks(m) /\ ~status =>
              \E n \in Elems(told) : n.type = "showReview" /\ n.review.acknowledged = last
    <2>1. CASE AnswersClicks(m) /\ HasSnapshot
      <3>1. told = ReviewMessage(readFiles, review'.marks, last) /\ last \in Nat
        BY <1>3, <1>12, <2>1 DEF AnswerSentFor
      <3>2. w = [gen |-> snapshotCount, states |-> StatesOf(snapshot.files, readFiles, review'.marks)]
            /\ StatesOf(snapshot.files, readFiles, review'.marks) \in States
        BY <1>6, <1>7 DEF ViewOf
      <3>3. PICK marks, states : marks = review'.marks /\ states = StatesOf(snapshot.files, readFiles, marks)
        OBVIOUS
      <3>4. /\ told \in Seq(Message)
            /\ ~status => Leads([gen |-> snapshotCount, states |-> states], told, ViewOf(marks))
            /\ ~status => \E n \in Elems(told) : n.type = "showReview" /\ n.review.acknowledged = last
            /\ status => told = <<>>
        BY <1>11, <1>13, <3>1, <3>2, <3>3
      <3> QED BY <1>6, <3>2, <3>3, <3>4
    <2>2. CASE ~(AnswersClicks(m) /\ HasSnapshot)
      <3>1. told = <<>>
        BY <1>3, <2>2 DEF AnswerSentFor
      <3> QED BY <1>5, <1>7, <1>11, <2>2, <3>1, NothingLeads
    <2> QED BY <2>1, <2>2
  <1>16. sent \o s.out \in Seq(Message) /\ ms \in Seq(Message)
    BY <1>3, <1>10, <1>14, <1>15, ConcatProperties
  <1>17. Brings(ms)
    <2>1. CASE ~status
      <3>1. Leads(w, s.out, w)
        BY <1>9, NotesLeadIs
      <3>2. Leads(ColumnView, sent \o s.out, w)
        BY <1>10, <1>14, <2>1, <3>1, LeadsOn
      <3>3. Leads(ColumnView, ms, w)
        BY <1>3, <1>15, <1>16, <2>1, <3>2, LeadsOn
      <3> QED BY <1>7, <2>1, <3>3 DEF Brings
    <2>2. CASE status
      <3>1. ASSUME NEW v \in Viewed PROVE Leads(v, ms, v)
        <4>1. s \in NotesLead(v)
          BY <1>5, <1>8, <2>2
        <4>2. Leads(v, s.out, v) /\ Leads(v, <<>>, v)
          BY <4>1, NotesLeadIs, NothingLeads
        <4>3. Leads(v, sent \o s.out, v)
          BY <1>10, <1>14, <2>2, <4>2, LeadsOn
        <4> QED BY <1>3, <1>15, <1>16, <2>2, <4>2, <4>3, LeadsOn
      <3> QED BY <1>1, <2>2, <3>1 DEF Brings
    <2> QED BY <2>1, <2>2
  <1>18. ASSUME AnswersClicks(m), ~status
         PROVE  \E n \in Elems(ms) : n.type = "showReview" /\ n.review.acknowledged = acknowledged'
    <2>1. acknowledged' = last
      BY <1>12, <1>18, ResultTaken
    <2>2. Elems(told) \subseteq Elems(ms)
      BY <1>3, <1>15, <1>16, ElemsKept
    <2> QED BY <1>15, <1>18, <2>1, <2>2
  <1> QED BY <1>1, <1>2, <1>4, <1>10, <1>16, <1>17, <1>18

\* The last click an answer answers for is the last of those it has.
LEMMA LastClickIs ==
  ASSUME IInv, reviewResults # <<>>, NEW m, m = Head(reviewResults)
  PROVE  /\ LastClick(m) \in Nat /\ waiting <= LastClick(m)
         /\ \A c \in Elems(m.changes) : c.sequence <= LastClick(m)
         /\ Max({acknowledged, LastClick(m)}) \in Nat
         /\ acknowledged <= Max({acknowledged, LastClick(m)})
         /\ LastClick(m) <= Max({acknowledged, LastClick(m)})
  <1>1. PICK all : all = {waiting} \cup {m.changes[i].sequence : i \in DOMAIN m.changes}
    OBVIOUS
  <1>2. all \in SUBSET (0..clickCount) /\ clickCount \in Nat /\ waiting \in all /\ all # {}
    BY <1>1, AnswerNumbered
  <1>3. LastClick(m) \in all /\ \A k \in all : k <= LastClick(m)
    BY <1>1, <1>2, MaxOf DEF LastClick
  <1>4. \A c \in Elems(m.changes) : c.sequence \in all
    BY <1>1 DEF Elems
  <1>5. PICK last : last = LastClick(m)
    OBVIOUS
  <1>6. last \in 0..clickCount /\ last \in all /\ \A k \in all : k <= last
    <2>1. last \in all /\ \A k \in all : k <= last
      BY <1>3, <1>5
    <2> QED BY <1>2, <2>1
  <1>7. PICK both : both = {acknowledged, last}
    OBVIOUS
  <1>8. both \in SUBSET (0..clickCount) /\ acknowledged \in both /\ last \in both /\ both # {}
    BY <1>6, <1>7 DEF IInv, AnswersNumbered
  <1>9. Max(both) \in both /\ \A k \in both : k <= Max(both)
    BY <1>2, <1>8, MaxOf
  <1>10. PICK top : top = Max(both)
    OBVIOUS
  <1>11. top \in Nat /\ acknowledged <= top /\ last <= top
    <2>1. top \in both /\ \A k \in both : k <= top
      BY <1>9, <1>10
    <2> QED BY <1>2, <1>8, <2>1
  <1>12. top = Max({acknowledged, LastClick(m)})
    BY <1>5, <1>7, <1>10
  <1>13. last \in Nat /\ waiting <= last /\ \A c \in Elems(m.changes) : c.sequence <= last
    <2>1. last \in Nat /\ waiting <= last
      BY <1>2, <1>6
    <2>2. \A c \in Elems(m.changes) : c.sequence <= last
      BY <1>4, <1>6
    <2> QED BY <2>1, <2>2
  <1> QED BY <1>5, <1>11, <1>12, <1>13

\* The marks of an answer taken are the column's.
LEMMA ResultMarks ==
  ASSUME IInv, Answering, TakeReviewResult
  PROVE  MarksLead'
  <1> SUFFICES ASSUME HasSnapshot, opening # snapshotCount PROVE MarksLead'
    BY ResultTaken DEF MarksLead, HasSnapshot
  <1>1. PICK m : m = Head(reviewResults)
    OBVIOUS
  <1>2. /\ reviewResults # <<>> /\ reviewResults' = Tail(reviewResults)
        /\ review' = IF Opens(m) THEN m.state ELSE review
        /\ UNCHANGED <<disk, snapshot, snapshotCount, opening>>
    BY <1>1, ResultTaken DEF ResultApplies, Opens
  <1>3. PICK n, rest : n = Len(reviewResults) /\ rest = Tail(reviewResults)
    OBVIOUS
  <1>4. /\ n \in Nat \ {0} /\ m = reviewResults[1] /\ DOMAIN reviewResults = 1..n
        /\ DOMAIN rest = 1..(n - 1) /\ \A i \in 1..(n - 1) : rest[i] = reviewResults[i + 1]
    <2>1. reviewResults \in Seq(Result)
      BY ColumnIs DEF WriteTyped
    <2>2. Head(reviewResults) = reviewResults[1]
      BY <1>2
    <2> QED BY <1>1, <1>2, <1>3, <2>1, <2>2, HeadTailProperties, LenProperties, EmptySeq
  <1>5. \A x : Opens(x)' <=> Opens(x)
    BY <1>2 DEF Opens
  <1>6. CASE \E i \in DOMAIN reviewResults :
               /\ Opens(reviewResults[i]) /\ reviewResults[i].state.marks = disk.marks
               /\ \A j \in DOMAIN reviewResults : j > i => ~Opens(reviewResults[j])
    <2>1. PICK i \in 1..n : /\ Opens(reviewResults[i]) /\ reviewResults[i].state.marks = disk.marks
                            /\ \A j \in 1..n : j > i => ~Opens(reviewResults[j])
      BY <1>4, <1>6
    <2>2. CASE i = 1
      <3>1. review'.marks = disk'.marks
        BY <1>2, <1>4, <2>1, <2>2
      <3>2. ASSUME NEW j \in 1..(n - 1) PROVE ~Opens(rest[j])
        <4>1. j + 1 \in 1..n /\ j + 1 > i
          BY <1>4, <2>2
        <4> QED BY <1>4, <2>1, <4>1
      <3>3. \A x \in Elems(rest) : ~Opens(x)
        BY <1>4, <3>2 DEF Elems
      <3> QED BY <1>2, <1>3, <3>1, <3>3 DEF MarksLead, Opens
    <2>3. CASE i # 1
      <3>1. i - 1 \in 1..(n - 1) /\ (i - 1) + 1 = i
        BY <1>4, <2>3
      <3>2. Opens(rest[i - 1]) /\ rest[i - 1].state.marks = disk'.marks
        BY <1>2, <1>4, <2>1, <3>1
      <3>3. \A j \in 1..(n - 1) : j > i - 1 => ~Opens(rest[j])
        BY <1>4, <2>1
      <3>4. \E k \in DOMAIN rest : /\ Opens(rest[k]) /\ rest[k].state.marks = disk'.marks
                                   /\ \A j \in DOMAIN rest : j > k => ~Opens(rest[j])
        BY <1>4, <3>1, <3>2, <3>3
      <3> QED BY <1>2, <1>3, <3>4 DEF MarksLead, Opens
    <2> QED BY <2>2, <2>3
  <1>7. CASE (\A x \in Elems(reviewResults) : ~Opens(x)) /\ review.marks = disk.marks
    <2>1. ~Opens(m) /\ Elems(rest) \subseteq Elems(reviewResults)
      <3>1. reviewResults \in Seq(Result)
        BY ColumnIs DEF WriteTyped
      <3> QED BY <1>1, <1>2, <1>3, <1>7, <3>1, ElemsTail
    <2> QED BY <1>2, <1>3, <1>7, <2>1 DEF MarksLead, Opens
  <1> QED BY <1>6, <1>7 DEF Answering, MarksLead

\* An answer taken answers its clicks, or leaves them to the writes behind it.
LEMMA TakeReviewResultLeads ==
  ASSUME IInv, IInv', Answering, TakeReviewResult
  PROVE  Answering'
  <1>1. PICK m : m = Head(reviewResults)
    OBVIOUS
  <1>2. /\ reviewResults # <<>> /\ reviewResults' = Tail(reviewResults)
        /\ \E newer \in BOOLEAN : reading' = [reading EXCEPT !.newer = newer]
        /\ acknowledged' = IF AnswersClicks(m) THEN Max({acknowledged, LastClick(m)}) ELSE acknowledged
        /\ waiting' = IF AnswersClicks(m) THEN 0 ELSE LastClick(m)
        /\ UNCHANGED <<disk, snapshot, snapshotCount, status, readFiles, opening, asked, reviewQueue>>
        /\ UNCHANGED <<pageVars, toSwift, isPageReady>>
    BY <1>1, ResultTaken
  <1>3. /\ reviewResults \in Seq(Result) /\ m \in Elems(reviewResults)
        /\ Elems(reviewResults') \subseteq Elems(reviewResults) /\ toPage \in Seq(Message)
    <2>1. reviewResults \in Seq(Result)
      BY ColumnIs DEF WriteTyped
    <2> QED BY <1>1, <1>2, <2>1, ColumnIs, ElemsTail
  <1>4. review' \in Record
    BY DEF IInv, Typed, WriteTyped
  <1>5. PICK last, answered : last = LastClick(m) /\ answered = Max({acknowledged, last})
    OBVIOUS
  <1>6. /\ last \in Nat /\ waiting <= last /\ \A c \in Elems(m.changes) : c.sequence <= last
        /\ answered \in Nat /\ acknowledged <= answered /\ last <= answered
    BY <1>1, <1>2, <1>5, LastClickIs
  <1>7. /\ Branched(pending') /\ Branched(held')
        /\ \E ms \in Seq(Message) :
             /\ Sends(ms) /\ Brings(ms)
             /\ AnswersClicks(m) /\ ~status =>
                  \E n \in Elems(ms) : n.type = "showReview" /\ n.review.acknowledged = acknowledged'
    BY <1>1, <1>4, <1>5, <1>6, ResultBrings
  <1>8. PICK ms \in Seq(Message) :
             /\ Sends(ms) /\ Brings(ms)
             /\ AnswersClicks(m) /\ ~status =>
                  \E n \in Elems(ms) : n.type = "showReview" /\ n.review.acknowledged = acknowledged'
    BY <1>7
  <1>9. Real' /\ Runs' /\ Queued'
    <2>1. reading'.found = reading.found /\ reading'.read = reading.read
      BY <1>2, ColumnIs DEF ReadTyped
    <2> QED BY <1>2, <1>3, <1>7, <2>1 DEF Answering, Real, Runs, Queued, Branched, HasSnapshot
  <1>10. MarksLead'
    BY ResultMarks
  <1>11. Elems(toPage) \subseteq Elems(toPage') /\ (isPageReady => Elems(ms) \subseteq Elems(toPage'))
    BY <1>3, <1>8, SendsMore
  <1>12. ASSUME NEW q \in Nat \ {0}, isPageReady, AnswerComes(q) PROVE AnswerComes(q)'
    <2>1. ASSUME q <= last, Writing PROVE AnswerComes(q)'
      <3>1. CASE AnswersClicks(m)
        <4>1. acknowledged' = answered /\ acknowledged' >= q
          BY <1>2, <1>5, <1>6, <2>1, <3>1
        <4>2. CASE status
          BY <1>2, <4>1, <4>2 DEF AnswerComes
        <4>3. CASE ~status
          <5>1. PICK n \in Elems(ms) : n.type = "showReview" /\ n.review.acknowledged = acknowledged'
            BY <1>8, <3>1, <4>3
          <5>2. n \in Elems(toPage') /\ n.review.acknowledged >= q
            BY <1>11, <1>12, <4>1, <5>1
          <5> QED BY <5>1, <5>2 DEF AnswerComes
        <4> QED BY <4>2, <4>3
      <3>2. CASE ~AnswersClicks(m)
        <4>1. waiting' >= q
          BY <1>2, <1>5, <1>6, <2>1, <3>2
        <4>2. asked # <<>> \/ \E r \in Elems(reviewResults') : r.changes # <<>>
          <5>1. CASE m.kind = "write"
            <6>1. last > 0
              BY <1>6, <2>1
            <6>2. asked # <<>> \/ \E i \in 2..Len(reviewResults) : reviewResults[i].changes # <<>>
              BY <1>5, <3>2, <5>1, <6>1 DEF AnswersClicks
            <6>3. ASSUME NEW i \in 2..Len(reviewResults), reviewResults[i].changes # <<>>
                  PROVE  \E r \in Elems(reviewResults') : r.changes # <<>>
              <7>1. PICK n, rest : n = Len(reviewResults) /\ rest = Tail(reviewResults)
                OBVIOUS
              <7>2. /\ n \in Nat /\ DOMAIN rest = 1..(n - 1) /\ \A j \in 1..(n - 1) : rest[j] = reviewResults[j + 1]
                BY <1>2, <1>3, <7>1, HeadTailProperties, LenProperties
              <7>3. i - 1 \in 1..(n - 1) /\ (i - 1) + 1 = i
                BY <6>3, <7>1, <7>2
              <7>4. rest[i - 1] = reviewResults[i] /\ rest[i - 1] \in Elems(rest)
                BY <7>2, <7>3 DEF Elems
              <7> QED BY <1>2, <6>3, <7>1, <7>4
            <6> QED BY <6>2, <6>3
          <5>2. CASE m.kind # "write"
            <6>1. m.changes = <<>>
              BY <1>3, <5>2 DEF Answering, Queued
            <6>2. asked # <<>> \/ \E r \in Elems(reviewResults) : r.changes # <<>> /\ r # m
              BY <2>1, <6>1, WritingIs
            <6> QED BY <1>1, <1>2, <1>3, <6>2, ElemsRest
          <5> QED BY <5>1, <5>2
        <4>3. Writing'
          BY <1>2, <4>2 DEF Writing, Elems
        <4> QED BY <4>1, <4>3 DEF AnswerComes
      <3> QED BY <3>1, <3>2
    <2>2. ASSUME NEW r \in Elems(reviewResults), NEW c \in Elems(r.changes), c.sequence >= q PROVE AnswerComes(q)'
      <3>1. CASE r = m
        <4>1. Writing
          BY <2>2, <3>1, WritingIs DEF Elems
        <4>2. c.sequence \in Nat
          BY <2>2 DEF IInv, AnswersNumbered
        <4>3. q <= last
          BY <1>6, <2>2, <3>1, <4>2
        <4> QED BY <2>1, <4>1, <4>3
      <3>2. CASE r # m
        <4>1. r \in Elems(reviewResults')
          BY <1>1, <1>2, <1>3, <3>2, ElemsRest
        <4> QED BY <2>2, <4>1 DEF AnswerComes
      <3> QED BY <3>1, <3>2
    <2>3. CASE waiting >= q /\ Writing
      <3>1. waiting \in Nat
        BY DEF IInv, AnswersNumbered, ClicksNumbered
      <3> QED BY <1>6, <2>1, <2>3, <3>1
    <2>4. CASE acknowledged >= q /\ status
      <3>1. acknowledged' >= q
        BY <1>2, <1>5, <1>6, <2>4, ColumnIs
      <3> QED BY <1>2, <2>4, <3>1 DEF AnswerComes
    <2>5. CASE \/ \E r \in Elems(toSwift) : r.type = "reviewed" /\ r.sequence >= q
               \/ \E c \in Elems(asked) : c.sequence >= q
               \/ \E r \in Elems(toPage) : r.type \in {"show", "showReview"} /\ r.review.acknowledged >= q
      BY <1>2, <1>11, <2>5 DEF AnswerComes
    <2> QED BY <1>12, <2>2, <2>3, <2>4, <2>5 DEF AnswerComes
  <1> QED BY <1>2, <1>8, <1>9, <1>10, <1>12, ColumnLeads

\* The page is shown what the column has, or what it held for it.
LEMMA PageLoadsLeads ==
  ASSUME IInv, Answering, PageLoads
  PROVE  Answering'
  <1>1. /\ ~isPageReady /\ isPageReady' = TRUE
        /\ UNCHANGED <<disk, reading, writeVars, pageVars, toSwift>>
    BY DEF PageLoads, readVars
  <1>2. /\ clicks' = Empty /\ PageView' = PageView /\ PageView \in Viewed
        /\ UNCHANGED <<review, asked, reviewQueue, reviewResults>>
    BY <1>1, ViewsTyped DEF Answering, Gone, pageVars, writeVars, PageView
  <1>3. Runs' /\ Queued' /\ Gone' /\ ClicksLead'
    BY <1>1, <1>2 DEF Answering, Runs, Queued, Gone, ClicksLead, Empty
  <1>4. reading'.found = "read" => reading'.read.head # 0
    BY <1>1 DEF Answering, Real
  <1>5. \/ held # NoRead /\ Show(held) /\ toPage' = Shown(held)
        \/ /\ toPage' = Current(explanationVersion, review.marks)
           /\ UNCHANGED <<snapshot, snapshotCount, status, pending, held, readFiles, opening>>
    BY DEF PageLoads
  <1>6. CASE held # NoRead /\ Show(held) /\ toPage' = Shown(held)
    <2>1. held \in Read /\ held.head # 0
      BY <1>6, ColumnIs DEF Answering, Real
    <2>2. Real' /\ MarksLead' /\ ~status' /\ Leads(PageView, Shown(held), ColumnView') /\ ColumnView' \in Viewed
      BY <1>2, <1>4, <1>6, <2>1, ShowBrings
    <2>3. PageLeads'
      BY <1>2, <1>6, <2>2 DEF PageLeads
    <2> QED BY <1>3, <2>2, <2>3 DEF Answering
  <1>7. CASE /\ toPage' = Current(explanationVersion, review.marks)
             /\ UNCHANGED <<snapshot, snapshotCount, status, pending, held, readFiles, opening>>
    <2>1. Real' /\ MarksLead' /\ ColumnView' = ColumnView
      BY <1>1, <1>2, <1>4, <1>7 DEF Answering, Real, MarksLead, HasSnapshot, Opens, ColumnView
    <2>2. \E w \in Viewed : Leads(PageView, Current(explanationVersion, review.marks), w) /\ (~status => w = ColumnView)
      BY <1>2, ColumnIs, CurrentBrings
    <2>3. PageLeads'
      BY <1>2, <1>7, <2>1, <2>2 DEF PageLeads
    <2> QED BY <1>3, <2>1, <2>3 DEF Answering
  <1> QED BY <1>5, <1>6, <1>7

-----------------------------------------------------------------------------
(* The theorems                                                            *)

\* What the page draws, what is on its way and what the review file holds are
\* consistent at the start.
THEOREM InitInvariant == Init => IInv
  <1> SUFFICES ASSUME Init PROVE IInv
    OBVIOUS
  <1>0. /\ 1 \in 1..MaxVersion /\ 1 \in Version /\ 0 \in Version /\ open \in SUBSET Files
        /\ Long \subseteq Files /\ Noted \in Files
    BY FilesAssumption DEF Version, Init
  <1>1. PICK files : files = [p \in Files |-> 1]
    OBVIOUS
  <1>2. PICK note0 : note0 = [run |-> 1, wrong |-> FALSE]
    OBVIOUS
  <1>3. PICK unmarked : unmarked = [p \in Files |-> [ver |-> None, seen |-> None]]
    OBVIOUS
  <1>4. /\ files \in [Files -> 1..MaxVersion] /\ files \in [Files -> Version] /\ files \in Shot /\ DOMAIN files = Files
        /\ note0 \in Explained
    BY <1>0, <1>1, <1>2, ShotIs DEF Explained
  <1>5. unmarked \in [Files -> Mark] /\ \A p \in Files : unmarked[p].ver = unmarked[p].seen
    BY <1>0, <1>3 DEF Mark, None
  <1>6. Empty \in Shot /\ Empty \in Lines(Files) /\ DOMAIN Empty = {} /\ NoRead \in Read
    BY EmptyTyped
  <1>7. ShownTyped
    <2>1. snapshot = [head |-> 1, files |-> files] /\ snapshot \in Snapshot
      BY <1>1, <1>4 DEF Init, Snapshot
    <2>2. readFiles \in Lines(Long)
      <3>1. readFiles = [p \in open \cap Long |-> 1]
        BY DEF Init
      <3>2. readFiles \in [open \cap Long -> Version] /\ open \cap Long \in SUBSET Long
        BY <1>0, <3>1
      <3> QED BY <3>2 DEF Lines
    <2>3. /\ snapshotCount = 1 /\ banner = "none" /\ pending = NoRead /\ held = NoRead
          /\ opening = 0 /\ explanation = note0 /\ explanationVersion = 1 /\ pageNotesVersion = 1
      BY <1>2 DEF Init
    <2>4. status \in BOOLEAN /\ explanationWaits \in BOOLEAN
      BY DEF Init
    <2> QED BY <1>4, <1>6, <2>1, <2>2, <2>3, <2>4 DEF ShownTyped
  <1>8. ReadTyped
    <2>1. reading \in [reason : {"none", "user", "watcher"}, found : {"no", "read", "failed"},
                       read : Read, newer : BOOLEAN]
      BY ReadingsTyped DEF Init
    <2>2. tree = files
      BY <1>1 DEF Init
    <2>3. patchQueue \in Seq([path : Long, gen : Nat]) /\ patchResults \in Seq([path : Long, gen : Nat, ver : Version])
      BY EmptySeq DEF Init
    <2>4. readAfterRead \in BOOLEAN /\ changed \in BOOLEAN /\ head = 1
      BY DEF Init
    <2> QED BY <1>4, <2>1, <2>2, <2>3, <2>4 DEF ReadTyped
  <1>9. disk = [marks |-> unmarked, expl |-> note0] /\ disk \in Record /\ review = disk
    BY <1>2, <1>3, <1>4, <1>5 DEF Init, Record
  <1>10. asked = <<>> /\ reviewQueue = <<>> /\ reviewResults = <<>> /\ toSwift = <<>> /\ toPage = <<>>
    BY DEF Init
  <1>11. WriteTyped
    BY <1>9, <1>10, EmptySeq DEF WriteTyped
  <1>12. ChannelsTyped
    BY <1>10, EmptySeq DEF Init, ChannelsTyped
  <1>13. page = [gen |-> 1, files |-> files, notesVersion |-> 1]
    BY <1>1 DEF Init
  <1>14. \A p \in Files : node[p] = IF p \in open THEN [kind |-> "diff", ver |-> 1, notesVersion |-> 1, stale |-> FALSE]
                                                  ELSE NoNode
    BY DEF Init
  <1>15. PageTyped
    <2>1. page \in Page
      BY <1>4, <1>13 DEF Page
    <2>2. stored \in Review
      BY <1>1, <1>3, <1>4, <1>5, <1>6, PageReviewTyped DEF Init
    <2>3. node \in [Files -> NodeType]
      <3>1. [kind |-> "diff", ver |-> 1, notesVersion |-> 1, stale |-> FALSE] \in NodeType
        BY <1>0 DEF NodeType
      <3> QED BY <3>1, NodesTyped DEF Init
    <2>4. note \in NoteType
      <3>1. [NoNote EXCEPT !.id = 1] \in NoteType
        BY NoNoteTyped DEF NoteType
      <3> QED BY <3>1, NoNoteTyped DEF Init
    <2>5. clicks = Empty /\ clicks \in [DOMAIN clicks -> [reviewed : BOOLEAN, sequence : Nat]]
      BY DEF Init, Empty
    <2> QED BY <1>0, <1>6, <2>1, <2>2, <2>3, <2>4, <2>5 DEF PageTyped, NodeType, NoteType
  <1>16. Elems(<<>>) = {}
    BY DEF Elems
  <1>17. snapshotCount = 1 /\ snapshot.files = files /\ page.gen = 1 /\ page.files = files
    BY <1>1, <1>13 DEF Init
  <1>18. \A gen, others : Has(gen, others) => gen = 1 /\ others = files
    BY <1>10, <1>16, <1>17 DEF Has
  <1>19. OneShot /\ DiffsTrue /\ RequestsTrue /\ ChangesTrue
    BY <1>10, <1>16, <1>17, <1>18 DEF OneShot, DiffsTrue, RequestsTrue, ChangesTrue
  <1>20. ClicksNumbered /\ AnswersNumbered
    BY <1>6, <1>10, <1>16 DEF Init, ClicksNumbered, AnswersNumbered
  <1>21. Drawn
    <2>1. NeverAnothersLines
      BY <1>1, <1>4, <1>14, <1>17 DEF NeverAnothersLines, NoNode
    <2>2. note.id # None => Noted \in open
      BY NoNoteTyped DEF Init
    <2> QED BY <1>0, <1>14, <2>1, <2>2 DEF Drawn, NoteInDiff
  <1>22. MarksWhatWasSeen
    BY <1>5, <1>9 DEF MarksWhatWasSeen
  <1> QED BY <1>7, <1>8, <1>11, <1>12, <1>15, <1>19, <1>20, <1>21, <1>22 DEF IInv, Typed

LEMMA Stutters ==
  ASSUME IInv, UNCHANGED vars
  PROVE  IInv'
  <1>1. /\ UNCHANGED <<pageVars, writeVars, disk, isPageReady, toSwift>>
        /\ UNCHANGED <<shownVars, readVars, worktreeVars, patchQueue, patchResults, pageHasSelection, toPage>>
    BY DEF vars, columnVars
  <1>2. Turns /\ ShownTyped' /\ SentNow
    BY <1>1, ColumnIs, NothingShown, NothingSent
  <1>3. ReadTyped'
    BY <1>1, ColumnIs DEF ReadTyped, readVars, worktreeVars
  <1> QED BY <1>1, <1>2, <1>3, ColumnIs, ShownStep

\* Whatever the user, the column, the branch and the page's process do next, in
\* any order, they stay so.
THEOREM NextInvariant == IInv /\ [Next]_vars => IInv'
  <1> SUFFICES ASSUME IInv, [Next]_vars PROVE IInv'
    OBVIOUS
  <1>1. CASE User
    BY <1>1, ToggleFileKeeps, ToggleReviewedKeeps, ToggleGroupKeeps, MarkWrongKeeps, ReloadKeeps, RefreshKeeps, HoldsKeeps
       DEF User
  <1>2. CASE PageReceives
    BY <1>2, PageReceivesKeeps
  <1>3. CASE Column
    BY <1>3, SwiftReceivesKeeps, ReadWatchedKeeps, ReadBranchKeeps, ApplyReadKeeps, ReadPatchKeeps, PatchIsReadKeeps,
       RunReviewTaskKeeps, OpenReviewKeeps, TakeReviewResultKeeps, PageLoadsKeeps DEF Column
  <1>4. CASE Environment
    BY <1>4, EditsKeeps, CommitsKeeps, ExplainEndsKeeps, ReadBranchKeeps, ReadPatchKeeps, RunReviewTaskKeeps, PageDiesKeeps
       DEF Environment, Version
  <1>5. CASE UNCHANGED vars
    BY <1>5, Stutters
  <1> QED BY <1>1, <1>2, <1>3, <1>4, <1>5 DEF Next

\* A generation has one set of files wherever it is named, and what is said of it
\* is right: the invariant the theorems below rest on (snapshotCount, page.generation).
THEOREM Invariant == Spec => []IInv
  BY InitInvariant, NextInvariant, PTL DEF Spec

\* The page and the review have their types, the note drawn is in its file's diff,
\* and no click is answered before it is made.
THEOREM TypeCorrect == Spec => []TypeOK
  <1>1. IInv => TypeOK
    <2> SUFFICES ASSUME IInv PROVE TypeOK
      OBVIOUS
    <2>1. PageTyped /\ ClicksNumbered /\ AnswersNumbered /\ NoteInDiff /\ readFiles \in Lines(Long)
      BY DEF IInv, Typed, Drawn, ShownTyped
    <2>2. stored.states \in States
      BY <2>1 DEF PageTyped, Review
    <2>3. /\ DOMAIN stored.states \subseteq Files
          /\ \A p \in DOMAIN stored.states : stored.states[p] \in {"none", "reviewed", "changed"}
      BY <2>2 DEF States
    <2>4. DOMAIN readFiles \subseteq Long
      BY <2>1, IsLines
    <2>5. acknowledged <= clickCount
      BY <2>1 DEF ClicksNumbered, AnswersNumbered
    <2>6. \A p \in Files : node[p].kind \in {"none", "loading", "message", "diff"} /\ node[p].ver \in 0..MaxVersion
      BY <2>1 DEF PageTyped, Version
    <2> QED BY <2>1, <2>3, <2>4, <2>5, <2>6 DEF TypeOK, PageTyped, ClicksNumbered, NoteInDiff
  <1> QED BY <1>1, Invariant, PTL

\* A diff that is not dimmed is of the lines its page is of: no answer read for
\* another page, or another row, is drawn as this one's (showDiff, toggleFile).
THEOREM DiffIsItsFiles == Spec => []NeverAnothersLines
  <1>1. IInv => NeverAnothersLines
    BY DEF IInv, Drawn
  <1> QED BY <1>1, Invariant, PTL

\* A mark of Reviewed in the file is of the lines the user had before them when
\* they clicked (setReviewed, markReviewed).
THEOREM MarkedAsSeen == Spec => []MarksWhatWasSeen
  <1>1. IInv => MarksWhatWasSeen
    BY DEF IInv
  <1> QED BY <1>1, Invariant, PTL

\* At the start the page shows the review file's marks, and no click waits.
THEOREM InitAnswers == Init => Answering
  <1> SUFFICES ASSUME Init PROVE Answering
    OBVIOUS
  <1>1. IInv
    BY InitInvariant
  <1>2. PICK files : files = [p \in Files |-> 1]
    OBVIOUS
  <1>3. PICK unmarked : unmarked = [p \in Files |-> [ver |-> None, seen |-> None]]
    OBVIOUS
  <1>4. /\ snapshot = [head |-> 1, files |-> files] /\ snapshotCount = 1 /\ status = FALSE
        /\ pending = NoRead /\ held = NoRead /\ opening = 0
        /\ disk = [marks |-> unmarked, expl |-> [run |-> 1, wrong |-> FALSE]] /\ review = disk
        /\ asked = <<>> /\ reviewQueue = <<>> /\ reviewResults = <<>>
        /\ page.gen = 1 /\ stored = PageReview(files, Empty, 1, unmarked, 0)
        /\ clicks = Empty /\ toPage = <<>> /\ isPageReady = TRUE
        /\ reading = NotReading
    BY <1>2, <1>3 DEF Init
  <1>5. HasSnapshot /\ Real
    <2>1. HasSnapshot
      BY <1>4 DEF HasSnapshot
    <2>2. reading.found = "no"
      BY <1>4 DEF NotReading
    <2> QED BY <1>4, <2>1, <2>2 DEF Real
  <1>6. Elems(<<>>) = {}
    BY DEF Elems
  <1>7. Runs /\ Queued /\ Gone
    BY <1>4, <1>6 DEF Runs, Queued, Gone
  <1>8. MarksLead
    BY <1>4, <1>6 DEF MarksLead
  <1>9. ClicksLead
    BY <1>4 DEF ClicksLead, Empty
  <1>10. PageLeads
    <2>0. /\ ReviewedState(None, 1) = "none"
          /\ DOMAIN files = Files /\ \A p \in Files : unmarked[p].ver = None
      <3>1. ReviewedState(None, 1) = "none"
        BY DEF ReviewedState, None
      <3>2. DOMAIN files = Files
        BY <1>2
      <3>3. \A p \in Files : unmarked[p].ver = None
        BY <1>3
      <3> QED BY <3>1, <3>2, <3>3
    <2>1. stored.states = [p \in Files |-> "none"]
      <3>1. stored.states = [p \in DOMAIN files |-> ReviewedState(unmarked[p].ver, PatchHash(files, Empty, p))]
        BY <1>4 DEF PageReview
      <3>2. \A p \in Files : PatchHash(files, Empty, p) = 1
        BY <1>2 DEF PatchHash, Empty
      <3> QED BY <2>0, <3>1, <3>2
    <2>2. StatesOf(snapshot.files, readFiles, review.marks) = [p \in Files |-> "none"]
      <3>1. snapshot.files = files /\ review.marks = unmarked
        BY <1>4
      <3>2. readFiles = [p \in open \cap Long |-> 1]
        BY DEF Init
      <3>3. \A p \in Files : PatchHash(files, readFiles, p) = 1
        BY <1>2, <3>2 DEF PatchHash
      <3> QED BY <2>0, <3>1, <3>3 DEF StatesOf
    <2>3. PageView = ColumnView
      BY <1>4, <2>1, <2>2 DEF PageView, ColumnView
    <2>4. PageView \in Viewed /\ Leads(PageView, <<>>, PageView)
      BY <1>1, ViewsTyped, NothingLeads
    <2> QED BY <1>4, <2>3, <2>4 DEF PageLeads
  <1> QED BY <1>5, <1>7, <1>8, <1>9, <1>10 DEF Answering

LEMMA StutterLeads ==
  ASSUME IInv, Answering, UNCHANGED vars
  PROVE  Answering'
  <1>1. UNCHANGED <<pageVars, isPageReady, writeVars, disk, shownVars, toPage, toSwift, reading>>
    BY DEF vars, columnVars, readVars
  <1>2. reading'.found = "read" => reading'.read.head # 0
    BY <1>1 DEF Answering, Real
  <1> QED BY <1>1, <1>2, QuietLeads

\* Whatever happens, what is on its way leads the page to the review file's marks,
\* and an answer comes for each click it waits for (acknowledge, showReview).
THEOREM NextAnswers == IInv /\ IInv' /\ Answering /\ [Next]_vars => Answering'
  <1> SUFFICES ASSUME IInv, IInv', Answering, [Next]_vars PROVE Answering'
    OBVIOUS
  <1>1. CASE User
    <2>1. ASSUME NEW p \in Files, ToggleFile(p) PROVE Answering'
      BY <2>1, ToggleFileLeads
    <2>2. ASSUME NEW p \in Files, ToggleReviewed(p) PROVE Answering'
      BY <2>2, SetReviewedLeads DEF ToggleReviewed
    <2>3. CASE ToggleGroupReviewed
      <3>1. PICK paths, reviewed : Shows /\ SetReviewed(paths, reviewed)
        BY <2>3 DEF ToggleGroupReviewed
      <3> QED BY <3>1, SetReviewedLeads
    <2> QED BY <1>1, <2>1, <2>2, <2>3, WishesLead, ReadsLead DEF User
  <1>2. CASE PageReceives
    BY <1>2, PageReceivesLeads
  <1>3. CASE Column
    BY <1>3, SwiftReceivesLeads, ReadsLead, ApplyReadLeads, PatchIsReadLeads, RunReviewTaskLeads, OpenReviewLeads,
       TakeReviewResultLeads, PageLoadsLeads DEF Column
  <1>4. CASE Environment
    BY <1>4, ReadsLead, ExplainEndsLeads, RunReviewTaskLeads, PageDiesLeads DEF Environment
  <1>5. CASE UNCHANGED vars
    BY <1>5, StutterLeads
  <1> QED BY <1>1, <1>2, <1>3, <1>4, <1>5 DEF Next

\* What is on its way to the page, and what the review's queue has still to write,
\* lead to the review file's marks and to an answer of each click: the invariant
\* ClicksGetAnswers rests on.
THEOREM AnswersLead == Spec => []Answering
  <1>1. Init => IInv /\ Answering
    BY InitInvariant, InitAnswers
  <1>2. IInv /\ Answering /\ [Next]_vars => IInv' /\ Answering'
    BY NextInvariant, NextAnswers
  <1>3. IInv /\ Answering => Answering
    OBVIOUS
  <1> QED BY <1>1, <1>2, <1>3, PTL DEF Spec

\* Every click of Reviewed is answered, and the page then shows the review file's
\* marks: a click whose write failed, or was of a page replaced, is undone
\* (setReviewed, markReviewed, acknowledge).
THEOREM ClicksGetAnswers == Spec => []ClicksAnswered
  <1>1. IInv /\ Answering => ClicksAnswered
    <2> SUFFICES ASSUME IInv, Answering, Quiet, ~status PROVE
             /\ clicks = Empty
             /\ stored.states = PageReview(snapshot.files, readFiles, snapshotCount, disk.marks, 0).states
      BY DEF ClicksAnswered
    <2>1. isPageReady /\ toPage = <<>> /\ toSwift = <<>> /\ reviewQueue = <<>> /\ reviewResults = <<>> /\ opening = 0
      BY DEF Quiet
    <2>2. Elems(<<>>) = {} /\ HasSnapshot /\ snapshotCount # 0
      <3>1. snapshotCount \in Nat \ {0} /\ Elems(<<>>) = {}
        BY ColumnIs DEF Elems
      <3>2. HasSnapshot
        BY DEF Answering, Real
      <3> QED BY <3>1, <3>2
    <2>3. asked = <<>> /\ ~Writing
      BY <2>1, <2>2 DEF Answering, Queued, Writing
    <2>4. DOMAIN clicks = {}
      BY <2>1, <2>2, <2>3 DEF Answering, ClicksLead, AnswerComes
    <2>5. clicks = Empty
      BY <2>4, PageIs DEF Empty
    <2>6. PageView = ColumnView
      BY <2>1, NothingLed DEF Answering, PageLeads
    <2>7. review.marks = disk.marks
      BY <2>1, <2>2 DEF Answering, MarksLead
    <2>8. stored.states = StatesOf(snapshot.files, readFiles, disk.marks)
      BY <2>6, <2>7 DEF PageView, ColumnView
    <2>9. PageReview(snapshot.files, readFiles, snapshotCount, disk.marks, 0).states = StatesOf(snapshot.files, readFiles, disk.marks)
      BY ViewsTyped, StatesTyped
    <2> QED BY <2>5, <2>8, <2>9
  <1>2. Spec => [](IInv /\ Answering)
    BY Invariant, AnswersLead, PTL
  <1> QED BY <1>1, <1>2, PTL
=============================================================================
