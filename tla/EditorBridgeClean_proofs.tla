---------------------- MODULE EditorBridgeClean_proofs ----------------------
(***************************************************************************)
(* Proof that a buffer which shows clean holds what is on disk             *)
(* (CleanIsOnDisk of EditorBridge), for any files, modes, texts and        *)
(* bounds.                                                                 *)
(*                                                                         *)
(* A buffer shows clean by the text its page last took for saved, and that *)
(* text comes to the page in three ways: with the file when it is opened   *)
(* or read again, with the answer to a save, and from the save itself,     *)
(* whose text the page keeps until that answer. So the invariant follows   *)
(* one file (FileInv). The page waits for as many answers as there are     *)
(* saves and answers of the file under way (Owed), since the page forgets  *)
(* the kept text at the last of them. The last save under way is of the    *)
(* kept text; without one, what is sent last to the page makes the file's  *)
(* text the clean one (EndsClean), or the column is still to look at the   *)
(* file. Of a closed file the page has no model once it was told (Gone).   *)
(* One lemma for each step shows that the file keeps this (the lemmas      *)
(* named ...File).                                                         *)
(***************************************************************************)
EXTENDS EditorBridge_proofs
-----------------------------------------------------------------------------
(* What a clean buffer holds                                               *)

\* What is said of the text of a file: by the page, that it is to be saved; by the
\* column, that it was, what the file holds now, and that it closed.
SaveOf(path) == {m \in ToSwift : m.type = "save" /\ m.path = path}
SaveWith(path, text) == {m \in SaveOf(path) : m.content = text}
TextOf(path) == {m \in ToPage : m.type \in {"openFile", "markSaved", "closeTab"} /\ m.path = path}
OpenWith(path, text) == {m \in TextOf(path) : m.type = "openFile" /\ m.content = text}
MarkOf(path) == {m \in TextOf(path) : m.type = "markSaved"}
EndOf(path) == {m \in TextOf(path) : m.type = "closeTab"}

\* A save is one of those the page waits for until its answer came.
Fewer(path) ==
    {t \in Nat \X (ToPage \cup ToSwift) \X Nat :
       t[1] = t[3] + (IF t[2] \in SaveOf(path) \cup MarkOf(path) THEN 1 ELSE 0)}
Waits(path, n, ms, k) == Leads(Nat, Fewer(path), n, ms, k)

\* The page waits for as many saves of a file as are under way, and answers of them.
Owed(path, n, queue, said) == \E k \in Nat, l \in Nat : Waits(path, n, queue, k) /\ Waits(path, k, said, l)

\* The save of a file the page waits for has this content.
SavesText(path, js, text) == path \in DOMAIN js.pendingSaves /\ js.pendingSaves[path].content = text

\* What is sent last to the page of an open file makes the file's text the clean one.
EndsClean(path, js, queue, text) ==
    \/ LastIn(queue, OpenWith(path, text), TextOf(path))
    \/ LastIn(queue, MarkOf(path), TextOf(path)) /\ SavesText(path, js, text)
    \/ NoneIn(queue, TextOf(path)) /\ (path \in DOMAIN js.models => js.models[path].cleanValue = text)

\* Of an open file: the last save under way is the one the page waits for; without
\* one, its clean text will be the file's, or the column is to look at the file yet.
Clean(path, js, said, queue, text, loose) ==
    /\ NoneIn(queue, EndOf(path))
    /\ Owed(path, CountOf(js.pendingSaves, path), queue, said)
    /\ \/ \E t : SavesText(path, js, t) /\ LastIn(said, SaveWith(path, t), SaveOf(path))
       \/ NoneIn(said, SaveOf(path)) /\ (loose \/ EndsClean(path, js, queue, text))

\* Of a closed file the page has no model, once it was told.
Gone(path, js, queue) ==
    \/ LastIn(queue, EndOf(path), TextOf(path))
    \/ NoneIn(queue, TextOf(path)) /\ path \notin DOMAIN js.models

LEMMA FewerIs ==
  ASSUME NEW path, NEW n \in Nat, NEW m \in ToPage \cup ToSwift, NEW k \in Nat
  PROVE  <<n, m, k>> \in Fewer(path) <=> n = k + (IF m \in SaveOf(path) \cup MarkOf(path) THEN 1 ELSE 0)
  BY DEF Fewer

LEMMA FewerOf ==
  ASSUME NEW path, NEW t \in Fewer(path)
  PROVE  /\ t[1] \in Nat /\ t[2] \in ToPage \cup ToSwift /\ t[3] \in Nat
         /\ t[1] = t[3] + (IF t[2] \in SaveOf(path) \cup MarkOf(path) THEN 1 ELSE 0)
  BY DEF Fewer

\* Waiting for more of them first, one waits for as many more at last.
LEMMA WaitsMore ==
  ASSUME NEW path, NEW n, NEW ms \in Seq(ToPage \cup ToSwift), NEW k, Waits(path, n, ms, k), NEW j \in Nat
  PROVE  n \in Nat /\ k \in Nat /\ Waits(path, n + j, ms, k + j)
  <1>1. n \in Nat /\ k \in Nat
    BY LeadsTyped DEF Waits
  <1> DEFINE f == [i \in Nat |-> i + j]
  <1>2. f \in [Nat -> Nat] /\ \A i \in Nat : f[i] = i + j
    OBVIOUS
  <1>3. PICK M, step : M = ToPage \cup ToSwift /\ step = Fewer(path)
    OBVIOUS
  <1> HIDE DEF f
  <1>4. ASSUME NEW a \in Nat, NEW b \in Nat, NEW m \in M, <<a, m, b>> \in step
        PROVE  <<f[a], m, f[b]>> \in step
    <2>1. PICK d : d = IF m \in SaveOf(path) \cup MarkOf(path) THEN 1 ELSE 0
      OBVIOUS
    <2>2. a = b + d /\ d \in Nat
      BY <1>3, <1>4, <2>1, FewerIs
    <2>3. PICK x, y : x = f[a] /\ y = f[b]
      OBVIOUS
    <2>4. x = a + j /\ y = b + j
      BY <1>2, <2>3
    <2>5. x = y + d /\ x \in Nat /\ y \in Nat
      BY <2>2, <2>4
    <2> QED BY <1>3, <2>1, <2>3, <2>5, FewerIs
  <1>5. Leads(Nat, step, f[n], ms, f[k])
    <2>1. Leads(Nat, step, n, ms, k) /\ ms \in Seq(M)
      BY <1>3 DEF Waits
    <2> QED BY <1>2, <1>4, <2>1, MappedLeads, ZenonT(40)
  <1> QED BY <1>1, <1>2, <1>3, <1>5 DEF Waits

\* Without saves and answers it waits for as many.
LEMMA WaitsSame ==
  ASSUME NEW path, NEW n \in Nat, NEW ms \in Seq(ToPage \cup ToSwift), NoneIn(ms, SaveOf(path) \cup MarkOf(path))
  PROVE  Waits(path, n, ms, n)
  <1> DEFINE run == [i \in 0..Len(ms) |-> n]
  <1>0. Len(ms) \in Nat
    BY LenProperties
  <1>1. run \in [0..Len(ms) -> Nat] /\ run[0] = n /\ run[Len(ms)] = n
    BY <1>0
  <1>2. ASSUME NEW i \in 1..Len(ms) PROVE <<run[i - 1], ms[i], run[i]>> \in Fewer(path)
    <2>1. run[i - 1] = n /\ run[i] = n
      BY <1>0
    <2>2. ms[i] \in ToPage \cup ToSwift /\ ms[i] \notin SaveOf(path) \cup MarkOf(path)
      BY ElementOfSeq DEF NoneIn
    <2> HIDE DEF run
    <2> QED BY <2>1, <2>2, FewerIs
  <1> HIDE DEF run
  <1> QED BY <1>1, <1>2 DEF Waits, Leads

\* It never waits for more, and for fewer when there was one.
LEMMA WaitsDown ==
  ASSUME NEW path, NEW n, NEW ms \in Seq(ToPage \cup ToSwift), NEW k, Waits(path, n, ms, k)
  PROVE  /\ n \in Nat /\ k \in Nat /\ k <= n
         /\ ~NoneIn(ms, SaveOf(path) \cup MarkOf(path)) => k < n
  <1>1. PICK run \in [0..Len(ms) -> Nat] :
          /\ run[0] = n /\ run[Len(ms)] = k
          /\ \A i \in 1..Len(ms) : <<run[i - 1], ms[i], run[i]>> \in Fewer(path)
    BY DEF Waits, Leads
  <1>2. PICK len : len = Len(ms)
    OBVIOUS
  <1>3. len \in Nat /\ n \in Nat /\ k \in Nat
    BY <1>1, <1>2, LenProperties
  <1>4. PICK paid : paid = SaveOf(path) \cup MarkOf(path)
    OBVIOUS
  <1>5. ASSUME NEW i \in 1..len
        PROVE  run[i - 1] \in Nat /\ run[i] \in Nat /\ run[i - 1] = run[i] + (IF ms[i] \in paid THEN 1 ELSE 0)
    <2>1. i - 1 \in 0..len /\ i \in 0..len
      BY <1>3
    <2>2. run[i - 1] \in Nat /\ run[i] \in Nat /\ ms[i] \in ToPage \cup ToSwift
      BY <1>1, <1>2, <2>1, ElementOfSeq
    <2>3. <<run[i - 1], ms[i], run[i]>> \in Fewer(path)
      BY <1>1, <1>2
    <2> QED BY <1>4, <2>2, <2>3, FewerIs
  <1> DEFINE U == {l \in 0..len : run[l] <= n /\ ((\E i \in 1..l : ms[i] \in paid) => run[l] < n)}
  <1>6. 0 \in U
    BY <1>1, <1>3
  <1>7. ASSUME NEW l \in 0..(len - 1), l \in U PROVE l + 1 \in U
    <2>1. l + 1 \in 1..len /\ (l + 1) - 1 = l /\ l + 1 \in 0..len
      BY <1>3
    <2>2. PICK j : j = l + 1
      OBVIOUS
    <2>3. run[l] \in Nat /\ run[j] \in Nat /\ run[l] = run[j] + (IF ms[j] \in paid THEN 1 ELSE 0)
      BY <1>5, <2>1, <2>2
    <2>4. run[l] <= n /\ ((\E i \in 1..l : ms[i] \in paid) => run[l] < n)
      BY <1>7
    <2>5. run[j] <= n
      BY <1>3, <2>3, <2>4
    <2>6. ASSUME NEW i \in 1..j, ms[i] \in paid PROVE run[j] < n
      <3>1. CASE i = j
        BY <1>3, <2>3, <2>4, <2>6, <3>1
      <3>2. CASE i # j
        <4>1. i \in 1..l
          BY <1>3, <2>2, <3>2
        <4>2. run[l] < n
          BY <2>4, <2>6, <4>1
        <4> QED BY <1>3, <2>3, <4>2
      <3> QED BY <3>1, <3>2
    <2> QED BY <2>1, <2>2, <2>5, <2>6
  <1>8. len \in U
    <2> HIDE DEF U
    <2> QED BY <1>3, <1>6, <1>7, CountsTo
  <1>9. k <= n /\ ((\E i \in 1..len : ms[i] \in paid) => k < n)
    BY <1>1, <1>2, <1>8
  <1> QED BY <1>2, <1>3, <1>4, <1>9 DEF NoneIn

LEMMA WaitsOn ==
  ASSUME NEW path, NEW n, NEW k, NEW l, NEW ms \in Seq(ToPage \cup ToSwift), NEW more \in Seq(ToPage \cup ToSwift),
         Waits(path, n, ms, k), Waits(path, k, more, l)
  PROVE  Waits(path, n, ms \o more, l)
  BY LeadsOn DEF Waits

LEMMA WaitsOne ==
  ASSUME NEW path, NEW n, NEW k, NEW l \in Nat, NEW ms \in Seq(ToPage \cup ToSwift), NEW m \in ToPage \cup ToSwift,
         Waits(path, n, ms, k), k = l + (IF m \in SaveOf(path) \cup MarkOf(path) THEN 1 ELSE 0)
  PROVE  Waits(path, n, Append(ms, m), l)
  <1>1. k \in Nat
    BY LeadsTyped DEF Waits
  <1>2. <<k, m, l>> \in Fewer(path)
    BY <1>1, FewerIs
  <1>3. PICK M : M = ToPage \cup ToSwift
    OBVIOUS
  <1> QED BY <1>2, <1>3, OneMoreLeads DEF Waits

LEMMA WaitsRest ==
  ASSUME NEW path, NEW n, NEW k, NEW ms \in Seq(ToPage \cup ToSwift), ms # <<>>, Waits(path, n, ms, k)
  PROVE  \E l \in Nat : n = l + (IF Head(ms) \in SaveOf(path) \cup MarkOf(path) THEN 1 ELSE 0) /\ Waits(path, l, Tail(ms), k)
  <1>1. n \in Nat /\ Head(ms) \in ToPage \cup ToSwift
    BY LeadsTyped, HeadTailProperties DEF Waits
  <1>2. PICK l \in Nat : <<n, Head(ms), l>> \in Fewer(path) /\ Leads(Nat, Fewer(path), l, Tail(ms), k)
    BY RestLeads DEF Waits
  <1> QED BY <1>1, <1>2, FewerIs DEF Waits

LEMMA BothSeqs ==
  /\ \A ms \in Seq(ToPage) : ms \in Seq(ToPage \cup ToSwift)
  /\ \A ms \in Seq(ToSwift) : ms \in Seq(ToPage \cup ToSwift)
  OBVIOUS

\* Which messages are which.
LEMMA KindsOf ==
  ASSUME NEW path, NEW text
  PROVE  /\ OpenWith(path, text) \subseteq TextOf(path) /\ MarkOf(path) \subseteq TextOf(path)
         /\ EndOf(path) \subseteq TextOf(path) /\ SaveWith(path, text) \subseteq SaveOf(path)
         /\ TextOf(path) \subseteq ToPage /\ SaveOf(path) \subseteq ToSwift
         /\ \A m \in ToPage : m \notin SaveOf(path)
         /\ \A m \in ToSwift : m \notin MarkOf(path)
         /\ \A m \in TextOf(path) : /\ m.type = "openFile" => m \notin MarkOf(path) /\ m \notin EndOf(path)
                                    /\ m.type = "markSaved" => m \notin EndOf(path) /\ m \notin OpenWith(path, text)
                                    /\ m \notin MarkOf(path) /\ m \notin EndOf(path) => m.type = "openFile"
  <1>1. \A m \in ToPage : m.type # "save"
    BY PageMessage
  <1>2. \A m \in ToSwift : m.type # "markSaved"
    BY ColumnMessage
  <1> QED BY <1>1, <1>2 DEF OpenWith, MarkOf, EndOf, SaveWith, TextOf, SaveOf

LEMMA NoneOfFewer ==
  ASSUME NEW ms, NEW R, NEW A, A \subseteq R
  PROVE  NoneIn(ms, R) => NoneIn(ms, A)
  BY DEF NoneIn

LEMMA LastIsOne ==
  ASSUME NEW ms, NEW A, NEW R, LastIn(ms, A, R), NEW B, A \subseteq B
  PROVE  ~NoneIn(ms, B)
  BY DEF NoneIn, LastIn

LEMMA NonePaid ==
  ASSUME NEW path
  PROVE  /\ \A ms \in Seq(ToSwift) : NoneIn(ms, SaveOf(path)) => NoneIn(ms, SaveOf(path) \cup MarkOf(path))
         /\ \A ms \in Seq(ToPage) : NoneIn(ms, MarkOf(path)) => NoneIn(ms, SaveOf(path) \cup MarkOf(path))
  <1>1. ASSUME NEW ms \in Seq(ToSwift), NoneIn(ms, SaveOf(path)) PROVE NoneIn(ms, SaveOf(path) \cup MarkOf(path))
    <2>1. \A i \in 1..Len(ms) : ms[i] \in ToSwift
      BY ElementOfSeq
    <2> QED BY <1>1, <2>1, KindsOf DEF NoneIn
  <1>2. ASSUME NEW ms \in Seq(ToPage), NoneIn(ms, MarkOf(path)) PROVE NoneIn(ms, SaveOf(path) \cup MarkOf(path))
    <2>1. \A i \in 1..Len(ms) : ms[i] \in ToPage
      BY ElementOfSeq
    <2> QED BY <1>2, <2>1, KindsOf DEF NoneIn
  <1> QED BY <1>1, <1>2

\* The page acted, on another file or to save this one: it waits for the saves it posted.
PostsAt(path, js, after) ==
    /\ path \in DOMAIN after.models => path \in DOMAIN js.models
    /\ path \in DOMAIN after.models => after.models[path].cleanValue = js.models[path].cleanValue
    /\ \E j \in Nat : /\ CountOf(after.pendingSaves, path) = CountOf(js.pendingSaves, path) + j
                      /\ Waits(path, j, after.out, 0)
    /\ \/ \E t : SavesText(path, after, t) /\ LastIn(after.out, SaveWith(path, t), SaveOf(path))
       \/ /\ NoneIn(after.out, SaveOf(path))
          /\ \A t : SavesText(path, js, t) => SavesText(path, after, t)

LEMMA SilentKeeps ==
  ASSUME NEW after \in PageState
  PROVE  /\ Silent(after).models = after.models /\ Silent(after).pendingSaves = after.pendingSaves
         /\ after.out \in Seq(ToSwift)
         /\ \A path, t : SavesText(path, Silent(after), t) <=> SavesText(path, after, t)
  <1>1. Silent(after).models = after.models /\ after.out \in Seq(ToSwift)
    BY SilentPage, PageIs
  <1>2. Silent(after).pendingSaves = after.pendingSaves
    BY SilentPage DEF Page
  <1> QED BY <1>1, <1>2 DEF SavesText

LEMMA PostsClean ==
  ASSUME NEW path, NEW js, NEW said \in Seq(ToSwift), NEW queue \in Seq(ToPage), NEW text, NEW loose,
         Clean(path, js, said, queue, text, loose), NEW after \in PageState, PostsAt(path, js, after)
  PROVE  Clean(path, Silent(after), said \o after.out, queue, text, loose)
  <1>1. PICK state, out : state = Silent(after) /\ out = after.out
    OBVIOUS
  <1>2. /\ state.models = after.models /\ state.pendingSaves = after.pendingSaves
        /\ out \in Seq(ToSwift)
        /\ \A t : SavesText(path, state, t) <=> SavesText(path, after, t)
    BY <1>1, SilentKeeps
  <1>3. NoneIn(queue, EndOf(path)) /\ Owed(path, CountOf(js.pendingSaves, path), queue, said)
    BY DEF Clean
  <1>4. Owed(path, CountOf(state.pendingSaves, path), queue, said \o out)
    <2>1. PICK j \in Nat : /\ CountOf(after.pendingSaves, path) = CountOf(js.pendingSaves, path) + j
                           /\ Waits(path, j, out, 0)
      BY <1>1 DEF PostsAt
    <2>2. PICK n : n = CountOf(js.pendingSaves, path)
      OBVIOUS
    <2>3. PICK k \in Nat, l \in Nat : Waits(path, n, queue, k) /\ Waits(path, k, said, l)
      BY <1>3, <2>2 DEF Owed
    <2>4. Waits(path, n + j, queue, k + j) /\ Waits(path, k + j, said, l + j)
      BY <2>3, WaitsMore, BothSeqs
    <2>5. Waits(path, j + l, out, 0 + l)
      BY <1>2, <2>1, WaitsMore, BothSeqs
    <2>6. Waits(path, l + j, out, l)
      BY <2>5
    <2>7. Waits(path, k + j, said \o out, l)
      BY <1>2, <2>4, <2>6, WaitsOn, BothSeqs
    <2>8. CountOf(state.pendingSaves, path) = n + j /\ k + j \in Nat
      BY <1>2, <2>1, <2>2
    <2> QED BY <2>4, <2>7, <2>8 DEF Owed
  <1>5. \/ \E t : SavesText(path, state, t) /\ LastIn(said \o out, SaveWith(path, t), SaveOf(path))
        \/ NoneIn(said \o out, SaveOf(path)) /\ (loose \/ EndsClean(path, state, queue, text))
    <2>1. CASE \E t : SavesText(path, after, t) /\ LastIn(out, SaveWith(path, t), SaveOf(path))
      BY <1>2, <2>1, LastInOn
    <2>2. CASE NoneIn(out, SaveOf(path)) /\ \A t : SavesText(path, js, t) => SavesText(path, after, t)
      <3>1. CASE \E t : SavesText(path, js, t) /\ LastIn(said, SaveWith(path, t), SaveOf(path))
        BY <1>2, <2>2, <3>1, LastInOn
      <3>2. CASE NoneIn(said, SaveOf(path)) /\ (loose \/ EndsClean(path, js, queue, text))
        <4>1. NoneIn(said \o out, SaveOf(path))
          BY <1>2, <2>2, <3>2, NoneInOn
        <4>2. EndsClean(path, js, queue, text) => EndsClean(path, state, queue, text)
          BY <1>2, <2>2 DEF EndsClean, PostsAt
        <4> QED BY <3>2, <4>1, <4>2
      <3> QED BY <3>1, <3>2 DEF Clean
    <2> QED BY <1>1, <2>1, <2>2 DEF PostsAt
  <1> QED BY <1>1, <1>3, <1>4, <1>5 DEF Clean

\* A message about another file was taken.
LEMMA RestOther ==
  ASSUME NEW path, NEW js, NEW said \in Seq(ToSwift), NEW queue \in Seq(ToPage), queue # <<>>,
         Head(queue) \notin TextOf(path), NEW text, NEW loose
  PROVE  /\ Clean(path, js, said, queue, text, loose) => Clean(path, js, said, Tail(queue), text, loose)
         /\ Gone(path, js, queue) => Gone(path, js, Tail(queue))
  <1>1. PICK m, rest : m = Head(queue) /\ rest = Tail(queue)
    OBVIOUS
  <1>2. m \in ToPage /\ rest \in Seq(ToPage) /\ m \notin TextOf(path)
    BY <1>1, HeadTailProperties
  <1>3. \A A, R : /\ NoneIn(queue, R) => NoneIn(rest, R)
                  /\ LastIn(queue, A, R) => LastIn(rest, A, R) \/ (m \in A /\ NoneIn(rest, R))
    BY <1>1, LastInRest
  <1>4. \A A : A \subseteq TextOf(path) /\ LastIn(queue, A, TextOf(path)) => LastIn(rest, A, TextOf(path))
    BY <1>2, <1>3
  <1>5. ASSUME Clean(path, js, said, queue, text, loose) PROVE Clean(path, js, said, rest, text, loose)
    <2>1. NoneIn(rest, EndOf(path))
      BY <1>3, <1>5 DEF Clean
    <2>2. Owed(path, CountOf(js.pendingSaves, path), rest, said)
      <3>1. PICK n : n = CountOf(js.pendingSaves, path)
        OBVIOUS
      <3>2. PICK k \in Nat, l \in Nat : Waits(path, n, queue, k) /\ Waits(path, k, said, l)
        BY <1>5, <3>1 DEF Owed, Clean
      <3>3. PICK i \in Nat : n = i + (IF m \in SaveOf(path) \cup MarkOf(path) THEN 1 ELSE 0) /\ Waits(path, i, rest, k)
        BY <1>1, <3>2, WaitsRest, BothSeqs
      <3>4. m \notin SaveOf(path) \cup MarkOf(path)
        BY <1>2, KindsOf
      <3>5. n = i
        BY <3>3, <3>4
      <3> QED BY <3>1, <3>2, <3>3, <3>5 DEF Owed
    <2>3. EndsClean(path, js, queue, text) => EndsClean(path, js, rest, text)
      BY <1>3, <1>4, KindsOf DEF EndsClean
    <2> QED BY <1>5, <2>1, <2>2, <2>3 DEF Clean
  <1>6. Gone(path, js, queue) => Gone(path, js, rest)
    BY <1>3, <1>4, KindsOf DEF Gone
  <1> QED BY <1>1, <1>5, <1>6

\* The page took the file's text.
LEMMA OpensClean ==
  ASSUME NEW path, NEW js, NEW said \in Seq(ToSwift), NEW queue \in Seq(ToPage), queue # <<>>,
         NEW text, NEW loose, Clean(path, js, said, queue, text, loose),
         NEW m, m = Head(queue), m \in TextOf(path), m.type = "openFile",
         NEW after \in PageState, path \in DOMAIN after.models, after.models[path].cleanValue = m.content,
         after.pendingSaves = js.pendingSaves, NoneIn(after.out, SaveOf(path))
  PROVE  Clean(path, Silent(after), said \o after.out, Tail(queue), text, loose)
  <1>1. PICK state, out, rest : state = Silent(after) /\ out = after.out /\ rest = Tail(queue)
    OBVIOUS
  <1>2. /\ state.models = after.models /\ state.pendingSaves = js.pendingSaves /\ out \in Seq(ToSwift)
        /\ \A t : SavesText(path, state, t) <=> SavesText(path, js, t)
    BY <1>1, SilentKeeps DEF SavesText
  <1>3. rest \in Seq(ToPage) /\ m \in ToPage
    BY <1>1, HeadTailProperties
  <1>4. \A A, R : /\ NoneIn(queue, R) => NoneIn(rest, R) /\ m \notin R
                  /\ LastIn(queue, A, R) => LastIn(rest, A, R) \/ (m \in A /\ NoneIn(rest, R))
    BY <1>1, LastInRest
  <1>5. NoneIn(rest, EndOf(path))
    BY <1>4 DEF Clean
  <1>6. Owed(path, CountOf(state.pendingSaves, path), rest, said \o out)
    <2>1. PICK n : n = CountOf(js.pendingSaves, path)
      OBVIOUS
    <2>2. PICK k \in Nat, l \in Nat : Waits(path, n, queue, k) /\ Waits(path, k, said, l)
      BY <2>1 DEF Owed, Clean
    <2>3. PICK i \in Nat : n = i + (IF m \in SaveOf(path) \cup MarkOf(path) THEN 1 ELSE 0) /\ Waits(path, i, rest, k)
      BY <1>1, <2>2, WaitsRest, BothSeqs
    <2>4. m \notin SaveOf(path) \cup MarkOf(path)
      BY <1>3, KindsOf
    <2>5. n = i
      BY <2>3, <2>4
    <2>6. Waits(path, l, out, l)
      BY <1>1, <1>2, NonePaid, WaitsSame, BothSeqs
    <2>7. Waits(path, k, said \o out, l)
      BY <1>2, <2>2, <2>6, WaitsOn, BothSeqs
    <2> QED BY <1>2, <2>1, <2>3, <2>5, <2>7 DEF Owed
  <1>7. CASE \E t : SavesText(path, js, t) /\ LastIn(said, SaveWith(path, t), SaveOf(path))
    <2>1. \E t : SavesText(path, state, t) /\ LastIn(said \o out, SaveWith(path, t), SaveOf(path))
      BY <1>1, <1>2, <1>7, LastInOn
    <2> QED BY <1>1, <1>5, <1>6, <2>1 DEF Clean
  <1>8. CASE NoneIn(said, SaveOf(path)) /\ (loose \/ EndsClean(path, js, queue, text))
    <2>1. NoneIn(said \o out, SaveOf(path))
      BY <1>1, <1>2, <1>8, NoneInOn
    <2>2. ASSUME EndsClean(path, js, queue, text) PROVE EndsClean(path, state, rest, text)
      <3>1. CASE LastIn(queue, OpenWith(path, text), TextOf(path))
        <4>1. \/ LastIn(rest, OpenWith(path, text), TextOf(path))
              \/ m \in OpenWith(path, text) /\ NoneIn(rest, TextOf(path))
          BY <1>4, <3>1
        <4>2. m \in OpenWith(path, text) => state.models[path].cleanValue = text
          BY <1>2 DEF OpenWith
        <4> QED BY <4>1, <4>2 DEF EndsClean
      <3>2. CASE LastIn(queue, MarkOf(path), TextOf(path)) /\ SavesText(path, js, text)
        <4>1. m \notin MarkOf(path)
          BY KindsOf
        <4> QED BY <1>2, <1>4, <3>2, <4>1 DEF EndsClean
      <3>3. CASE NoneIn(queue, TextOf(path))
        BY <1>4, <3>3
      <3> QED BY <2>2, <3>1, <3>2, <3>3 DEF EndsClean
    <2> QED BY <1>1, <1>5, <1>6, <1>8, <2>1, <2>2 DEF Clean
  <1> QED BY <1>7, <1>8 DEF Clean

\* The page learnt that a save of the file was written.
MarksAt(path, js, after) ==
    /\ after \in PageState /\ path \in DOMAIN after.models
    /\ after.models[path].cleanValue = js.pendingSaves[path].content
    /\ CountOf(after.pendingSaves, path) = CountOf(js.pendingSaves, path) - 1
    /\ \A t : path \in DOMAIN after.pendingSaves /\ SavesText(path, js, t) => SavesText(path, after, t)
    /\ NoneIn(after.out, SaveOf(path))

LEMMA MarksClean ==
  ASSUME NEW path, NEW js, NEW said \in Seq(ToSwift), NEW queue \in Seq(ToPage), queue # <<>>,
         NEW text, NEW loose, Clean(path, js, said, queue, text, loose),
         NEW m, m = Head(queue), m \in TextOf(path), m.type = "markSaved",
         NEW after, MarksAt(path, js, after)
  PROVE  Clean(path, Silent(after), said \o after.out, Tail(queue), text, loose)
  <1>0. after \in PageState
    BY DEF MarksAt
  <1>1. PICK state, out, rest : state = Silent(after) /\ out = after.out /\ rest = Tail(queue)
    OBVIOUS
  <1>2. /\ state.models = after.models /\ state.pendingSaves = after.pendingSaves /\ out \in Seq(ToSwift)
        /\ \A t : SavesText(path, state, t) <=> SavesText(path, after, t)
    BY <1>0, <1>1, SilentKeeps
  <1>3. rest \in Seq(ToPage) /\ m \in ToPage /\ m \in MarkOf(path)
    BY <1>1, HeadTailProperties DEF MarkOf
  <1>4. \A A, R : /\ NoneIn(queue, R) => NoneIn(rest, R) /\ m \notin R
                  /\ LastIn(queue, A, R) => LastIn(rest, A, R) \/ (m \in A /\ NoneIn(rest, R))
    BY <1>1, LastInRest
  <1>5. NoneIn(rest, EndOf(path))
    BY <1>4 DEF Clean
  <1>6. PICK n : n = CountOf(state.pendingSaves, path)
    OBVIOUS
  <1>7. PICK k \in Nat, l \in Nat : n \in Nat /\ Waits(path, n, rest, k) /\ Waits(path, k, said, l)
    <2>1. PICK old : old = CountOf(js.pendingSaves, path)
      OBVIOUS
    <2>2. PICK k \in Nat, l \in Nat : Waits(path, old, queue, k) /\ Waits(path, k, said, l)
      BY <2>1 DEF Owed, Clean
    <2>3. PICK i \in Nat : old = i + (IF m \in SaveOf(path) \cup MarkOf(path) THEN 1 ELSE 0) /\ Waits(path, i, rest, k)
      BY <1>1, <2>2, WaitsRest, BothSeqs
    <2>4. old = i + 1
      BY <1>3, <2>3
    <2>5. n = old - 1
      BY <1>2, <1>6, <2>1 DEF MarksAt
    <2> QED BY <2>2, <2>3, <2>4, <2>5
  <1>8. Owed(path, n, rest, said \o out)
    <2>1. Waits(path, l, out, l)
      BY <1>1, <1>2, NonePaid, WaitsSame, BothSeqs DEF MarksAt
    <2>2. Waits(path, k, said \o out, l)
      BY <1>2, <1>7, <2>1, WaitsOn, BothSeqs
    <2> QED BY <1>7, <2>2 DEF Owed
  <1>9. ASSUME ~NoneIn(rest, MarkOf(path)) \/ ~NoneIn(said, SaveOf(path)) PROVE path \in DOMAIN after.pendingSaves
    <2>1. k <= n /\ (~NoneIn(rest, SaveOf(path) \cup MarkOf(path)) => k < n)
      BY <1>3, <1>7, WaitsDown, BothSeqs
    <2>2. l <= k /\ (~NoneIn(said, SaveOf(path) \cup MarkOf(path)) => l < k)
      BY <1>7, WaitsDown, BothSeqs
    <2>3. n # 0
      <3>1. ~NoneIn(rest, SaveOf(path) \cup MarkOf(path)) \/ ~NoneIn(said, SaveOf(path) \cup MarkOf(path))
        BY <1>9, NoneOfFewer
      <3> QED BY <1>7, <2>1, <2>2, <3>1
    <2> QED BY <1>2, <1>6, <2>3 DEF CountOf
  <1>10. CASE \E t : SavesText(path, js, t) /\ LastIn(said, SaveWith(path, t), SaveOf(path))
    <2>1. PICK t : SavesText(path, js, t) /\ LastIn(said, SaveWith(path, t), SaveOf(path))
      BY <1>10
    <2>2. ~NoneIn(said, SaveOf(path))
      BY <2>1, LastIsOne, KindsOf
    <2>3. SavesText(path, state, t)
      BY <1>2, <1>9, <2>1, <2>2 DEF MarksAt
    <2>4. LastIn(said \o out, SaveWith(path, t), SaveOf(path))
      BY <1>1, <1>2, <2>1, LastInOn DEF MarksAt
    <2> QED BY <1>1, <1>5, <1>6, <1>8, <2>3, <2>4 DEF Clean
  <1>11. CASE NoneIn(said, SaveOf(path)) /\ (loose \/ EndsClean(path, js, queue, text))
    <2>1. NoneIn(said \o out, SaveOf(path))
      BY <1>1, <1>2, <1>11, NoneInOn DEF MarksAt
    <2>2. ASSUME EndsClean(path, js, queue, text) PROVE EndsClean(path, state, rest, text)
      <3>1. CASE LastIn(queue, OpenWith(path, text), TextOf(path))
        <4>1. m \notin OpenWith(path, text)
          BY KindsOf
        <4> QED BY <1>4, <3>1, <4>1 DEF EndsClean
      <3>2. CASE LastIn(queue, MarkOf(path), TextOf(path)) /\ SavesText(path, js, text)
        <4>1. CASE LastIn(rest, MarkOf(path), TextOf(path))
          <5>1. ~NoneIn(rest, MarkOf(path))
            BY <4>1, LastIsOne
          <5>2. SavesText(path, state, text)
            BY <1>2, <1>9, <3>2, <5>1 DEF MarksAt
          <5> QED BY <4>1, <5>2 DEF EndsClean
        <4>2. CASE NoneIn(rest, TextOf(path))
          <5>1. state.models[path].cleanValue = text
            BY <1>2, <3>2 DEF MarksAt, SavesText
          <5> QED BY <4>2, <5>1 DEF EndsClean
        <4> QED BY <1>4, <3>2, <4>1, <4>2
      <3>3. CASE NoneIn(queue, TextOf(path))
        BY <1>4, <3>3
      <3> QED BY <2>2, <3>1, <3>2, <3>3 DEF EndsClean
    <2> QED BY <1>1, <1>5, <1>6, <1>8, <1>11, <2>1, <2>2 DEF Clean
  <1> QED BY <1>10, <1>11 DEF Clean

\* The page of a file that closed took a message about it.
LEMMA ClosesGone ==
  ASSUME NEW path, NEW js, NEW queue \in Seq(ToPage), queue # <<>>, Gone(path, js, queue),
         Head(queue) \in TextOf(path), NEW after, Head(queue) \in EndOf(path) => path \notin DOMAIN after.models
  PROVE  Gone(path, after, Tail(queue))
  <1>1. \A A, R : /\ NoneIn(queue, R) => NoneIn(Tail(queue), R) /\ Head(queue) \notin R
                  /\ LastIn(queue, A, R) => LastIn(Tail(queue), A, R) \/ (Head(queue) \in A /\ NoneIn(Tail(queue), R))
    BY LastInRest
  <1> QED BY <1>1 DEF Gone
-----------------------------------------------------------------------------
(* What the page does to the text of a file                                *)

\* The page acted and neither saved the file nor changed what it takes to be on disk.
SparesAt(path, js, after) ==
    /\ path \in DOMAIN after.models =>
         path \in DOMAIN js.models /\ after.models[path].cleanValue = js.models[path].cleanValue
    /\ CountOf(after.pendingSaves, path) = CountOf(js.pendingSaves, path)
    /\ \A t : SavesText(path, js, t) => SavesText(path, after, t)
    /\ NoneIn(after.out, SaveOf(path))

LEMMA SparesPosts ==
  ASSUME NEW path \in Files, NEW js \in PageState, NEW after \in PageState, SparesAt(path, js, after)
  PROVE  PostsAt(path, js, after)
  <1>1. PICK n, out : n = CountOf(js.pendingSaves, path) /\ out = after.out
    OBVIOUS
  <1>2. n \in Nat /\ out \in Seq(ToSwift)
    BY <1>1, PageIs, SavingIs
  <1>3. Waits(path, 0, out, 0)
    BY <1>1, <1>2, NonePaid, WaitsSame, BothSeqs DEF SparesAt
  <1>4. CountOf(after.pendingSaves, path) = n + 0
    BY <1>1, <1>2 DEF SparesAt
  <1> QED BY <1>1, <1>3, <1>4 DEF SparesAt, PostsAt

LEMMA DirtySparesSaves ==
  ASSUME NEW path, NEW out \in Seq(ToSwift), NoneIn(out, SaveOf(path)), NEW p \in Files, NEW isDirty \in BOOLEAN
  PROVE  NoneIn(Append(out, DirtyMessage(p, isDirty)), SaveOf(path))
  <1>1. PICK m : m = DirtyMessage(p, isDirty)
    OBVIOUS
  <1>2. m \in ToSwift /\ m.type = "dirty"
    BY <1>1, DirtyIs
  <1>3. m \notin SaveOf(path)
    BY <1>2 DEF SaveOf
  <1> QED BY <1>1, <1>2, <1>3, LastInMore

LEMMA SwitchSpares ==
  ASSUME NEW path, NEW js \in PageState, NoneIn(js.out, SaveOf(path)), NEW p, NEW after, after = SwitchToPath(js, p)
  PROVE  after.models = js.models /\ after.pendingSaves = js.pendingSaves /\ NoneIn(after.out, SaveOf(path))
  <1>1. js = Page(js.models, js.currentPath, js.diffMode, js.original, js.drawn, js.redraws, js.pendingSaves, js.out)
    BY PageIs
  <1>2. CASE p \notin DOMAIN js.models
    BY <1>2 DEF SwitchToPath
  <1>3. CASE p \in DOMAIN js.models
    <2>1. PICK left : left = (IF js.diffMode # None THEN ExitDiff(js) ELSE js)
      OBVIOUS
    <2>2. \E diffMode, original, drawn, redraws :
            left = Page(js.models, js.currentPath, diffMode, original, drawn, redraws, js.pendingSaves, js.out)
      BY <1>1, <2>1, ExitDiffIs
    <2>3. PICK front : front = [left EXCEPT !.currentPath = p]
      OBVIOUS
    <2>4. PICK diffMode, original, drawn, redraws :
            front = Page(js.models, p, diffMode, original, drawn, redraws, js.pendingSaves, js.out)
      <3>1. PICK diffMode, original, drawn, redraws :
              left = Page(js.models, js.currentPath, diffMode, original, drawn, redraws, js.pendingSaves, js.out)
        BY <2>2
      <3>2. front = Page(js.models, p, diffMode, original, drawn, redraws, js.pendingSaves, js.out)
        BY <2>3, <3>1 DEF Page
      <3> QED BY <3>2
    <2>5. after = ReportDirtyFor(front, p)
      BY <1>3, <2>1, <2>3 DEF SwitchToPath
    <2>6. PICK m : m = DirtyMessage(p, IsDirty(js.models[p]))
      OBVIOUS
    <2>7. after = [front EXCEPT !.out = Append(js.out, m)]
      BY <1>3, <2>4, <2>5, <2>6 DEF ReportDirtyFor, Post, Page, DirtyMessage
    <2>8. after.models = js.models /\ after.pendingSaves = js.pendingSaves /\ after.out = Append(js.out, m)
      BY <2>4, <2>7 DEF Page
    <2>9. p \in Files /\ IsDirty(js.models[p]) \in BOOLEAN /\ js.out \in Seq(ToSwift)
      BY <1>3, PageIs, EntryIs
    <2> QED BY <2>6, <2>8, <2>9, DirtySparesSaves
  <1> QED BY <1>2, <1>3

\* The file's text, or another's, comes to the page.
LEMMA OpenSpares ==
  ASSUME NEW path \in Files, NEW js \in PageState, NoneIn(js.out, SaveOf(path)), NEW m \in ToPage, m.type = "openFile",
         NEW after, after = ApplyOpen(js, m)
  PROVE  /\ after.pendingSaves = js.pendingSaves /\ NoneIn(after.out, SaveOf(path))
         /\ m.path = path => path \in DOMAIN after.models /\ after.models[path].cleanValue = m.content
         /\ m.path # path /\ path \in DOMAIN after.models =>
              path \in DOMAIN js.models /\ after.models[path] = js.models[path]
  <1>1. PICK p, text : p = m.path /\ text = m.content
    OBVIOUS
  <1>2. p \in Files /\ text \in Texts
    BY <1>1, PageMessage
  <1>3. PICK opened : opened = IF p \in DOMAIN js.models
                  THEN [SetValue(js, p, text) EXCEPT !.models[p] = CleanEntry(text)]
                  ELSE [js EXCEPT !.models = With(@, p, CleanEntry(text))]
    OBVIOUS
  <1>4. after = IF m.activate THEN SwitchToPath(opened, p) ELSE opened
    BY <1>1, <1>3 DEF ApplyOpen, CleanEntry
  <1>5. OpenedPage(js, p, text, opened)
    BY <1>2, <1>3, OpenIs
  <1>6. PICK models \in Models, redraws \in BOOLEAN, out \in Seq(ToSwift) :
      /\ DOMAIN models = DOMAIN js.models \cup {p} /\ models[p] = CleanEntry(text)
      /\ \A q \in DOMAIN js.models : q # p => models[q] = js.models[q]
      /\ out = js.out \/ \E isDirty \in BOOLEAN : out = Append(js.out, DirtyMessage(p, isDirty))
      /\ opened = Page(models, js.currentPath, js.diffMode, js.original, js.drawn, redraws, js.pendingSaves, out)
    BY <1>5 DEF OpenedPage
  <1>7. opened \in PageState
    BY <1>6, PageIs, PageTyped
  <1>8. opened.models = models /\ opened.pendingSaves = js.pendingSaves /\ opened.out = out
    BY <1>6 DEF Page
  <1>9. NoneIn(out, SaveOf(path))
    <2>1. js.out \in Seq(ToSwift)
      BY PageIs
    <2> QED BY <1>2, <1>6, <2>1, DirtySparesSaves
  <1>10. NoneIn(opened.out, SaveOf(path))
    BY <1>8, <1>9
  <1>11. after.models = models /\ after.pendingSaves = js.pendingSaves /\ NoneIn(after.out, SaveOf(path))
    BY <1>4, <1>7, <1>8, <1>10, SwitchSpares
  <1>12. models[p].cleanValue = text
    BY <1>6 DEF CleanEntry
  <1> QED BY <1>1, <1>6, <1>11, <1>12

\* The tab of a file closes in the page.
LEMMA CloseSpares ==
  ASSUME NEW path \in Files, NEW js \in PageState, NoneIn(js.out, SaveOf(path)), NEW p, NEW after, after = CloseTab(js, p)
  PROVE  /\ p = path => path \notin DOMAIN after.models
         /\ p # path => SparesAt(path, js, after)
  <1>1. CASE p \notin DOMAIN js.models
    BY <1>1 DEF CloseTab, SparesAt
  <1>2. CASE p \in DOMAIN js.models
    <2>1. /\ after.models = Without(js.models, p) /\ after.pendingSaves = Without(js.pendingSaves, p)
          /\ after.out = js.out
      BY <1>2, CloseTabIs DEF Page
    <2>2. PICK models, saves : models = js.models /\ saves = js.pendingSaves
      OBVIOUS
    <2>3. /\ DOMAIN Without(models, p) = DOMAIN models \ {p}
          /\ p # path /\ path \in DOMAIN models => Without(models, p)[path] = models[path]
      BY DEF Without
    <2>4. /\ DOMAIN Without(saves, p) = DOMAIN saves \ {p}
          /\ p # path /\ path \in DOMAIN saves => Without(saves, p)[path] = saves[path]
      BY DEF Without
    <2>5. PICK now, left : now = after.models /\ left = after.pendingSaves
      OBVIOUS
    <2>6. /\ DOMAIN now = DOMAIN models \ {p} /\ DOMAIN left = DOMAIN saves \ {p}
          /\ p # path /\ path \in DOMAIN models => now[path] = models[path]
          /\ p # path /\ path \in DOMAIN saves => left[path] = saves[path]
      BY <2>1, <2>2, <2>3, <2>4, <2>5
    <2>7. CASE p = path
      BY <2>5, <2>6, <2>7
    <2>8. CASE p # path
      <3>1. CountOf(left, path) = CountOf(saves, path)
        BY <2>6, <2>8 DEF CountOf
      <3>2. \A t : SavesText(path, js, t) => SavesText(path, after, t)
        BY <2>2, <2>5, <2>6, <2>8 DEF SavesText
      <3> QED BY <2>1, <2>2, <2>5, <2>6, <2>8, <3>1, <3>2 DEF SparesAt
    <2> QED BY <2>7, <2>8
  <1> QED BY <1>1, <1>2

\* A save was written.
LEMMA MarkSpares ==
  ASSUME NEW path \in Files, NEW js \in PageState, NoneIn(js.out, SaveOf(path)), NEW p,
         NEW after \in PageState, after = MarkSaved(js, p)
  PROVE  /\ p # path => SparesAt(path, js, after)
         /\ p = path /\ path \in DOMAIN js.models /\ path \in DOMAIN js.pendingSaves => MarksAt(path, js, after)
  <1>1. CASE p \notin DOMAIN js.models
    BY <1>1 DEF MarkSaved, SparesAt
  <1>2. CASE p \in DOMAIN js.models
    <2>1. PICK models \in Models, saves \in Saves :
           /\ DOMAIN models = DOMAIN js.models /\ models[p].value = js.models[p].value
           /\ models[p].cleanValue = IF p \in DOMAIN js.pendingSaves THEN js.pendingSaves[p].content
                                     ELSE js.models[p].value
           /\ \A q \in DOMAIN js.models : q # p => models[q] = js.models[q]
           /\ DOMAIN saves \subseteq DOMAIN js.pendingSaves
           /\ p \in DOMAIN js.pendingSaves => CountOf(saves, p) = CountOf(js.pendingSaves, p) - 1
           /\ p \in DOMAIN saves => saves[p].content = js.pendingSaves[p].content
           /\ \A q \in DOMAIN js.pendingSaves : q # p => q \in DOMAIN saves /\ saves[q] = js.pendingSaves[q]
           /\ after = Page(models, js.currentPath, js.diffMode, js.original, js.drawn, js.redraws, saves,
                           Append(js.out, DirtyMessage(p, IsDirty(models[p]))))
      BY <1>2, MarkSavedIs
    <2>2. /\ after.models = models /\ after.pendingSaves = saves
          /\ after.out = Append(js.out, DirtyMessage(p, IsDirty(models[p])))
      BY <2>1 DEF Page
    <2>3. p \in Files /\ IsDirty(models[p]) \in BOOLEAN /\ js.out \in Seq(ToSwift)
      BY <1>2, <2>1, PageIs, EntryIs
    <2>4. NoneIn(after.out, SaveOf(path))
      BY <2>2, <2>3, DirtySparesSaves
    <2>5. PICK old : old = js.pendingSaves
      OBVIOUS
    <2>6. CASE p # path
      <3>1. path \in DOMAIN old => path \in DOMAIN saves /\ saves[path] = old[path]
        BY <2>1, <2>5, <2>6
      <3>2. path \notin DOMAIN old => path \notin DOMAIN saves
        BY <2>1, <2>5
      <3>3. CountOf(saves, path) = CountOf(old, path)
        BY <3>1, <3>2 DEF CountOf
      <3>4. \A t : SavesText(path, js, t) => SavesText(path, after, t)
        BY <2>2, <2>5, <3>1 DEF SavesText
      <3>5. path \in DOMAIN models => path \in DOMAIN js.models /\ models[path] = js.models[path]
        BY <2>1, <2>6
      <3> QED BY <2>2, <2>4, <2>5, <2>6, <3>3, <3>4, <3>5 DEF SparesAt
    <2>7. CASE p = path /\ path \in DOMAIN old
      <3>1. \A t : path \in DOMAIN after.pendingSaves /\ SavesText(path, js, t) => SavesText(path, after, t)
        BY <2>1, <2>2, <2>7 DEF SavesText
      <3> QED BY <1>2, <2>1, <2>2, <2>4, <2>5, <2>7, <3>1 DEF MarksAt
    <2> QED BY <2>5, <2>6, <2>7
  <1> QED BY <1>1, <1>2

LEMMA SameSpares ==
  ASSUME NEW path, NEW js, NEW after, after.models = js.models, after.pendingSaves = js.pendingSaves,
         NoneIn(after.out, SaveOf(path))
  PROVE  SparesAt(path, js, after)
  BY DEF SparesAt, SavesText

\* A diff is drawn, or taken away.
LEMMA DrawSpares ==
  ASSUME NEW path, NEW js \in PageState, NoneIn(js.out, SaveOf(path)), NEW m, NEW after,
         \/ after = js
         \/ after = ExitDiff(js)
         \/ after = EnterPierreDiff(js, m)
         \/ after = EnterMonacoDiff(js, m)
         \/ after = EnterPierreDiffGroup(js, m)
         \/ after = RenderDiff([js EXCEPT !.redraws = FALSE])
  PROVE  SparesAt(path, js, after)
  <1>1. js = Page(js.models, js.currentPath, js.diffMode, js.original, js.drawn, js.redraws, js.pendingSaves, js.out)
    BY PageIs
  <1>2. CASE after = js
    BY <1>2, SameSpares
  <1>3. CASE after = ExitDiff(js)
    <2>1. after.models = js.models /\ after.pendingSaves = js.pendingSaves /\ after.out = js.out
      BY <1>3, ExitDiffIs DEF Page
    <2> QED BY <2>1, SameSpares
  <1>4. CASE after = EnterPierreDiff(js, m)
    <2>1. CASE m.path \notin DOMAIN js.models
      BY <1>4, <2>1, SameSpares DEF EnterPierreDiff
    <2>2. CASE m.path \in DOMAIN js.models
      <3>1. PICK e1, e2, e3, e4, no :
              /\ no = FALSE
              /\ e1 = [js EXCEPT !.diffMode = "pierre"] /\ e2 = [e1 EXCEPT !.original = m.original]
              /\ e3 = [e2 EXCEPT !.drawn = NoDiff] /\ e4 = [e3 EXCEPT !.redraws = no]
        OBVIOUS
      <3>2. e1 = Page(js.models, js.currentPath, "pierre", js.original, js.drawn, js.redraws, js.pendingSaves, js.out)
        BY <1>1, <3>1 DEF Page
      <3>3. e2 = Page(js.models, js.currentPath, "pierre", m.original, js.drawn, js.redraws, js.pendingSaves, js.out)
        BY <3>1, <3>2 DEF Page
      <3>4. e3 = Page(js.models, js.currentPath, "pierre", m.original, NoDiff, js.redraws, js.pendingSaves, js.out)
        BY <3>1, <3>3 DEF Page
      <3>5. e4 = Page(js.models, js.currentPath, "pierre", m.original, NoDiff, no, js.pendingSaves, js.out)
        BY <3>1, <3>4 DEF Page
      <3>6. after = RenderDiff(e4)
        BY <1>4, <2>2, <3>1 DEF EnterPierreDiff
      <3>7. PICK drawn : drawn = Drawing(e4)
        OBVIOUS
      <3>8. after = [e4 EXCEPT !.drawn = drawn] \/ after = e4
        BY <3>6, <3>7 DEF RenderDiff
      <3>9. PICK drew : after = Page(js.models, js.currentPath, "pierre", m.original, drew, no, js.pendingSaves, js.out)
        <4>1. [e4 EXCEPT !.drawn = drawn]
                = Page(js.models, js.currentPath, "pierre", m.original, drawn, no, js.pendingSaves, js.out)
          BY <3>5 DEF Page
        <4> QED BY <3>5, <3>8, <4>1
      <3>10. after.models = js.models /\ after.pendingSaves = js.pendingSaves /\ after.out = js.out
        BY <3>9 DEF Page
      <3> QED BY <3>10, SameSpares
    <2> QED BY <2>1, <2>2
  <1>5. CASE after = EnterMonacoDiff(js, m)
    <2>1. CASE m.path \notin DOMAIN js.models
      BY <1>5, <2>1, SameSpares DEF EnterMonacoDiff
    <2>2. CASE m.path \in DOMAIN js.models
      <3>1. after.models = js.models /\ after.pendingSaves = js.pendingSaves /\ after.out = js.out
        BY <1>5, <2>2, EnterMonacoDiffIs DEF Page
      <3> QED BY <3>1, SameSpares
    <2> QED BY <2>1, <2>2
  <1>6. CASE after = EnterPierreDiffGroup(js, m)
    <2>1. PICK drawn : drawn = [path |-> m.path, loading |-> m.loading]
      OBVIOUS
    <2>2. after = Page(js.models, js.currentPath, "pierre-group", NoDiff, drawn, FALSE, js.pendingSaves, js.out)
      BY <1>6, <2>1, EnterGroupIs
    <2>3. after.models = js.models /\ after.pendingSaves = js.pendingSaves /\ after.out = js.out
      BY <2>2 DEF Page
    <2> QED BY <2>3, SameSpares
  <1>7. CASE after = RenderDiff([js EXCEPT !.redraws = FALSE])
    <2>1. PICK drawn, no :
            after = Page(js.models, js.currentPath, js.diffMode, js.original, drawn, no, js.pendingSaves, js.out)
      BY <1>7, RedrawIs
    <2>2. after.models = js.models /\ after.pendingSaves = js.pendingSaves /\ after.out = js.out
      BY <2>1 DEF Page
    <2> QED BY <2>2, SameSpares
  <1> QED BY <1>2, <1>3, <1>4, <1>5, <1>6, <1>7

\* The page answers with its selection.
LEMMA SelectionSpares ==
  ASSUME NEW path, NEW js \in PageState, NoneIn(js.out, SaveOf(path)), NEW isEmpty \in BOOLEAN,
         NEW after, after = ReportSelection(js, isEmpty)
  PROVE  SparesAt(path, js, after)
  <1>1. PICK p : p = IF isEmpty \/ js.diffMode \in {"pierre", "pierre-group"} THEN None ELSE js.currentPath
    OBVIOUS
  <1>2. PICK m, old : m = SelectionMessage(p) /\ old = js.out
    OBVIOUS
  <1>3. m.type = "selection" /\ m \in ToSwift /\ old \in Seq(ToSwift)
    BY <1>1, <1>2, PageIs, MessagesTyped DEF SelectionMessage
  <1>4. after = Post(js, m)
    BY <1>1, <1>2 DEF ReportSelection, SelectionMessage
  <1>5. after.models = js.models /\ after.pendingSaves = js.pendingSaves /\ after.out = Append(old, m)
    BY <1>2, <1>4, PostIs DEF Page
  <1>6. m \notin SaveOf(path)
    BY <1>3 DEF SaveOf
  <1>7. NoneIn(Append(old, m), SaveOf(path))
    BY <1>2, <1>3, <1>6, LastInMore
  <1> QED BY <1>5, <1>7, SameSpares

\* The page takes a message that neither changes the file's text nor saves it.
LEMMA OthersSpare ==
  ASSUME NEW path \in Files, NEW js \in PageState, NoneIn(js.out, SaveOf(path)), NEW m \in ToPage, m \notin TextOf(path),
         m.type # "saveAll", NEW isEmpty \in BOOLEAN, NEW after \in PageState, after = HandleMessage(js, m, isEmpty)
  PROVE  SparesAt(path, js, after)
  <1>1. CASE m.type = "openFile"
    <2>1. after = ApplyOpen(js, m)
      BY <1>1 DEF HandleMessage
    <2>2. m.path # path
      BY <1>1 DEF TextOf
    <2>3. /\ after.pendingSaves = js.pendingSaves /\ NoneIn(after.out, SaveOf(path))
          /\ path \in DOMAIN after.models => path \in DOMAIN js.models /\ after.models[path] = js.models[path]
      BY <1>1, <2>1, <2>2, OpenSpares
    <2> QED BY <2>3 DEF SparesAt, SavesText
  <1>2. CASE m.type = "switchTab"
    <2>1. after = SwitchToPath(js, m.path)
      BY <1>2 DEF HandleMessage
    <2> QED BY <2>1, SwitchSpares, SameSpares
  <1>3. CASE m.type = "closeTab"
    <2>1. after = CloseTab(js, m.path)
      BY <1>3 DEF HandleMessage
    <2>2. m.path # path
      BY <1>3 DEF TextOf
    <2> QED BY <2>1, <2>2, CloseSpares
  <1>4. CASE m.type = "markSaved"
    <2>1. after = MarkSaved(js, m.path)
      BY <1>4 DEF HandleMessage
    <2>2. m.path # path
      BY <1>4 DEF TextOf
    <2> QED BY <2>1, <2>2, MarkSpares
  <1>5. CASE m.type = "goToLine"
    <2>1. after = SwitchToPath(js, m.path) \/ after = js
      BY <1>5 DEF HandleMessage
    <2> QED BY <2>1, SwitchSpares, SameSpares
  <1>6. CASE m.type = "enterDiff"
    <2>1. after = EnterPierreDiff(js, m)
      BY <1>6 DEF HandleMessage
    <2> QED BY <2>1, DrawSpares
  <1>7. CASE m.type = "enterDiffGroup"
    <2>1. after = EnterPierreDiffGroup(js, m)
      BY <1>7 DEF HandleMessage
    <2> QED BY <2>1, DrawSpares
  <1>8. CASE m.type = "exitDiff"
    <2>1. after = ExitDiff(js)
      BY <1>8 DEF HandleMessage
    <2> QED BY <2>1, DrawSpares
  <1>9. CASE m.type = "getSelection"
    <2>1. after = ReportSelection(js, isEmpty)
      BY <1>9 DEF HandleMessage
    <2> QED BY <2>1, SelectionSpares
  <1>10. m.type \in {"openFile", "switchTab", "closeTab", "markSaved", "goToLine", "enterDiff",
                     "enterDiffGroup", "exitDiff", "getSelection"}
    BY PageMessage
  <1> QED BY <1>1, <1>2, <1>3, <1>4, <1>5, <1>6, <1>7, <1>8, <1>9, <1>10

\* One more save.
LEMMA PostsMore ==
  ASSUME NEW path \in Files, NEW js \in PageState, NEW acc \in PageState, acc.models = js.models,
         PostsAt(path, js, acc), NEW p \in DOMAIN js.models, NEW after, after = PostSave(acc, p)
  PROVE  PostsAt(path, js, after)
  <1>0. /\ path \in DOMAIN acc.models => path \in DOMAIN js.models
        /\ path \in DOMAIN acc.models => acc.models[path].cleanValue = js.models[path].cleanValue
    BY DEF PostsAt
  <1>1. PICK saves \in Saves :
           /\ DOMAIN saves = DOMAIN acc.pendingSaves \cup {p}
           /\ saves[p].content = acc.models[p].value
           /\ saves[p].count = CountOf(acc.pendingSaves, p) + 1
           /\ \A q \in DOMAIN acc.pendingSaves : q # p => saves[q] = acc.pendingSaves[q]
           /\ after = Page(acc.models, acc.currentPath, acc.diffMode, acc.original, acc.drawn, acc.redraws, saves,
                           Append(acc.out, SaveMessage(p, acc.models[p].value)))
    BY PostSaveIs
  <1>2. PICK old, out, content : old = acc.pendingSaves /\ out = acc.out /\ content = acc.models[p].value
    OBVIOUS
  <1>3. PICK m : m = SaveMessage(p, content)
    OBVIOUS
  <1>4. after.models = acc.models /\ after.pendingSaves = saves /\ after.out = Append(out, m)
    BY <1>1, <1>2, <1>3 DEF Page
  <1>5. /\ p \in Files /\ content \in Texts /\ out \in Seq(ToSwift) /\ m \in ToSwift
        /\ m.type = "save" /\ m.path = p /\ m.content = content
    BY <1>2, <1>3, PageIs, EntryIs, MessagesTyped DEF SaveMessage
  <1>6. PICK j \in Nat : CountOf(old, path) = CountOf(js.pendingSaves, path) + j /\ Waits(path, j, out, 0)
    BY <1>2 DEF PostsAt
  <1>7. PICK n : n = CountOf(js.pendingSaves, path)
    OBVIOUS
  <1>8. n \in Nat
    BY <1>7, PageIs, SavingIs
  <1>9. CASE p = path
    <2>1. m \in SaveOf(path) /\ m \in SaveWith(path, content)
      BY <1>5, <1>9 DEF SaveOf, SaveWith
    <2>2. CountOf(saves, path) = CountOf(old, path) + 1
      BY <1>1, <1>2, <1>9 DEF CountOf
    <2>3. CountOf(saves, path) = n + (j + 1)
      BY <1>6, <1>7, <1>8, <2>2
    <2>4. Waits(path, j + 1, out, 0 + 1)
      BY <1>5, <1>6, WaitsMore, BothSeqs
    <2>5. Waits(path, j + 1, out, 1)
      BY <2>4
    <2>6. Waits(path, j + 1, Append(out, m), 0)
      <3>1. m \in SaveOf(path) \cup MarkOf(path) /\ out \in Seq(ToPage \cup ToSwift) /\ m \in ToPage \cup ToSwift
        BY <1>5, <2>1, BothSeqs
      <3>2. 1 = 0 + (IF m \in SaveOf(path) \cup MarkOf(path) THEN 1 ELSE 0)
        BY <3>1
      <3> QED BY <2>5, <3>1, <3>2, WaitsOne
    <2>7. SavesText(path, after, content)
      BY <1>1, <1>2, <1>4, <1>9 DEF SavesText
    <2>8. LastIn(Append(out, m), SaveWith(path, content), SaveOf(path))
      BY <1>5, <2>1, LastInMore
    <2> QED BY <1>0, <1>4, <1>7, <2>3, <2>6, <2>7, <2>8 DEF PostsAt
  <1>10. CASE p # path
    <2>1. m \notin SaveOf(path)
      BY <1>5, <1>10 DEF SaveOf
    <2>2. path \in DOMAIN saves <=> path \in DOMAIN old
      BY <1>1, <1>2, <1>10
    <2>3. path \in DOMAIN old => saves[path] = old[path]
      BY <1>1, <1>2, <1>10
    <2>4. CountOf(saves, path) = n + j
      BY <1>6, <1>7, <2>2, <2>3 DEF CountOf
    <2>5. Waits(path, j, Append(out, m), 0)
      <3>1. m \notin SaveOf(path) \cup MarkOf(path) /\ out \in Seq(ToPage \cup ToSwift) /\ m \in ToPage \cup ToSwift
        BY <1>5, <2>1, BothSeqs, KindsOf
      <3>2. 0 = 0 + (IF m \in SaveOf(path) \cup MarkOf(path) THEN 1 ELSE 0)
        BY <3>1
      <3> QED BY <1>6, <3>1, <3>2, WaitsOne
    <2>6. \A t : SavesText(path, acc, t) => SavesText(path, after, t)
      BY <1>2, <1>4, <2>2, <2>3 DEF SavesText
    <2>7. \A A : LastIn(out, A, SaveOf(path)) => LastIn(Append(out, m), A, SaveOf(path))
      BY <1>5, <2>1, LastInMore
    <2>8. NoneIn(out, SaveOf(path)) => NoneIn(Append(out, m), SaveOf(path))
      BY <1>5, <2>1, LastInMore
    <2>9. \/ \E t : SavesText(path, after, t) /\ LastIn(after.out, SaveWith(path, t), SaveOf(path))
          \/ /\ NoneIn(after.out, SaveOf(path))
             /\ \A t : SavesText(path, js, t) => SavesText(path, after, t)
      BY <1>2, <1>4, <2>6, <2>7, <2>8 DEF PostsAt
    <2> QED BY <1>0, <1>4, <1>7, <2>4, <2>5, <2>9 DEF PostsAt
  <1> QED BY <1>9, <1>10

LEMMA PostsNothing ==
  ASSUME NEW path \in Files, NEW js \in PageState, NoneIn(js.out, SaveOf(path))
  PROVE  PostsAt(path, js, js)
  <1>1. SparesAt(path, js, js)
    BY SameSpares
  <1> QED BY <1>1, SparesPosts

\* Every dirty file is saved.
LEMMA SaveAllPosts ==
  ASSUME NEW path \in Files, NEW js \in PageState, NEW alive, PageFits(alive, js), js.out = <<>>, NEW skipPaths
  PROVE  PostsAt(path, js, SaveAllDirty(js, skipPaths))
  <1> DEFINE T == {acc \in PageState : SavesOnly(js, acc) /\ PostsAt(path, js, acc)}
  <1>1. js \in T
    <2>1. NoneIn(js.out, SaveOf(path))
      BY NoneInNothing
    <2> QED BY <2>1, SavesStill, PostsNothing
  <1>2. ASSUME NEW acc \in T, NEW p \in DOMAIN js.models PROVE PostSave(acc, p) \in T
    <2>1. SavesOnly(js, PostSave(acc, p))
      BY SavesOneMore
    <2>2. acc.models = js.models
      BY DEF SavesOnly
    <2>3. PostsAt(path, js, PostSave(acc, p))
      BY <2>2, PostsMore
    <2> QED BY <2>1, <2>3 DEF SavesOnly
  <1>3. SaveAllDirty(js, skipPaths) \in T
    <2> HIDE DEF T
    <2> QED BY <1>1, <1>2, SaveAllStays
  <1> QED BY <1>3

\* Of a file open in the column, or closed.
Holds(path, js, said, queue, text, loose, open) ==
    IF open THEN Clean(path, js, said, queue, text, loose) ELSE Gone(path, js, queue)

\* The page acted by itself, or saved.
LEMMA PostsHold ==
  ASSUME NEW path, NEW js, NEW said \in Seq(ToSwift), NEW queue \in Seq(ToPage), NEW text, NEW loose, NEW open,
         Holds(path, js, said, queue, text, loose, open), NEW after \in PageState, PostsAt(path, js, after)
  PROVE  Holds(path, Silent(after), said \o after.out, queue, text, loose, open)
  <1>1. CASE open
    <2>1. Clean(path, js, said, queue, text, loose)
      BY <1>1 DEF Holds
    <2>2. Clean(path, Silent(after), said \o after.out, queue, text, loose)
      BY <2>1, PostsClean
    <2> QED BY <1>1, <2>2 DEF Holds
  <1>2. CASE ~open
    <2>1. Gone(path, js, queue)
      BY <1>2 DEF Holds
    <2>2. Silent(after).models = after.models
      BY SilentKeeps
    <2>3. Gone(path, Silent(after), queue)
      BY <2>1, <2>2 DEF Gone, PostsAt
    <2> QED BY <1>2, <2>3 DEF Holds
  <1> QED BY <1>1, <1>2

LEMMA RestHolds ==
  ASSUME NEW path, NEW js, NEW said \in Seq(ToSwift), NEW queue \in Seq(ToPage), queue # <<>>,
         Head(queue) \notin TextOf(path), NEW text, NEW loose, NEW open,
         Holds(path, js, said, queue, text, loose, open)
  PROVE  Holds(path, js, said, Tail(queue), text, loose, open)
  <1>1. CASE open
    <2>1. Clean(path, js, said, queue, text, loose)
      BY <1>1 DEF Holds
    <2>2. Clean(path, js, said, Tail(queue), text, loose)
      BY <2>1, RestOther
    <2> QED BY <1>1, <2>2 DEF Holds
  <1>2. CASE ~open
    <2>1. Gone(path, js, queue)
      BY <1>2 DEF Holds
    <2>2. Gone(path, js, Tail(queue))
      BY <2>1, RestOther
    <2> QED BY <1>2, <2>2 DEF Holds
  <1> QED BY <1>1, <1>2

\* A message about a file.
LEMMA TextKinds ==
  ASSUME NEW path, NEW m \in TextOf(path)
  PROVE  /\ m \in ToPage /\ m.path = path
         /\ m.type \in {"openFile", "markSaved", "closeTab"}
         /\ m.type = "closeTab" => m \in EndOf(path)
         /\ m.type = "markSaved" => m \in MarkOf(path)
         /\ m \in EndOf(path) => m.type = "closeTab"
  BY DEF TextOf, EndOf, MarkOf

\* The page takes the first message.
LEMMA HeadHolds ==
  ASSUME NEW path \in Files, NEW js \in PageState, NEW alive, PageFits(alive, js), js.out = <<>>,
         NEW said \in Seq(ToSwift), NEW queue \in Seq(ToPage), queue # <<>>, NEW m, m = Head(queue),
         NEW isEmpty \in BOOLEAN, NEW after \in PageState, after = HandleMessage(js, m, isEmpty),
         NEW text, NEW loose, NEW open, Holds(path, js, said, queue, text, loose, open)
  PROVE  Holds(path, Silent(after), said \o after.out, Tail(queue), text, loose, open)
  <1>1. m \in ToPage
    BY HeadTailProperties
  <1>2. NoneIn(js.out, SaveOf(path))
    BY NoneInNothing
  <1>3. CASE m \notin TextOf(path)
    <2>1. PostsAt(path, js, after)
      <3>1. CASE m.type = "saveAll"
        <4>1. after = SaveAllDirty(js, m.skipPaths)
          BY <3>1 DEF HandleMessage
        <4> QED BY <4>1, SaveAllPosts
      <3>2. CASE m.type # "saveAll"
        <4>1. SparesAt(path, js, after)
          BY <1>1, <1>2, <1>3, <3>2, OthersSpare
        <4> QED BY <4>1, SparesPosts
      <3> QED BY <3>1, <3>2
    <2>2. Holds(path, Silent(after), said \o after.out, queue, text, loose, open)
      BY <2>1, PostsHold
    <2>3. said \o after.out \in Seq(ToSwift)
      BY SilentKeeps, ConcatProperties
    <2> QED BY <1>3, <2>2, <2>3, RestHolds
  <1>4. CASE m \in TextOf(path)
    <2>1. m.path = path /\ m.type \in {"openFile", "markSaved", "closeTab"}
      BY <1>4, TextKinds
    <2>2. CASE open
      <3>1. Clean(path, js, said, queue, text, loose)
        BY <2>2 DEF Holds
      <3>2. m \notin EndOf(path)
        BY <3>1, LastInRest DEF Clean
      <3>3. CASE m.type = "openFile"
        <4>1. after = ApplyOpen(js, m)
          BY <3>3 DEF HandleMessage
        <4>2. /\ after.pendingSaves = js.pendingSaves /\ NoneIn(after.out, SaveOf(path))
              /\ path \in DOMAIN after.models /\ after.models[path].cleanValue = m.content
          BY <1>1, <1>2, <2>1, <3>3, <4>1, OpenSpares
        <4>3. Clean(path, Silent(after), said \o after.out, Tail(queue), text, loose)
          BY <1>4, <3>1, <3>3, <4>2, OpensClean
        <4> QED BY <2>2, <4>3 DEF Holds
      <3>4. CASE m.type = "markSaved"
        <4>1. after = MarkSaved(js, path)
          BY <2>1, <3>4 DEF HandleMessage
        <4>2. path \in DOMAIN js.pendingSaves
          <5>1. PICK n : n = CountOf(js.pendingSaves, path)
            OBVIOUS
          <5>2. PICK k \in Nat, l \in Nat : Waits(path, n, queue, k) /\ Waits(path, k, said, l)
            BY <3>1, <5>1 DEF Owed, Clean
          <5>3. PICK i \in Nat : n = i + (IF m \in SaveOf(path) \cup MarkOf(path) THEN 1 ELSE 0) /\ Waits(path, i, Tail(queue), k)
            BY <5>2, WaitsRest, BothSeqs
          <5>4. m \in SaveOf(path) \cup MarkOf(path)
            BY <1>4, <3>4, TextKinds
          <5>5. n # 0
            BY <5>3, <5>4
          <5> QED BY <5>1, <5>5 DEF CountOf
        <4>3. path \in DOMAIN js.models
          BY <4>2 DEF PageFits
        <4>4. MarksAt(path, js, after)
          BY <1>2, <4>1, <4>2, <4>3, MarkSpares
        <4>5. Clean(path, Silent(after), said \o after.out, Tail(queue), text, loose)
          BY <1>4, <3>1, <3>4, <4>4, MarksClean
        <4> QED BY <2>2, <4>5 DEF Holds
      <3>5. m.type # "closeTab"
        BY <1>4, <3>2, TextKinds
      <3> QED BY <2>1, <3>3, <3>4, <3>5
    <2>3. CASE ~open
      <3>1. Gone(path, js, queue)
        BY <2>3 DEF Holds
      <3>2. ASSUME m \in EndOf(path) PROVE path \notin DOMAIN after.models
        <4>1. m.type = "closeTab"
          BY <1>4, <3>2, TextKinds
        <4>2. after = CloseTab(js, path)
          BY <2>1, <4>1 DEF HandleMessage
        <4> QED BY <1>2, <4>2, CloseSpares
      <3>3. Gone(path, after, Tail(queue))
        BY <1>4, <3>1, <3>2, ClosesGone
      <3>4. Silent(after).models = after.models
        BY SilentKeeps
      <3>5. Gone(path, Silent(after), Tail(queue))
        BY <3>3, <3>4 DEF Gone
      <3> QED BY <2>3, <3>5 DEF Holds
    <2> QED BY <2>2, <2>3
  <1> QED BY <1>3, <1>4
-----------------------------------------------------------------------------
(* The invariant of clean buffers                                          *)

\* What holds of each file the code doesn't let differ (`apart`), of what is under way now.
FileInv(p) ==
    p \notin apart =>
      Holds(p, page, toSwift, Queue, disk[p], p \in moved \cup column.diskModifiedWhileDirty, IsOpen(column, p))
CleanInv == \A p \in Files : FileInv(p)

\* The page acted.
LEMMA PageFile ==
  ASSUME Inv, NEW p \in Files, FileInv(p), NEW after \in PageState, PageBecomes(after), UNCHANGED columnSide,
         NEW queue, queue = Queue',
         \A text : \A loose : \A open :
           Holds(p, page, toSwift, Queue, text, loose, open)
             => Holds(p, Silent(after), toSwift \o after.out, queue, text, loose, open)
  PROVE  FileInv(p)'
  <1>1. disk' = disk /\ moved' = moved /\ column' = column /\ apart' = apart
    BY DEF columnSide
  <1>2. page' = Silent(after) /\ toSwift' = toSwift \o after.out
    BY PageSends DEF Inv
  <1>3. PICK text, loose, open :
          /\ text = disk[p] /\ loose = (p \in moved \cup column.diskModifiedWhileDirty) /\ open = IsOpen(column, p)
    OBVIOUS
  <1>4. text = disk'[p] /\ loose = (p \in moved' \cup column'.diskModifiedWhileDirty) /\ open = IsOpen(column', p)
    BY <1>1, <1>3
  <1>5. p \notin apart => Holds(p, page, toSwift, Queue, text, loose, open)
    BY <1>3 DEF FileInv
  <1>6. p \notin apart => Holds(p, Silent(after), toSwift \o after.out, queue, text, loose, open)
    BY <1>5
  <1>7. p \notin apart' => Holds(p, page', toSwift', Queue', text, loose, open)
    BY <1>1, <1>2, <1>6
  <1> QED BY <1>4, <1>7 DEF FileInv

LEMMA ReceivesFile ==
  ASSUME Inv, NEW p \in Files, FileInv(p), PageReceives
  PROVE  FileInv(p)'
  <1>1. isUp /\ toPage # <<>> /\ toPage' = Tail(toPage) /\ UNCHANGED columnSide
    BY DEF PageReceives
  <1>2. WiresInv /\ PageInv /\ ShowsInv
    BY DEF Inv
  <1>3. monacoReady /\ Queue = toPage /\ toPage \in Seq(ToPage) /\ toSwift \in Seq(ToSwift)
    BY <1>1, <1>2, QueueIs DEF WiresInv
  <1>4. PICK m : m = Head(toPage)
    OBVIOUS
  <1>5. m \in ToPage
    BY <1>1, <1>3, <1>4, HeadTailProperties
  <1>6. PICK isEmpty \in BOOLEAN : PageBecomes(HandleMessage(page, m, isEmpty))
    BY <1>4 DEF PageReceives
  <1>7. PICK after : after = HandleMessage(page, m, isEmpty)
    OBVIOUS
  <1>8. Alive \in BOOLEAN /\ Fresh \in BOOLEAN
    BY <1>2, QueueIs
  <1>9. page \in PageState /\ page.out = <<>> /\ PageFits(Alive, page)
    BY <1>2 DEF PageInv
  <1>10. TakesHead(Alive, Fresh, page, m, after)
    <2>1. ASSUME NEW due \in Seq(Asked), Timely(Alive, Fresh, View(Fresh, page, due), m)
          PROVE  Taken(Alive, Fresh, due, page, m, after)
      BY <1>5, <1>7, <1>8, <1>9, <2>1, PageTakes
    <2> QED BY <2>1 DEF TakesHead
  <1>11. Shows(Alive, Fresh, page, selectionRequests, toSwift, toPage, column)
    BY <1>2, <1>3 DEF ShowsInv
  <1>12. after \in PageState
    BY <1>1, <1>3, <1>4, <1>8, <1>10, <1>11, TakenShows
  <1>13. Queue' = Tail(toPage)
    BY <1>1, <1>3 DEF columnSide, Queue
  <1>14. ASSUME NEW text, NEW loose, NEW open, Holds(p, page, toSwift, Queue, text, loose, open)
         PROVE  Holds(p, Silent(after), toSwift \o after.out, Tail(toPage), text, loose, open)
    <2>1. PICK js, said, queue : js = page /\ said = toSwift /\ queue = toPage
      OBVIOUS
    <2>2. /\ js \in PageState /\ js.out = <<>> /\ PageFits(Alive, js) /\ said \in Seq(ToSwift)
          /\ queue \in Seq(ToPage) /\ queue # <<>> /\ m = Head(queue) /\ after = HandleMessage(js, m, isEmpty)
          /\ Holds(p, js, said, queue, text, loose, open)
      BY <1>1, <1>3, <1>4, <1>7, <1>9, <1>14, <2>1
    <2>3. Holds(p, Silent(after), said \o after.out, Tail(queue), text, loose, open)
      BY <1>6, <1>12, <2>2, HeadHolds
    <2> QED BY <2>1, <2>3
  <1>15. PageBecomes(after)
    BY <1>6, <1>7
  <1> QED BY <1>1, <1>12, <1>13, <1>14, <1>15, PageFile

\* The page acted by itself.
LEMMA ByItselfFile ==
  ASSUME Inv, NEW p \in Files, FileInv(p), NEW after \in PageState, PageBecomes(after),
         UNCHANGED <<columnSide, toPage>>, PostsAt(p, page, after)
  PROVE  FileInv(p)'
  <1>1. Queue' = Queue /\ UNCHANGED columnSide
    BY DEF columnSide, Queue
  <1>2. toSwift \in Seq(ToSwift) /\ Queue \in Seq(ToPage)
    BY QueueIs DEF Inv, WiresInv
  <1>3. ASSUME NEW text, NEW loose, NEW open, Holds(p, page, toSwift, Queue, text, loose, open)
        PROVE  Holds(p, Silent(after), toSwift \o after.out, Queue, text, loose, open)
    BY <1>2, <1>3, PostsHold
  <1> QED BY <1>1, <1>3, PageFile

\* Nothing is said yet.
LEMMA PageSilent ==
  ASSUME Inv, NEW p
  PROVE  page \in PageState /\ page.out = <<>> /\ NoneIn(page.out, SaveOf(p)) /\ PageFits(Alive, page)
  <1>1. page \in PageState /\ page.out = <<>> /\ PageFits(Alive, page)
    BY DEF Inv, PageInv
  <1> QED BY <1>1, NoneInNothing

LEMMA RedrawFile ==
  ASSUME Inv, NEW p \in Files, FileInv(p), Redraw
  PROVE  FileInv(p)'
  <1>1. PICK after : after = RenderDiff([page EXCEPT !.redraws = FALSE])
    OBVIOUS
  <1>2. PageBecomes(after) /\ UNCHANGED <<columnSide, toPage>> /\ page.redraws
    BY <1>1 DEF Redraw
  <1>3. after \in PageState
    <2>1. Alive \in BOOLEAN /\ Fresh \in BOOLEAN
      BY QueueIs DEF Inv
    <2>2. Becomes(Alive, Fresh, <<>>, page, after, View(Fresh, page, <<>>))
      <3>0. <<>> \in Seq(Asked)
        OBVIOUS
      <3>1. PICK due \in Seq(Asked) : due = <<>>
        BY <3>0
      <3>2. Becomes(Alive, Fresh, due, page, after, View(Fresh, page, due))
        BY <1>1, <1>2, <2>1, PageSilent, Redraws
      <3> QED BY <3>1, <3>2
    <2> QED BY <2>2 DEF Becomes
  <1>4. SparesAt(p, page, after)
    BY <1>1, PageSilent, DrawSpares
  <1>5. PostsAt(p, page, after)
    BY <1>3, <1>4, PageSilent, SparesPosts
  <1> QED BY <1>2, <1>3, <1>5, ByItselfFile

LEMMA TypeFile ==
  ASSUME Inv, NEW p \in Files, FileInv(p), NEW text \in Texts, Type(text)
  PROVE  FileInv(p)'
  <1>1. PICK path, js : path = page.currentPath /\ js = page
    OBVIOUS
  <1>2. PICK after : after = SetValue(js, path, text)
    OBVIOUS
  <1>3. path # None /\ PageBecomes(after) /\ UNCHANGED <<columnSide, toPage>>
    BY <1>1, <1>2 DEF Type, EditorHasKeyboard
  <1>4. js \in PageState /\ NoneIn(js.out, SaveOf(p)) /\ path \in DOMAIN js.models
    BY <1>1, <1>3, PageSilent DEF PageFits
  <1>5. PICK models \in Models, redraws \in BOOLEAN :
           /\ DOMAIN models = DOMAIN js.models
           /\ models[path].value = text /\ models[path].cleanValue = js.models[path].cleanValue
           /\ \A q \in DOMAIN js.models : q # path => models[q] = js.models[q]
           /\ after = Page(models, js.currentPath, js.diffMode, js.original, js.drawn, redraws,
                           js.pendingSaves, Append(js.out, DirtyMessage(path, IsDirty(models[path]))))
    <2>1. SetPage(js, path, text, SetValue(js, path, text))
      BY <1>4, SetValueIs
    <2> QED BY <1>2, <2>1 DEF SetPage
  <1>6. PICK out : out = Append(js.out, DirtyMessage(path, IsDirty(models[path])))
    OBVIOUS
  <1>7. after.models = models /\ after.pendingSaves = js.pendingSaves /\ after.out = out
    BY <1>5, <1>6 DEF Page
  <1>8. path \in Files /\ IsDirty(models[path]) \in BOOLEAN /\ js.out \in Seq(ToSwift)
    BY <1>4, <1>5, PageIs, EntryIs
  <1>9. NoneIn(out, SaveOf(p)) /\ out \in Seq(ToSwift)
    BY <1>4, <1>6, <1>8, DirtySparesSaves, DirtyIs, AppendProperties
  <1>10. after \in PageState
    <2>1. after = Page(models, js.currentPath, js.diffMode, js.original, js.drawn, redraws, js.pendingSaves, out)
      BY <1>5, <1>6
    <2>2. /\ js.currentPath \in Files \cup {None} /\ js.diffMode \in {None, "monaco", "pierre", "pierre-group"}
          /\ js.original \in {NoDiff} \cup Original
          /\ js.drawn \in {NoDiff} \cup FileDrawn \cup GroupDrawn /\ js.pendingSaves \in Saves
      BY <1>4, PageIs
    <2> QED BY <1>9, <2>1, <2>2, PageTyped
  <1>11. \A q \in DOMAIN js.models : models[q].cleanValue = js.models[q].cleanValue
    BY <1>5
  <1>12. SparesAt(p, js, after)
    BY <1>5, <1>7, <1>9, <1>11 DEF SparesAt, SavesText
  <1>13. PostsAt(p, page, after)
    BY <1>1, <1>4, <1>10, <1>12, SparesPosts
  <1> QED BY <1>3, <1>10, <1>13, ByItselfFile

LEMMA RequestSaveFile ==
  ASSUME Inv, NEW p \in Files, FileInv(p), RequestSave
  PROVE  FileInv(p)'
  <1>1. PICK path, js : path = page.currentPath /\ js = page
    OBVIOUS
  <1>2. PICK after : after = PostSave(js, path)
    OBVIOUS
  <1>3. path # None /\ PageBecomes(after) /\ UNCHANGED <<columnSide, toPage>>
    BY <1>1, <1>2 DEF RequestSave, EditorHasKeyboard
  <1>4. js \in PageState /\ js.out = <<>> /\ NoneIn(js.out, SaveOf(p)) /\ path \in DOMAIN js.models /\ PageFits(Alive, js)
    BY <1>1, <1>3, PageSilent DEF PageFits
  <1>5. after \in PageState
    BY <1>2, <1>4, SavesStill, SavesOneMore DEF SavesOnly
  <1>6. PostsAt(p, page, after)
    BY <1>1, <1>2, <1>4, PostsNothing, PostsMore
  <1> QED BY <1>3, <1>5, <1>6, ByItselfFile

LEMMA DrawFailsFile ==
  ASSUME Inv, NEW p \in Files, FileInv(p), DrawFails
  PROVE  FileInv(p)'
  <1>1. PICK m, js, said, queue : m = Head(toPage) /\ js = page /\ said = toSwift /\ queue = toPage
    OBVIOUS
  <1>2. PICK after : /\ (m.type = "enterDiff" /\ after = EnterMonacoDiff(js, m)) \/ after = ExitDiff(js)
                     /\ PageBecomes(after)
    BY <1>1 DEF DrawFails
  <1>3. /\ isUp /\ queue # <<>> /\ m.type \in {"enterDiff", "enterDiffGroup"}
        /\ toPage' = Tail(queue) /\ UNCHANGED columnSide
    BY <1>1 DEF DrawFails
  <1>4. WiresInv
    BY DEF Inv
  <1>5. monacoReady /\ Queue = queue /\ queue \in Seq(ToPage) /\ said \in Seq(ToSwift)
    BY <1>1, <1>3, <1>4, QueueIs DEF WiresInv
  <1>6. js \in PageState /\ NoneIn(js.out, SaveOf(p)) /\ m \in ToPage
    BY <1>1, <1>3, <1>5, PageSilent, HeadTailProperties
  <1>7. SparesAt(p, js, after)
    BY <1>2, <1>6, DrawSpares
  <1>8. after \in PageState
    <2>1. CASE m.type = "enterDiff" /\ after = EnterMonacoDiff(js, m)
      <3>1. CASE m.path \notin DOMAIN js.models
        BY <1>6, <2>1, <3>1 DEF EnterMonacoDiff
      <3>2. CASE m.path \in DOMAIN js.models
        <4>1. after = Page(js.models, js.currentPath, "monaco", m.original, NoDiff, TRUE, js.pendingSaves, js.out)
          BY <1>6, <2>1, <3>2, EnterMonacoDiffIs
        <4>2. m.original \in {NoDiff} \cup Original
          BY <1>6, <2>1, PageMessage
        <4> QED BY <1>6, <4>1, <4>2, PageIs, PageTyped
      <3> QED BY <3>1, <3>2
    <2>2. CASE after = ExitDiff(js)
      <3>1. after = Page(js.models, js.currentPath, None, NoDiff, NoDiff, FALSE, js.pendingSaves, js.out)
        BY <1>6, <2>2, ExitDiffIs
      <3> QED BY <1>6, <3>1, PageIs, PageTyped
    <2> QED BY <1>2, <1>3, <2>1, <2>2
  <1>9. PostsAt(p, js, after)
    BY <1>6, <1>7, <1>8, SparesPosts
  <1>10. m \notin TextOf(p)
    BY <1>3 DEF TextOf
  <1>11. Queue' = Tail(queue)
    BY <1>3, <1>5 DEF columnSide, Queue
  <1>12. ASSUME NEW text, NEW loose, NEW open, Holds(p, js, said, queue, text, loose, open)
         PROVE  Holds(p, Silent(after), said \o after.out, Tail(queue), text, loose, open)
    <2>1. Holds(p, Silent(after), said \o after.out, queue, text, loose, open)
      BY <1>5, <1>8, <1>9, <1>12, PostsHold
    <2>2. said \o after.out \in Seq(ToSwift)
      BY <1>5, <1>8, SilentKeeps, ConcatProperties
    <2> QED BY <1>1, <1>3, <1>5, <1>10, <2>1, <2>2, RestHolds
  <1>13. \A text : \A loose : \A open :
           Holds(p, page, toSwift, Queue, text, loose, open)
             => Holds(p, Silent(after), toSwift \o after.out, Tail(queue), text, loose, open)
    BY <1>1, <1>5, <1>12
  <1> QED BY <1>2, <1>3, <1>8, <1>11, <1>13, PageFile
-----------------------------------------------------------------------------
(* What the column says of the text of a file                              *)

\* Of what is in R only what is in A is said, and that last if it is anything.
Spoken(out, A, R) == \E S : out \in Seq(S) /\ NoneIn(out, R \ A) /\ (A = {} \/ LastIn(out, A, R))

\* A column with these conflicts that said this of a file's text.
Speaks(c, changed, A, path) ==
    /\ "out" \in DOMAIN c /\ "diskModifiedWhileDirty" \in DOMAIN c
    /\ c.diskModifiedWhileDirty = changed
    /\ Spoken(c.out, A, TextOf(path))

LEMMA SpokenMore ==
  ASSUME NEW out, NEW A, NEW R, Spoken(out, A, R), NEW m, NEW B,
         A = B \/ (A = {} /\ m \in B), m \in R => m \in B
  PROVE  Spoken(Append(out, m), B, R)
  <1>1. PICK S : out \in Seq(S) /\ NoneIn(out, R \ A) /\ (A = {} \/ LastIn(out, A, R))
    BY DEF Spoken
  <1>2. PICK T : T = S \cup {m}
    OBVIOUS
  <1>3. out \in Seq(T) /\ m \in T
    BY <1>1, <1>2
  <1>4. NoneIn(out, R \ B)
    BY <1>1 DEF NoneIn
  <1>5. NoneIn(Append(out, m), R \ B)
    BY <1>3, <1>4, LastInMore
  <1>6. B = {} \/ LastIn(Append(out, m), B, R)
    <2>1. CASE m \in B
      BY <1>3, <2>1, LastInMore
    <2>2. CASE m \notin B
      BY <1>1, <1>3, <2>2, LastInMore
    <2> QED BY <2>1, <2>2
  <1>7. Append(out, m) \in Seq(T)
    BY <1>3, AppendProperties
  <1> QED BY <1>5, <1>6, <1>7 DEF Spoken

LEMMA SpeaksFirst ==
  ASSUME Inv, NEW path
  PROVE  Speaks(column, column.diskModifiedWhileDirty, {}, path)
  <1>1. column.out = <<>>
    BY InvIs
  <1>2. NoneIn(<<>>, TextOf(path) \ {})
    BY NoneInNothing
  <1>3. <<>> \in Seq({})
    OBVIOUS
  <1>4. Spoken(<<>>, {}, TextOf(path))
    BY <1>2, <1>3 DEF Spoken
  <1>5. "out" \in DOMAIN column /\ "diskModifiedWhileDirty" \in DOMAIN column
    BY InvIs DEF ColumnState
  <1> QED BY <1>1, <1>4, <1>5 DEF Speaks

LEMMA SetsSpeak ==
  ASSUME NEW path, NEW c, NEW changed, NEW A, Speaks(c, changed, A, path), NEW x, NEW y, NEW z
  PROVE  /\ Speaks([c EXCEPT !.load = x], changed, A, path)
         /\ Speaks([c EXCEPT !.activePath = x], changed, A, path)
         /\ Speaks([c EXCEPT !.diffActivePath = x], changed, A, path)
         /\ Speaks([c EXCEPT !.diffModeByPath = x], changed, A, path)
         /\ Speaks([c EXCEPT !.diffActivePath = x, !.diffActiveMode = y], changed, A, path)
         /\ Speaks([c EXCEPT !.diffActivePath = x, !.diffActiveMode = y, !.load = z], changed, A, path)
         /\ Speaks([c EXCEPT !.load = x, !.diffActivePath = y, !.diffActiveMode = z], changed, A, path)
         /\ Speaks([c EXCEPT !.diskModifiedWhileDirty = x], x, A, path)
  BY DEF Speaks

LEMMA SaySpeaks ==
  ASSUME NEW path, NEW c, NEW changed, NEW A, Speaks(c, changed, A, path), NEW m
  PROVE  /\ m \notin TextOf(path) => Speaks(Say(c, m), changed, A, path)
         /\ \A B : m \in B /\ (A = {} \/ A = B) => Speaks(Say(c, m), changed, B, path)
  <1>1. PICK d, out : d = Say(c, m) /\ out = c.out
    OBVIOUS
  <1>2. /\ "out" \in DOMAIN d /\ "diskModifiedWhileDirty" \in DOMAIN d
        /\ d.diskModifiedWhileDirty = changed /\ d.out = Append(out, m)
    BY <1>1 DEF Say, Speaks
  <1>3. Spoken(out, A, TextOf(path))
    BY <1>1 DEF Speaks
  <1>4. m \notin TextOf(path) => Spoken(Append(out, m), A, TextOf(path))
    BY <1>3, SpokenMore
  <1>5. ASSUME NEW B, m \in B, A = {} \/ A = B PROVE Spoken(Append(out, m), B, TextOf(path))
    BY <1>3, <1>5, SpokenMore
  <1> QED BY <1>1, <1>2, <1>4, <1>5 DEF Speaks

\* Most of what is said is not of a text, or of another file's.
LEMMA OtherWords ==
  ASSUME NEW path, NEW m, m.type \notin {"openFile", "markSaved", "closeTab"} \/ m.path # path
  PROVE  m \notin TextOf(path)
  BY DEF TextOf

LEMMA EnterDiffSpeaks ==
  ASSUME NEW p, NEW c, NEW changed, NEW A, Speaks(c, changed, A, p), NEW path, NEW mode
  PROVE  Speaks(EnterDiff(c, path, mode), changed, A, p)
  BY SetsSpeak DEF EnterDiff

LEMMA SendGroupSpeaks ==
  ASSUME NEW p, NEW c, NEW changed, NEW A, Speaks(c, changed, A, p), NEW path
  PROVE  Speaks(SendDiffGroup(c, path), changed, A, p)
  <1>1. PICK m : m = [type |-> "enterDiffGroup", path |-> path, loading |-> c.diffGroupTabs[path] = "loading"]
    OBVIOUS
  <1>2. m \notin TextOf(p)
    BY <1>1, OtherWords
  <1> QED BY <1>1, <1>2, SaySpeaks DEF SendDiffGroup

LEMMA ShowTabSpeaks ==
  ASSUME NEW p, NEW c, NEW changed, NEW A, Speaks(c, changed, A, p), NEW path
  PROVE  Speaks(ShowTab(c, path), changed, A, p)
  <1>1. CASE IsGroup(path)
    BY <1>1, SendGroupSpeaks DEF ShowTab
  <1>2. CASE ~IsGroup(path)
    <2>1. PICK m, shown : m = [type |-> "switchTab", path |-> path] /\ shown = Say(c, m)
      OBVIOUS
    <2>2. m \notin TextOf(p)
      BY <2>1, OtherWords
    <2>3. Speaks(shown, changed, A, p)
      BY <2>1, <2>2, SaySpeaks
    <2>4. ShowTab(c, path) = shown \/ \E mode : ShowTab(c, path) = EnterDiff(shown, path, mode)
      BY <1>2, <2>1 DEF ShowTab
    <2> QED BY <2>3, <2>4, EnterDiffSpeaks
  <1> QED BY <1>1, <1>2

LEMMA SwitchSpeaks ==
  ASSUME NEW p, NEW c, NEW changed, NEW A, Speaks(c, changed, A, p), NEW path
  PROVE  Speaks(SwitchTo(c, path), changed, A, p)
  <1>1. PICK left, there : left = ForgetDiff(c) /\ there = [left EXCEPT !.activePath = path]
    OBVIOUS
  <1>2. Speaks(left, changed, A, p)
    BY <1>1, SetsSpeak DEF ForgetDiff
  <1>3. Speaks(there, changed, A, p)
    BY <1>1, <1>2, SetsSpeak
  <1>4. Speaks(ShowTab(there, path), changed, A, p)
    BY <1>3, ShowTabSpeaks
  <1>5. SwitchTo(c, path) = c \/ SwitchTo(c, path) = ShowTab(there, path)
    BY <1>1 DEF SwitchTo
  <1> QED BY <1>4, <1>5

LEMMA StopSpeaks ==
  ASSUME NEW p, NEW c, NEW changed, NEW A, Speaks(c, changed, A, p)
  PROVE  Speaks(StopDiff(c), changed, A, p)
  <1>1. PICK m, d : m = [type |-> "exitDiff"]
                    /\ d = [c EXCEPT !.load = NoLoad, !.diffActivePath = None, !.diffActiveMode = None]
    OBVIOUS
  <1>2. Speaks(d, changed, A, p)
    BY <1>1, SetsSpeak
  <1>3. m \notin TextOf(p)
    BY <1>1, OtherWords
  <1> QED BY <1>1, <1>2, <1>3, SaySpeaks DEF StopDiff

LEMMA TakeDiffSpeaks ==
  ASSUME NEW p, NEW c, NEW changed, NEW A, Speaks(c, changed, A, p), NEW found
  PROVE  Speaks(TakeDiff(c, found), changed, A, p)
  <1>1. PICK done, took : done = [c EXCEPT !.load = NoLoad]
              /\ took = [done EXCEPT !.diffActivePath = c.load.path, !.diffActiveMode = c.load.mode]
    OBVIOUS
  <1>2. Speaks(done, changed, A, p)
    BY <1>1, SetsSpeak
  <1>3. Speaks(ForgetFailedDiffMode(done, c.load.path), changed, A, p)
    BY <1>2, SetsSpeak DEF ForgetFailedDiffMode
  <1>4. Speaks(took, changed, A, p)
    BY <1>1, <1>2, SetsSpeak
  <1>5. PICK m : m = [type |-> "enterDiff", path |-> c.load.path,
                      original |-> [path |-> c.load.path, mode |-> c.load.mode]]
    OBVIOUS
  <1>6. m \notin TextOf(p)
    BY <1>5, OtherWords
  <1>7. Speaks(Say(took, m), changed, A, p)
    BY <1>4, <1>6, SaySpeaks
  <1>8. TakeDiff(c, found) \in {done, ForgetFailedDiffMode(done, c.load.path), Say(took, m)}
    BY <1>1, <1>5 DEF TakeDiff
  <1> QED BY <1>2, <1>3, <1>7, <1>8

LEMMA OpenBufferSpeaks ==
  ASSUME NEW p \in Files, NEW c, NEW changed, NEW A, Speaks(c, changed, A, p), NEW path, disk[p] \in Texts
  PROVE  /\ path # p => Speaks(OpenBuffer(c, path), changed \ {path}, A, p)
         /\ path = p /\ (A = {} \/ A = OpenWith(p, disk[p])) =>
              Speaks(OpenBuffer(c, path), changed \ {path}, OpenWith(p, disk[p]), p)
  <1>1. PICK d, m : /\ d = [c EXCEPT !.tabPaths = Append(@, path), !.dirtyByPath = @ \ {path},
                                    !.diskModifiedWhileDirty = @ \ {path}, !.activePath = path]
                    /\ m = [type |-> "openFile", path |-> path, content |-> disk[path], activate |-> TRUE]
    OBVIOUS
  <1>2. Speaks(d, changed \ {path}, A, p)
    BY <1>1 DEF Speaks
  <1>3. OpenBuffer(c, path) = Say(d, m)
    BY <1>1 DEF OpenBuffer
  <1>4. CASE path # p
    <2>1. m \notin TextOf(p)
      BY <1>1, <1>4, OtherWords
    <2> QED BY <1>2, <1>3, <1>4, <2>1, SaySpeaks
  <1>5. CASE path = p
    <2>1. m \in ToPage
      BY <1>1, <1>5, ColumnSays
    <2>2. m \in OpenWith(p, disk[p])
      BY <1>1, <1>5, <2>1 DEF OpenWith, TextOf
    <2> QED BY <1>2, <1>3, <1>5, <2>2, SaySpeaks
  <1> QED BY <1>4, <1>5

LEMMA ReloadSpeaks ==
  ASSUME NEW p \in Files, NEW c, NEW changed, NEW A, Speaks(c, changed, A, p), NEW path, disk[p] \in Texts
  PROVE  /\ path # p => Speaks(ReloadFromDisk(c, path), changed \ {path}, A, p)
         /\ path = p /\ (A = {} \/ A = OpenWith(p, disk[p])) =>
              Speaks(ReloadFromDisk(c, path), changed \ {path}, OpenWith(p, disk[p]), p)
  <1>0. PICK front \in BOOLEAN : front = (path = c.activePath)
    OBVIOUS
  <1>1. PICK d, m : /\ d = [c EXCEPT !.diskModifiedWhileDirty = @ \ {path}]
                    /\ m = [type |-> "openFile", path |-> path, content |-> disk[path], activate |-> front]
    OBVIOUS
  <1>2. Speaks(d, changed \ {path}, A, p)
    BY <1>1 DEF Speaks
  <1>3. ReloadFromDisk(c, path) = Say(d, m)
    BY <1>0, <1>1 DEF ReloadFromDisk
  <1>4. CASE path # p
    <2>1. m \notin TextOf(p)
      BY <1>1, <1>4, OtherWords
    <2> QED BY <1>2, <1>3, <1>4, <2>1, SaySpeaks
  <1>5. CASE path = p
    <2>1. m \in ToPage
      BY <1>1, <1>5, ColumnSays
    <2>2. m \in OpenWith(p, disk[p])
      BY <1>1, <1>5, <2>1 DEF OpenWith, TextOf
    <2> QED BY <1>2, <1>3, <1>5, <2>2, SaySpeaks
  <1> QED BY <1>4, <1>5

LEMMA ToggledSpeaks ==
  ASSUME NEW p, NEW c, NEW changed, NEW A, Speaks(c, changed, A, p), NEW path, NEW mode
  PROVE  Speaks(Toggled(c, path, mode), changed, A, p)
  <1>1. PICK without, with : /\ without = [c EXCEPT !.diffModeByPath = Without(@, path)]
                             /\ with = [c EXCEPT !.diffModeByPath = With(@, path, mode)]
    OBVIOUS
  <1>2. Speaks(without, changed, A, p) /\ Speaks(with, changed, A, p)
    BY <1>1 DEF Speaks
  <1>3. Speaks(StopDiff(without), changed, A, p) /\ Speaks(EnterDiff(with, path, mode), changed, A, p)
    BY <1>2, StopSpeaks, EnterDiffSpeaks
  <1>4. Toggled(c, path, mode) \in {StopDiff(without), EnterDiff(with, path, mode)}
    BY <1>1 DEF Toggled
  <1> QED BY <1>3, <1>4

\* The diff of a file is asked for, in its tab or in one that opens for it.
LEMMA ShownDiffSpeaks ==
  ASSUME NEW p \in Files, NEW c, NEW changed, Speaks(c, changed, {}, p), NEW path, NEW mode, disk[p] \in Texts
  PROVE  /\ IsOpen(c, path) => Speaks(ShownDiff(c, path, mode), changed, {}, p)
         /\ ~IsOpen(c, path) /\ path # p => Speaks(ShownDiff(c, path, mode), changed \ {path}, {}, p)
         /\ ~IsOpen(c, path) /\ path = p =>
              Speaks(ShownDiff(c, path, mode), changed \ {path}, OpenWith(p, disk[p]), p)
  <1>1. PICK asked : asked = [c EXCEPT !.diffModeByPath = With(@, path, mode)]
    OBVIOUS
  <1>2. Speaks(asked, changed, {}, p)
    BY <1>1 DEF Speaks
  <1>3. PICK there : there = IF IsOpen(c, path) THEN SwitchTo(asked, path) ELSE OpenBuffer(asked, path)
    OBVIOUS
  <1>4. ShownDiff(c, path, mode) \in {there, EnterDiff(there, path, mode)}
    BY <1>1, <1>3 DEF ShownDiff
  <1>5. \A marks, A : Speaks(there, marks, A, p) => Speaks(ShownDiff(c, path, mode), marks, A, p)
    BY <1>4, EnterDiffSpeaks
  <1>6. IsOpen(c, path) => Speaks(there, changed, {}, p)
    BY <1>2, <1>3, SwitchSpeaks
  <1>7. ~IsOpen(c, path) /\ path # p => Speaks(there, changed \ {path}, {}, p)
    BY <1>2, <1>3, OpenBufferSpeaks
  <1>8. ~IsOpen(c, path) /\ path = p => Speaks(there, changed \ {path}, OpenWith(p, disk[p]), p)
    BY <1>2, <1>3, OpenBufferSpeaks
  <1> QED BY <1>5, <1>6, <1>7, <1>8

LEMMA ClosedSpeaks ==
  ASSUME NEW p \in Files, NEW c, NEW changed, Speaks(c, changed, {}, p), NEW path
  PROVE  /\ path # p => Speaks(Closed(c, path), changed \ {path}, {}, p)
         /\ path = p => Speaks(Closed(c, path), changed \ {path}, EndOf(p), p)
  <1> DEFINE i == CHOOSE k \in 1..Len(c.tabPaths) : c.tabPaths[k] = path
             removed == [c EXCEPT
                !.tabPaths = RemoveAt(@, i),
                !.load = IF IsGroup(path) THEN NoLoad ELSE @,
                !.dirtyByPath = @ \ {path}, !.diskModifiedWhileDirty = @ \ {path},
                !.diffModeByPath = Without(@, path), !.diffGroupTabs = Without(@, path)]
             outOfDiff == IF c.diffActivePath = path THEN StopDiff(removed) ELSE removed
             wasActive == c.activePath = path
             told == IF ~IsGroup(path) THEN Say(outOfDiff, [type |-> "closeTab", path |-> path])
                     ELSE IF wasActive THEN Say(outOfDiff, [type |-> "exitDiff"])
                     ELSE outOfDiff
             next == Neighbour(removed.tabPaths, i)
             there == [told EXCEPT !.activePath = next]
  <1>1. Closed(c, path) \in {told, there, ShowTab(there, next)}
    BY DEF Closed
  <1>2. Removes(c, path, i, removed) /\ StopsDiff(c, removed, path, outOfDiff)
        /\ Tells(outOfDiff, path, wasActive, told) /\ there = [told EXCEPT !.activePath = next]
    BY DEF Removes, StopsDiff, Tells
  <1> HIDE DEF i, removed, outOfDiff, wasActive, told, next, there
  <1>3. PICK marks, end, exit : /\ marks = changed \ {path} /\ end = [type |-> "closeTab", path |-> path]
                                /\ exit = [type |-> "exitDiff"]
    OBVIOUS
  <1>4. Speaks(removed, marks, {}, p)
    BY <1>2, <1>3 DEF Removes, Speaks
  <1>5. Speaks(outOfDiff, marks, {}, p)
    BY <1>2, <1>4, StopSpeaks DEF StopsDiff
  <1>6. told \in {outOfDiff, Say(outOfDiff, exit), Say(outOfDiff, end)} /\ (~IsGroup(path) => told = Say(outOfDiff, end))
    BY <1>2, <1>3 DEF Tells
  <1>7. \A A : Speaks(told, marks, A, p) => Speaks(Closed(c, path), marks, A, p)
    <2>1. ASSUME NEW A, Speaks(told, marks, A, p) PROVE Speaks(Closed(c, path), marks, A, p)
      <3>1. Speaks(there, marks, A, p)
        BY <1>2, <2>1, SetsSpeak
      <3>2. Speaks(ShowTab(there, next), marks, A, p)
        BY <3>1, ShowTabSpeaks
      <3> QED BY <1>1, <2>1, <3>1, <3>2
    <2> QED BY <2>1
  <1>8. CASE path # p
    <2>1. end \notin TextOf(p) /\ exit \notin TextOf(p)
      BY <1>3, <1>8, OtherWords
    <2>2. Speaks(told, marks, {}, p)
      BY <1>5, <1>6, <2>1, SaySpeaks
    <2> QED BY <1>3, <1>7, <1>8, <2>2
  <1>9. CASE path = p
    <2>1. ~IsGroup(path)
      BY <1>9, NamesApart DEF IsGroup
    <2>2. end \in ToPage
      BY <1>3, <1>9, ColumnSays
    <2>3. end \in EndOf(p)
      BY <1>3, <1>9, <2>2 DEF EndOf, TextOf
    <2>4. Speaks(told, marks, EndOf(p), p)
      BY <1>5, <1>6, <2>1, <2>3, SaySpeaks
    <2> QED BY <1>3, <1>7, <1>9, <2>4
  <1> QED BY <1>8, <1>9

LEMMA TakeGroupSpeaks ==
  ASSUME NEW p \in Files, NEW c, NEW changed, Speaks(c, changed, {}, p), NEW found, c.load.path \notin Files
  PROVE  \E marks : Speaks(TakeGroup(c, found), marks, {}, p) /\ (p \in changed => p \in marks)
  <1>1. PICK path, done, filled : /\ path = c.load.path /\ done = [c EXCEPT !.load = NoLoad]
                                  /\ filled = [done EXCEPT !.diffGroupTabs[path] = "shown",
                                                           !.diffActivePath = None, !.diffActiveMode = path]
    OBVIOUS
  <1>2. Speaks(done, changed, {}, p)
    BY <1>1, SetsSpeak
  <1>3. Speaks(filled, changed, {}, p)
    BY <1>1, <1>2 DEF Speaks
  <1>4. Speaks(SendDiffGroup(filled, path), changed, {}, p)
    BY <1>3, SendGroupSpeaks
  <1>5. Speaks(Closed(done, path), changed \ {path}, {}, p)
    BY <1>1, <1>2, ClosedSpeaks
  <1>6. TakeGroup(c, found) \in {done, filled, SendDiffGroup(filled, path), Closed(done, path)}
    BY <1>1 DEF TakeGroup
  <1> QED BY <1>1, <1>2, <1>3, <1>4, <1>5, <1>6

LEMMA CollectionSpeaks ==
  ASSUME NEW p, NEW c, NEW changed, NEW A, Speaks(c, changed, A, p), NEW mode, NEW d, Collects(c, mode, d)
  PROVE  Speaks(SendDiffGroup(d, mode), changed, A, p)
  <1>1. Speaks(d, changed, A, p)
    BY DEF Collects, Speaks
  <1> QED BY <1>1, SendGroupSpeaks

\* The column read again those in "reloads" of these tabs.
RereadSpeaks(c, path, changed, reloads, tabs) ==
    \E marks, A :
      /\ Speaks(c, marks, A, path)
      /\ A = {} \/ A = OpenWith(path, disk[path])
      /\ path \notin reloads => A = {} /\ (path \in changed => path \in marks)
      /\ path \in reloads /\ path \in tabs => A = OpenWith(path, disk[path])

LEMMA RereadOne ==
  ASSUME NEW p \in Files, disk[p] \in Texts, NEW c, NEW changed, NEW reloads, NEW tabs,
         RereadSpeaks(c, p, changed, reloads, tabs),
         NEW path, NEW d, d = IF path \in reloads THEN ReloadFromDisk(c, path) ELSE c
  PROVE  RereadSpeaks(d, p, changed, reloads, tabs \cup {path})
  <1>1. PICK marks, A :
          /\ Speaks(c, marks, A, p)
          /\ A = {} \/ A = OpenWith(p, disk[p])
          /\ p \notin reloads => A = {} /\ (p \in changed => p \in marks)
          /\ p \in reloads /\ p \in tabs => A = OpenWith(p, disk[p])
    BY DEF RereadSpeaks
  <1>2. CASE path \notin reloads
    BY <1>1, <1>2 DEF RereadSpeaks
  <1>3. CASE path \in reloads /\ path # p
    <2>1. Speaks(d, marks \ {path}, A, p)
      BY <1>1, <1>3, ReloadSpeaks
    <2> QED BY <1>1, <1>3, <2>1 DEF RereadSpeaks
  <1>4. CASE path \in reloads /\ path = p
    <2>1. Speaks(d, marks \ {path}, OpenWith(p, disk[p]), p)
      BY <1>1, <1>4, ReloadSpeaks
    <2> QED BY <1>4, <2>1 DEF RereadSpeaks
  <1> QED BY <1>2, <1>3, <1>4

LEMMA RereadsSpeak ==
  ASSUME NEW p \in Files, disk \in [Files -> Texts], NEW base \in ColumnState, NEW changed, Speaks(base, changed, {}, p),
         NEW reloads, NEW seq, NEW n, Rereads(base, reloads, seq, n),
         NEW last, ReloadEnds(n, seq, base, reloads, last)
  PROVE  RereadSpeaks(last, p, changed, reloads, reloads)
  <1>1. reloads \subseteq OpenPaths(base) /\ seq = base.tabPaths /\ n = Len(seq)
    BY DEF Rereads
  <1>2. n \in Nat /\ DOMAIN seq = 1..n
    BY <1>1, ColumnIs
  <1>3. \A q \in reloads : q \in Files /\ disk[q] \in Texts
    BY <1>1 DEF OpenPaths
  <1>4. \A c \in ColumnState : \A i \in 1..n :
          (IF seq[i] \in reloads THEN ReloadFromDisk(c, seq[i]) ELSE c) \in ColumnState
    BY <1>3, ReloadedIs
  <1>5. PICK r \in [0..n -> ColumnState] :
           ReloadSteps(n, seq, base, reloads, r) /\ ReloadEnds(n, seq, base, reloads, r[n])
    <2>1. ReloadTyped(n, seq, reloads)
      BY <1>4 DEF ReloadTyped
    <2>2. ReloadRun(n, seq, base, reloads)
      BY <1>2, <2>1, ReloadFold
    <2> QED BY <2>2 DEF ReloadRun
  <1>6. PICK seen : seen = [k \in 0..n |-> {seq[i] : i \in 1..k}]
    OBVIOUS
  <1>7. seen[0] = {} /\ \A k \in 1..n : seen[k] = seen[k - 1] \cup {seq[k]}
    <2>1. 1..0 = {} /\ 0 \in 0..n
      BY <1>2
    <2>2. seen[0] = {}
      BY <1>6, <2>1
    <2>3. ASSUME NEW k \in 1..n PROVE seen[k] = seen[k - 1] \cup {seq[k]}
      <3>1. k - 1 \in 0..n /\ k \in 0..n
        BY <1>2
      <3>2. 1..k = 1..(k - 1) \cup {k}
        BY <1>2
      <3> QED BY <1>6, <3>1, <3>2
    <2> QED BY <2>2, <2>3
  <1> DEFINE U == {k \in 0..n : RereadSpeaks(r[k], p, changed, reloads, seen[k])}
  <1>8. 0 \in U
    <2>1. r[0] = base /\ 0 \in 0..n
      BY <1>2, <1>5 DEF ReloadSteps
    <2>2. RereadSpeaks(base, p, changed, reloads, {})
      BY DEF RereadSpeaks
    <2> QED BY <1>7, <2>1, <2>2
  <1>9. ASSUME NEW k \in 0..(n - 1), k \in U PROVE k + 1 \in U
    <2>1. k + 1 \in 1..n /\ (k + 1) - 1 = k /\ k + 1 \in 0..n
      BY <1>2
    <2>2. PICK c, path, d : c = r[k] /\ path = seq[k + 1] /\ d = r[k + 1]
      OBVIOUS
    <2>3. d = IF path \in reloads THEN ReloadFromDisk(c, path) ELSE c
      BY <1>5, <2>1, <2>2 DEF ReloadSteps
    <2>4. PICK before : before = seen[k]
      OBVIOUS
    <2>5. RereadSpeaks(c, p, changed, reloads, before)
      BY <1>9, <2>2, <2>4
    <2>6. disk[p] \in Texts
      OBVIOUS
    <2>7. RereadSpeaks(d, p, changed, reloads, before \cup {path})
      BY <2>3, <2>5, <2>6, RereadOne
    <2>8. seen[k + 1] = before \cup {path}
      BY <1>7, <2>1, <2>2, <2>4
    <2> QED BY <2>1, <2>2, <2>7, <2>8
  <1>10. n \in U
    <2> HIDE DEF U
    <2> QED BY <1>2, <1>8, <1>9, CountsTo
  <1>11. last = r[n]
    BY <1>5 DEF ReloadEnds
  <1>12. p \in reloads => p \in seen[n]
    <2>1. ASSUME p \in reloads PROVE p \in seen[n]
      <3>1. IsOpen(base, p)
        BY <1>1, <2>1 DEF OpenPaths
      <3>2. PICK i \in 1..n : seq[i] = p
        BY <1>1, <3>1 DEF IsOpen, Contains
      <3>3. n \in 0..n
        BY <1>2
      <3> QED BY <1>6, <3>2, <3>3
    <2> QED BY <2>1
  <1>13. RereadSpeaks(last, p, changed, reloads, seen[n])
    BY <1>10, <1>11
  <1> QED BY <1>12, <1>13 DEF RereadSpeaks

\* The column opened these tabs, and only them.
OpenedSpeaks(c, path, tabs) ==
    /\ IsOpen(c, path) <=> path \in tabs
    /\ \E marks : Speaks(c, marks, IF path \in tabs THEN OpenWith(path, disk[path]) ELSE {}, path)

LEMMA RestoredSpeaks ==
  ASSUME NEW p \in Files, disk \in [Files -> Texts], NEW last, last = FoldLeft(OpenBuffer, NoColumn, Restored)
  PROVE  last \in ColumnState /\ \E tabs : OpenedSpeaks(last, p, tabs)
  <1>1. PICK seq, n : seq = Restored /\ n = Len(seq)
    OBVIOUS
  <1>2. n \in Nat /\ DOMAIN seq = 1..n /\ \A i \in 1..n : seq[i] \in Files
    BY <1>1, EditorAssumption
  <1>3. \A c \in ColumnState : \A i \in 1..n : OpenBuffer(c, seq[i]) \in ColumnState
    BY <1>2, OpenedIs
  <1>4. PICK r \in [0..n -> ColumnState] :
           /\ r[0] = NoColumn /\ r[n] = FoldLeft(OpenBuffer, NoColumn, seq)
           /\ \A k \in 1..n : r[k] = OpenBuffer(r[k - 1], seq[k])
    <2>1. OpenTyped(n, seq)
      BY <1>3 DEF OpenTyped
    <2>2. OpenRun(n, seq, NoColumn)
      BY <1>2, <2>1, OpenFold, NoColumnIs
    <2> QED BY <2>2 DEF OpenRun, OpenSteps
  <1> DEFINE U == {k \in 0..n : \E tabs : OpenedSpeaks(r[k], p, tabs)}
  <1>5. 0 \in U
    <2>1. 0 \in 0..n
      BY <1>2
    <2>2. ~IsOpen(NoColumn, p)
      BY NoColumnIs DEF IsOpen, Contains
    <2>3. NoneIn(<<>>, TextOf(p) \ {})
      BY NoneInNothing
    <2>4. <<>> \in Seq({})
      OBVIOUS
    <2>5. Spoken(<<>>, {}, TextOf(p))
      BY <2>3, <2>4 DEF Spoken
    <2>6. "out" \in DOMAIN NoColumn /\ "diskModifiedWhileDirty" \in DOMAIN NoColumn
      BY NoColumnIs DEF ColumnState
    <2>7. Speaks(NoColumn, NoColumn.diskModifiedWhileDirty, {}, p)
      BY <2>5, <2>6, NoColumnIs DEF Speaks
    <2>8. PICK tabs : tabs = {}
      OBVIOUS
    <2>9. OpenedSpeaks(NoColumn, p, tabs)
      BY <2>2, <2>7, <2>8 DEF OpenedSpeaks
    <2> QED BY <1>4, <2>1, <2>9
  <1>6. ASSUME NEW k \in 0..(n - 1), k \in U PROVE k + 1 \in U
    <2>1. k + 1 \in 1..n /\ (k + 1) - 1 = k /\ k + 1 \in 0..n /\ k \in 0..n
      BY <1>2
    <2>2. PICK c, path, d : c = r[k] /\ path = seq[k + 1] /\ d = r[k + 1]
      OBVIOUS
    <2>3. c \in ColumnState /\ path \in Files /\ disk[path] \in Texts /\ d = OpenBuffer(c, path)
      BY <1>2, <1>4, <2>1, <2>2
    <2>4. PICK tabs : OpenedSpeaks(c, p, tabs)
      BY <1>6, <2>2
    <2>5. PICK all : all = tabs \cup {path}
      OBVIOUS
    <2>6. IsOpen(d, p) <=> p \in all
      <3>1. OpenPaths(d) = OpenPaths(c) \cup {path}
        BY <2>3, OpenedTabs
      <3> QED BY <2>4, <2>5, <3>1 DEF OpenPaths, OpenedSpeaks
    <2>7. PICK marks : Speaks(c, marks, IF p \in tabs THEN OpenWith(p, disk[p]) ELSE {}, p)
      BY <2>4 DEF OpenedSpeaks
    <2>8. disk[p] \in Texts
      OBVIOUS
    <2>9. CASE path = p
      <3>1. Speaks(d, marks \ {path}, OpenWith(p, disk[p]), p)
        <4>1. CASE p \in tabs
          BY <2>3, <2>7, <2>8, <2>9, <4>1, OpenBufferSpeaks
        <4>2. CASE p \notin tabs
          BY <2>3, <2>7, <2>8, <2>9, <4>2, OpenBufferSpeaks
        <4> QED BY <4>1, <4>2
      <3> QED BY <2>1, <2>2, <2>5, <2>6, <2>9, <3>1 DEF OpenedSpeaks
    <2>10. CASE path # p
      <3>1. p \in all <=> p \in tabs
        BY <2>5, <2>10
      <3>2. Speaks(d, marks \ {path}, IF p \in all THEN OpenWith(p, disk[p]) ELSE {}, p)
        BY <2>3, <2>7, <2>8, <2>10, <3>1, OpenBufferSpeaks
      <3> QED BY <2>1, <2>2, <2>6, <3>2 DEF OpenedSpeaks
    <2> QED BY <2>9, <2>10
  <1>7. n \in U
    <2> HIDE DEF U
    <2> QED BY <1>2, <1>5, <1>6, CountsTo
  <1>8. r[n] = last /\ r[n] \in ColumnState
    BY <1>1, <1>2, <1>4
  <1>9. \E tabs : OpenedSpeaks(r[n], p, tabs)
    BY <1>7
  <1> QED BY <1>8, <1>9
-----------------------------------------------------------------------------
(* The column acts on a file                                               *)

\* What the column said of an open file ends with its text, or leaves it to look at.
LEMMA SpeaksClean ==
  ASSUME NEW path, NEW js, NEW said \in Seq(ToSwift), NEW queue \in Seq(ToPage), NEW text, NEW loose,
         Clean(path, js, said, queue, text, loose), NEW out \in Seq(ToPage), NEW now, NEW free,
         NEW A, A = {} \/ A = OpenWith(path, now), Spoken(out, A, TextOf(path)),
         A # {} \/ free \/ (now = text /\ (loose => free))
  PROVE  Clean(path, js, said, queue \o out, now, free)
  <1>1. NoneIn(out, TextOf(path) \ A) /\ (A = {} \/ LastIn(out, A, TextOf(path)))
    BY DEF Spoken
  <1>2. PICK end, mark : end = EndOf(path) /\ mark = MarkOf(path)
    OBVIOUS
  <1>3. end \subseteq TextOf(path) \ A /\ mark \subseteq TextOf(path) \ A
    BY <1>2 DEF EndOf, MarkOf, OpenWith
  <1>4. NoneIn(out, EndOf(path)) /\ NoneIn(out, MarkOf(path))
    BY <1>1, <1>2, <1>3, NoneOfFewer
  <1>5. NoneIn(queue \o out, EndOf(path))
    BY <1>4, NoneInOn DEF Clean
  <1>6. Owed(path, CountOf(js.pendingSaves, path), queue \o out, said)
    <2>1. PICK n : n = CountOf(js.pendingSaves, path)
      OBVIOUS
    <2>2. PICK k \in Nat, l \in Nat : Waits(path, n, queue, k) /\ Waits(path, k, said, l)
      BY <2>1 DEF Owed, Clean
    <2>3. Waits(path, k, out, k)
      BY <1>4, NonePaid, WaitsSame, BothSeqs
    <2>4. Waits(path, n, queue \o out, k)
      BY <2>2, <2>3, WaitsOn, BothSeqs
    <2> QED BY <2>1, <2>2, <2>4 DEF Owed
  <1>7. ASSUME EndsClean(path, js, queue, text), NoneIn(out, TextOf(path)), now = text
        PROVE  EndsClean(path, js, queue \o out, now)
    BY <1>7, LastInOn, NoneInOn DEF EndsClean
  <1>8. A # {} => EndsClean(path, js, queue \o out, now)
    BY <1>1, LastInOn DEF EndsClean
  <1>9. A = {} => NoneIn(out, TextOf(path))
    BY <1>1
  <1> QED BY <1>5, <1>6, <1>7, <1>8, <1>9 DEF Clean

\* It said nothing of a closed one.
LEMMA SpeaksGone ==
  ASSUME NEW path, NEW js, NEW queue \in Seq(ToPage), Gone(path, js, queue), NEW out \in Seq(ToPage),
         Spoken(out, {}, TextOf(path))
  PROVE  Gone(path, js, queue \o out)
  <1>1. NoneIn(out, TextOf(path) \ {})
    BY DEF Spoken
  <1>2. NoneIn(out, TextOf(path))
    BY <1>1
  <1> QED BY <1>2, LastInOn, NoneInOn DEF Gone

\* The column sent this.
LEMMA ColumnSent ==
  ASSUME Inv, NEW c \in ColumnState, ColumnBecomes(c), monacoReady' = monacoReady
  PROVE  /\ Queue \in Seq(ToPage) /\ toSwift \in Seq(ToSwift) /\ c.out \in Seq(ToPage)
         /\ Queue' = Queue \o c.out
         /\ column'.diskModifiedWhileDirty = c.diskModifiedWhileDirty
         /\ \A path : IsOpen(column', path) <=> IsOpen(c, path)
  <1>1. WiresInv
    BY DEF Inv
  <1>2. column' = Silent(c) /\ Queue' = Queue \o c.out
    BY <1>1, ColumnSends
  <1>3. Silent(c).diskModifiedWhileDirty = c.diskModifiedWhileDirty /\ Silent(c).tabPaths = c.tabPaths
    BY DEF Silent, ColumnState
  <1>4. \A path : IsOpen(Silent(c), path) <=> IsOpen(c, path)
    BY <1>3 DEF IsOpen
  <1> QED BY <1>1, <1>2, <1>3, <1>4, QueueIs, ColumnIs DEF WiresInv

\* What the invariant says of an open file, and of a closed one.
LEMMA FileIs ==
  ASSUME NEW p
  PROVE  /\ IsOpen(column, p) =>
              (FileInv(p) <=> (p \notin apart => Clean(p, page, toSwift, Queue, disk[p], p \in moved \cup column.diskModifiedWhileDirty)))
         /\ ~IsOpen(column, p) => (FileInv(p) <=> (p \notin apart => Gone(p, page, Queue)))
  BY DEF FileInv, Holds

LEMMA FileIsNext ==
  ASSUME NEW p
  PROVE  /\ IsOpen(column', p) =>
              (FileInv(p)' <=> (p \notin apart' => Clean(p, page', toSwift', Queue', disk'[p], p \in moved' \cup column'.diskModifiedWhileDirty)))
         /\ ~IsOpen(column', p) => (FileInv(p)' <=> (p \notin apart' => Gone(p, page', Queue')))
  BY DEF FileInv, Holds

LEMMA ColumnFile ==
  ASSUME Inv, NEW p \in Files, FileInv(p), NEW c \in ColumnState, ColumnBecomes(c), monacoReady' = monacoReady,
         page' = page, toSwift' = toSwift, p \in apart => p \in apart',
         NEW marks, NEW A, Speaks(c, marks, A, p), IsOpen(c, p) <=> IsOpen(column, p),
         A = {} \/ (IsOpen(column, p) /\ A = OpenWith(p, disk'[p])),
         p \notin apart' /\ IsOpen(column, p) =>
           \/ A # {}
           \/ p \in moved' \cup marks
           \/ disk'[p] = disk[p] /\ (p \in moved \cup column.diskModifiedWhileDirty => p \in moved' \cup marks)
  PROVE  FileInv(p)'
  <1>1. /\ Queue \in Seq(ToPage) /\ toSwift \in Seq(ToSwift) /\ c.out \in Seq(ToPage)
        /\ Queue' = Queue \o c.out /\ column'.diskModifiedWhileDirty = marks
        /\ IsOpen(column', p) <=> IsOpen(column, p)
    BY ColumnSent DEF Speaks
  <1>2. Spoken(c.out, A, TextOf(p))
    BY DEF Speaks
  <1>3. CASE IsOpen(column, p)
    <2>1. PICK text, loose, now, free :
            /\ text = disk[p] /\ loose = (p \in moved \cup column.diskModifiedWhileDirty)
            /\ now = disk'[p] /\ free = (p \in moved' \cup marks)
      OBVIOUS
    <2>2. p \notin apart => Clean(p, page, toSwift, Queue, text, loose)
      BY <1>3, <2>1, FileIs
    <2>3. p \notin apart' => A # {} \/ free \/ (now = text /\ (loose => free))
      BY <1>3, <2>1
    <2>4. A = {} \/ A = OpenWith(p, now)
      BY <2>1
    <2>5. ASSUME p \notin apart' PROVE Clean(p, page, toSwift, Queue \o c.out, now, free)
      <3>1. PICK js, said, queue, out : js = page /\ said = toSwift /\ queue = Queue /\ out = c.out
        OBVIOUS
      <3>2. /\ Clean(p, js, said, queue, text, loose) /\ said \in Seq(ToSwift) /\ queue \in Seq(ToPage)
            /\ out \in Seq(ToPage) /\ Spoken(out, A, TextOf(p)) /\ (A # {} \/ free \/ (now = text /\ (loose => free)))
        BY <1>1, <1>2, <2>2, <2>3, <2>5, <3>1
      <3>3. Clean(p, js, said, queue \o out, now, free)
        BY <2>4, <3>2, SpeaksClean
      <3> QED BY <3>1, <3>3
    <2>6. p \notin apart' => Clean(p, page', toSwift', Queue', disk'[p], p \in moved' \cup column'.diskModifiedWhileDirty)
      BY <1>1, <2>1, <2>5
    <2> QED BY <1>1, <1>3, <2>6, FileIsNext
  <1>4. CASE ~IsOpen(column, p)
    <2>1. p \notin apart => Gone(p, page, Queue)
      BY <1>4, FileIs
    <2>2. A = {}
      BY <1>4
    <2>3. p \notin apart' => Gone(p, page', Queue')
      BY <1>1, <1>2, <2>1, <2>2, SpeaksGone
    <2> QED BY <1>1, <1>4, <2>3, FileIsNext
  <1> QED BY <1>3, <1>4

\* Whatever the column does leaves it one.
LEMMA ActsTyped ==
  ASSUME Inv, NEW c, NEW fresh \in BOOLEAN, ~fresh,
         \A v \in Viewed : Acts(Alive, fresh, v, column, column) => Acts(Alive, fresh, v, column, c)
  PROVE  c \in ColumnState
  <1>1. PICK due \in Seq(Asked), v \in Viewed : Agrees(Alive, Fresh, v, column)
    BY DEF Inv, ShowsInv, Shows
  <1>2. Agrees(Alive, fresh, v, column)
    BY <1>1 DEF Agrees
  <1>3. Acts(Alive, fresh, v, column, column)
    BY <1>2, InvIs, ActsNothing
  <1>4. Acts(Alive, fresh, v, column, c)
    BY <1>3
  <1> QED BY <1>4 DEF Acts, Acted

\* The column says nothing of the file, and looks at none.
LEMMA ColumnOnlyFile ==
  ASSUME Inv, NEW p \in Files, FileInv(p), NEW c \in ColumnState, ColumnBecomes(c),
         UNCHANGED <<noFiles, monacoReady, page, toSwift>>,
         NEW marks, Speaks(c, marks, {}, p), p \in column.diskModifiedWhileDirty => p \in marks,
         IsOpen(c, p) <=> IsOpen(column, p)
  PROVE  FileInv(p)'
  <1>1. disk' = disk /\ moved' = moved /\ apart' = apart /\ monacoReady' = monacoReady /\ page' = page /\ toSwift' = toSwift
    BY DEF noFiles
  <1>2. PICK A : A = {}
    OBVIOUS
  <1>3. Speaks(c, marks, A, p)
    BY <1>2
  <1>4. p \in moved \cup column.diskModifiedWhileDirty => p \in moved' \cup marks
    BY <1>1
  <1> QED BY <1>1, <1>2, <1>3, <1>4, ColumnFile

LEMMA SaidTabs ==
  ASSUME Inv, NEW p \in Files, NEW c, OpenPaths(c) = OpenPaths(column)
  PROVE  IsOpen(c, p) <=> IsOpen(column, p)
  BY DEF OpenPaths

LEMMA ClickTabFile ==
  ASSUME Inv, NEW p \in Files, FileInv(p), NEW path \in Paths, ClickTab(path)
  PROVE  FileInv(p)'
  <1>1. PICK c : c = SwitchTo(column, path)
    OBVIOUS
  <1>2. ColumnBecomes(c) /\ UNCHANGED <<noFiles, monacoReady, page, toSwift>>
    BY <1>1 DEF ClickTab, noTalk, pageSide
  <1>3. c \in ColumnState
    <2>1. PICK fresh \in BOOLEAN : ~fresh
      OBVIOUS
    <2>2. ASSUME NEW v \in Viewed, Acts(Alive, fresh, v, column, column) PROVE Acts(Alive, fresh, v, column, c)
      BY <1>1, <2>1, <2>2, InvIs, SwitchActs
    <2> QED BY <2>1, <2>2, ActsTyped
  <1>4. OpenPaths(c) = OpenPaths(column)
    BY <1>1, InvIs, SwitchTabs, TabsSame
  <1>5. Speaks(c, column.diskModifiedWhileDirty, {}, p)
    BY <1>1, SpeaksFirst, SwitchSpeaks
  <1> QED BY <1>2, <1>3, <1>4, <1>5, SaidTabs, ColumnOnlyFile

LEMMA ToggleDiffFile ==
  ASSUME Inv, NEW p \in Files, FileInv(p), NEW mode \in Modes, ToggleDiff(mode)
  PROVE  FileInv(p)'
  <1>1. PICK path, c : path = column.activePath /\ c = Toggled(column, path, mode)
    OBVIOUS
  <1>2. path # None /\ ColumnBecomes(c) /\ UNCHANGED <<noFiles, monacoReady, page, toSwift>>
    BY <1>1 DEF ToggleDiff, Toggled, noTalk, pageSide
  <1>3. c \in ColumnState
    <2>1. PICK fresh \in BOOLEAN : ~fresh
      OBVIOUS
    <2>2. ASSUME NEW v \in Viewed, Acts(Alive, fresh, v, column, column) PROVE Acts(Alive, fresh, v, column, c)
      BY <1>1, <1>2, <2>1, <2>2, InvIs, ToggleActs
    <2> QED BY <2>1, <2>2, ActsTyped
  <1>4. OpenPaths(c) = OpenPaths(column)
    <2>1. PICK without, with : /\ without = [column EXCEPT !.diffModeByPath = Without(@, path)]
                               /\ with = [column EXCEPT !.diffModeByPath = With(@, path, mode)]
      OBVIOUS
    <2>2. HasTabs(without, column.tabPaths) /\ HasTabs(with, column.tabPaths)
      BY <2>1, InvIs DEF HasTabs
    <2>3. HasTabs(StopDiff(without), column.tabPaths) /\ HasTabs(EnterDiff(with, path, mode), column.tabPaths)
      BY <2>2, StopTabs, EnterDiffTabs
    <2>4. c = StopDiff(without) \/ c = EnterDiff(with, path, mode)
      BY <1>1, <2>1 DEF Toggled
    <2> QED BY <2>3, <2>4, TabsSame
  <1>5. Speaks(c, column.diskModifiedWhileDirty, {}, p)
    BY <1>1, SpeaksFirst, ToggledSpeaks
  <1> QED BY <1>2, <1>3, <1>4, <1>5, SaidTabs, ColumnOnlyFile

LEMMA ShowDiffCollectionFile ==
  ASSUME Inv, NEW p \in Files, FileInv(p), NEW mode \in Modes, ShowDiffCollection(mode)
  PROVE  FileInv(p)'
  <1>1. PICK d, c : Collects(column, mode, d) /\ c = SendDiffGroup(d, mode)
    BY DEF Collects
  <1>2. ColumnBecomes(c) /\ UNCHANGED <<noFiles, monacoReady, page, toSwift>>
    BY <1>1 DEF ShowDiffCollection, Collects, noTalk, pageSide
  <1>3. c \in ColumnState
    <2>1. PICK fresh \in BOOLEAN : ~fresh
      OBVIOUS
    <2>2. ASSUME NEW v \in Viewed, Acts(Alive, fresh, v, column, column) PROVE Acts(Alive, fresh, v, column, c)
      BY <1>1, <2>1, <2>2, InvIs, CollectionActs
    <2> QED BY <2>1, <2>2, ActsTyped
  <1>4. OpenPaths(c) = OpenPaths(column)
    BY <1>1, InvIs, CollectionTabs
  <1>5. Speaks(c, column.diskModifiedWhileDirty, {}, p)
    BY <1>1, SpeaksFirst, CollectionSpeaks
  <1> QED BY <1>2, <1>3, <1>4, <1>5, SaidTabs, ColumnOnlyFile

LEMMA LoadAnsweredFile ==
  ASSUME Inv, NEW p \in Files, FileInv(p), LoadAnswered
  PROVE  FileInv(p)'
  <1>1. PICK found, c :
          /\ found \in BOOLEAN /\ column.load # NoLoad
          /\ column.load.kind = "file" /\ found => ~IsGroup(column.load.path)
          /\ c = IF column.load.kind = "file" THEN TakeDiff(column, found) ELSE TakeGroup(column, found)
          /\ ColumnBecomes(c) /\ UNCHANGED <<noFiles, monacoReady, page, toSwift>>
    BY DEF LoadAnswered, noTalk, pageSide
  <1>2. column.load.kind \in {"file", "group"}
        /\ (column.load.kind = "group" => column.load.path \in Modes)
    BY <1>1, InvIs, ColumnIs, LoadIs
  <1>3. PICK fresh \in BOOLEAN : ~fresh
    OBVIOUS
  <1>4. CASE column.load.kind = "file"
    <2>1. c = TakeDiff(column, found) /\ (found => ~IsGroup(column.load.path))
      BY <1>1, <1>4
    <2>2. ASSUME NEW v \in Viewed, Acts(Alive, fresh, v, column, column) PROVE Acts(Alive, fresh, v, column, c)
      BY <1>1, <1>3, <1>4, <2>1, <2>2, InvIs, TakeDiffActs
    <2>3. c \in ColumnState
      BY <1>3, <2>2, ActsTyped
    <2>4. OpenPaths(c) = OpenPaths(column)
      BY <2>1, InvIs, TakeDiffTabs, TabsSame
    <2>5. Speaks(c, column.diskModifiedWhileDirty, {}, p)
      BY <2>1, SpeaksFirst, TakeDiffSpeaks
    <2> QED BY <1>1, <2>3, <2>4, <2>5, SaidTabs, ColumnOnlyFile
  <1>5. CASE column.load.kind = "group"
    <2>1. c = TakeGroup(column, found)
      BY <1>1, <1>5
    <2>2. ASSUME NEW v \in Viewed, Acts(Alive, fresh, v, column, column) PROVE Acts(Alive, fresh, v, column, c)
      BY <1>1, <1>3, <1>5, <2>1, <2>2, InvIs, TakeGroupActs
    <2>3. c \in ColumnState
      BY <1>3, <2>2, ActsTyped
    <2>4. OpenPaths(c) = OpenPaths(column)
      BY <1>1, <1>5, <2>1, InvIs, TakeGroupTabs
    <2>5. column.load.path \notin Files
      BY <1>2, <1>5, NamesApart
    <2>6. PICK marks : Speaks(c, marks, {}, p) /\ (p \in column.diskModifiedWhileDirty => p \in marks)
      BY <2>1, <2>5, SpeaksFirst, TakeGroupSpeaks
    <2> QED BY <1>1, <2>3, <2>4, <2>6, SaidTabs, ColumnOnlyFile
  <1> QED BY <1>2, <1>4, <1>5

\* The column asks the page for something.
LEMMA AsksFile ==
  ASSUME Inv, NEW p \in Files, FileInv(p), NEW m \in ToPage, m.type \in {"saveAll", "getSelection"},
         ColumnBecomes(Say(column, m)), UNCHANGED <<noFiles, monacoReady, page, toSwift>>
  PROVE  FileInv(p)'
  <1>1. PICK c : c = Say(column, m)
    OBVIOUS
  <1>2. c \in ColumnState /\ OpenPaths(c) = OpenPaths(column)
    BY <1>1, InvIs, SaidIs, SayTabs, TabsSame
  <1>3. m \notin TextOf(p)
    BY OtherWords
  <1>4. Speaks(c, column.diskModifiedWhileDirty, {}, p)
    BY <1>1, <1>3, SpeaksFirst, SaySpeaks
  <1> QED BY <1>1, <1>2, <1>4, SaidTabs, ColumnOnlyFile

LEMMA SaveAllFile ==
  ASSUME Inv, NEW p \in Files, FileInv(p), SaveAll
  PROVE  FileInv(p)'
  <1>1. PICK m : m = [type |-> "saveAll", skipPaths |-> column.diskModifiedWhileDirty]
    OBVIOUS
  <1>2. m \in ToPage /\ m.type = "saveAll"
    BY <1>1, InvIs, ColumnSays
  <1>3. ColumnBecomes(Say(column, m)) /\ UNCHANGED <<noFiles, monacoReady, page, toSwift>>
    BY <1>1 DEF SaveAll, noTalk, pageSide
  <1> QED BY <1>2, <1>3, AsksFile

LEMMA RequestSelectionFile ==
  ASSUME Inv, NEW p \in Files, FileInv(p), RequestSelection
  PROVE  FileInv(p)'
  <1>1. PICK m : m = [type |-> "getSelection"]
    OBVIOUS
  <1>2. m \in ToPage /\ m.type = "getSelection"
    BY <1>1, ColumnSays
  <1>3. ColumnBecomes(Say(column, m)) /\ UNCHANGED <<noFiles, monacoReady, page, toSwift>>
    BY <1>1 DEF RequestSelection, pageSide
  <1> QED BY <1>2, <1>3, AsksFile

\* A tab opens for a file: the page has no model of it, and no save of it is under way.
LEMMA GoneOpens ==
  ASSUME NEW path, NEW js \in PageState, NEW alive, PageFits(alive, js), NEW said \in Seq(ToSwift),
         NEW queue \in Seq(ToPage), Gone(path, js, queue), NoneIn(queue, EndOf(path)), NoneIn(said, SaveOf(path)),
         NEW text, NEW loose, NEW out \in Seq(ToPage), Spoken(out, OpenWith(path, text), TextOf(path)),
         OpenWith(path, text) # {}
  PROVE  Clean(path, js, said, queue \o out, text, loose)
  <1>1. NoneIn(queue, TextOf(path)) /\ path \notin DOMAIN js.models
    <2>1. ~LastIn(queue, EndOf(path), TextOf(path))
      BY LastIsOne
    <2> QED BY <2>1 DEF Gone
  <1>2. NoneIn(out, TextOf(path) \ OpenWith(path, text)) /\ LastIn(out, OpenWith(path, text), TextOf(path))
    BY DEF Spoken
  <1>3. PICK end, mark : end = EndOf(path) /\ mark = MarkOf(path)
    OBVIOUS
  <1>4. end \subseteq TextOf(path) \ OpenWith(path, text) /\ mark \subseteq TextOf(path) \ OpenWith(path, text)
        /\ mark \subseteq TextOf(path)
    BY <1>3 DEF EndOf, MarkOf, OpenWith
  <1>5. NoneIn(out, EndOf(path)) /\ NoneIn(out, MarkOf(path)) /\ NoneIn(queue, MarkOf(path))
    BY <1>1, <1>2, <1>3, <1>4, NoneOfFewer
  <1>6. PICK all : all = queue \o out
    OBVIOUS
  <1>7. NoneIn(all, EndOf(path)) /\ NoneIn(all, MarkOf(path)) /\ all \in Seq(ToPage)
    BY <1>5, <1>6, NoneInOn, ConcatProperties
  <1>8. CountOf(js.pendingSaves, path) = 0
    BY <1>1 DEF PageFits, CountOf
  <1>9. Waits(path, 0, all, 0) /\ Waits(path, 0, said, 0)
    BY <1>7, NonePaid, WaitsSame, BothSeqs
  <1>10. Owed(path, 0, all, said)
    BY <1>9 DEF Owed
  <1>11. EndsClean(path, js, all, text)
    BY <1>2, <1>6, LastInOn DEF EndsClean
  <1> QED BY <1>6, <1>7, <1>8, <1>10, <1>11 DEF Clean

LEMMA NotUnderWay ==
  ASSUME WiresInv, NEW path, ~Reopens(path)
  PROVE  NoneIn(Queue, EndOf(path)) /\ NoneIn(toSwift, SaveOf(path))
  <1>1. toPage \o pendingOps = Queue
    <2>1. toPage \in Seq(ToPage) /\ pendingOps \in Seq(ToPage)
      BY DEF WiresInv
    <2>2. toPage \o <<>> = toPage /\ <<>> \o pendingOps = pendingOps
      BY <2>1
    <2> QED BY <2>2 DEF WiresInv, Queue
  <1>2. ~UnderWay(Queue, "closeTab", path) /\ ~UnderWay(toSwift, "save", path)
    BY <1>1 DEF Reopens
  <1>3. \A m : /\ m \in EndOf(path) => m.type = "closeTab" /\ m.path = path
               /\ m \in SaveOf(path) => m.type = "save" /\ m.path = path
    BY DEF EndOf, TextOf, SaveOf
  <1> QED BY <1>2, <1>3 DEF NoneIn, UnderWay

LEMMA LooksAtOther ==
  ASSUME Inv, NEW p \in Files, NEW path, path # p, LooksAtTime(path)
  PROVE  disk'[p] = disk[p] /\ (p \in apart => p \in apart') /\ moved' = moved \ {path}
  <1>1. disk \in [Files -> Texts]
    BY InvIs
  <1> QED BY <1>1 DEF LooksAtTime, Changed

LEMMA LooksAtOne ==
  ASSUME NEW path, LooksAtTime(path), path \notin apart'
  PROVE  disk' = disk /\ path \notin apart /\ ~Reopens(path)
  BY DEF LooksAtTime

LEMMA OpensFile ==
  ASSUME Inv, NEW p \in Files, FileInv(p), NEW path \in Files, ~IsOpen(column, path),
         NEW c \in ColumnState, ColumnBecomes(c), LooksAtTime(path), UNCHANGED <<monacoReady, page, toSwift>>,
         OpenPaths(c) = OpenPaths(column) \cup {path},
         NEW marks, marks = column.diskModifiedWhileDirty \ {path},
         path # p => Speaks(c, marks, {}, p),
         path = p => Speaks(c, marks, OpenWith(p, disk[p]), p)
  PROVE  FileInv(p)'
  <1>1. monacoReady' = monacoReady /\ page' = page /\ toSwift' = toSwift
    OBVIOUS
  <1>2. CASE path # p
    <2>1. disk'[p] = disk[p] /\ (p \in apart => p \in apart') /\ moved' = moved \ {path}
      BY <1>2, LooksAtOther
    <2>2. p \in moved \cup column.diskModifiedWhileDirty => p \in moved' \cup marks
      BY <1>2, <2>1
    <2>3. IsOpen(c, p) <=> IsOpen(column, p)
      BY <1>2 DEF OpenPaths
    <2>4. PICK A : A = {}
      OBVIOUS
    <2>5. Speaks(c, marks, A, p)
      BY <1>2, <2>4
    <2> QED BY <1>1, <2>1, <2>2, <2>3, <2>4, <2>5, ColumnFile
  <1>3. CASE path = p
    <2>1. /\ Queue \in Seq(ToPage) /\ toSwift \in Seq(ToSwift) /\ c.out \in Seq(ToPage)
          /\ Queue' = Queue \o c.out /\ IsOpen(column', p)
      BY <1>1, <1>3, ColumnSent DEF OpenPaths
    <2>2. ASSUME p \notin apart'
          PROVE  Clean(p, page', toSwift', Queue', disk'[p], p \in moved' \cup column'.diskModifiedWhileDirty)
      <3>1. disk' = disk /\ p \notin apart /\ ~Reopens(p)
        BY <1>3, <2>2, LooksAtOne
      <3>2. Gone(p, page, Queue)
        BY <1>3, <3>1, FileIs
      <3>3. NoneIn(Queue, EndOf(p)) /\ NoneIn(toSwift, SaveOf(p))
        BY <3>1, NotUnderWay DEF Inv
      <3>4. PICK js, text, said, queue, out, loose :
              /\ js = page /\ text = disk[p] /\ said = toSwift /\ queue = Queue /\ out = c.out
              /\ loose = (p \in moved' \cup column'.diskModifiedWhileDirty)
        OBVIOUS
      <3>5. Spoken(out, OpenWith(p, text), TextOf(p))
        BY <1>3, <3>4 DEF Speaks
      <3>6. OpenWith(p, text) # {}
        <4>1. PICK m : m = [type |-> "openFile", path |-> p, content |-> text, activate |-> TRUE]
          OBVIOUS
        <4>2. m \in ToPage
          BY <3>4, <4>1, InvIs, ColumnSays
        <4> QED BY <4>1, <4>2 DEF OpenWith, TextOf
      <3>7. js \in PageState /\ PageFits(Alive, js)
        BY <3>4, PageSilent
      <3>8. Clean(p, js, said, queue \o out, text, loose)
        BY <2>1, <3>2, <3>3, <3>4, <3>5, <3>6, <3>7, GoneOpens
      <3> QED BY <1>1, <2>1, <3>1, <3>4, <3>8
    <2> QED BY <2>1, <2>2, FileIsNext
  <1> QED BY <1>2, <1>3

LEMMA OpenFileFile ==
  ASSUME Inv, NEW p \in Files, FileInv(p), NEW path \in Files, Open(path)
  PROVE  FileInv(p)'
  <1>1. PICK fresh \in BOOLEAN : ~fresh
    OBVIOUS
  <1>2. CASE IsOpen(column, path)
    <2>1. PICK m, there, c : /\ m = [type |-> "goToLine", path |-> path] /\ there = SwitchTo(column, path)
                             /\ c = Say(there, m)
      OBVIOUS
    <2>2. ColumnBecomes(c) /\ UNCHANGED <<noFiles, monacoReady, page, toSwift>>
      BY <1>2, <2>1 DEF Open, noTalk, pageSide
    <2>3. ASSUME NEW v \in Viewed, Acts(Alive, fresh, v, column, column) PROVE Acts(Alive, fresh, v, column, c)
      BY <1>1, <1>2, <2>1, <2>3, InvIs, OpenAgainActs
    <2>4. c \in ColumnState
      BY <1>1, <2>3, ActsTyped
    <2>5. OpenPaths(c) = OpenPaths(column)
      BY <2>1, InvIs, SwitchTabs, SayTabs, TabsSame
    <2>6. m \notin TextOf(p)
      BY <2>1, OtherWords
    <2>7. Speaks(c, column.diskModifiedWhileDirty, {}, p)
      BY <2>1, <2>6, SpeaksFirst, SwitchSpeaks, SaySpeaks
    <2> QED BY <2>2, <2>4, <2>5, <2>7, SaidTabs, ColumnOnlyFile
  <1>3. CASE ~IsOpen(column, path)
    <2>1. PICK c : c = OpenBuffer(column, path)
      OBVIOUS
    <2>2. ColumnBecomes(c) /\ LooksAtTime(path) /\ UNCHANGED <<monacoReady, page, toSwift>>
      BY <1>3, <2>1 DEF Open, noTalk, pageSide
    <2>3. c \in ColumnState /\ OpenPaths(c) = OpenPaths(column) \cup {path}
      BY <2>1, InvIs, OpenedIs, OpenedTabs
    <2>4. PICK marks : marks = column.diskModifiedWhileDirty \ {path}
      OBVIOUS
    <2>5. /\ path # p => Speaks(c, marks, {}, p)
          /\ path = p => Speaks(c, marks, OpenWith(p, disk[p]), p)
      BY <2>1, <2>4, InvIs, SpeaksFirst, OpenBufferSpeaks
    <2> QED BY <1>3, <2>2, <2>3, <2>4, <2>5, OpensFile
  <1> QED BY <1>2, <1>3

LEMMA ShowDiffFile ==
  ASSUME Inv, NEW p \in Files, FileInv(p), NEW path \in Files, NEW mode \in Modes, ShowDiff(path, mode)
  PROVE  FileInv(p)'
  <1>1. PICK fresh \in BOOLEAN : ~fresh
    OBVIOUS
  <1>2. PICK c : c = ShownDiff(column, path, mode)
    OBVIOUS
  <1>3. ColumnBecomes(c) /\ UNCHANGED <<monacoReady, page, toSwift>>
    BY <1>2 DEF ShowDiff, ShownDiff, noTalk, pageSide
  <1>4. ASSUME NEW v \in Viewed, Acts(Alive, fresh, v, column, column) PROVE Acts(Alive, fresh, v, column, c)
    BY <1>1, <1>2, <1>4, InvIs, ShowDiffActs
  <1>5. c \in ColumnState /\ OpenPaths(c) = OpenPaths(column) \cup {path}
    BY <1>1, <1>2, <1>4, InvIs, ActsTyped, ShownTabs
  <1>6. CASE IsOpen(column, path)
    <2>1. UNCHANGED noFiles
      BY <1>6 DEF ShowDiff
    <2>2. OpenPaths(c) = OpenPaths(column)
      BY <1>5, <1>6 DEF OpenPaths
    <2>3. Speaks(c, column.diskModifiedWhileDirty, {}, p)
      BY <1>2, <1>6, InvIs, SpeaksFirst, ShownDiffSpeaks
    <2> QED BY <1>3, <1>5, <2>1, <2>2, <2>3, SaidTabs, ColumnOnlyFile
  <1>7. CASE ~IsOpen(column, path)
    <2>1. LooksAtTime(path)
      BY <1>7 DEF ShowDiff
    <2>2. PICK marks : marks = column.diskModifiedWhileDirty \ {path}
      OBVIOUS
    <2>3. /\ path # p => Speaks(c, marks, {}, p)
          /\ path = p => Speaks(c, marks, OpenWith(p, disk[p]), p)
      BY <1>2, <1>7, <2>2, InvIs, SpeaksFirst, ShownDiffSpeaks
    <2> QED BY <1>3, <1>5, <1>7, <2>1, <2>2, <2>3, OpensFile
  <1> QED BY <1>6, <1>7

LEMMA CloseFile ==
  ASSUME Inv, NEW p \in Files, FileInv(p), NEW path \in Paths, Close(path)
  PROVE  FileInv(p)'
  <1>1. PICK c : c = Closed(column, path)
    OBVIOUS
  <1>2. /\ IsOpen(column, path) /\ ColumnBecomes(c) /\ moved' = moved \ {path} /\ disk' = disk /\ apart' = apart
        /\ monacoReady' = monacoReady /\ page' = page /\ toSwift' = toSwift
    BY <1>1 DEF Close, noTalk
  <1>3. c \in ColumnState
    <2>1. PICK fresh \in BOOLEAN : ~fresh
      OBVIOUS
    <2>2. ASSUME NEW v \in Viewed, Acts(Alive, fresh, v, column, column) PROVE Acts(Alive, fresh, v, column, c)
      BY <1>1, <1>2, <2>1, <2>2, InvIs, ClosedActs
    <2> QED BY <2>1, <2>2, ActsTyped
  <1>4. OpenPaths(c) = OpenPaths(column) \ {path}
    BY <1>1, <1>2, InvIs, ClosedTabs
  <1>5. PICK marks, A : marks = column.diskModifiedWhileDirty \ {path} /\ A = {}
    OBVIOUS
  <1>6. CASE path # p
    <2>1. Speaks(c, marks, A, p)
      BY <1>1, <1>5, <1>6, SpeaksFirst, ClosedSpeaks
    <2>2. IsOpen(c, p) <=> IsOpen(column, p)
      BY <1>4, <1>6 DEF OpenPaths
    <2>3. p \in moved \cup column.diskModifiedWhileDirty => p \in moved' \cup marks
      BY <1>2, <1>5, <1>6
    <2>4. disk'[p] = disk[p] /\ (p \in apart => p \in apart')
      BY <1>2
    <2> QED BY <1>2, <1>3, <1>5, <2>1, <2>2, <2>3, <2>4, ColumnFile
  <1>7. CASE path = p
    <2>1. Speaks(c, marks, EndOf(p), p)
      BY <1>1, <1>5, <1>7, SpeaksFirst, ClosedSpeaks
    <2>2. /\ Queue \in Seq(ToPage) /\ c.out \in Seq(ToPage)
          /\ Queue' = Queue \o c.out /\ ~IsOpen(column', p)
      BY <1>2, <1>3, <1>4, <1>7, ColumnSent DEF OpenPaths
    <2>3. EndOf(p) # {}
      <3>1. PICK m : m = [type |-> "closeTab", path |-> p]
        OBVIOUS
      <3>2. m \in ToPage
        BY <3>1, ColumnSays
      <3> QED BY <3>1, <3>2 DEF EndOf, TextOf
    <2>4. LastIn(c.out, EndOf(p), TextOf(p))
      BY <2>1, <2>3 DEF Speaks, Spoken
    <2>5. Gone(p, page', Queue')
      BY <2>2, <2>4, LastInOn DEF Gone
    <2> QED BY <2>2, <2>5, FileIsNext
  <1> QED BY <1>6, <1>7

LEMMA CheckDiskFile ==
  ASSUME Inv, NEW p \in Files, FileInv(p), CheckDisk
  PROVE  FileInv(p)'
  <1> DEFINE late == moved \cap OpenPaths(column)
             conflicts == {q \in late : SeesConflict(q)}
             reloads == {q \in late : SeesReload(q)}
             flagged == [column EXCEPT !.diskModifiedWhileDirty = @ \cup conflicts]
             seq == column.tabPaths
             n == Len(seq)
  <1>1. PICK c : /\ ReloadEnds(n, seq, flagged, reloads, c)
                 /\ ColumnBecomes(c) /\ moved' = moved \ (conflicts \cup reloads)
                 /\ UNCHANGED <<disk, apart, monacoReady, page, toSwift>>
    BY DEF CheckDisk, ReloadEnds, noTalk, pageSide
  <1>2. PICK changed : changed = column.diskModifiedWhileDirty \cup conflicts
    OBVIOUS
  <1>3. flagged = [column EXCEPT !.diskModifiedWhileDirty = changed]
    BY <1>2
  <1>4. changed \subseteq OpenPaths(column) /\ reloads \subseteq OpenPaths(column)
    BY <1>2, InvIs DEF Tabbed
  <1>5. disk' = disk /\ apart' = apart /\ monacoReady' = monacoReady /\ page' = page /\ toSwift' = toSwift
    BY <1>1
  <1> HIDE DEF late, conflicts, reloads, flagged, seq, n
  <1>6. n = Len(seq) /\ seq = column.tabPaths
    BY DEF n, seq
  <1>7. PICK fresh \in BOOLEAN : ~fresh
    OBVIOUS
  <1>8. PICK due \in Seq(Asked), v \in Viewed : Agrees(Alive, Fresh, v, column)
    BY DEF Inv, ShowsInv, Shows
  <1>9. Acts(Alive, fresh, v, column, column)
    <2>1. Agrees(Alive, fresh, v, column)
      BY <1>7, <1>8 DEF Agrees
    <2> QED BY <2>1, InvIs, ActsNothing
  <1>10. Acts(Alive, fresh, v, column, flagged) /\ flagged.tabPaths = column.tabPaths
    <2>1. PICK d : d = flagged
      OBVIOUS
    <2>2. d = [column EXCEPT !.diskModifiedWhileDirty = changed]
      BY <1>3, <2>1
    <2>3. ASSUME NEW w \in Viewed, Acts(Alive, fresh, w, column, column)
          PROVE  Acts(Alive, fresh, w, column, d) /\ d.tabPaths = column.tabPaths
      BY <1>4, <2>2, <2>3, ChangedActs
    <2> QED BY <1>9, <2>1, <2>3
  <1>11. flagged \in ColumnState
    BY <1>10 DEF Acts, Acted
  <1>12. Rereads(flagged, reloads, seq, n) /\ disk \in [Files -> Texts]
    BY <1>4, <1>6, <1>10, InvIs, OpenIsSame DEF Rereads
  <1>13. c \in ColumnState /\ c.tabPaths = column.tabPaths
    <2>1. Acts(Alive, fresh, v, column, c) /\ c.tabPaths = flagged.tabPaths
      BY <1>1, <1>7, <1>10, <1>12, InvIs, ReloadsActs
    <2> QED BY <1>10, <2>1 DEF Acts, Acted
  <1>14. IsOpen(c, p) <=> IsOpen(column, p)
    BY <1>13 DEF IsOpen
  <1>15. Speaks(flagged, changed, {}, p)
    BY <1>3, SpeaksFirst, SetsSpeak
  <1>16. RereadSpeaks(c, p, changed, reloads, reloads)
    BY <1>1, <1>11, <1>12, <1>15, RereadsSpeak
  <1>17. PICK marks, A :
           /\ Speaks(c, marks, A, p)
           /\ A = {} \/ A = OpenWith(p, disk[p])
           /\ p \notin reloads => A = {} /\ (p \in changed => p \in marks)
           /\ p \in reloads => A = OpenWith(p, disk[p])
    BY <1>16 DEF RereadSpeaks
  <1>18. disk'[p] = disk[p] /\ (p \in apart => p \in apart')
    BY <1>5
  <1>19. CASE p \in reloads
    <2>1. IsOpen(column, p)
      BY <1>4, <1>19 DEF OpenPaths
    <2>2. A = OpenWith(p, disk'[p])
      BY <1>17, <1>18, <1>19
    <2>3. A # {}
      <3>1. PICK text : text = disk[p]
        OBVIOUS
      <3>2. PICK m : m = [type |-> "openFile", path |-> p, content |-> text, activate |-> TRUE]
        OBVIOUS
      <3>3. m \in ToPage
        BY <3>1, <3>2, InvIs, ColumnSays
      <3> QED BY <1>18, <2>2, <3>1, <3>2, <3>3 DEF OpenWith, TextOf
    <2> QED BY <1>1, <1>5, <1>13, <1>14, <1>17, <1>18, <2>1, <2>2, <2>3, ColumnFile
  <1>20. CASE p \notin reloads
    <2>1. A = {} /\ (p \in changed => p \in marks)
      BY <1>17, <1>20
    <2>2. p \in moved \cup column.diskModifiedWhileDirty => p \in moved' \cup marks
      BY <1>1, <1>2, <1>20, <2>1
    <2> QED BY <1>1, <1>5, <1>13, <1>14, <1>17, <1>18, <2>1, <2>2, ColumnFile
  <1> QED BY <1>19, <1>20

LEMMA ResolveConflictFile ==
  ASSUME Inv, NEW p \in Files, FileInv(p), NEW reload \in BOOLEAN, ResolveConflict(reload)
  PROVE  FileInv(p)'
  <1>1. PICK path : path = column.activePath
    OBVIOUS
  <1>2. /\ path \in column.diskModifiedWhileDirty
        /\ monacoReady' = monacoReady /\ page' = page /\ toSwift' = toSwift
    BY <1>1 DEF ResolveConflict, noTalk, pageSide
  <1>3. path \in Files /\ IsOpen(column, path)
    BY <1>2, InvIs DEF Tabbed, OpenPaths
  <1>4. PICK marks : marks = column.diskModifiedWhileDirty \ {path}
    OBVIOUS
  <1>5. CASE reload
    <2>1. PICK c : c = ReloadFromDisk(column, path)
      OBVIOUS
    <2>2. ColumnBecomes(c) /\ LooksAtTime(path)
      BY <1>1, <1>5, <2>1 DEF ResolveConflict
    <2>3. c \in ColumnState
      BY <1>3, <2>1, InvIs, ReloadedIs
    <2>4. HasTabs(c, column.tabPaths)
      <3>1. PICK d : d = [column EXCEPT !.diskModifiedWhileDirty = @ \ {path}]
        OBVIOUS
      <3>2. HasTabs(d, column.tabPaths)
        BY <3>1, InvIs DEF HasTabs
      <3>3. \A m : HasTabs(Say(d, m), column.tabPaths)
        BY <3>2, SayTabs
      <3> QED BY <2>1, <3>1, <3>3 DEF ReloadFromDisk
    <2>5. IsOpen(c, p) <=> IsOpen(column, p)
      BY <2>4, TabsSame, SaidTabs
    <2>6. /\ path # p => Speaks(c, marks, {}, p)
          /\ path = p => Speaks(c, marks, OpenWith(p, disk[p]), p)
      BY <1>4, <2>1, InvIs, SpeaksFirst, ReloadSpeaks
    <2>7. CASE path # p
      <3>1. disk'[p] = disk[p] /\ (p \in apart => p \in apart') /\ moved' = moved \ {path}
        BY <2>2, <2>7, LooksAtOther
      <3>2. PICK A : A = {}
        OBVIOUS
      <3>3. Speaks(c, marks, A, p)
        BY <2>6, <2>7, <3>2
      <3>4. p \in moved \cup column.diskModifiedWhileDirty => p \in moved' \cup marks
        BY <1>4, <2>7, <3>1
      <3> QED BY <1>2, <2>2, <2>3, <2>5, <3>1, <3>2, <3>3, <3>4, ColumnFile
    <2>8. CASE path = p
      <3>1. CASE p \in apart'
        BY <3>1 DEF FileInv
      <3>2. CASE p \notin apart'
        <4>1. disk' = disk /\ p \notin apart
          BY <2>2, <2>8, <3>2, LooksAtOne
        <4>2. PICK A : A = OpenWith(p, disk[p])
          OBVIOUS
        <4>3. Speaks(c, marks, A, p) /\ A = OpenWith(p, disk'[p])
          BY <2>6, <2>8, <4>1, <4>2
        <4>4. A # {}
          <5>1. PICK text : text = disk[p]
            OBVIOUS
          <5>2. PICK m : m = [type |-> "openFile", path |-> p, content |-> text, activate |-> TRUE]
            OBVIOUS
          <5>3. m \in ToPage
            BY <5>1, <5>2, InvIs, ColumnSays
          <5> QED BY <4>2, <5>1, <5>2, <5>3 DEF OpenWith, TextOf
        <4> QED BY <1>2, <1>3, <2>2, <2>3, <2>5, <2>8, <4>1, <4>3, <4>4, ColumnFile
      <3> QED BY <3>1, <3>2
    <2> QED BY <2>7, <2>8
  <1>6. CASE ~reload
    <2>1. PICK c : c = [column EXCEPT !.diskModifiedWhileDirty = marks]
      OBVIOUS
    <2>2. ColumnBecomes(c) /\ moved' = moved \ {path} /\ apart' = apart \cup {path} /\ disk' = disk
      BY <1>1, <1>4, <1>6, <2>1 DEF ResolveConflict
    <2>3. CASE path = p
      BY <2>2, <2>3 DEF FileInv
    <2>4. CASE path # p
      <3>1. c \in ColumnState
        <4>1. PICK fresh \in BOOLEAN : ~fresh
          OBVIOUS
        <4>2. marks \subseteq OpenPaths(column)
          BY <1>4, InvIs DEF Tabbed
        <4>3. ASSUME NEW v \in Viewed, Acts(Alive, fresh, v, column, column) PROVE Acts(Alive, fresh, v, column, c)
          BY <2>1, <4>2, <4>3, ChangedActs
        <4> QED BY <4>1, <4>3, ActsTyped
      <3>2. IsOpen(c, p) <=> IsOpen(column, p)
        BY <2>1, InvIs, SetsKeepTabs, TabsSame, SaidTabs
      <3>3. PICK A : A = {}
        OBVIOUS
      <3>4. Speaks(c, marks, A, p)
        BY <2>1, <3>3, SpeaksFirst, SetsSpeak
      <3>5. /\ disk'[p] = disk[p] /\ (p \in apart => p \in apart')
            /\ p \in moved \cup column.diskModifiedWhileDirty => p \in moved' \cup marks
        BY <1>4, <2>2, <2>4
      <3> QED BY <1>2, <2>2, <3>1, <3>2, <3>3, <3>4, <3>5, ColumnFile
    <2> QED BY <2>3, <2>4
  <1> QED BY <1>5, <1>6
-----------------------------------------------------------------------------
(* What the page said is heard                                             *)

\* Something was said or heard that is no save of the file.
LEMMA SaidElse ==
  ASSUME NEW path, NEW js, NEW said \in Seq(ToSwift), NEW queue \in Seq(ToPage), NEW text, NEW loose,
         Clean(path, js, said, queue, text, loose)
  PROVE  /\ said # <<>> /\ Head(said) \notin SaveOf(path) => Clean(path, js, Tail(said), queue, text, loose)
         /\ \A m \in ToSwift \ SaveOf(path) : Clean(path, js, Append(said, m), queue, text, loose)
  <1>1. PICK n : n = CountOf(js.pendingSaves, path)
    OBVIOUS
  <1>2. PICK k \in Nat, l \in Nat : Waits(path, n, queue, k) /\ Waits(path, k, said, l)
    BY <1>1 DEF Owed, Clean
  <1>3. /\ NoneIn(queue, EndOf(path))
        /\ \/ \E t : SavesText(path, js, t) /\ LastIn(said, SaveWith(path, t), SaveOf(path))
           \/ NoneIn(said, SaveOf(path)) /\ (loose \/ EndsClean(path, js, queue, text))
    BY DEF Clean
  <1>4. ASSUME said # <<>>, Head(said) \notin SaveOf(path) PROVE Clean(path, js, Tail(said), queue, text, loose)
    <2>1. PICK m, rest : m = Head(said) /\ rest = Tail(said)
      OBVIOUS
    <2>2. m \in ToSwift /\ rest \in Seq(ToSwift) /\ m \notin SaveOf(path) \cup MarkOf(path)
      BY <1>4, <2>1, HeadTailProperties, KindsOf
    <2>3. PICK i \in Nat : k = i + (IF m \in SaveOf(path) \cup MarkOf(path) THEN 1 ELSE 0) /\ Waits(path, i, rest, l)
      BY <1>2, <1>4, <2>1, WaitsRest, BothSeqs
    <2>4. k = i
      BY <2>2, <2>3
    <2>5. Owed(path, n, queue, rest)
      BY <1>2, <2>3, <2>4 DEF Owed
    <2>6. NoneIn(said, SaveOf(path)) => NoneIn(rest, SaveOf(path))
      BY <1>4, <2>1, LastInRest
    <2>7. ASSUME NEW t, LastIn(said, SaveWith(path, t), SaveOf(path)) PROVE LastIn(rest, SaveWith(path, t), SaveOf(path))
      BY <1>4, <2>1, <2>2, <2>7, LastInRest, KindsOf
    <2> QED BY <1>1, <1>3, <2>1, <2>5, <2>6, <2>7 DEF Clean
  <1>5. ASSUME NEW m \in ToSwift, m \notin SaveOf(path) PROVE Clean(path, js, Append(said, m), queue, text, loose)
    <2>1. PICK all : all = Append(said, m)
      OBVIOUS
    <2>2. m \notin SaveOf(path) \cup MarkOf(path)
      BY <1>5, KindsOf
    <2>3. Waits(path, k, all, l)
      BY <1>2, <2>1, <2>2, WaitsOne, BothSeqs
    <2>4. Owed(path, n, queue, all)
      BY <1>2, <2>3 DEF Owed
    <2>5. /\ NoneIn(said, SaveOf(path)) => NoneIn(all, SaveOf(path))
          /\ \A t : LastIn(said, SaveWith(path, t), SaveOf(path)) => LastIn(all, SaveWith(path, t), SaveOf(path))
      BY <1>5, <2>1, LastInMore
    <2> QED BY <1>1, <1>3, <2>1, <2>4, <2>5 DEF Clean
  <1> QED BY <1>4, <1>5

\* The save of a file was written: the column tells the page so.
LEMMA SavedClean ==
  ASSUME NEW path \in Files, NEW js, NEW said \in Seq(ToSwift), said # <<>>, NEW queue \in Seq(ToPage), NEW text, NEW loose,
         Clean(path, js, said, queue, text, loose),
         NEW m, m = Head(said), m \in SaveOf(path), NEW mark \in MarkOf(path), NEW free
  PROVE  Clean(path, js, Tail(said), Append(queue, mark), m.content, free)
  <1>1. PICK n, rest, all : n = CountOf(js.pendingSaves, path) /\ rest = Tail(said) /\ all = Append(queue, mark)
    OBVIOUS
  <1>2. PICK k \in Nat, l \in Nat : Waits(path, n, queue, k) /\ Waits(path, k, said, l)
    BY <1>1 DEF Owed, Clean
  <1>3. /\ NoneIn(queue, EndOf(path))
        /\ \/ \E t : SavesText(path, js, t) /\ LastIn(said, SaveWith(path, t), SaveOf(path))
           \/ NoneIn(said, SaveOf(path))
    BY DEF Clean
  <1>4. rest \in Seq(ToSwift) /\ mark \in ToPage /\ mark \in TextOf(path) /\ mark \notin EndOf(path)
        /\ mark \in SaveOf(path) \cup MarkOf(path)
    <2>1. rest \in Seq(ToSwift)
      BY <1>1, HeadTailProperties
    <2> QED BY <2>1, TextKinds, KindsOf DEF MarkOf, EndOf
  <1>5. PICK i \in Nat : k = i + (IF m \in SaveOf(path) \cup MarkOf(path) THEN 1 ELSE 0) /\ Waits(path, i, rest, l)
    BY <1>1, <1>2, WaitsRest, BothSeqs
  <1>6. k = i + (IF mark \in SaveOf(path) \cup MarkOf(path) THEN 1 ELSE 0)
    BY <1>4, <1>5
  <1>7. Waits(path, n, all, i)
    BY <1>1, <1>2, <1>4, <1>6, WaitsOne, BothSeqs
  <1>8. Owed(path, n, all, rest)
    BY <1>2, <1>5, <1>7 DEF Owed
  <1>9. NoneIn(all, EndOf(path))
    BY <1>1, <1>3, <1>4, LastInMore
  <1>10. PICK t : SavesText(path, js, t) /\ LastIn(said, SaveWith(path, t), SaveOf(path))
    <2>1. ~NoneIn(said, SaveOf(path))
      BY LastInRest
    <2> QED BY <1>3, <2>1
  <1>11. LastIn(rest, SaveWith(path, t), SaveOf(path)) \/ (m \in SaveWith(path, t) /\ NoneIn(rest, SaveOf(path)))
    BY <1>1, <1>10, LastInRest
  <1>12. ASSUME m \in SaveWith(path, t) PROVE EndsClean(path, js, all, m.content)
    <2>1. m.content = t
      BY <1>12 DEF SaveWith
    <2>2. LastIn(all, MarkOf(path), TextOf(path))
      BY <1>1, <1>4, LastInMore
    <2> QED BY <1>10, <2>1, <2>2 DEF EndsClean
  <1> QED BY <1>1, <1>8, <1>9, <1>10, <1>11, <1>12 DEF Clean

\* The column heard of something else than a save of the file, or of one closed.
LEMMA SaidFile ==
  ASSUME Inv, NEW p \in Files, FileInv(p), toSwift # <<>>, toSwift' = Tail(toSwift),
         IsOpen(column, p) => Head(toSwift) \notin SaveOf(p),
         page' = page, disk' = disk, moved' = moved, p \in apart => p \in apart', Queue' = Queue,
         column'.tabPaths = column.tabPaths, column'.diskModifiedWhileDirty = column.diskModifiedWhileDirty
  PROVE  FileInv(p)'
  <1>1. IsOpen(column', p) <=> IsOpen(column, p)
    BY DEF IsOpen
  <1>2. CASE IsOpen(column, p)
    <2>1. PICK text, loose : text = disk[p] /\ loose = (p \in moved \cup column.diskModifiedWhileDirty)
      OBVIOUS
    <2>2. ASSUME p \notin apart' PROVE Clean(p, page, Tail(toSwift), Queue, text, loose)
      <3>1. PICK js, said, queue : js = page /\ said = toSwift /\ queue = Queue
        OBVIOUS
      <3>2. Clean(p, js, said, queue, text, loose)
        BY <1>2, <2>1, <2>2, <3>1, FileIs
      <3>3. said \in Seq(ToSwift) /\ queue \in Seq(ToPage) /\ said # <<>> /\ Head(said) \notin SaveOf(p)
        BY <1>2, <3>1, QueueIs DEF Inv, WiresInv
      <3>4. Clean(p, js, Tail(said), queue, text, loose)
        BY <3>2, <3>3, SaidElse
      <3> QED BY <3>1, <3>4
    <2>3. p \notin apart' => Clean(p, page', toSwift', Queue', disk'[p], p \in moved' \cup column'.diskModifiedWhileDirty)
      BY <2>1, <2>2
    <2> QED BY <1>1, <1>2, <2>3, FileIsNext
  <1>3. CASE ~IsOpen(column, p)
    <2>1. p \notin apart' => Gone(p, page', Queue')
      BY <1>3, FileIs
    <2> QED BY <1>1, <1>3, <2>1, FileIsNext
  <1> QED BY <1>2, <1>3

LEMMA TakeDirtyFile ==
  ASSUME Inv, NEW p \in Files, FileInv(p), TakeDirty
  PROVE  FileInv(p)'
  <1>1. /\ toSwift # <<>> /\ Head(toSwift).type = "dirty" /\ toSwift' = Tail(toSwift)
        /\ page' = page /\ disk' = disk /\ moved' = moved /\ apart' = apart /\ monacoReady' = monacoReady
        /\ toPage' = toPage /\ pendingOps' = pendingOps
    BY DEF TakeDirty, Received, noFiles, noTalk
  <1>2. PICK known : column' = [column EXCEPT !.dirtyByPath = known]
    BY DEF TakeDirty
  <1>3. column'.tabPaths = column.tabPaths /\ column'.diskModifiedWhileDirty = column.diskModifiedWhileDirty
    BY <1>2, InvIs DEF ColumnState
  <1>4. Queue' = Queue
    BY <1>1 DEF Queue
  <1>5. Head(toSwift) \notin SaveOf(p)
    BY <1>1 DEF SaveOf
  <1> QED BY <1>1, <1>3, <1>4, <1>5, SaidFile

LEMMA TakeSelectionFile ==
  ASSUME Inv, NEW p \in Files, FileInv(p), TakeSelection
  PROVE  FileInv(p)'
  <1>1. /\ toSwift # <<>> /\ Head(toSwift).type = "selection" /\ toSwift' = Tail(toSwift)
        /\ page' = page /\ disk' = disk /\ moved' = moved /\ apart' = apart /\ monacoReady' = monacoReady
        /\ toPage' = toPage /\ pendingOps' = pendingOps /\ column' = column
    BY DEF TakeSelection, Received, noFiles
  <1>2. Queue' = Queue
    BY <1>1 DEF Queue
  <1>3. Head(toSwift) \notin SaveOf(p)
    BY <1>1 DEF SaveOf
  <1> QED BY <1>1, <1>2, <1>3, SaidFile

LEMMA MonacoReadyFile ==
  ASSUME Inv, NEW p \in Files, FileInv(p), MonacoReady
  PROVE  FileInv(p)'
  <1>1. /\ toSwift # <<>> /\ Head(toSwift).type = "monacoReady" /\ toSwift' = Tail(toSwift)
        /\ page' = page /\ disk' = disk /\ moved' = moved /\ apart' = apart /\ column' = column
        /\ monacoReady' = TRUE /\ toPage' = toPage \o pendingOps
    BY DEF MonacoReady, Received, noFiles
  <1>2. Queue' = Queue
    <2>1. toPage \in Seq(ToPage) /\ pendingOps \in Seq(ToPage)
      BY DEF Inv, WiresInv
    <2>2. toPage \o <<>> = toPage /\ <<>> \o pendingOps = pendingOps
      BY <2>1
    <2> QED BY <1>1, <2>2 DEF Queue, Inv, WiresInv
  <1>3. Head(toSwift) \notin SaveOf(p)
    BY <1>1 DEF SaveOf
  <1> QED BY <1>1, <1>2, <1>3, SaidFile

\* The column heard of another file's save, and told the page.
LEMMA SavedOther ==
  ASSUME Inv, NEW p \in Files, FileInv(p), NEW c \in ColumnState, ColumnBecomes(c), monacoReady' = monacoReady,
         page' = page, toSwift # <<>>, Head(toSwift) \notin SaveOf(p), toSwift' = Tail(toSwift),
         disk'[p] = disk[p], p \in apart => p \in apart',
         NEW marks, Speaks(c, marks, {}, p), IsOpen(c, p) <=> IsOpen(column, p),
         p \in moved \cup column.diskModifiedWhileDirty => p \in moved' \cup marks
  PROVE  FileInv(p)'
  <1>1. /\ Queue \in Seq(ToPage) /\ toSwift \in Seq(ToSwift) /\ c.out \in Seq(ToPage)
        /\ Queue' = Queue \o c.out /\ column'.diskModifiedWhileDirty = marks
        /\ IsOpen(column', p) <=> IsOpen(column, p)
    BY ColumnSent DEF Speaks
  <1>2. Spoken(c.out, {}, TextOf(p))
    BY DEF Speaks
  <1>3. CASE IsOpen(column, p)
    <2>1. PICK js, said, queue, out, text, loose, free :
            /\ js = page /\ said = toSwift /\ queue = Queue /\ out = c.out
            /\ text = disk[p] /\ loose = (p \in moved \cup column.diskModifiedWhileDirty)
            /\ free = (p \in moved' \cup marks)
      OBVIOUS
    <2>2. ASSUME p \notin apart' PROVE Clean(p, js, Tail(said), queue \o out, text, free)
      <3>1. Clean(p, js, said, queue, text, loose)
        BY <1>3, <2>1, <2>2, FileIs
      <3>2. Clean(p, js, Tail(said), queue, text, loose)
        BY <1>1, <2>1, <3>1, SaidElse
      <3>3. PICK rest, A : rest = Tail(said) /\ A = {}
        OBVIOUS
      <3>4. /\ Clean(p, js, rest, queue, text, loose) /\ rest \in Seq(ToSwift) /\ queue \in Seq(ToPage)
            /\ out \in Seq(ToPage) /\ Spoken(out, A, TextOf(p)) /\ (loose => free)
        <4>1. rest \in Seq(ToSwift)
          BY <1>1, <2>1, <3>3, HeadTailProperties
        <4> QED BY <1>1, <1>2, <2>1, <3>2, <3>3, <4>1
      <3>5. PICK now : now = text
        OBVIOUS
      <3>6. (A = {} \/ A = OpenWith(p, now)) /\ (A # {} \/ free \/ (now = text /\ (loose => free)))
        BY <3>3, <3>4, <3>5
      <3>7. Clean(p, js, rest, queue \o out, now, free)
        BY <3>4, <3>6, SpeaksClean
      <3> QED BY <3>3, <3>5, <3>7
    <2>3. p \notin apart' => Clean(p, page', toSwift', Queue', disk'[p], p \in moved' \cup column'.diskModifiedWhileDirty)
      BY <1>1, <2>1, <2>2
    <2> QED BY <1>1, <1>3, <2>3, FileIsNext
  <1>4. CASE ~IsOpen(column, p)
    <2>1. p \notin apart => Gone(p, page, Queue)
      BY <1>4, FileIs
    <2>2. p \notin apart' => Gone(p, page', Queue')
      BY <1>1, <1>2, <2>1, SpeaksGone
    <2> QED BY <1>1, <1>4, <2>2, FileIsNext
  <1> QED BY <1>3, <1>4

LEMMA HandleSaveFile ==
  ASSUME Inv, NEW p \in Files, FileInv(p), HandleSave
  PROVE  FileInv(p)'
  <1>1. PICK m : m = Head(toSwift)
    OBVIOUS
  <1>2. PICK said, marks, d, saved :
          /\ said = [type |-> "markSaved", path |-> m.path]
          /\ marks = column.diskModifiedWhileDirty \ {m.path}
          /\ d = [column EXCEPT !.diskModifiedWhileDirty = marks]
          /\ saved = Say(d, said)
    OBVIOUS
  <1>3. Received("save") /\ monacoReady' = monacoReady /\ page' = page
    BY DEF HandleSave, noTalk
  <1>4. /\ toSwift # <<>> /\ m.type = "save" /\ m \in ToSwift /\ toSwift \in Seq(ToSwift)
        /\ toSwift' = Tail(toSwift)
    BY <1>1, <1>3, TakesSaid DEF Inv, WiresInv
  <1>5. m.path \in Files /\ m.content \in Texts
    BY <1>4, ColumnMessage
  <1>6. \/ /\ disk' = disk /\ moved' = moved /\ column' = column
           /\ toPage' = toPage /\ pendingOps' = pendingOps
           /\ \/ ~IsOpen(column, m.path) /\ apart' = apart
              \/ apart' = apart \cup {m.path}
        \/ /\ IsOpen(column, m.path) /\ moved' = moved \ {m.path} /\ ColumnBecomes(saved)
           /\ \/ disk' = [disk EXCEPT ![m.path] = m.content] /\ apart' = apart
              \/ /\ \E text \in Texts : disk' = [disk EXCEPT ![m.path] = text]
                 /\ apart' = apart \cup {m.path}
    BY <1>1, <1>2 DEF HandleSave, noFiles
  <1>7. p \in apart => p \in apart'
    BY <1>6
  <1>8. m.path # p => m \notin SaveOf(p)
    BY DEF SaveOf
  <1>9. CASE p \in apart'
    BY <1>9 DEF FileInv
  <1>10. CASE /\ disk' = disk /\ moved' = moved /\ column' = column /\ p \notin apart'
              /\ toPage' = toPage /\ pendingOps' = pendingOps
              /\ \/ ~IsOpen(column, m.path) /\ apart' = apart
                 \/ apart' = apart \cup {m.path}
    <2>1. IsOpen(column, p) => Head(toSwift) \notin SaveOf(p)
      BY <1>1, <1>8, <1>10
    <2>2. Queue' = Queue
      BY <1>3, <1>10 DEF Queue
    <2> QED BY <1>3, <1>4, <1>7, <1>10, <2>1, <2>2, SaidFile
  <1>11. CASE /\ IsOpen(column, m.path) /\ moved' = moved \ {m.path} /\ ColumnBecomes(saved) /\ p \notin apart'
              /\ \/ disk' = [disk EXCEPT ![m.path] = m.content] /\ apart' = apart
                 \/ /\ \E text \in Texts : disk' = [disk EXCEPT ![m.path] = text]
                    /\ apart' = apart \cup {m.path}
    <2>1. said \in ToPage
      BY <1>2, <1>5, ColumnSays
    <2>2. HasTabs(saved, column.tabPaths)
      BY <1>2, InvIs, SetsKeepTabs, SayTabs
    <2>3. IsOpen(saved, p) <=> IsOpen(column, p)
      BY <2>2, TabsSame, SaidTabs
    <2>4. saved \in ColumnState /\ saved.out = <<said>> /\ saved.diskModifiedWhileDirty = marks
      <3>1. d \in ColumnState /\ d.out = <<>> /\ d.diskModifiedWhileDirty = marks
        <4>1. PICK fresh \in BOOLEAN : ~fresh
          OBVIOUS
        <4>2. marks \subseteq OpenPaths(column)
          BY <1>2, InvIs DEF Tabbed
        <4>3. ASSUME NEW v \in Viewed, Acts(Alive, fresh, v, column, column) PROVE Acts(Alive, fresh, v, column, d)
          BY <1>2, <4>2, <4>3, ChangedActs
        <4>4. d \in ColumnState
          BY <4>1, <4>3, ActsTyped
        <4>5. d.out = <<>> /\ d.diskModifiedWhileDirty = marks
          BY <1>2, InvIs DEF ColumnState
        <4> QED BY <4>4, <4>5
      <3>2. /\ saved \in ColumnState /\ saved.out = Append(d.out, said)
            /\ saved.diskModifiedWhileDirty = d.diskModifiedWhileDirty
        <4>1. d \in ColumnState /\ saved = Say(d, said)
          BY <1>2, <3>1
        <4> QED BY <2>1, <4>1, SaidIs
      <3> QED BY <3>1, <3>2
    <2>5. disk \in [Files -> Texts]
      BY InvIs
    <2>6. CASE m.path # p
      <3>1. disk'[p] = disk[p]
        BY <1>11, <2>5, <2>6
      <3>2. said \notin TextOf(p)
        BY <1>2, <2>6, OtherWords
      <3>3. Speaks(saved, marks, {}, p)
        <4>1. Speaks(d, marks, {}, p)
          BY <1>2, SpeaksFirst, SetsSpeak
        <4> QED BY <1>2, <3>2, <4>1, SaySpeaks
      <3>4. p \in moved \cup column.diskModifiedWhileDirty => p \in moved' \cup marks
        BY <1>2, <1>11, <2>6
      <3> QED BY <1>1, <1>3, <1>4, <1>7, <1>8, <1>11, <2>3, <2>4, <2>6, <3>1, <3>3, <3>4, SavedOther
    <2>7. CASE m.path = p
      <3>1. disk'[p] = m.content /\ p \notin apart
        BY <1>11, <2>5, <2>7
      <3>2. m \in SaveOf(p) /\ said \in MarkOf(p)
        BY <1>2, <1>4, <2>1, <2>7 DEF SaveOf, MarkOf, TextOf
      <3>3. PICK js, heard, queue, text, loose, free :
              /\ js = page /\ heard = toSwift /\ queue = Queue /\ text = disk[p]
              /\ loose = (p \in moved \cup column.diskModifiedWhileDirty)
              /\ free = (p \in moved' \cup column'.diskModifiedWhileDirty)
        OBVIOUS
      <3>4. Clean(p, js, heard, queue, text, loose)
        BY <1>11, <2>7, <3>1, <3>3, FileIs
      <3>5. /\ queue \in Seq(ToPage) /\ Queue' = queue \o <<said>> /\ IsOpen(column', p)
        BY <1>3, <1>11, <2>3, <2>4, <2>7, <3>3, ColumnSent
      <3>6. Queue' = Append(queue, said)
        BY <3>5
      <3>7. Clean(p, js, Tail(heard), Append(queue, said), m.content, free)
        BY <1>1, <1>4, <3>2, <3>3, <3>4, <3>5, SavedClean
      <3>8. Clean(p, page', toSwift', Queue', disk'[p], p \in moved' \cup column'.diskModifiedWhileDirty)
        BY <1>3, <1>4, <3>1, <3>3, <3>6, <3>7
      <3> QED BY <3>5, <3>8, FileIsNext
    <2> QED BY <2>6, <2>7
  <1> QED BY <1>6, <1>9, <1>10, <1>11
-----------------------------------------------------------------------------
(* The page comes and goes, files change, and nothing happens              *)

LEMMA PageLoadsFile ==
  ASSUME Inv, NEW p \in Files, FileInv(p), PageLoads
  PROVE  FileInv(p)'
  <1>1. PICK m : m = [type |-> "monacoReady"]
    OBVIOUS
  <1>2. /\ ~isUp /\ toSwift' = <<m>> /\ page' = page /\ disk' = disk /\ moved' = moved /\ apart' = apart
        /\ column' = column /\ monacoReady' = monacoReady /\ toPage' = toPage /\ pendingOps' = pendingOps
    BY <1>1 DEF PageLoads, columnSide
  <1>3. toSwift = <<>> /\ toSwift \in Seq(ToSwift) /\ Queue \in Seq(ToPage) /\ Queue' = Queue
    BY <1>2, QueueIs DEF Inv, WiresInv, Queue
  <1>4. m \in ToSwift /\ m \notin SaveOf(p)
    BY <1>1 DEF ToSwift, SaveOf
  <1>5. toSwift' = Append(toSwift, m)
    BY <1>2, <1>3
  <1>6. CASE IsOpen(column, p)
    <2>1. PICK js, said, queue, text, loose :
            /\ js = page /\ said = toSwift /\ queue = Queue /\ text = disk[p]
            /\ loose = (p \in moved \cup column.diskModifiedWhileDirty)
      OBVIOUS
    <2>2. ASSUME p \notin apart PROVE Clean(p, js, Append(said, m), queue, text, loose)
      <3>1. Clean(p, js, said, queue, text, loose)
        BY <1>6, <2>1, <2>2, FileIs
      <3> QED BY <1>3, <1>4, <2>1, <3>1, SaidElse
    <2>3. p \notin apart' => Clean(p, page', toSwift', Queue', disk'[p], p \in moved' \cup column'.diskModifiedWhileDirty)
      BY <1>2, <1>3, <1>5, <2>1, <2>2
    <2> QED BY <1>2, <1>6, <2>3, FileIsNext
  <1>7. CASE ~IsOpen(column, p)
    <2>1. p \notin apart' => Gone(p, page', Queue')
      BY <1>2, <1>3, <1>7, FileIs
    <2> QED BY <1>2, <1>7, <2>1, FileIsNext
  <1> QED BY <1>6, <1>7

\* Before it was sent anything, a page has no model and waits for nothing.
LEMMA NothingClean ==
  ASSUME NEW path, NEW text, NEW loose
  PROVE  Clean(path, NoPage, <<>>, <<>>, text, loose) /\ Gone(path, NoPage, <<>>)
  <1>1. \A R : NoneIn(<<>>, R)
    BY NoneInNothing
  <1>2. path \notin DOMAIN NoPage.models
    BY NoPageIs
  <1>3. CountOf(NoPage.pendingSaves, path) = 0
    BY <1>2, NoPageIs DEF CountOf, PageFits
  <1>4. PICK none \in Seq(ToPage) : none = <<>>
    <2>1. <<>> \in Seq(ToPage)
      OBVIOUS
    <2> QED BY <2>1
  <1>5. NoneIn(none, SaveOf(path) \cup MarkOf(path))
    BY <1>1, <1>4
  <1>6. Waits(path, 0, none, 0)
    BY <1>5, WaitsSame, BothSeqs
  <1>7. Owed(path, 0, none, none)
    BY <1>6 DEF Owed
  <1>8. EndsClean(path, NoPage, none, text)
    BY <1>1, <1>2, <1>4 DEF EndsClean
  <1> QED BY <1>1, <1>2, <1>3, <1>4, <1>7, <1>8 DEF Clean, Gone

LEMMA PageDiesFile ==
  ASSUME Inv, NEW p \in Files, FileInv(p), PageDies
  PROVE  FileInv(p)'
  <1>1. page' = NoPage /\ monacoReady' = FALSE /\ pendingOps' = <<>> /\ toSwift' = <<>>
    BY DEF PageDies
  <1>2. Queue' = <<>>
    BY <1>1 DEF Queue
  <1>3. /\ Clean(p, page', toSwift', Queue', disk'[p], p \in moved' \cup column'.diskModifiedWhileDirty)
        /\ Gone(p, page', Queue')
    BY <1>1, <1>2, NothingClean
  <1> QED BY <1>3, FileIsNext

\* Another program's write of an open file is one the column is to look at.
LEMMA OthersWriteFile ==
  ASSUME Inv, NEW p \in Files, FileInv(p), NEW path \in Files, NEW text \in Texts, OthersWrite(path, text)
  PROVE  FileInv(p)'
  <1>1. /\ page' = page /\ toSwift' = toSwift /\ apart' = apart /\ column' = column /\ monacoReady' = monacoReady
        /\ toPage' = toPage /\ pendingOps' = pendingOps
        /\ disk' = [disk EXCEPT ![path] = text]
        /\ moved' = IF IsOpen(column, path) THEN moved \cup {path} ELSE moved
    BY DEF OthersWrite, Changed, noTalk, pageSide
  <1>2. Queue' = Queue
    BY <1>1 DEF Queue
  <1>3. CASE IsOpen(column, p)
    <2>1. PICK js, said, queue, before, loose, now, free :
            /\ js = page /\ said = toSwift /\ queue = Queue /\ before = disk[p]
            /\ loose = (p \in moved \cup column.diskModifiedWhileDirty)
            /\ now = disk'[p] /\ free = (p \in moved' \cup column'.diskModifiedWhileDirty)
      OBVIOUS
    <2>2. free \/ (now = before /\ (loose => free))
      <3>1. CASE path = p
        BY <1>1, <1>3, <2>1, <3>1
      <3>2. CASE path # p
        BY <1>1, <2>1, <3>2, InvIs
      <3> QED BY <3>1, <3>2
    <2>3. ASSUME p \notin apart PROVE Clean(p, js, said, queue, now, free)
      <3>1. Clean(p, js, said, queue, before, loose)
        BY <1>3, <2>1, <2>3, FileIs
      <3> QED BY <2>2, <3>1 DEF Clean
    <2>4. p \notin apart' => Clean(p, page', toSwift', Queue', disk'[p], p \in moved' \cup column'.diskModifiedWhileDirty)
      BY <1>1, <1>2, <2>1, <2>3
    <2> QED BY <1>1, <1>3, <2>4, FileIsNext
  <1>4. CASE ~IsOpen(column, p)
    <2>1. p \notin apart' => Gone(p, page', Queue')
      BY <1>1, <1>2, <1>4, FileIs
    <2> QED BY <1>1, <1>4, <2>1, FileIsNext
  <1> QED BY <1>3, <1>4

LEMMA StuttersFile ==
  ASSUME NEW p \in Files, FileInv(p), UNCHANGED vars
  PROVE  FileInv(p)'
  <1>1. /\ page' = page /\ toSwift' = toSwift /\ apart' = apart /\ column' = column /\ monacoReady' = monacoReady
        /\ toPage' = toPage /\ pendingOps' = pendingOps /\ disk' = disk /\ moved' = moved
    BY DEF vars
  <1>2. Queue' = Queue
    BY <1>1 DEF Queue
  <1> QED BY <1>1, <1>2 DEF FileInv

\* The restored files were sent before the page was there, the others not at all.
LEMMA InitFile ==
  ASSUME Init, NEW p \in Files
  PROVE  FileInv(p)
  <1>1. PICK c : c = FoldLeft(OpenBuffer, NoColumn, Restored)
    OBVIOUS
  <1>2. /\ disk = [q \in Files |-> 1] /\ column = [c EXCEPT !.out = <<>>] /\ pendingOps = c.out
        /\ monacoReady = FALSE /\ page = NoPage /\ toSwift = <<>>
    BY <1>1 DEF Init
  <1>3. disk \in [Files -> Texts]
    BY <1>2, EditorAssumption DEF Texts
  <1>4. c \in ColumnState /\ \E tabs : OpenedSpeaks(c, p, tabs)
    BY <1>1, <1>3, RestoredSpeaks
  <1>5. PICK tabs : OpenedSpeaks(c, p, tabs)
    BY <1>4
  <1>6. PICK marks : Speaks(c, marks, IF p \in tabs THEN OpenWith(p, disk[p]) ELSE {}, p)
    BY <1>5 DEF OpenedSpeaks
  <1>7. IsOpen(column, p) <=> p \in tabs
    <2>1. column.tabPaths = c.tabPaths
      BY <1>2, <1>4 DEF ColumnState
    <2> QED BY <1>5, <2>1 DEF IsOpen, OpenedSpeaks
  <1>8. PICK out, text, loose : /\ out = c.out /\ text = disk[p]
                                /\ loose = (p \in moved \cup column.diskModifiedWhileDirty)
    OBVIOUS
  <1>9. out \in Seq(ToPage) /\ Queue = out /\ text \in Texts
    BY <1>2, <1>3, <1>4, <1>8, ColumnIs DEF Queue
  <1>10. PICK none \in Seq(ToPage) : none = <<>>
    <2>1. <<>> \in Seq(ToPage)
      OBVIOUS
    <2> QED BY <2>1
  <1>11. none \in Seq(ToSwift) /\ none \o out = out
    BY <1>9, <1>10
  <1>12. CASE p \in tabs
    <2>1. Spoken(out, OpenWith(p, text), TextOf(p))
      BY <1>6, <1>8, <1>12 DEF Speaks
    <2>2. OpenWith(p, text) # {}
      <3>1. PICK m : m = [type |-> "openFile", path |-> p, content |-> text, activate |-> TRUE]
        OBVIOUS
      <3>2. m \in ToPage
        BY <1>9, <3>1, ColumnSays
      <3> QED BY <3>1, <3>2 DEF OpenWith, TextOf
    <2>3. Gone(p, NoPage, none) /\ NoneIn(none, EndOf(p)) /\ NoneIn(none, SaveOf(p))
      BY <1>10, NothingClean, NoneInNothing
    <2>4. Clean(p, NoPage, none, none \o out, text, loose)
      BY <1>9, <1>11, <2>1, <2>2, <2>3, NoPageIs, GoneOpens
    <2>5. Clean(p, page, toSwift, Queue, disk[p], p \in moved \cup column.diskModifiedWhileDirty)
      BY <1>2, <1>8, <1>9, <1>10, <1>11, <2>4
    <2> QED BY <1>7, <1>12, <2>5, FileIs
  <1>13. CASE p \notin tabs
    <2>1. Spoken(out, {}, TextOf(p))
      BY <1>6, <1>8, <1>13 DEF Speaks
    <2>2. Gone(p, NoPage, none \o out)
      BY <1>9, <1>10, <2>1, NothingClean, SpeaksGone
    <2>3. Gone(p, page, Queue)
      BY <1>2, <1>9, <1>11, <2>2
    <2> QED BY <1>7, <1>13, <2>3, FileIs
  <1> QED BY <1>12, <1>13
-----------------------------------------------------------------------------

LEMMA NextClean ==
  ASSUME Inv, CleanInv, [Next]_vars
  PROVE  CleanInv'
  <1> SUFFICES ASSUME NEW q \in Files, FileInv(q) PROVE FileInv(q)'
    BY DEF CleanInv
  <1>1. CASE UNCHANGED vars
    BY <1>1, StuttersFile
  <1>2. CASE UserAsks
    <2>1. ASSUME NEW p \in Files, Open(p) PROVE FileInv(q)'
      BY <2>1, OpenFileFile
    <2>2. ASSUME NEW p \in Paths, ClickTab(p) PROVE FileInv(q)'
      BY <2>2, ClickTabFile
    <2>3. ASSUME NEW p \in Paths, Close(p) PROVE FileInv(q)'
      BY <2>3, CloseFile
    <2>4. ASSUME NEW m \in Modes, ToggleDiff(m) PROVE FileInv(q)'
      BY <2>4, ToggleDiffFile
    <2>5. ASSUME NEW m \in Modes, ShowDiffCollection(m) PROVE FileInv(q)'
      BY <2>5, ShowDiffCollectionFile
    <2>6. ASSUME NEW m \in Modes, NEW p \in Files, ShowDiff(p, m) PROVE FileInv(q)'
      BY <2>6, ShowDiffFile
    <2>7. CASE SaveAll
      BY <2>7, SaveAllFile
    <2>8. CASE RequestSelection
      BY <2>8, RequestSelectionFile
    <2>9. ASSUME NEW reload \in BOOLEAN, ResolveConflict(reload) PROVE FileInv(q)'
      BY <2>9, ResolveConflictFile
    <2> QED BY <1>2, <2>1, <2>2, <2>3, <2>4, <2>5, <2>6, <2>7, <2>8, <2>9 DEF UserAsks
  <1>3. ASSUME NEW t \in Texts, Type(t) PROVE FileInv(q)'
    BY <1>3, TypeFile
  <1>4. ASSUME NEW t \in Texts, NEW p \in Files, OthersWrite(p, t) PROVE FileInv(q)'
    BY <1>4, OthersWriteFile
  <1>5. CASE RequestSave
    BY <1>5, RequestSaveFile
  <1>6. CASE PageReceives
    BY <1>6, ReceivesFile
  <1>7. CASE DrawFails
    BY <1>7, DrawFailsFile
  <1>8. CASE Redraw
    BY <1>8, RedrawFile
  <1>9. CASE LoadAnswered
    BY <1>9, LoadAnsweredFile
  <1>10. CASE CheckDisk
    BY <1>10, CheckDiskFile
  <1>11. CASE MonacoReady
    BY <1>11, MonacoReadyFile
  <1>12. CASE TakeDirty
    BY <1>12, TakeDirtyFile
  <1>13. CASE HandleSave
    BY <1>13, HandleSaveFile
  <1>14. CASE TakeSelection
    BY <1>14, TakeSelectionFile
  <1>15. CASE PageDies
    BY <1>15, PageDiesFile
  <1>16. CASE PageLoads
    BY <1>16, PageLoadsFile
  <1> QED BY <1>1, <1>2, <1>3, <1>4, <1>5, <1>6, <1>7, <1>8, <1>9, <1>10, <1>11, <1>12,
             <1>13, <1>14, <1>15, <1>16 DEF Next

\* Once everything was delivered nothing is under way, and the clean text is the file's.
LEMMA QuietClean ==
  ASSUME Inv, CleanInv
  PROVE  CleanIsOnDisk
  <1> SUFFICES ASSUME Quiet, NEW p \in (DOMAIN page.models \cap OpenPaths(column)) \ apart,
                      ~IsDirty(page.models[p]), p \notin moved \cup column.diskModifiedWhileDirty
               PROVE  page.models[p].value = disk[p]
    BY DEF CleanIsOnDisk
  <1>1. toSwift = <<>> /\ Queue = <<>>
    BY QueueIs DEF Inv, Quiet
  <1>2. p \in Files /\ IsOpen(column, p) /\ p \notin apart /\ p \in DOMAIN page.models
    BY DEF OpenPaths
  <1>3. FileInv(p)
    BY <1>2 DEF CleanInv
  <1>4. PICK text, loose : text = disk[p] /\ loose = (p \in moved \cup column.diskModifiedWhileDirty)
    OBVIOUS
  <1>5. Clean(p, page, <<>>, <<>>, text, loose) /\ ~loose
    BY <1>1, <1>2, <1>3, <1>4, FileIs
  <1>6. \A A, R : ~LastIn(<<>>, A, R)
    BY DEF LastIn
  <1>7. EndsClean(p, page, <<>>, text)
    BY <1>5, <1>6 DEF Clean
  <1>8. page.models[p].cleanValue = text
    BY <1>2, <1>6, <1>7 DEF EndsClean
  <1> QED BY <1>4, <1>8 DEF IsDirty

\* A buffer that shows clean holds what is on disk once everything was delivered, or
\* the column is still to look at the file, whatever saves, answers and reloads crossed
\* (bridge.js markSaved, EditorColumn handleSave, reloadFromDisk, checkDisk).
THEOREM CleanMeansOnDisk == Spec => []CleanIsOnDisk
  <1>1. Init => CleanInv
    BY InitFile DEF CleanInv
  <1>2. Inv /\ CleanInv /\ [Next]_vars => CleanInv'
    BY NextClean
  <1>3. Inv /\ CleanInv => CleanIsOnDisk
    BY QuietClean
  <1> QED BY <1>1, <1>2, <1>3, Invariant, PTL DEF Spec
=============================================================================
