-------------------------- MODULE MergeQueue_proofs --------------------------
(***************************************************************************)
(* Proofs about the merge queue: MergeQueueEngine by itself, whatever      *)
(* GitHub answers, and MergeQueueGitHub, the engine and its driver against *)
(* a repository that others change between any two reads.                  *)
(*                                                                         *)
(* Of the engine: whatever is answered, in any order, its state is well    *)
(* typed, it never sends a call again, it works in the confirmed order,    *)
(* and it always has an answer to wait for. Every handler makes one of     *)
(* four moves: it asks (a read), sends (a call that changes GitHub),       *)
(* stops, or advances to the next entry. One lemma for each handler says   *)
(* which; one lemma for each move shows that it keeps the inductive        *)
(* invariant.                                                              *)
(*                                                                         *)
(* With the repository, the argument is about what an answer is still      *)
(* worth when the engine acts on it. A read is true when it is made        *)
(* (ReadTold), and what the engine takes from it stays true whatever       *)
(* happens next, since commits, heads and merges are only added (Grows,    *)
(* and the lemmas named ...Kept). So a request's purpose rests on facts of *)
(* the repository (Grounded), an entry past its merge on how it was merged *)
(* (Through), and the heads an entry calls its own on how they were made   *)
(* (Chain). Each handler keeps those (the lemmas named ...Learns); each    *)
(* step keeps the whole (...Step).                                         *)
(***************************************************************************)
EXTENDS MergeQueueGitHub, SequenceTheorems, TLAPS

-----------------------------------------------------------------------------
(* The inductive invariant *)

\* Purposes of the requests made once an entry's merge was sent.
AfterMerge == {"merge", "mergeConfirm", "postMerge", "postMergeOutcome"}

\* Purposes of the reads that look for the effect of an answered call.
Unseen == {"updatePoll", "updateFailed", "mergeConfirm"}

\* Purposes of the reads whose answer may send a call.
Deciding == {"behind", "checks", "mergeChecks"}

Waits == Nullable(0..AgeCap)

\* Outside a pause, no wait has a negative age.
Aged ==
    phase \in {"idle", "running", "stopping"} \/ (phase = "paused" /\ request.after = 0)
        => /\ clocks.step \in 0..AgeCap
           /\ clocks.agentBusy \in Waits
           /\ clocks.unknown \in Waits
           /\ clocks.baseRuns \in Waits
           /\ failing \in Waits

\* A request has its purpose, and its action is that purpose's.
Matched ==
    request # None =>
        /\ purpose \in Purpose
        /\ request.action = "updateBranch" <=> purpose.kind = "update"
        /\ request.action = "rerun" <=> purpose.kind = "rerun"
        /\ request.action = "merge" <=> purpose.kind = "merge"
        /\ purpose.kind = "start" <=> current = 0
        /\ purpose.kind = "updateBase" => purpose.head \in Commit
        /\ purpose.kind = "updateCommit" => purpose.other \in Commit

\* The entries before the current one are done, those after it wait.
Order ==
    /\ phase = "idle" => current = 0
    /\ phase = "finished" => current = 0 /\ \A i \in 1..N : entries[i].step = "done"
    /\ current = 0 /\ phase # "finished" =>
           \A i \in 1..N : entries[i].step = "waiting"
    /\ current # 0 =>
           \A i \in 1..N : /\ i < current => entries[i].step = "done"
                           /\ i > current => entries[i].step = "waiting"
    /\ current # 0 => entries[current].step \notin {"waiting", "done"}

\* What was sent is what the entries say was sent.
Counted ==
    \A i \in 1..N :
        /\ sent[i]["updateBranch"] = entries[i].updates
        /\ entries[i].updates <= MaxUpdates
        /\ sent[i]["rerun"] = IF entries[i].hasRerun THEN 1 ELSE 0
        /\ sent[i]["merge"] <= 1
        /\ entries[i].step = "waiting" => \A m \in Mutation : sent[i][m] = 0
        /\ i = current /\ request # None /\ purpose.kind \notin AfterMerge
              => sent[i]["merge"] = 0

\* The purposes whose head may be none of the entry's own: no head yet, one
\* still to be checked, or a merge commit.
Headless == {"start", "preflight", "updateBase", "postMerge", "postMergeOutcome"}

\* Every other request is about a head of the current entry.
Owned ==
    request # None /\ purpose.kind \notin Headless
        => purpose.head \in entries[current].heads

IInv ==
    TypeOK /\ NeverStranded /\ Aged /\ Matched /\ Order /\ Counted /\ Owned

-----------------------------------------------------------------------------
(* The four moves *)

\* The clocks after a move that goes on.
Timed ==
    /\ clocks' \in Clocks
    /\ clocks'.step \in 0..AgeCap
    /\ clocks'.agentBusy \in Waits
    /\ clocks'.unknown \in Waits
    /\ clocks'.baseRuns \in Waits
    /\ failing' \in Waits

\* Only the current entry changes, to a step of work, with these counts.
Worked(updates, hasRerun) ==
    /\ entries' \in [1..N -> Entry]
    /\ \A i \in 1..N \ {current} : entries'[i] = entries[i]
    /\ entries'[current].step \notin {"waiting", "done"}
    /\ entries'[current].updates = updates
    /\ entries'[current].hasRerun = hasRerun
    /\ entries[current].heads \subseteq entries'[current].heads

Asks ==
    /\ phase' = "running"
    /\ current # 0
    /\ UNCHANGED <<reason, current, sent>>
    /\ request' \in ReadRequest
    /\ purpose' \in Purpose
    /\ purpose'.kind \notin {"start", "update", "rerun", "merge"}
    /\ purpose.kind \in AfterMerge => purpose'.kind \in AfterMerge
    /\ purpose'.kind \in Unseen => request.action # "read" \/ purpose.kind \in Unseen
    /\ purpose'.kind = "updateBase" => purpose'.head \in Commit
    /\ purpose'.kind = "updateCommit" => purpose'.other \in Commit
    /\ purpose'.kind \notin Headless => purpose'.head \in entries'[current].heads
    /\ Worked(entries[current].updates, entries[current].hasRerun)
    /\ Timed
    /\ failedAtStart' = failedAtStart

Sends(m, kind) ==
    /\ phase' = "running"
    /\ current # 0
    /\ UNCHANGED <<reason, current>>
    /\ request' \in MutateRequest /\ request'.action = m
    /\ purpose' \in Purpose /\ purpose'.kind = kind
    /\ purpose'.kind \notin Headless => purpose'.head \in entries'[current].heads
    /\ request.action = "read"
    /\ purpose.kind \notin AfterMerge \cup Unseen
    /\ sent' = [sent EXCEPT ![current][m] = @ + 1]
    /\ Timed
    /\ failedAtStart' = failedAtStart

SendsUpdate ==
    /\ Sends("updateBranch", "update")
    /\ entries[current].updates < MaxUpdates
    /\ Worked(entries[current].updates + 1, entries[current].hasRerun)

SendsRerun ==
    /\ Sends("rerun", "rerun")
    /\ ~entries[current].hasRerun
    /\ Worked(entries[current].updates, TRUE)

SendsMerge ==
    /\ Sends("merge", "merge")
    /\ Worked(entries[current].updates, entries[current].hasRerun)

Stops ==
    /\ phase' = "stopped"
    /\ reason' \in StopKind
    /\ request' = None
    /\ purpose' = None
    /\ UNCHANGED <<current, sent>>
    /\ clocks' \in Clocks
    /\ failing' \in Nullable(Age)
    /\ failedAtStart' \subseteq BaseRun \X (1..2)
    /\ IF current = 0 THEN entries' = entries
       ELSE Worked(entries[current].updates, entries[current].hasRerun)

\* The current entry, if any, is done, and the next one, if any, begins.
Advances ==
    /\ request.action = "read"
    /\ \E es \in [1..N -> Entry] :
         /\ Advance(es)
         /\ current = 0 => es = entries
         /\ current # 0 =>
              /\ \A i \in 1..N \ {current} : es[i] = entries[i]
              /\ es[current].step = "done"
              /\ es[current].updates = entries[current].updates
              /\ es[current].hasRerun = entries[current].hasRerun
    /\ failing' \in Waits
    /\ failedAtStart' \subseteq BaseRun \X (1..2)

Moves == Asks \/ SendsUpdate \/ SendsRerun \/ SendsMerge \/ Stops \/ Advances

-----------------------------------------------------------------------------
(* Every move keeps the invariant *)

LEMMA AsksKeeps == IInv /\ request # None /\ Asks => IInv'
  <1> SUFFICES ASSUME IInv, request # None, Asks PROVE IInv'
    OBVIOUS
  <1> USE DEF IInv, Asks
  <1>1. TypeOK'
    BY DEF TypeOK, Timed, Worked, Phase, Nullable, Waits, Age
  <1>2. NeverStranded'
    BY NoneAssumption DEF NeverStranded, Active, ReadRequest
  <1>3. Aged'
    BY DEF Aged, Timed
  <1>4. Matched'
    BY DEF Matched, ReadRequest
  <1>5. Order'
    BY DEF Order, Worked, TypeOK
  <1>6. Counted'
    BY DEF Counted, Worked, TypeOK, Order
  <1>7. Owned'
    BY DEF Owned
  <1> QED BY <1>1, <1>2, <1>3, <1>4, <1>5, <1>6, <1>7

LEMMA StopsKeeps == IInv /\ request # None /\ Stops => IInv'
  <1> SUFFICES ASSUME IInv, request # None, Stops PROVE IInv'
    OBVIOUS
  <1> USE DEF IInv, Stops
  <1>1. TypeOK'
    BY DEF TypeOK, Worked, Phase, Nullable
  <1>2. NeverStranded'
    BY DEF NeverStranded, Active
  <1>3. Aged'
    BY DEF Aged
  <1>4. Matched'
    BY DEF Matched
  <1>5. Order'
    BY DEF Order, Worked, TypeOK, NeverStranded, Active
  <1>6. Counted'
    BY DEF Counted, Worked, TypeOK, Order
  <1>7. Owned'
    BY DEF Owned
  <1> QED BY <1>1, <1>2, <1>3, <1>4, <1>5, <1>6, <1>7

\* A call that changes GitHub, of any kind: what does not depend on which.
LEMMA SendsKeeps ==
  ASSUME IInv, request # None, NEW m \in Mutation, NEW kind \in PurposeKind,
         Sends(m, kind),
         <<m, kind>> \in {<<"updateBranch", "update">>, <<"rerun", "rerun">>,
                          <<"merge", "merge">>},
         NEW updates, NEW hasRerun, Worked(updates, hasRerun)
  PROVE  TypeOK' /\ NeverStranded' /\ Aged' /\ Matched' /\ Order' /\ Owned'
  <1> USE DEF IInv, Sends
  <1>1. TypeOK'
    BY DEF TypeOK, Timed, Worked, Phase, Nullable, Waits, Age, Mutation
  <1>2. NeverStranded'
    BY NoneAssumption DEF NeverStranded, Active, MutateRequest
  <1>3. Aged'
    BY DEF Aged, Timed
  <1>4. Matched'
    BY DEF Matched, MutateRequest
  <1>5. Order'
    BY DEF Order, Worked, TypeOK
  <1>6. Owned'
    BY DEF Owned
  <1> QED BY <1>1, <1>2, <1>3, <1>4, <1>5, <1>6

LEMMA SendsUpdateKeeps == IInv /\ request # None /\ SendsUpdate => IInv'
  <1> SUFFICES ASSUME IInv, request # None, SendsUpdate PROVE IInv'
    OBVIOUS
  <1>1. TypeOK' /\ NeverStranded' /\ Aged' /\ Matched' /\ Order' /\ Owned'
    BY SendsKeeps DEF SendsUpdate, Mutation, PurposeKind
  <1>2. Counted'
    BY SettingsAssumption
    DEF IInv, SendsUpdate, Sends, Counted, Worked, TypeOK, Entry, Order,
        AfterMerge, Mutation
  <1> QED BY <1>1, <1>2 DEF IInv

LEMMA SendsRerunKeeps == IInv /\ request # None /\ SendsRerun => IInv'
  <1> SUFFICES ASSUME IInv, request # None, SendsRerun PROVE IInv'
    OBVIOUS
  <1>1. TypeOK' /\ NeverStranded' /\ Aged' /\ Matched' /\ Order' /\ Owned'
    BY SendsKeeps DEF SendsRerun, Mutation, PurposeKind
  <1>2. Counted'
    BY DEF IInv, SendsRerun, Sends, Counted, Worked, TypeOK, Order, AfterMerge,
           Mutation
  <1> QED BY <1>1, <1>2 DEF IInv

LEMMA SendsMergeKeeps == IInv /\ request # None /\ SendsMerge => IInv'
  <1> SUFFICES ASSUME IInv, request # None, SendsMerge PROVE IInv'
    OBVIOUS
  <1>1. TypeOK' /\ NeverStranded' /\ Aged' /\ Matched' /\ Order' /\ Owned'
    BY SendsKeeps DEF SendsMerge, Mutation, PurposeKind
  <1>2. Counted'
    BY DEF IInv, SendsMerge, Sends, Counted, Worked, TypeOK, Order, AfterMerge,
           Mutation
  <1> QED BY <1>1, <1>2 DEF IInv

LEMMA AdvancesKeeps == IInv /\ request # None /\ Advances => IInv'
  <1> SUFFICES ASSUME IInv, request # None, Advances PROVE IInv'
    OBVIOUS
  <1>1. PICK es \in [1..N -> Entry] :
          /\ Advance(es)
          /\ current = 0 => es = entries
          /\ current # 0 =>
               /\ \A i \in 1..N \ {current} : es[i] = entries[i]
               /\ es[current].step = "done"
               /\ es[current].updates = entries[current].updates
               /\ es[current].hasRerun = entries[current].hasRerun
    BY DEF Advances
  <1>2. failing' \in Waits /\ failedAtStart' \subseteq BaseRun \X (1..2)
    BY DEF Advances
  <1>3. phase # "finished"
    BY DEF IInv, NeverStranded, Active
  <1> DEFINE waiting == {i \in 1..N : es[i].step = "waiting"}
  <1>4. CASE waiting = {}
    <2>1. phase' = "finished" /\ current' = 0 /\ entries' = es /\ request' = None
          /\ UNCHANGED <<reason, purpose, clocks, sent>>
      BY <1>1, <1>4 DEF Advance
    <2>2. TypeOK'
      BY <1>2, <2>1, NAssumption DEF IInv, TypeOK, Phase, Nullable, Waits, Age
    <2>3. \A i \in 1..N : es[i].step = "done"
      BY <1>1, <1>3, <1>4 DEF IInv, Order, TypeOK
    <2>4. Order' /\ NeverStranded' /\ Aged' /\ Matched' /\ Owned'
      BY <2>1, <2>3 DEF Owned, Order, NeverStranded, Aged, Matched, Active
    <2>5. Counted'
      BY <1>1, <2>1, <2>3 DEF IInv, Counted, TypeOK
    <2> QED BY <2>2, <2>4, <2>5 DEF IInv
  <1>5. CASE waiting # {}
    <2>1. PICK next \in waiting :
            /\ \A i \in waiting : next <= i
            /\ phase' = "running"
            /\ current' = next
            /\ entries' = [es EXCEPT ![next].step = "preflight"]
            /\ clocks' = FreshClocks
            /\ request' = [action |-> "read", reads |-> <<"pullRequest">>,
                           after |-> 0]
            /\ purpose' = For("preflight", None, None)
            /\ UNCHANGED <<reason, sent>>
      BY <1>1, <1>5 DEF Advance
    <2>2. request' \in ReadRequest
      BY <2>1 DEF ReadRequest, ReadName
    <2>3. purpose' \in Purpose /\ purpose'.kind = "preflight"
      BY <2>1 DEF Purpose, PurposeKind, For, Nullable
    <2>4. FreshClocks \in Clocks
      BY LimitAssumption DEF FreshClocks, Clocks, Age, Nullable
    <2>5. TypeOK'
      BY <1>2, <2>1, <2>2, <2>3, <2>4
      DEF IInv, TypeOK, Phase, Nullable, Waits, Age, Entry, StepName
    <2>6. NeverStranded' /\ Aged'
      BY <1>2, <2>1, <2>2, NoneAssumption, LimitAssumption
      DEF NeverStranded, Active, Aged, FreshClocks, Waits, Nullable
    <2>7. Matched' /\ Owned'
      BY <2>1, <2>2, <2>3 DEF Matched, Owned, Headless, ReadRequest
    <2>8. Order'
      <3>1. \A i \in 1..N : i < next => es[i].step = "done"
        BY <1>1, <1>3, <2>1 DEF IInv, Order, TypeOK
      <3>2. ASSUME current # 0 PROVE next > current
        <4>1. next \in 1..N /\ es[next].step = "waiting" /\ current \in 1..N
          BY <3>2 DEF IInv, TypeOK
        <4>2. next # current
          BY <1>1, <3>2, <4>1
        <4>3. entries[next].step = "waiting"
          BY <1>1, <3>2, <4>1, <4>2
        <4> QED BY <3>2, <4>1, <4>2, <4>3 DEF IInv, Order
      <3>3. \A i \in 1..N : i > next => entries[i].step = "waiting"
        BY <1>3, <3>2 DEF IInv, Order, TypeOK
      <3>4. \A i \in 1..N : i > next => es[i] = entries[i]
        BY <1>1, <3>2 DEF IInv, TypeOK
      <3> QED BY <2>1, <3>1, <3>3, <3>4 DEF Order
    <2>9. Counted'
      <3>1. next # current
        BY <1>1, <2>1
      <3>2. es[next] = entries[next]
        BY <1>1, <3>1 DEF IInv, TypeOK
      <3> QED BY <1>1, <2>1, <2>3, <3>1, <3>2
              DEF IInv, Counted, TypeOK, Entry, AfterMerge, Mutation
    <2> QED BY <2>5, <2>6, <2>7, <2>8, <2>9 DEF IInv
  <1> QED BY <1>4, <1>5

LEMMA MovesKeep == IInv /\ request # None /\ Moves => IInv'
  BY AsksKeeps, StopsKeeps, SendsUpdateKeeps, SendsRerunKeeps, SendsMergeKeeps,
     AdvancesKeeps DEF Moves

-----------------------------------------------------------------------------
(* Every handler makes one of the moves *)

\* An answer is being handled, and an entry is being worked on.
Working ==
    /\ IInv
    /\ request # None
    /\ request.after = 0
    /\ current # 0
    /\ failing' \in Waits
    /\ failedAtStart' = failedAtStart

LEMMA Known ==
  ASSUME Working
  PROVE  /\ current \in 1..N
         /\ entries \in [1..N -> Entry]
         /\ entries[current] \in Entry
         /\ entries[current].step \notin {"waiting", "done"}
         /\ purpose \in Purpose
         /\ clocks \in Clocks
         /\ clocks.step \in 0..AgeCap
         /\ clocks.agentBusy \in Waits
         /\ clocks.unknown \in Waits
         /\ clocks.baseRuns \in Waits
         /\ failing' \in Waits
         /\ failedAtStart' = failedAtStart
         /\ entries[current].heads \subseteq Commit
         /\ entries[current].heads \subseteq Nullable(Commit)
         /\ purpose.kind \notin Headless => purpose.head \in entries[current].heads
  BY DEF Working, IInv, TypeOK, NeverStranded, Active, Aged, Order, Matched,
         Owned, Nullable, Entry

LEMMA AnsweredWorks ==
  ASSUME IInv, NEW kind, kind # "start", Answered(kind),
         failedAtStart' = failedAtStart
  PROVE  Working /\ purpose.kind = kind /\ request.action = "read"
  BY DEF Answered, Working, Matched, IInv, Waits, Nullable

LEMMA WaitBegins == ASSUME NEW age \in Waits PROVE Begun(age) \in 0..AgeCap
  BY LimitAssumption DEF Waits, Nullable, Begun

LEMMA ForPurpose ==
  ASSUME NEW kind \in PurposeKind, NEW head \in Nullable(Commit),
         NEW other \in Nullable(Commit)
  PROVE  /\ For(kind, head, other) \in Purpose
         /\ For(kind, head, other).kind = kind
         /\ For(kind, head, other).head = head
         /\ For(kind, head, other).other = other
  BY DEF For, Purpose, Nullable

\* Moves that only change the step of the current entry.
LEMMA StepWorks ==
  ASSUME Working, NEW step \in StepName \ {"waiting", "done"},
         entries' = Entries(step)
  PROVE  Worked(entries[current].updates, entries[current].hasRerun)
  BY Known DEF Entries, Worked, Entry

LEMMA SameWorks ==
  ASSUME Working, entries' = entries
  PROVE  Worked(entries[current].updates, entries[current].hasRerun)
  BY Known DEF Worked

PlainKind == PurposeKind \ ({"start", "update", "rerun", "merge"} \cup Unseen)

\* A read asked for, about a head that is the entry's own, if any.
LEMMA AskOwnMoves ==
  ASSUME Working, purpose.kind \notin AfterMerge,
         NEW reads \in Seq(ReadName), NEW after \in {0, 1},
         NEW kind \in PlainKind,
         NEW head \in Nullable(Commit), NEW other \in Nullable(Commit),
         kind = "updateBase" => head \in Commit,
         kind = "updateCommit" => other \in Commit,
         kind \notin Headless => head \in entries'[current].heads,
         Ask(reads, after, For(kind, head, other)),
         Worked(entries[current].updates, entries[current].hasRerun),
         Timed
  PROVE  Moves
  <1>1. request' \in ReadRequest
    BY DEF Ask, ReadRequest
  <1> QED BY <1>1, ForPurpose DEF Ask, Asks, Moves, Working, PlainKind

LEMMA AskMoves ==
  ASSUME Working, purpose.kind \notin AfterMerge,
         NEW reads \in Seq(ReadName), NEW after \in {0, 1},
         NEW kind \in PlainKind,
         NEW head \in Nullable(Commit), NEW other \in Nullable(Commit),
         kind = "updateBase" => head \in Commit,
         kind = "updateCommit" => other \in Commit,
         kind \notin Headless => head \in entries[current].heads,
         Ask(reads, after, For(kind, head, other)),
         Worked(entries[current].updates, entries[current].hasRerun),
         Timed
  PROVE  Moves
  <1>1. kind \notin Headless => head \in entries'[current].heads
    BY DEF Worked
  <1> QED BY <1>1, AskOwnMoves

\* The waits after a move: those of before, or begun, or cleared.
LEMMA SameTimes == Working /\ clocks' = clocks => Timed
  BY Known DEF Timed

LEMMA WaitsAreAges ==
  /\ 0 \in Age /\ 0 \in 0..AgeCap /\ 0..AgeCap \subseteq Age
  /\ None \in Nullable(Age) /\ None \in Waits /\ 0..AgeCap \subseteq Waits
  /\ Waits \subseteq Nullable(Age)
  BY LimitAssumption DEF Age, Waits, Nullable

LEMMA ClocksExcept ==
  ASSUME NEW c \in Clocks, NEW step \in Age, NEW agent \in Nullable(Age),
         NEW unknown \in Nullable(Age), NEW onBase \in Nullable(Age),
         NEW awaited \in SUBSET BaseRun, NEW replaced \in SUBSET CheckRun
  PROVE  /\ [c EXCEPT !.step = step] \in Clocks
         /\ [c EXCEPT !.agentBusy = agent] \in Clocks
         /\ [c EXCEPT !.unknown = unknown] \in Clocks
         /\ [c EXCEPT !.unknown = unknown, !.agentBusy = agent] \in Clocks
         /\ [c EXCEPT !.step = step, !.unknown = unknown] \in Clocks
         /\ [c EXCEPT !.step = step, !.unknown = unknown, !.baseRuns = onBase]
              \in Clocks
         /\ [c EXCEPT !.step = step, !.replaced = replaced] \in Clocks
         /\ [c EXCEPT !.baseRuns = onBase, !.awaited = awaited] \in Clocks
         /\ [c EXCEPT !.awaited = awaited, !.baseRuns = onBase] \in Clocks
         /\ [c EXCEPT !.step = step, !.agentBusy = agent, !.unknown = unknown,
                      !.baseRuns = onBase] \in Clocks
  BY DEF Clocks

\* A call sent for the current head.
LEMMA DecidesByReading ==
  ASSUME Working, purpose.kind \in Deciding
  PROVE  request.action = "read" /\ purpose.kind \notin AfterMerge \cup Unseen
  BY DEF Working, IInv, TypeOK, Matched, Deciding, AfterMerge, Unseen, Nullable,
         ReadRequest, MutateRequest, Mutation

LEMMA SendMoves ==
  ASSUME Working, purpose.kind \in Deciding, NEW m \in Mutation,
         NEW p \in Purpose, Send(m, p), Timed,
         p.head \in entries'[current].heads
  PROVE  Sends(m, p.kind)
  BY DecidesByReading DEF Send, Sends, MutateRequest, Working

LEMMA StopMoves ==
  ASSUME Working, NEW kind \in StopKind, Stop(kind)
  PROVE  Moves
  <1>1. Worked(entries[current].updates, entries[current].hasRerun)
    BY Known DEF Stop, StopWith, Worked, Entry, StepName
  <1> QED BY <1>1, Known
          DEF Stop, StopWith, Stops, Moves, Working, IInv, TypeOK, Waits, Nullable, Age

\* The same read again, for the same purpose.
LEMMA PollMoves ==
  ASSUME Working, request.action = "read",
         NEW name \in {"pullRequest", "pushRuns"}, Ask(<<name>>, 1, purpose),
         Worked(entries[current].updates, entries[current].hasRerun),
         Timed
  PROVE  Moves
  <1>1. request' \in ReadRequest
    BY DEF Ask, ReadRequest, ReadName
  <1>2. purpose.kind \notin {"start", "update", "rerun", "merge"}
    BY DEF Working, IInv, Matched
  <1>3. purpose.kind \notin Headless => purpose.head \in entries'[current].heads
    BY Known DEF Worked
  <1> QED BY <1>1, <1>2, <1>3 DEF Ask, Asks, Moves, Working, IInv, Matched

LEMMA NewHeadMoves ==
  ASSUME Working, purpose.kind \notin AfterMerge \cup Headless, NEW pr \in Snapshot,
         Ask(<<"commit">>, 0, For("updateCommit", purpose.head, pr.head)),
         UNCHANGED <<entries, clocks>>
  PROVE  Moves
  <1>1. /\ Timed
        /\ Worked(entries[current].updates, entries[current].hasRerun)
    BY SameTimes, SameWorks
  <1>2. /\ <<"commit">> \in Seq(ReadName)
        /\ "updateCommit" \in PlainKind
        /\ purpose.head \in Nullable(Commit)
        /\ pr.head \in Commit
        /\ purpose.head \in entries[current].heads
        /\ pr.head \in Nullable(Commit)
    BY Known DEF ReadName, PlainKind, Unseen, PurposeKind, Nullable, Snapshot, Purpose
  <1> QED BY <1>1, <1>2, AskMoves

LEMMA WaitForChecksMoves ==
  ASSUME Working, purpose.kind \notin AfterMerge, NEW head \in entries[current].heads,
         WaitForChecks(head)
  PROVE  Moves
  <1>1. Timed
    <2>1. clocks' \in Clocks
      BY Known, WaitsAreAges, ClocksExcept DEF WaitForChecks
    <2> QED BY <2>1, Known, WaitsAreAges DEF WaitForChecks, Timed, Clocks
  <1>2. Worked(entries[current].updates, entries[current].hasRerun)
    BY StepWorks DEF WaitForChecks, StepName
  <1>3. Ask(<<"pullRequest", "checks">>, 0, For("checks", head, None))
    BY DEF WaitForChecks
  <1>4. /\ <<"pullRequest", "checks">> \in Seq(ReadName)
        /\ "checks" \in PlainKind
        /\ None \in Nullable(Commit)
        /\ head \in Nullable(Commit)
    BY Known DEF ReadName, PlainKind, Unseen, PurposeKind, Nullable
  <1> QED BY <1>1, <1>2, <1>3, <1>4, AskMoves

LEMMA PollChecksMoves ==
  ASSUME Working, purpose.kind \notin AfterMerge, NEW head \in entries[current].heads,
         NEW cs, PollChecks(head, cs), Timed
  PROVE  Moves
  <1>1. Worked(entries[current].updates, entries[current].hasRerun)
    BY SameWorks DEF PollChecks
  <1>2. Ask(<<"pullRequest", "checks">>, 1, For("checks", head, None))
    BY DEF PollChecks
  <1>3. /\ <<"pullRequest", "checks">> \in Seq(ReadName)
        /\ "checks" \in PlainKind
        /\ None \in Nullable(Commit)
        /\ head \in Nullable(Commit)
    BY Known DEF ReadName, PlainKind, Unseen, PurposeKind, Nullable
  <1> QED BY <1>1, <1>2, <1>3, AskMoves

LEMMA MergeChecksMoves ==
  ASSUME Working, purpose.kind \notin AfterMerge, NEW head \in entries[current].heads,
         NEW after \in {0, 1}, NEW cs, MergeChecks(head, after, cs), Timed
  PROVE  Moves
  <1>1. Worked(entries[current].updates, entries[current].hasRerun)
    BY StepWorks DEF MergeChecks, StepName
  <1> DEFINE reads == <<"pullRequest", "checks", "compare", "local">>
                        \o IF HasWorkflow THEN <<"baseRuns">> ELSE <<>>
  <1>2. reads \in Seq(ReadName)
    <2>1. /\ <<"pullRequest", "checks", "compare", "local">> \in Seq(ReadName)
          /\ <<"baseRuns">> \in Seq(ReadName)
          /\ << >> \in Seq(ReadName)
      BY DEF ReadName
    <2> QED BY <2>1
  <1>3. Ask(reads, after, For("mergeChecks", head, None))
    BY DEF MergeChecks
  <1>4. /\ "mergeChecks" \in PlainKind
        /\ None \in Nullable(Commit)
        /\ head \in Nullable(Commit)
    BY Known DEF PlainKind, Unseen, PurposeKind, Nullable
  <1> HIDE DEF reads
  <1> QED BY <1>1, <1>2, <1>3, <1>4, AskMoves

LEMMA BehindByMoves ==
  ASSUME Working, purpose.kind \in Deciding, NEW head \in entries[current].heads,
         NEW count \in Nat, BehindBy(count, head)
  PROVE  Moves
  <1>1. CASE count = 0
    BY <1>1, DecidesByReading, WaitForChecksMoves DEF BehindBy
  <1>2. CASE count # 0 /\ entries[current].updates >= MaxUpdates
    BY <1>2, StopMoves DEF BehindBy, StopKind
  <1>3. CASE count # 0 /\ ~(entries[current].updates >= MaxUpdates)
    <2>1. Timed
      <3>1. clocks' = [clocks EXCEPT !.step = 0, !.unknown = None,
                                     !.baseRuns = None]
        BY <1>3 DEF BehindBy
      <3>2. clocks' \in Clocks
        BY <3>1, Known, WaitsAreAges, ClocksExcept
      <3> QED BY <3>1, <3>2, Known, WaitsAreAges DEF Timed, Clocks
    <2>2. Worked(entries[current].updates + 1, entries[current].hasRerun)
      <3>1. entries' = [entries EXCEPT ![current].updates = @ + 1,
                                       ![current].step = "updating"]
        BY <1>3 DEF BehindBy
      <3>2. /\ entries'[current] = [entries[current] EXCEPT
                                      !.updates = @ + 1, !.step = "updating"]
            /\ \A i \in 1..N \ {current} : entries'[i] = entries[i]
            /\ entries' \in [1..N -> Entry] <=> entries'[current] \in Entry
        BY <3>1, Known
      <3>3. entries[current].updates + 1 \in Nat
        BY Known DEF Entry
      <3>4. entries'[current] \in Entry
        BY <3>2, <3>3, Known DEF Entry, StepName
      <3> QED BY <3>2, <3>4, Known DEF Worked, Entry
    <2>3. Send("updateBranch", For("update", head, None))
      BY <1>3 DEF BehindBy
    <2>4. Sends("updateBranch", "update")
      <3>1. /\ For("update", head, None) \in Purpose
            /\ For("update", head, None).kind = "update"
            /\ For("update", head, None).head = head
        BY Known, ForPurpose DEF PurposeKind, Nullable
      <3>2. head \in entries'[current].heads
        BY <2>2 DEF Worked
      <3> QED BY <2>1, <2>3, <3>1, <3>2, SendMoves DEF Mutation
    <2>5. entries[current].updates < MaxUpdates
      BY <1>3, Known, SettingsAssumption DEF Entry
    <2> QED BY <2>2, <2>4, <2>5 DEF SendsUpdate, Moves
  <1> QED BY <1>1, <1>2, <1>3

LEMMA ChecksFailedMoves ==
  ASSUME Working, purpose.kind \in Deciding, NEW head \in entries[current].heads,
         NEW checks \in Checks, ChecksFailed(checks, head)
  PROVE  Moves
  <1>1. CASE Stop("checks")
    BY <1>1, StopMoves DEF StopKind
  <1>2. CASE PollChecks(head, clocks)
    BY <1>2, DecidesByReading, SameTimes, PollChecksMoves DEF PollChecks
  <1>3. CASE /\ ~entries[current].hasRerun
             /\ Send("rerun", [For("rerun", head, None) EXCEPT
                                 !.replaced = {checks.run}])
             /\ entries' = [entries EXCEPT ![current].hasRerun = TRUE,
                                           ![current].step = "rerunning"]
             /\ UNCHANGED clocks
    <2>1. Timed
      BY <1>3, SameTimes
    <2>2. Worked(entries[current].updates, TRUE)
      BY <1>3, Known DEF Worked, Entry, StepName
    <2>3. Sends("rerun", "rerun")
      <3> DEFINE p == [For("rerun", head, None) EXCEPT !.replaced = {checks.run}]
      <3>1. p \in Purpose /\ p.kind = "rerun" /\ p.head = head
        BY Known DEF For, Purpose, PurposeKind, Nullable, Checks
      <3>2. Send("rerun", p)
        BY <1>3
      <3>3. head \in entries'[current].heads
        BY <2>2 DEF Worked
      <3> HIDE DEF p
      <3>4. Sends("rerun", p.kind)
        BY <2>1, <3>1, <3>2, <3>3, SendMoves DEF Mutation
      <3> QED BY <3>1, <3>4
    <2> QED BY <1>3, <2>2, <2>3 DEF SendsRerun, Moves
  <1> QED BY <1>1, <1>2, <1>3 DEF ChecksFailed

LEMMA DecideMoves ==
  ASSUME Working, purpose.kind \in Deciding, NEW head \in entries[current].heads,
         NEW checks \in Checks, Decide(checks, head)
  PROVE  Moves
  <1>1. CASE ChecksFailed(checks, head)
    BY <1>1, ChecksFailedMoves
  <1>2. CASE Stop("checks")
    BY <1>2, StopMoves DEF StopKind
  <1>3. CASE PollChecks(head, clocks)
    BY <1>3, DecidesByReading, SameTimes, PollChecksMoves DEF PollChecks
  <1>4. CASE MergeChecks(head, 0, clocks)
    BY <1>4, DecidesByReading, SameTimes, MergeChecksMoves DEF MergeChecks
  <1> QED BY <1>1, <1>2, <1>3, <1>4 DEF Decide

-----------------------------------------------------------------------------
(* The handlers of each kind of answer *)

LEMMA PreflightMoves ==
  ASSUME IInv, NEW pr \in Snapshot, Preflight(pr)
  PROVE  Moves
  <1>1. Working /\ purpose.kind = "preflight"
    BY AnsweredWorks DEF Preflight
  <1>2. CASE \E kind \in StopKind : Stop(kind)
    BY <1>1, <1>2, StopMoves
  <1>3. CASE /\ Ask(<<"local">>, 0, For("preflightLocal", pr.head, None))
             /\ UNCHANGED <<entries, clocks>>
             /\ IsConfirmed(pr)
    <2>1. /\ Timed
          /\ Worked(entries[current].updates, entries[current].hasRerun)
      BY <1>1, <1>3, SameTimes, SameWorks
    <2>2. /\ <<"local">> \in Seq(ReadName)
          /\ "preflightLocal" \in PlainKind
          /\ None \in Nullable(Commit)
          /\ pr.head \in Nullable(Commit)
          /\ purpose.kind \notin AfterMerge
          /\ pr.head \in entries[current].heads
      BY <1>1, <1>3 DEF IsConfirmed, ReadName, PlainKind, Unseen, PurposeKind, Nullable, Snapshot, AfterMerge
    <2> QED BY <1>1, <1>3, <2>1, <2>2, AskMoves
  <1> QED BY <1>2, <1>3 DEF Preflight, StopKind

LEMMA PreflightLocalMoves ==
  ASSUME IInv, NEW local \in Local, PreflightLocal(local)
  PROVE  Moves
  <1>1. Working /\ purpose.kind = "preflightLocal"
    BY AnsweredWorks DEF PreflightLocal
  <1>2. /\ <<"pullRequest">> \in Seq(ReadName)
        /\ <<"compare">> \in Seq(ReadName)
        /\ "preflight" \in PlainKind
        /\ "behind" \in PlainKind
        /\ None \in Nullable(Commit)
        /\ purpose.head \in Nullable(Commit)
        /\ purpose.kind \notin AfterMerge
        /\ purpose.head \in entries[current].heads
        /\ "preflight" \in Headless
    BY <1>1, Known DEF ReadName, PlainKind, Unseen, PurposeKind, Nullable, AfterMerge, Purpose, Headless
  <1>3. CASE /\ Ask(<<"pullRequest">>, 1, For("preflight", None, None))
             /\ clocks' = AgentWait
             /\ UNCHANGED entries
    <2>1. Timed
      <3>1. Begun(clocks.agentBusy) \in 0..AgeCap
        BY <1>1, Known, WaitBegins
      <3>2. clocks' = [clocks EXCEPT !.agentBusy = Begun(clocks.agentBusy)]
        BY <1>3 DEF AgentWait
      <3>3. clocks' \in Clocks
        BY <1>1, <3>1, <3>2, Known, WaitsAreAges, ClocksExcept
      <3> QED BY <1>1, <3>1, <3>2, <3>3, Known, WaitsAreAges DEF Timed, Clocks
    <2> QED BY <1>1, <1>2, <1>3, <2>1, SameWorks, AskMoves
  <1>4. CASE HoldForLocal(local)
    BY <1>1, <1>4, StopMoves DEF HoldForLocal, StopKind
  <1>5. CASE /\ Ask(<<"compare">>, 0, For("behind", purpose.head, None))
             /\ clocks' = [clocks EXCEPT !.agentBusy = None]
             /\ UNCHANGED entries
    <2>1. Timed
      <3>1. clocks' \in Clocks
        BY <1>1, <1>5, Known, WaitsAreAges, ClocksExcept
      <3> QED BY <1>1, <1>5, <3>1, Known, WaitsAreAges DEF Timed, Clocks
    <2> QED BY <1>1, <1>2, <1>5, <2>1, SameWorks, AskMoves
  <1> QED BY <1>3, <1>4, <1>5 DEF PreflightLocal

LEMMA BehindMoves ==
  ASSUME IInv, NEW comparison \in Nullable(Comparison), Behind(comparison)
  PROVE  Moves
  <1>1. Working /\ purpose.kind = "behind"
    BY AnsweredWorks DEF Behind
  <1>2. CASE comparison = None
    BY <1>1, <1>2, StopMoves DEF Behind, StopKind
  <1>3. CASE comparison # None
    <2>1. comparison.behindBy \in Nat
      BY <1>3 DEF Nullable, Comparison
    <2>2. purpose.head \in entries[current].heads /\ purpose.kind \in Deciding
      BY <1>1, Known DEF Headless, Deciding
    <2> QED BY <1>1, <1>3, <2>1, <2>2, BehindByMoves DEF Behind
  <1> QED BY <1>2, <1>3

LEMMA UpdatePolledMoves ==
  ASSUME IInv, NEW pr \in Snapshot, UpdatePolled(pr)
  PROVE  Moves
  <1>1. Working /\ purpose.kind = "updatePoll" /\ request.action = "read"
    BY AnsweredWorks DEF UpdatePolled
  <1>2. CASE \E kind \in StopKind : Stop(kind)
    BY <1>1, <1>2, StopMoves
  <1>3. CASE /\ \/ Ask(<<"commit">>, 0, For("updateCommit", purpose.head, pr.head))
                \/ Ask(<<"pullRequest">>, 1, purpose)
             /\ UNCHANGED <<entries, clocks>>
    BY <1>1, <1>3, PollMoves, NewHeadMoves, SameTimes, SameWorks DEF AfterMerge, Headless
  <1> QED BY <1>2, <1>3 DEF UpdatePolled, StopKind

LEMMA UpdateFailedMoves ==
  ASSUME IInv, NEW pr \in Snapshot, UpdateFailedRead(pr)
  PROVE  Moves
  <1>1. Working /\ purpose.kind = "updateFailed"
    BY AnsweredWorks DEF UpdateFailedRead
  <1>2. CASE \E kind \in StopKind : Stop(kind)
    BY <1>1, <1>2, StopMoves
  <1>3. CASE /\ Ask(<<"commit">>, 0, For("updateCommit", purpose.head, pr.head))
             /\ UNCHANGED <<entries, clocks>>
    BY <1>1, <1>3, NewHeadMoves DEF AfterMerge, Headless
  <1> QED BY <1>2, <1>3 DEF UpdateFailedRead, StopKind

LEMMA UpdateRefusedMoves ==
  ASSUME IInv, NEW pr \in Snapshot, UpdateRefused(pr)
  PROVE  Moves
  <1>1. Working /\ purpose.kind = "update422" /\ request.action = "read"
    BY AnsweredWorks DEF UpdateRefused
  <1>2. CASE \E kind \in StopKind : Stop(kind)
    BY <1>1, <1>2, StopMoves
  <1>3. CASE WaitForChecks(purpose.head)
    BY <1>1, <1>3, Known, WaitForChecksMoves DEF Headless, AfterMerge
  <1>4. CASE /\ Ask(<<"pullRequest">>, 1, purpose)
             /\ clocks' = UnknownWait
             /\ UNCHANGED entries
    <2>1. Timed
      <3>1. Begun(clocks.unknown) \in 0..AgeCap
        BY <1>1, Known, WaitBegins
      <3>2. clocks' = [clocks EXCEPT !.unknown = Begun(clocks.unknown)]
        BY <1>4 DEF UnknownWait
      <3>3. clocks' \in Clocks
        BY <1>1, <3>1, <3>2, Known, WaitsAreAges, ClocksExcept
      <3> QED BY <1>1, <3>1, <3>2, <3>3, Known, WaitsAreAges DEF Timed, Clocks
    <2> QED BY <1>1, <1>4, <2>1, SameWorks, PollMoves
  <1> QED BY <1>2, <1>3, <1>4 DEF UpdateRefused, StopKind

LEMMA UpdateCommitMoves ==
  ASSUME IInv, NEW commit \in CommitInfo, UpdateCommitRead(commit)
  PROVE  Moves
  <1>1. Working /\ purpose.kind = "updateCommit"
    BY AnsweredWorks DEF UpdateCommitRead
  <1>2. CASE Stop("changed")
    BY <1>1, <1>2, StopMoves DEF StopKind
  <1>3. CASE /\ Ask(<<"baseOf">>, 0,
                    For("updateBase", purpose.other, commit.merged))
             /\ UNCHANGED <<entries, clocks>>
    <2>1. /\ Timed
          /\ Worked(entries[current].updates, entries[current].hasRerun)
      BY <1>1, <1>3, SameTimes, SameWorks
    <2>2. purpose.other \in Commit
      BY <1>1 DEF Working, IInv, Matched
    <2>3. /\ <<"baseOf">> \in Seq(ReadName)
          /\ "updateBase" \in PlainKind
          /\ purpose.other \in Nullable(Commit)
          /\ commit.merged \in Nullable(Commit)
          /\ purpose.kind \notin AfterMerge
          /\ "updateBase" \in Headless
      BY <1>1, <2>2 DEF Headless, ReadName, PlainKind, Unseen, PurposeKind, Nullable, CommitInfo, AfterMerge
    <2> QED BY <1>1, <1>3, <2>1, <2>2, <2>3, AskMoves
  <1> QED BY <1>2, <1>3 DEF UpdateCommitRead

LEMMA UpdateBaseMoves ==
  ASSUME IInv, NEW comparison \in Nullable(Comparison), UpdateBaseRead(comparison)
  PROVE  Moves
  <1>1. Working /\ purpose.kind = "updateBase"
    BY AnsweredWorks DEF UpdateBaseRead
  <1>2. CASE Stop("changed")
    BY <1>1, <1>2, StopMoves DEF StopKind
  <1>3. CASE /\ entries' = [entries EXCEPT ![current].heads = @ \cup {purpose.head}]
             /\ Ask(<<"compare">>, 0, For("behind", purpose.head, None))
             /\ UNCHANGED clocks
    <2>1. Timed
      BY <1>1, <1>3, SameTimes
    <2>2. purpose.head \in Commit
      BY <1>1 DEF Working, IInv, Matched
    <2>3. Worked(entries[current].updates, entries[current].hasRerun)
      BY <1>1, <1>3, <2>2, Known DEF Worked, Entry
    <2>4. /\ <<"compare">> \in Seq(ReadName)
          /\ "behind" \in PlainKind
          /\ purpose.head \in Nullable(Commit)
          /\ None \in Nullable(Commit)
          /\ purpose.kind \notin AfterMerge
      BY <1>1, <2>2 DEF ReadName, PlainKind, Unseen, PurposeKind, Nullable, AfterMerge
    <2>5. purpose.head \in entries'[current].heads
      BY <1>1, <1>3, Known
    <2> QED BY <1>1, <1>3, <2>1, <2>3, <2>4, <2>5, AskOwnMoves
  <1> QED BY <1>2, <1>3 DEF UpdateBaseRead

LEMMA ChecksReadMoves ==
  ASSUME IInv, NEW pr \in Snapshot, NEW checks \in Checks, ChecksRead(pr, checks)
  PROVE  Moves
  <1>1. Working /\ purpose.kind = "checks"
    BY AnsweredWorks DEF ChecksRead
  <1>2. CASE \E kind \in StopKind : Stop(kind)
    BY <1>1, <1>2, StopMoves
  <1>3. CASE Decide(checks, purpose.head)
    BY <1>1, <1>3, Known, DecideMoves DEF Headless, Deciding
  <1> QED BY <1>2, <1>3 DEF ChecksRead, StopKind

LEMMA RerunStartedMoves ==
  ASSUME Working, purpose.kind \notin AfterMerge,
         RerunStarted(purpose.head, purpose.replaced),
         purpose.head \in entries[current].heads
  PROVE  Moves
  <1> DEFINE replaced == clocks.replaced \cup purpose.replaced
             cs == [clocks EXCEPT !.step = 0, !.replaced = replaced]
  <1>1. replaced \in SUBSET CheckRun
    BY Known DEF Clocks, Purpose
  <1>2. clocks' = cs
    BY DEF RerunStarted, PollChecks
  <1>3. PollChecks(purpose.head, cs)
    BY DEF RerunStarted
  <1> HIDE DEF replaced
  <1>4. cs \in Clocks
    BY <1>1, Known, WaitsAreAges, ClocksExcept
  <1>5. Timed
    BY <1>2, <1>4, Known, WaitsAreAges DEF Timed, Clocks
  <1>6. purpose.head \in Nullable(Commit)
    BY Known DEF Purpose
  <1> HIDE DEF cs
  <1> QED BY <1>3, <1>5, <1>6, PollChecksMoves

LEMMA RerunCheckedMoves ==
  ASSUME IInv, NEW checks \in Checks, RerunChecked(checks)
  PROVE  Moves
  <1>1. Working /\ purpose.kind = "rerunCheck"
    BY AnsweredWorks DEF RerunChecked
  <1>2. CASE Stop("checks")
    BY <1>1, <1>2, StopMoves DEF StopKind
  <1>3. CASE RerunStarted(purpose.head, purpose.replaced)
    BY <1>1, <1>3, Known, RerunStartedMoves DEF AfterMerge, Headless
  <1> QED BY <1>2, <1>3 DEF RerunChecked

\* The clocks that the last checks before a merge may leave.
LEMMA AgentTimes ==
  ASSUME Working
  PROVE  /\ AgentWait \in Clocks
         /\ [clocks EXCEPT !.agentBusy = None] \in Clocks
         /\ [UnknownWait EXCEPT !.agentBusy = None] \in Clocks
         /\ [[clocks EXCEPT !.agentBusy = None] EXCEPT !.unknown = None] \in Clocks
  <1>1. Begun(clocks.agentBusy) \in Nullable(Age)
        /\ Begun(clocks.unknown) \in Nullable(Age)
    BY Known, WaitBegins, WaitsAreAges
  <1>2. UnknownWait \in Clocks /\ AgentWait \in Clocks
    <2>1. /\ UnknownWait = [clocks EXCEPT !.unknown = Begun(clocks.unknown)]
          /\ AgentWait = [clocks EXCEPT !.agentBusy = Begun(clocks.agentBusy)]
      BY DEF AgentWait, UnknownWait
    <2> QED BY <1>1, <2>1, Known, WaitsAreAges, ClocksExcept
  <1>3. [clocks EXCEPT !.agentBusy = None] \in Clocks
    BY Known, WaitsAreAges, ClocksExcept
  <1> QED BY <1>2, <1>3, WaitsAreAges, ClocksExcept

LEMMA WaitForBaseRunsMoves ==
  ASSUME Working, purpose.kind \notin AfterMerge \cup Headless, NEW runs \in BaseRuns,
         NEW cs \in Clocks, cs.step \in 0..AgeCap, cs.agentBusy \in Waits,
         cs.unknown \in Waits, cs.baseRuns \in Waits,
         BaseRunsSay(runs) # "go", WaitForBaseRuns(runs, purpose.head, cs)
  PROVE  Moves
  <1>1. /\ purpose.head \in Nullable(Commit)
        /\ purpose.head \in entries[current].heads
        /\ purpose.kind \notin AfterMerge
    BY Known
  <1>2. CASE BaseRunsSay(runs) = "stop"
    BY <1>2, StopMoves DEF WaitForBaseRuns, StopKind
  <1>3. CASE BaseRunsSay(runs) = "wait"
    <2> DEFINE awaited == {r \in BaseRun : runs[r] # None
                                             /\ runs[r].state = "unfinished"}
    <2>1. /\ Ask(<<"baseRuns">>, 1, For("baseRunWait", purpose.head, None))
          /\ clocks' = [cs EXCEPT !.baseRuns = Begun(cs.baseRuns),
                                  !.awaited = cs.awaited \cup awaited]
          /\ entries' = entries
      BY <1>3 DEF WaitForBaseRuns
    <2>2. cs.awaited \cup awaited \in SUBSET BaseRun
      BY DEF Clocks
    <2> HIDE DEF awaited
    <2>3. Begun(cs.baseRuns) \in 0..AgeCap
      BY WaitBegins
    <2>4. clocks' \in Clocks
      BY <2>1, <2>2, <2>3, WaitsAreAges, ClocksExcept
    <2>5. Timed
      BY <2>1, <2>3, <2>4, Known, WaitsAreAges DEF Timed, Clocks
    <2>6. /\ <<"baseRuns">> \in Seq(ReadName)
          /\ "baseRunWait" \in PlainKind
          /\ None \in Nullable(Commit)
      BY DEF ReadName, PlainKind, Unseen, PurposeKind, Nullable
    <2> QED BY <1>1, <2>1, <2>5, <2>6, SameWorks, AskMoves
  <1>4. CASE BaseRunsSay(runs) = "again"
    <2> DEFINE c == [cs EXCEPT !.awaited = {}, !.baseRuns = None]
    <2>1. MergeChecks(purpose.head, 0, c)
      BY <1>4 DEF WaitForBaseRuns
    <2>2. c \in Clocks
      BY WaitsAreAges, ClocksExcept
    <2>3. clocks' = c
      BY <2>1 DEF MergeChecks
    <2>4. Timed
      BY <2>2, <2>3, Known, WaitsAreAges DEF Timed, Clocks
    <2> HIDE DEF c
    <2> QED BY <1>1, <2>1, <2>4, MergeChecksMoves
  <1>5. BaseRunsSay(runs) \in {"stop", "wait", "again", "go"}
    BY DEF BaseRunsSay
  <1> QED BY <1>2, <1>3, <1>4, <1>5

LEMMA BaseRunsMoves ==
  ASSUME IInv, NEW runs \in BaseRuns, BaseRunsRead(runs)
  PROVE  Moves
  <1>1. Working /\ purpose.kind = "baseRunWait"
    BY AnsweredWorks DEF BaseRunsRead
  <1>2. /\ purpose.kind \notin AfterMerge
        /\ purpose.kind \notin AfterMerge \cup Headless
        /\ purpose.head \in entries[current].heads
    BY <1>1, Known DEF AfterMerge, Headless
  <1>3. CASE BaseRunsSay(runs) = "go"
    <2>1. MergeChecks(purpose.head, 0, clocks)
      BY <1>3 DEF BaseRunsRead
    <2>2. clocks' = clocks
      BY <2>1 DEF MergeChecks
    <2> QED BY <1>1, <1>2, <2>1, <2>2, SameTimes, MergeChecksMoves
  <1>4. CASE BaseRunsSay(runs) # "go"
    BY <1>1, <1>2, <1>4, Known, WaitForBaseRunsMoves DEF BaseRunsRead
  <1> QED BY <1>3, <1>4

LEMMA MergeChecksReadMoves ==
  ASSUME IInv, NEW pr \in Snapshot, NEW checks \in Checks, NEW local \in Local,
         NEW comparison \in Nullable(Comparison), NEW runs \in BaseRuns,
         MergeChecksRead(pr, checks, comparison, local, runs)
  PROVE  Moves
  <1> DEFINE head == purpose.head
             ready == [[clocks EXCEPT !.agentBusy = None] EXCEPT !.unknown = None]
  <1>1. Working /\ purpose.kind = "mergeChecks"
    BY AnsweredWorks DEF MergeChecksRead
  <1>2. /\ purpose.kind \notin AfterMerge
        /\ purpose.kind \in Deciding
        /\ purpose.kind \notin AfterMerge \cup Headless
        /\ head \in entries[current].heads
        /\ head \in Nullable(Commit)
    BY <1>1, Known DEF AfterMerge, Headless, Deciding
  <1>3. CASE \E kind \in StopKind : Stop(kind)
    BY <1>1, <1>3, StopMoves
  <1>4. CASE comparison # None /\ BehindBy(comparison.behindBy, head)
    <2>1. comparison.behindBy \in Nat
      BY <1>4 DEF Nullable, Comparison
    <2> QED BY <1>1, <1>2, <1>4, <2>1, BehindByMoves
  <1>5. CASE WaitForChecks(head)
    BY <1>1, <1>2, <1>5, WaitForChecksMoves
  <1>6. CASE Decide(checks, head)
    BY <1>1, <1>2, <1>6, DecideMoves
  <1>7. CASE MergeChecks(head, 1, AgentWait)
    <2>1. clocks' = AgentWait /\ Begun(clocks.agentBusy) \in Waits
      BY <1>1, <1>7, Known, WaitBegins, WaitsAreAges DEF MergeChecks
    <2>2. Timed
      BY <1>1, <2>1, Known, AgentTimes DEF Timed, AgentWait, Clocks
    <2> QED BY <1>1, <1>2, <1>7, <2>2, MergeChecksMoves
  <1>8. CASE HoldForLocal(local)
    BY <1>1, <1>8, StopMoves DEF HoldForLocal, StopKind
  <1>9. CASE MergeChecks(head, 1, [UnknownWait EXCEPT !.agentBusy = None])
    <2>1. clocks' = [UnknownWait EXCEPT !.agentBusy = None]
          /\ Begun(clocks.unknown) \in Waits
      BY <1>1, <1>9, Known, WaitBegins, WaitsAreAges DEF MergeChecks
    <2>2. Timed
      BY <1>1, <2>1, Known, AgentTimes, WaitsAreAges DEF Timed, UnknownWait, Clocks
    <2> QED BY <1>1, <1>2, <1>9, <2>2, MergeChecksMoves
  <1>10. CASE BaseRunsSay(runs) # "go" /\ WaitForBaseRuns(runs, head, ready)
    <2>1. /\ ready \in Clocks
          /\ ready.step \in 0..AgeCap
          /\ ready.agentBusy \in Waits
          /\ ready.unknown \in Waits
          /\ ready.baseRuns \in Waits
      BY <1>1, Known, AgentTimes, WaitsAreAges DEF Clocks
    <2> HIDE DEF ready
    <2> QED BY <1>1, <1>2, <1>10, <2>1, WaitForBaseRunsMoves
  <1>11. CASE /\ comparison # None
              /\ Send("merge", For("merge", head, comparison.baseCommit))
              /\ clocks' = ready
              /\ UNCHANGED entries
    <2>1. Timed
      BY <1>1, <1>11, Known, AgentTimes, WaitsAreAges DEF Timed, Clocks
    <2>2. /\ For("merge", head, comparison.baseCommit) \in Purpose
          /\ For("merge", head, comparison.baseCommit).kind = "merge"
          /\ For("merge", head, comparison.baseCommit).head = head
      <3>1. "merge" \in PurposeKind /\ comparison.baseCommit \in Nullable(Commit)
        BY <1>11 DEF PurposeKind, Nullable, Comparison
      <3> QED BY <1>2, <3>1, ForPurpose
    <2>3. head \in entries'[current].heads
      BY <1>2, <1>11
    <2>4. Sends("merge", "merge")
      BY <1>1, <1>2, <1>11, <2>1, <2>2, <2>3, SendMoves DEF Mutation
    <2> QED BY <1>1, <1>11, <2>4, SameWorks DEF SendsMerge, Moves
  <1> QED BY <1>3, <1>4, <1>5, <1>6, <1>7, <1>8, <1>9, <1>10, <1>11
          DEF MergeChecksRead, StopKind

LEMMA AdvanceMoves ==
  ASSUME Working, request.action = "read", NEW es \in [1..N -> Entry], Advance(es),
         \A i \in 1..N \ {current} : es[i] = entries[i],
         es[current].step = "done",
         es[current].updates = entries[current].updates,
         es[current].hasRerun = entries[current].hasRerun
  PROVE  Moves
  <1>1. failedAtStart' \subseteq BaseRun \X (1..2)
    BY DEF Working, IInv, TypeOK
  <1> QED BY <1>1 DEF Advances, Moves, Working

LEMMA MergeConfirmMoves ==
  ASSUME IInv, NEW pr \in Snapshot, MergeConfirmRead(pr)
  PROVE  Moves
  <1> DEFINE merged == [entries EXCEPT ![current].mergeCommit = pr.mergeCommit]
  <1>1. Working /\ purpose.kind = "mergeConfirm" /\ request.action = "read"
    BY AnsweredWorks DEF MergeConfirmRead
  <1>2. pr.mergeCommit \in Nullable(Commit)
    BY DEF Snapshot, Nullable
  <1>3. /\ merged \in [1..N -> Entry]
        /\ \A i \in 1..N \ {current} : merged[i] = entries[i]
        /\ merged[current].step = entries[current].step
        /\ merged[current].updates = entries[current].updates
        /\ merged[current].hasRerun = entries[current].hasRerun
        /\ merged[current].heads = entries[current].heads
    BY <1>1, <1>2, Known DEF Entry
  <1>4. CASE StopWith("merge", merged)
    <2>1. Worked(entries[current].updates, entries[current].hasRerun)
      BY <1>1, <1>3, <1>4, Known DEF StopWith, Worked, Entry, StepName
    <2> QED BY <1>1, <1>4, <2>1, Known
            DEF StopWith, Stops, Moves, Working, IInv, TypeOK, StopKind, Waits,
                Nullable, Age
  <1>5. CASE /\ Ask(<<"pullRequest">>, 1, purpose)
             /\ entries' \in {merged, entries}
             /\ UNCHANGED clocks
    <2>1. Worked(entries[current].updates, entries[current].hasRerun)
      BY <1>1, <1>3, <1>5, Known DEF Worked
    <2> QED BY <1>1, <1>5, <2>1, SameTimes, PollMoves
  <1>6. CASE pr.mergeCommit # None /\ Merged(pr.mergeCommit)
    <2>1. CASE HasWorkflow
      <3>1. /\ Ask(<<"pushRuns">>, 1, For("postMerge", pr.mergeCommit, None))
            /\ entries' = [merged EXCEPT ![current].step = "waitingForPostMerge"]
            /\ clocks' = [clocks EXCEPT !.step = 0]
        BY <1>6, <2>1 DEF Merged
      <3>2. Worked(entries[current].updates, entries[current].hasRerun)
        BY <1>1, <1>3, <3>1, Known DEF Worked, Entry, StepName
      <3>3. clocks' \in Clocks
        BY <1>1, <3>1, Known, WaitsAreAges, ClocksExcept
      <3>4. Timed
        BY <1>1, <3>1, <3>3, Known, WaitsAreAges DEF Timed, Clocks
      <3>5. request' \in ReadRequest
        BY <3>1 DEF Ask, ReadRequest, ReadName
      <3>6. /\ For("postMerge", pr.mergeCommit, None) \in Purpose
            /\ For("postMerge", pr.mergeCommit, None).kind = "postMerge"
        BY <1>2, ForPurpose DEF PurposeKind, Nullable
      <3> QED BY <1>1, <3>1, <3>2, <3>4, <3>5, <3>6
              DEF Ask, Asks, Moves, AfterMerge, Unseen, Headless, Working
    <2>2. CASE ~HasWorkflow
      <3> DEFINE es == [merged EXCEPT ![current].step = "done"]
      <3>1. Advance(es)
        BY <1>6, <2>2 DEF Merged
      <3>2. /\ es \in [1..N -> Entry]
            /\ \A i \in 1..N \ {current} : es[i] = entries[i]
            /\ es[current].step = "done"
            /\ es[current].updates = entries[current].updates
            /\ es[current].hasRerun = entries[current].hasRerun
        BY <1>1, <1>3, Known DEF Entry, StepName
      <3> HIDE DEF es
      <3> QED BY <1>1, <3>1, <3>2, AdvanceMoves
    <2> QED BY <2>1, <2>2
  <1>7. CASE Stop("merge")
    BY <1>1, <1>7, StopMoves DEF StopKind
  <1> QED BY <1>4, <1>5, <1>6, <1>7 DEF MergeConfirmRead

LEMMA PostMergeMoves ==
  ASSUME IInv, NEW run \in Nullable(RunState), PostMergeRead(run)
  PROVE  Moves
  <1>1. Working /\ purpose.kind = "postMerge" /\ request.action = "read"
    BY AnsweredWorks DEF PostMergeRead
  <1>2. CASE Stop("postMerge")
    BY <1>1, <1>2, StopMoves DEF StopKind
  <1>3. CASE /\ Ask(<<"pushRuns">>, 1, purpose)
             /\ UNCHANGED <<entries, clocks>>
    BY <1>1, <1>3, SameTimes, SameWorks, PollMoves
  <1>4. CASE FinishEntry
    <2> DEFINE es == Entries("done")
    <2>1. /\ es \in [1..N -> Entry]
          /\ \A i \in 1..N \ {current} : es[i] = entries[i]
          /\ es[current].step = "done"
          /\ es[current].updates = entries[current].updates
          /\ es[current].hasRerun = entries[current].hasRerun
      BY <1>1, Known DEF Entries, Entry, StepName
    <2>2. Advance(es)
      BY <1>4 DEF FinishEntry
    <2> HIDE DEF es
    <2> QED BY <1>1, <2>1, <2>2, AdvanceMoves
  <1>5. CASE /\ Ask(<<"baseRuns", "moved">>, 0,
                    For("postMergeOutcome", purpose.head, None))
             /\ UNCHANGED <<entries, clocks>>
    <2>1. request' \in ReadRequest
      BY <1>5 DEF Ask, ReadRequest, ReadName
    <2>2. /\ For("postMergeOutcome", purpose.head, None) \in Purpose
          /\ For("postMergeOutcome", purpose.head, None).kind = "postMergeOutcome"
      BY <1>1, Known, ForPurpose DEF PurposeKind, Nullable, Purpose
    <2>3. /\ Timed
          /\ Worked(entries[current].updates, entries[current].hasRerun)
      BY <1>1, <1>5, SameTimes, SameWorks
    <2> QED BY <1>1, <1>5, <2>1, <2>2, <2>3 
            DEF Ask, Asks, Moves, AfterMerge, Unseen, Headless, Working
  <1> QED BY <1>2, <1>3, <1>4, <1>5 DEF PostMergeRead

LEMMA PostMergeFailedMoves == IInv /\ PostMergeFailed => Moves
  BY AnsweredWorks, StopMoves DEF PostMergeFailed, StopKind

LEMMA MutatedMoves ==
  ASSUME IInv, NEW result \in MutationResult, Mutated(result)
  PROVE  Moves
  <1>1. /\ purpose \in Purpose
        /\ current # 0
        /\ purpose.kind \in {"update", "rerun", "merge"}
        /\ request.after = 0
        /\ request.action # "read"
    BY DEF Mutated, IInv, Matched, TypeOK, ReadRequest, MutateRequest, Nullable, Mutation
  <1>2. failing \in Waits
    BY <1>1 DEF Mutated, IInv, Aged, NeverStranded, Active
  <1>3. Working
    BY <1>1, <1>2 DEF Mutated, Working
  <1>4. CASE \E kind \in StopKind : Stop(kind)
    BY <1>3, <1>4, StopMoves
  <1>5. ASSUME NEW kind \in PurposeKind \ {"start", "update", "updateBase",
                                           "updateCommit", "rerun", "merge"},
               kind \in AfterMerge \/ purpose.kind # "merge",
               NEW name \in {"pullRequest", "checks"}, NEW after \in {0, 1},
               Ask(<<name>>, after, With(kind, result)), Timed,
               UNCHANGED entries
        PROVE  Moves
    <2>1. /\ With(kind, result) \in Purpose
          /\ With(kind, result).kind = kind
          /\ With(kind, result).head = purpose.head
      BY <1>1 DEF With, Purpose, Nullable
    <2>2. request' \in ReadRequest
      BY <1>5 DEF Ask, ReadRequest, ReadName
    <2>3. purpose.kind \in AfterMerge => kind \in AfterMerge
      BY <1>1, <1>5 DEF AfterMerge
    <2>4. purpose.head \in entries'[current].heads
      BY <1>1, <1>3, <1>5, Known DEF Headless
    <2> QED BY <1>1, <1>3, <1>5, <2>1, <2>2, <2>3, <2>4, SameWorks
            DEF Ask, Asks, Moves, Working
  <1>6. CASE request.action = "updateBranch" /\ UpdateAnswered(result)
    <2>1. purpose.kind # "merge"
      BY <1>6 DEF IInv, Matched, Mutated
    <2>2. CASE Stop("update")
      BY <1>4, <2>2 DEF StopKind
    <2>3. CASE /\ \/ Ask(<<"pullRequest">>, 1, With("updatePoll", result))
                  \/ Ask(<<"pullRequest">>, 0, With("updateFailed", result))
                  \/ Ask(<<"pullRequest">>, 0, With("update422", result))
               /\ UNCHANGED <<entries, clocks>>
      BY <1>3, <1>5, <2>1, <2>3, SameTimes DEF PurposeKind
    <2> QED BY <1>6, <2>2, <2>3 DEF UpdateAnswered
  <1>7. CASE request.action = "rerun" /\ RerunAnswered(result)
    <2>1. purpose.kind = "rerun"
      BY <1>7 DEF IInv, Matched, Mutated
    <2>2. CASE Stop("checks")
      BY <1>4, <2>2 DEF StopKind
    <2>3. CASE RerunStarted(purpose.head, purpose.replaced)
      BY <1>3, <2>1, <2>3, Known, RerunStartedMoves DEF AfterMerge, Headless
    <2>4. CASE /\ \/ Ask(<<"checks">>, 0, With("rerunCheck", result))
                  \/ Ask(<<"checks">>, 1, With("rerunCheck", result))
               /\ UNCHANGED <<entries, clocks>>
      BY <1>3, <1>5, <2>1, <2>4, SameTimes DEF PurposeKind
    <2> QED BY <1>7, <2>2, <2>3, <2>4 DEF RerunAnswered
  <1>8. CASE request.action = "merge" /\ MergeAnswered(result)
    <2>1. /\ Ask(<<"pullRequest">>, 0, With("mergeConfirm", result))
          /\ clocks' = [clocks EXCEPT !.step = 0]
          /\ UNCHANGED entries
      BY <1>8 DEF MergeAnswered
    <2>2. clocks' \in Clocks
      BY <1>3, <2>1, Known, WaitsAreAges, ClocksExcept
    <2>3. Timed
      BY <1>3, <2>1, <2>2, Known, WaitsAreAges DEF Timed, Clocks
    <2> QED BY <1>5, <2>1, <2>3 DEF PurposeKind, AfterMerge
  <1>9. request.action \in {"updateBranch", "rerun", "merge"}
    BY DEF Mutated, Mutation
  <1> QED BY <1>4, <1>6, <1>7, <1>8, <1>9 DEF Mutated, StopKind

\* The first answer: no entry is being worked on yet.
LEMMA StartCheckedMoves ==
  ASSUME IInv, NEW setup \in Setup, NEW runs \in BaseRuns,
         StartChecked(setup, runs)
  PROVE  Moves
  <1>1. /\ current = 0 /\ entries \in [1..N -> Entry] /\ failing' = None
        /\ request.action = "read"
    BY DEF StartChecked, Answered, IInv, Matched, TypeOK
  <1>2. failedAtStart' \subseteq BaseRun \X (1..2)
    <2> DEFINE failed == {x \in BaseRun : RunFailed(runs[x])}
    <2>1. \A r \in failed : runs[r].attempt \in 1..2
      BY DEF RunFailed, BaseRuns, Nullable
    <2>2. {<<r, runs[r].attempt>> : r \in failed} \subseteq BaseRun \X (1..2)
      BY <2>1
    <2> QED BY <2>2 DEF StartChecked, IInv, TypeOK
  <1>3. CASE Advance(entries)
    BY <1>1, <1>2, <1>3, WaitsAreAges DEF Advances, Moves
  <1>4. CASE Stop("setup")
    BY <1>1, <1>2, <1>4, WaitsAreAges
    DEF Stop, StopWith, Stops, Moves, StopKind, IInv, TypeOK
  <1> QED BY <1>3, <1>4 DEF StartChecked

LEMMA StartKeeps == IInv /\ Start => IInv'
  <1> SUFFICES ASSUME IInv, Start PROVE IInv'
    OBVIOUS
  <1>1. /\ phase' = "running" /\ current' = 0 /\ current = 0
        /\ UNCHANGED <<reason, sent, entries, clocks, failing, failedAtStart>>
    BY DEF Start, Ask, IInv, Order
  <1>2. request' \in ReadRequest
    <2>1. /\ <<"setup">> \in Seq(ReadName)
          /\ <<"setup", "baseRuns">> \in Seq(ReadName)
      BY DEF ReadName
    <2> QED BY <2>1 DEF Start, Ask, ReadRequest
  <1>3. purpose' \in Purpose /\ purpose'.kind = "start"
    BY ForPurpose DEF Start, Ask, PurposeKind, Nullable
  <1>4. TypeOK'
    BY <1>1, <1>2, <1>3 DEF IInv, TypeOK, Phase, Nullable
  <1>5. NeverStranded'
    BY <1>1, <1>2, NoneAssumption DEF NeverStranded, Active
  <1>6. Aged'
    BY <1>1 DEF IInv, Aged, Start
  <1>7. Matched'
    BY <1>1, <1>2, <1>3 DEF Matched, ReadRequest
  <1>8. Order'
    BY <1>1 DEF IInv, Order, Start
  <1>9. Counted' /\ Owned'
    BY <1>1, <1>3 DEF IInv, Counted, TypeOK, Owned, Headless
  <1> QED BY <1>4, <1>5, <1>6, <1>7, <1>8, <1>9 DEF IInv

LEMMA UserStopKeeps == IInv /\ UserStop => IInv'
  <1> SUFFICES ASSUME IInv, UserStop PROVE IInv'
    OBVIOUS
  <1>1. request # None
    BY DEF IInv, UserStop, NeverStranded, Active
  <1>2. CASE request.action \in Mutation
    <2>1. /\ phase' = "stopping"
          /\ UNCHANGED <<reason, current, entries, request, purpose, clocks, sent,
                         failing, failedAtStart>>
      BY <1>2 DEF UserStop
    <2>2. request.after = 0
      BY <1>1, <1>2 DEF IInv, TypeOK, ReadRequest, MutateRequest, Nullable, Mutation
    <2>3. TypeOK'
      BY <2>1 DEF IInv, TypeOK, Phase
    <2>4. NeverStranded' /\ Aged'
      BY <1>1, <1>2, <2>1, <2>2
      DEF IInv, NeverStranded, Active, Aged, UserStop
    <2>5. Matched'
      BY <2>1 DEF IInv, Matched
    <2>6. Order'
      BY <1>1, <2>1 DEF IInv, Order, UserStop
    <2>7. Counted' /\ Owned'
      BY <2>1 DEF IInv, Counted, Owned
    <2> QED BY <2>3, <2>4, <2>5, <2>6, <2>7 DEF IInv
  <1>3. CASE request.action \notin Mutation
    <2>1. Stop("user") /\ UNCHANGED <<failing, failedAtStart>>
      BY <1>3 DEF UserStop
    <2>2. current # 0 => Worked(entries[current].updates, entries[current].hasRerun)
      BY <2>1 DEF Stop, StopWith, Worked, Entry, StepName, IInv, TypeOK, Order
    <2>3. Stops
      BY <2>1, <2>2 DEF Stop, StopWith, Stops, StopKind, IInv, TypeOK
    <2> QED BY <1>1, <2>3, StopsKeeps
  <1> QED BY <1>2, <1>3

\* A delayed read: only its time, the waits' ages and the phase change.
LEMMA DelayKeeps ==
  ASSUME IInv, request # None, request.action = "read",
         phase' \in {"running", "paused"},
         NEW after \in {0, 1}, request' = [request EXCEPT !.after = after],
         clocks' \in Clocks, failing' \in Nullable(Age), Aged',
         UNCHANGED <<reason, current, entries, purpose, failedAtStart, sent>>
  PROVE  IInv'
  <1>1. request \in ReadRequest
    BY DEF IInv, TypeOK, Nullable, ReadRequest, MutateRequest, Mutation
  <1>2. request' \in ReadRequest /\ request'.action = "read" /\ request' # None
    BY <1>1, NoneAssumption DEF ReadRequest
  <1>3. TypeOK'
    BY <1>2 DEF IInv, TypeOK, Phase, Nullable
  <1>4. NeverStranded'
    BY <1>2 DEF NeverStranded, Active
  <1>5. Matched'
    BY <1>2 DEF IInv, Matched
  <1>6. Order'
    BY DEF IInv, Order, NeverStranded, Active
  <1>7. Counted' /\ Owned'
    BY DEF IInv, Counted, Owned
  <1> QED BY <1>3, <1>4, <1>5, <1>6, <1>7 DEF IInv

LEMMA ReadFailedKeeps ==
  ASSUME IInv, NEW failure \in ReadFailure, ReadFailed(failure)
  PROVE  IInv'
  <1>1. request # None /\ request.action = "read" /\ request.after = 0
        /\ failedAtStart' = failedAtStart
    BY DEF ReadFailed
  <1>2. /\ clocks \in Clocks
        /\ clocks.step \in 0..AgeCap
        /\ clocks.agentBusy \in Waits
        /\ clocks.unknown \in Waits
        /\ clocks.baseRuns \in Waits
        /\ failing \in Waits
    BY <1>1 DEF IInv, TypeOK, Aged, NeverStranded, Active
  <1>3. CASE Pause
    <2>1. \A age \in Waits : Shift(age) \in Nullable(Age)
      BY LimitAssumption DEF Shift, Waits, Nullable, Age
    <2>2. clocks.step - 1 \in Age
      BY <1>2, LimitAssumption DEF Age
    <2> DEFINE step == clocks.step - 1
               agent == Shift(clocks.agentBusy)
               unknown == Shift(clocks.unknown)
               onBase == Shift(clocks.baseRuns)
    <2>3. /\ step \in Age
          /\ agent \in Nullable(Age)
          /\ unknown \in Nullable(Age)
          /\ onBase \in Nullable(Age)
      BY <1>2, <2>1, <2>2
    <2>4. clocks' = [clocks EXCEPT !.step = step, !.agentBusy = agent,
                                   !.unknown = unknown, !.baseRuns = onBase]
      BY <1>3 DEF Pause
    <2> HIDE DEF step, agent, unknown, onBase
    <2>5. clocks' \in Clocks
      BY <1>2, <2>3, <2>4, ClocksExcept
    <2>6. failing' \in Nullable(Age)
      BY <1>2, <1>3, <2>1 DEF Pause
    <2>7. request' = [request EXCEPT !.after = 1] /\ phase' = "paused"
          /\ UNCHANGED <<reason, current, entries, purpose, sent>>
      BY <1>3 DEF Pause, ReadAgain
    <2>8. request'.after = 1
      BY <1>1, <2>7 DEF IInv, TypeOK, Nullable, ReadRequest, MutateRequest
    <2>9. Aged'
      BY <2>7, <2>8 DEF Aged
    <2> QED BY <1>1, <2>5, <2>6, <2>7, <2>9, DelayKeeps
  <1>4. CASE /\ phase' = "running"
             /\ request' = ReadAgain
             /\ failing' = Begun(failing)
             /\ UNCHANGED <<reason, current, entries, purpose, clocks, sent>>
    <2>1. failing' \in 0..AgeCap
      BY <1>2, <1>4, WaitBegins
    <2>2. Aged'
      BY <1>2, <1>4, <2>1, WaitsAreAges DEF Aged
    <2>3. failing' \in Nullable(Age)
      BY <2>1, WaitsAreAges
    <2> QED BY <1>1, <1>2, <1>4, <2>2, <2>3, DelayKeeps DEF ReadAgain
  <1>5. CASE \E kind \in StopKind : Stop(kind) /\ UNCHANGED failing
    <2>1. PICK kind \in StopKind : Stop(kind) /\ UNCHANGED failing
      BY <1>5
    <2>2. current # 0 => Worked(entries[current].updates, entries[current].hasRerun)
      BY <2>1 DEF Stop, StopWith, Worked, Entry, StepName, IInv, TypeOK, Order
    <2>3. Stops
      BY <1>1, <1>2, <2>1, <2>2, WaitsAreAges
      DEF Stop, StopWith, Stops, IInv, TypeOK
    <2> QED BY <1>1, <2>3, StopsKeeps
  <1> QED BY <1>3, <1>4, <1>5 DEF ReadFailed, StopKind

LEMMA TickKeeps == IInv /\ Tick => IInv'
  <1> SUFFICES ASSUME IInv, Tick PROVE IInv'
    OBVIOUS
  <1>1. /\ request # None
        /\ UNCHANGED <<phase, reason, current, entries, purpose, failedAtStart, sent>>
    BY DEF Tick, IInv, NeverStranded
  <1>2. clocks \in Clocks /\ failing \in Nullable(Age)
    BY DEF IInv, TypeOK
  <1>3. \A age \in Nullable(Age) : /\ Older(age) \in Nullable(Age)
                                   /\ age # None => Older(age) \in Waits
                                   /\ Older(age) \in Waits \/ age = None
    BY LimitAssumption, NoneAssumption DEF Older, Nullable, Age, Waits
  <1> DEFINE step == Older(clocks.step)
             agent == Older(clocks.agentBusy)
             unknown == Older(clocks.unknown)
             onBase == Older(clocks.baseRuns)
  <1>4. /\ step \in 0..AgeCap
        /\ agent \in Waits /\ unknown \in Waits /\ onBase \in Waits
        /\ failing' \in Waits
    <2>1. /\ clocks.step \in Age
          /\ clocks.agentBusy \in Nullable(Age)
          /\ clocks.unknown \in Nullable(Age)
          /\ clocks.baseRuns \in Nullable(Age)
      BY <1>2 DEF Clocks
    <2>2. Older(None) \in Waits
      BY DEF Older, Waits, Nullable
    <2>3. step \in 0..AgeCap
      BY <2>1, LimitAssumption, NoneAssumption DEF Older, Age
    <2> QED BY <1>2, <1>3, <2>1, <2>2, <2>3 DEF Tick
  <1>5. clocks' = [clocks EXCEPT !.step = step, !.agentBusy = agent,
                                 !.unknown = unknown, !.baseRuns = onBase]
    BY DEF Tick
  <1> HIDE DEF step, agent, unknown, onBase
  <1>6. clocks' \in Clocks
    BY <1>2, <1>4, <1>5, WaitsAreAges, ClocksExcept
  <1>7. /\ clocks'.step = step
        /\ clocks'.agentBusy = agent
        /\ clocks'.unknown = unknown
        /\ clocks'.baseRuns = onBase
    BY <1>2, <1>5 DEF Clocks
  <1>8. Aged'
    BY <1>4, <1>7 DEF Aged
  <1>9. CASE request.action = "read"
    BY <1>1, <1>4, <1>6, <1>8, <1>9, WaitsAreAges, DelayKeeps DEF Tick, IInv, NeverStranded, Active, Mutation
  <1>10. CASE request.action \in Mutation
    <2>1. request' = request
      BY <1>1, <1>10 DEF Tick, IInv, TypeOK, Nullable, ReadRequest, MutateRequest,
                         Mutation
    <2>2. TypeOK'
      BY <1>1, <1>4, <1>6, <2>1, WaitsAreAges DEF IInv, TypeOK
    <2>3. NeverStranded' /\ Matched' /\ Order' /\ Counted' /\ Owned'
      BY <1>1, <2>1 DEF IInv, NeverStranded, Matched, Order, Counted, Owned
    <2> QED BY <1>8, <2>2, <2>3 DEF IInv
  <1>11. request.action \in Mutation \cup {"read"}
    BY <1>1 DEF IInv, TypeOK, Nullable, ReadRequest, MutateRequest
  <1> QED BY <1>9, <1>10, <1>11

-----------------------------------------------------------------------------
(* The theorems *)

\* The invariant holds of the queue that the user has just confirmed.
THEOREM InitInvariant == Init => IInv
  <1> SUFFICES ASSUME Init PROVE IInv
    OBVIOUS
  <1>1. entries \in [1..N -> Entry]
    BY CommitAssumption DEF Init, Entry, StepName, Nullable
  <1>2. FreshClocks \in Clocks
    BY LimitAssumption DEF FreshClocks, Clocks, Age, Nullable
  <1>3. sent \in [1..N -> [Mutation -> Nat]]
    BY DEF Init
  <1>4. TypeOK
    BY <1>1, <1>2, <1>3, NAssumption DEF Init, TypeOK, Phase, Nullable
  <1>5. NeverStranded /\ Matched /\ Order /\ Owned
    BY DEF Init, NeverStranded, Active, Matched, Order, Owned
  <1>6. Aged
    BY WaitsAreAges DEF Init, Aged, FreshClocks
  <1>7. Counted
    BY SettingsAssumption DEF Init, Counted, Mutation
  <1> QED BY <1>4, <1>5, <1>6, <1>7 DEF IInv

\* Every step keeps the invariant: each handler makes a move that keeps it.
THEOREM NextInvariant == IInv /\ [Next]_vars => IInv'
  <1> SUFFICES ASSUME IInv, [Next]_vars PROVE IInv'
    OBVIOUS
  <1>1. CASE UNCHANGED vars
    BY <1>1 DEF vars, IInv, TypeOK, NeverStranded, Aged, Matched, Order, Counted,
                 Owned
  <1>2. CASE Start
    BY <1>2, StartKeeps
  <1>3. CASE UserStop
    BY <1>3, UserStopKeeps
  <1>4. CASE Tick
    BY <1>4, TickKeeps
  <1>5. ASSUME NEW failure \in ReadFailure, ReadFailed(failure) PROVE IInv'
    BY <1>5, ReadFailedKeeps
  <1>6. ASSUME NEW result \in MutationResult, Mutated(result) PROVE IInv'
    BY <1>6, MutatedMoves, MovesKeep DEF Mutated
  <1>7. ASSUME NEW kind, Answered(kind), Moves PROVE IInv'
    BY <1>7, MovesKeep DEF Answered
  <1>8. ASSUME NEW setup \in Setup, NEW runs \in BaseRuns,
               StartChecked(setup, runs)
        PROVE  IInv'
    BY <1>7, <1>8, StartCheckedMoves DEF StartChecked
  <1>9. ASSUME NEW pr \in Snapshot,
               \/ Preflight(pr) \/ UpdatePolled(pr) \/ UpdateFailedRead(pr)
               \/ UpdateRefused(pr) \/ MergeConfirmRead(pr)
        PROVE  IInv'
    BY <1>7, <1>9, PreflightMoves, UpdatePolledMoves, UpdateFailedMoves,
       UpdateRefusedMoves, MergeConfirmMoves
    DEF Preflight, UpdatePolled, UpdateFailedRead, UpdateRefused, MergeConfirmRead
  <1>10. ASSUME NEW local \in Local, PreflightLocal(local) PROVE IInv'
    BY <1>7, <1>10, PreflightLocalMoves DEF PreflightLocal
  <1>11. ASSUME NEW comparison \in Nullable(Comparison),
                Behind(comparison) \/ UpdateBaseRead(comparison)
         PROVE  IInv'
    BY <1>7, <1>11, BehindMoves, UpdateBaseMoves DEF Behind, UpdateBaseRead
  <1>12. ASSUME NEW commit \in CommitInfo, UpdateCommitRead(commit) PROVE IInv'
    BY <1>7, <1>12, UpdateCommitMoves DEF UpdateCommitRead
  <1>13. ASSUME NEW checks \in Checks, RerunChecked(checks) PROVE IInv'
    BY <1>7, <1>13, RerunCheckedMoves DEF RerunChecked
  <1>14. ASSUME NEW pr \in Snapshot, NEW checks \in Checks, ChecksRead(pr, checks)
         PROVE  IInv'
    BY <1>7, <1>14, ChecksReadMoves DEF ChecksRead
  <1>15. ASSUME NEW pr \in Snapshot, NEW checks \in Checks, NEW local \in Local,
                NEW comparison \in Nullable(Comparison), NEW runs \in BaseRuns,
                MergeChecksRead(pr, checks, comparison, local, runs)
         PROVE  IInv'
    BY <1>7, <1>15, MergeChecksReadMoves DEF MergeChecksRead
  <1>16. ASSUME NEW runs \in BaseRuns, BaseRunsRead(runs) PROVE IInv'
    BY <1>7, <1>16, BaseRunsMoves DEF BaseRunsRead
  <1>17. ASSUME NEW run \in Nullable(RunState), PostMergeRead(run) PROVE IInv'
    BY <1>7, <1>17, PostMergeMoves DEF PostMergeRead
  <1>18. CASE PostMergeFailed
    BY <1>7, <1>18, PostMergeFailedMoves DEF PostMergeFailed
  <1> QED BY <1>1, <1>2, <1>3, <1>4, <1>5, <1>6, <1>8, <1>9, <1>10, <1>11, <1>12,
             <1>13, <1>14, <1>15, <1>16, <1>17, <1>18
          DEF Next, ReadAnswered

\* The invariant holds in every reachable state.
THEOREM Invariant == Spec => []IInv
  BY InitInvariant, NextInvariant, PTL DEF Spec

\* Whatever GitHub and the Mac answer, the engine's state has its types: no
\* wait is ever older than its limit allows, no entry holds a foreign step.
THEOREM TypeCorrect == Spec => []TypeOK
  <1>1. IInv => TypeOK
    BY DEF IInv
  <1> QED BY <1>1, Invariant, PTL

\* No sequence of answers makes the engine send a merge or a rerun twice, or
\* more updates than maxUpdates, for a pull request.
THEOREM NothingSentTwice == Spec => []SentAtMost
  <1>1. IInv => SentAtMost
    BY DEF IInv, SentAtMost, Counted, TypeOK
  <1> QED BY <1>1, Invariant, PTL

\* Nothing is sent for a pull request while an earlier one isn't done, for
\* any number of confirmed pull requests.
THEOREM WorksInOrder == Spec => []InOrder
  <1>1. ASSUME IInv PROVE InOrder
    <2> SUFFICES ASSUME NEW i \in 1..N, NEW j \in 1..N, i < j,
                        NEW m \in Mutation, sent[j][m] > 0
                 PROVE  entries[i].step = "done"
      BY DEF InOrder
    <2>1. entries[j].step # "waiting"
      BY <1>1 DEF IInv, Counted
    <2> QED BY <1>1, <2>1 DEF IInv, Order, TypeOK
  <1> QED BY <1>1, Invariant, PTL

\* The queue always has an answer to wait for while it is active: it never
\* holds its repository with nothing left to wake it up.
THEOREM AlwaysAwaken == Spec => []NeverStranded
  <1>1. IInv => NeverStranded
    BY DEF IInv
  <1> QED BY <1>1, Invariant, PTL

\* A merge only ever names a head that the user confirmed, or one made by the
\* queue's own update and checked to be.
THEOREM MergesConfirmed == Spec => []MergesOwnHead
  <1>1. IInv => MergesOwnHead
    BY DEF IInv, MergesOwnHead, Matched, Owned, Headless
  <1> QED BY <1>1, Invariant, PTL

\* An answered read finds a queue that runs or pauses.
LEMMA ReadsRun ==
  ASSUME IInv, ReadAnswered
  PROVE  request # None /\ phase \in {"running", "paused"}
  <1>1. request # None /\ request.action = "read"
    BY DEF ReadAnswered, Answered, StartChecked, Preflight, UpdatePolled,
           UpdateFailedRead, UpdateRefused, MergeConfirmRead, PreflightLocal,
           Behind, UpdateBaseRead, UpdateCommitRead, RerunChecked, ChecksRead,
           MergeChecksRead, BaseRunsRead, PostMergeRead, PostMergeFailed,
           ReadFailed
  <1> QED BY <1>1 DEF IInv, NeverStranded, Active, Mutation

\* Once Stop is pressed, no answer makes the queue run or send again, and a
\* queue that ended stays ended.
THEOREM StopIsFinal == Spec => StopEndsSending
  <1> DEFINE Ends == /\ phase = "stopping" => phase' \in {"stopping", "stopped"}
                     /\ phase \in {"stopped", "finished"} => phase' = phase
                     /\ phase \in {"stopping", "stopped", "finished"}
                          => sent' = sent
  <1>1. ASSUME IInv, Next PROVE Ends
    <2>1. CASE phase \in {"running", "paused", "idle"}
      BY <2>1
    <2>2. CASE phase \in {"stopped", "finished"}
      <3>1. request = None
        BY <1>1, <2>2 DEF IInv, NeverStranded, Active
      <3> QED BY <1>1, <2>2, <3>1, ReadsRun
              DEF Next, Start, UserStop, Mutated, Tick, Active
    <2>3. CASE phase = "stopping"
      <3>1. CASE Tick
        BY <2>3, <3>1 DEF Tick
      <3>2. ASSUME NEW result \in MutationResult, Mutated(result) PROVE Ends
        BY <2>3, <3>2 DEF Mutated, EndsNow, Stop, StopWith
      <3> QED BY <1>1, <2>3, <3>1, <3>2, ReadsRun DEF Next, Start, UserStop
    <2> QED BY <1>1, <2>1, <2>2, <2>3 DEF IInv, TypeOK, Phase
  <1>2. IInv /\ [Next]_vars => [Ends]_vars
    BY <1>1
  <1>3. Spec => [][Ends]_vars
    BY <1>2, Invariant, PTL DEF Spec
  <1> QED BY <1>3 DEF StopEndsSending

-----------------------------------------------------------------------------
(* The engine implements the run that its controller is built on *)

LEMMA RunningSteps ==
  ASSUME NEW c, NEW d,
         <<c, d>> \in {<<"none", "sent">>, <<"sent", "none">>,
                      <<"sent", "unconfirmed">>, <<"unconfirmed", "none">>}
  PROVE  [phase |-> "running", call |-> d]
           \in Promise!After([phase |-> "running", call |-> c])
  BY DEF Promise!After, Promise!Sends, Promise!Answers, Promise!Sees,
         Promise!Ends, Promise!Stops, Promise!EndsStopping, Promise!Running

LEMMA StoppedSteps ==
  ASSUME NEW c \in {"none", "sent", "unconfirmed"}
  PROVE  /\ [phase |-> "stopped", call |-> "none"]
              \in Promise!After([phase |-> "running", call |-> c])
         /\ c # "sent" => [phase |-> "finished", call |-> "none"]
                            \in Promise!After([phase |-> "running", call |-> c])
         /\ [phase |-> "stopped", call |-> "none"]
              \in Promise!After([phase |-> "stopping", call |-> c])
         /\ [phase |-> "stopping", call |-> "sent"]
              \in Promise!After([phase |-> "running", call |-> "sent"])
  BY DEF Promise!After, Promise!Sends, Promise!Answers, Promise!Sees,
         Promise!Ends, Promise!Ended, Promise!Stops, Promise!EndsStopping,
         Promise!Running

RunSteps == RunNow' \in Promise!After(RunNow) \/ RunNow' = RunNow

\* A queue that runs and makes a move; an answered call only asks or stops.
LEMMA MovesRun ==
  ASSUME IInv, request # None, phase \in {"running", "paused"}, Moves
  PROVE  RunSteps
  <1>1. RunNow = [phase |-> "running", call |-> Unconfirmed]
    BY DEF RunNow
  <1>2. Unconfirmed \in {"none", "sent", "unconfirmed"}
    BY DEF Unconfirmed
  <1>3. purpose # None /\ request.action \in Mutation \cup {"read"}
    BY NoneAssumption DEF IInv, TypeOK, Matched, Nullable, ReadRequest, MutateRequest
  <1>4. CASE Asks
    <2>1. /\ phase' = "running" /\ current' = current /\ current # 0
          /\ request' # None /\ request'.action = "read"
          /\ purpose' \in Purpose
          /\ purpose'.kind \in Unseen => request.action # "read" \/ purpose.kind \in Unseen
      BY <1>4, NoneAssumption DEF Asks, ReadRequest
    <2>2. RunNow' = [phase |-> "running", call |-> Unconfirmed']
      BY <2>1 DEF RunNow
    <2>3. \/ Unconfirmed' = Unconfirmed
          \/ <<Unconfirmed, Unconfirmed'>> \in {<<"sent", "none">>,
                 <<"sent", "unconfirmed">>, <<"unconfirmed", "none">>}
      BY <1>3, <2>1 DEF Unconfirmed, Mutation, Unseen
    <2> QED BY <1>1, <2>2, <2>3, RunningSteps DEF RunSteps
  <1>5. CASE \E m \in Mutation, kind \in PurposeKind : Sends(m, kind)
    <2>1. /\ phase' = "running" /\ request.action = "read"
          /\ request' # None /\ request'.action \in Mutation
          /\ purpose.kind \notin AfterMerge \cup Unseen
      BY <1>5, NoneAssumption DEF Sends, MutateRequest
    <2>2. RunNow' = [phase |-> "running", call |-> "sent"]
      BY <2>1 DEF RunNow, Unconfirmed
    <2>3. Unconfirmed = "none"
      BY <2>1 DEF Unconfirmed, Mutation, Unseen
    <2> QED BY <1>1, <2>2, <2>3, RunningSteps DEF RunSteps
  <1>6. CASE Stops
    <2>1. RunNow' = [phase |-> "stopped", call |-> "none"]
      BY <1>6 DEF Stops, RunNow, Unconfirmed
    <2> QED BY <1>1, <1>2, <2>1, StoppedSteps DEF RunSteps
  <1>7. CASE Advances
    <2>1. request.action = "read"
      BY <1>7 DEF Advances
    <2>2. Unconfirmed # "sent"
      BY <2>1 DEF Unconfirmed, Mutation
    <2>3. \/ phase' = "finished" /\ current' = 0 /\ request' = None
          \/ /\ phase' = "running" /\ purpose' = For("preflight", None, None)
             /\ request' = [action |-> "read", reads |-> <<"pullRequest">>,
                            after |-> 0]
      BY <1>7 DEF Advances, Advance
    <2>4. \/ RunNow' = [phase |-> "finished", call |-> "none"]
          \/ RunNow' = [phase |-> "running", call |-> "none"]
      BY <2>3 DEF RunNow, Unconfirmed, For, Mutation
    <2> QED BY <1>1, <1>2, <2>2, <2>4, StoppedSteps, RunningSteps DEF RunSteps
  <1> QED BY <1>4, <1>5, <1>6, <1>7
          DEF Moves, SendsUpdate, SendsRerun, SendsMerge, Mutation, PurposeKind

LEMMA ReadsMove ==
  ASSUME IInv, ReadAnswered
  PROVE  \/ Moves
         \/ \E failure \in ReadFailure : ReadFailed(failure)
  BY StartCheckedMoves, PreflightMoves, UpdatePolledMoves, UpdateFailedMoves,
     UpdateRefusedMoves, MergeConfirmMoves, PreflightLocalMoves, BehindMoves,
     UpdateBaseMoves, UpdateCommitMoves, RerunCheckedMoves, ChecksReadMoves,
     MergeChecksReadMoves, BaseRunsMoves, PostMergeMoves, PostMergeFailedMoves
  DEF ReadAnswered

LEMMA NextRuns ==
  ASSUME IInv, [Next]_vars
  PROVE  [Promise!Next]_RunNow
  <1> SUFFICES \/ RunSteps
               \/ RunNow' \in Promise!Starts(RunNow)
    BY DEF RunSteps, Promise!Next
  <1>1. CASE UNCHANGED vars
    BY <1>1 DEF vars, RunSteps, RunNow, Unconfirmed
  <1>2. CASE Start
    <2>1. RunNow = [phase |-> "idle", call |-> "none"]
      BY <1>2 DEF Start, RunNow, Unconfirmed, IInv, NeverStranded, Active, Order
    <2>2. RunNow' = [phase |-> "running", call |-> "none"]
      BY <1>2 DEF Start, Ask, RunNow, Unconfirmed, For, Mutation
    <2> QED BY <2>1, <2>2 DEF Promise!Starts, Promise!Idle, Promise!Running
  <1>3. CASE UserStop
    <2>1. request # None /\ phase \in {"running", "paused"}
      BY <1>3 DEF UserStop, IInv, NeverStranded, Active
    <2>2. CASE request.action \in Mutation
      <3>1. /\ RunNow = [phase |-> "running", call |-> "sent"]
            /\ RunNow' = [phase |-> "stopping", call |-> "sent"]
        BY <1>3, <2>1, <2>2 DEF UserStop, RunNow, Unconfirmed
      <3> QED BY <3>1, StoppedSteps DEF RunSteps
    <2>3. CASE request.action \notin Mutation
      <3>1. RunNow' = [phase |-> "stopped", call |-> "none"]
        BY <1>3, <2>3 DEF UserStop, Stop, StopWith, RunNow, Unconfirmed
      <3>2. /\ RunNow = [phase |-> "running", call |-> Unconfirmed]
            /\ Unconfirmed \in {"none", "sent", "unconfirmed"}
        BY <2>1 DEF RunNow, Unconfirmed
      <3> QED BY <3>1, <3>2, StoppedSteps DEF RunSteps
    <2> QED BY <2>2, <2>3
  <1>4. CASE Tick
    <2>1. request # None /\ request'.action = request.action /\ request' # None
      <3>1. request # None
        BY <1>4 DEF Tick, IInv, NeverStranded
      <3> QED BY <1>4, <3>1, NoneAssumption
              DEF Tick, IInv, TypeOK, Nullable, ReadRequest, MutateRequest
    <2> QED BY <1>4, <2>1 DEF Tick, RunSteps, RunNow, Unconfirmed
  <1>5. ASSUME NEW failure \in ReadFailure, ReadFailed(failure) PROVE RunSteps
    <2>1. /\ request # None /\ request.action = "read"
          /\ phase \in {"running", "paused"}
      BY <1>5 DEF ReadFailed, IInv, NeverStranded, Active, Mutation
    <2>2. CASE /\ phase' \in {"running", "paused"} /\ request' = ReadAgain
               /\ UNCHANGED <<current, purpose>>
      <3>0. request \in ReadRequest
        BY <2>1 DEF IInv, TypeOK, Nullable, ReadRequest, MutateRequest, Mutation
      <3>1. request' # None /\ request'.action = "read"
        BY <2>2, <3>0, NoneAssumption DEF ReadAgain, ReadRequest
      <3>2. Unconfirmed' = Unconfirmed
        BY <2>1, <2>2, <3>1 DEF Unconfirmed, Mutation
      <3> QED BY <2>1, <2>2, <3>2 DEF RunSteps, RunNow
    <2>3. CASE \E kind : Stop(kind)
      <3>1. RunNow' = [phase |-> "stopped", call |-> "none"]
        BY <2>3 DEF Stop, StopWith, RunNow, Unconfirmed
      <3>2. /\ RunNow = [phase |-> "running", call |-> Unconfirmed]
            /\ Unconfirmed \in {"none", "sent", "unconfirmed"}
        BY <2>1 DEF RunNow, Unconfirmed
      <3> QED BY <3>1, <3>2, StoppedSteps DEF RunSteps
    <2> QED BY <1>5, <2>2, <2>3 DEF ReadFailed, Pause
  <1>6. CASE ReadAnswered
    BY <1>5, <1>6, ReadsMove, ReadsRun, MovesRun
  <1>7. ASSUME NEW result \in MutationResult, Mutated(result) PROVE RunSteps
    <2>1. request # None /\ phase \in Active
      BY <1>7 DEF Mutated, IInv, NeverStranded
    <2>2. CASE phase = "stopping"
      <3>1. RunNow' = [phase |-> "stopped", call |-> "none"]
        BY <1>7, <2>2 DEF Mutated, EndsNow, Stop, StopWith, RunNow, Unconfirmed
      <3>2. RunNow = [phase |-> "stopping", call |-> "sent"]
        BY <1>7, <2>2 DEF Mutated, RunNow, Unconfirmed
      <3> QED BY <3>1, <3>2, StoppedSteps DEF RunSteps
    <2>3. CASE phase # "stopping"
      BY <1>7, <2>1, <2>3, MutatedMoves, MovesRun DEF Active
    <2> QED BY <2>2, <2>3
  <1> QED BY <1>1, <1>2, <1>3, <1>4, <1>6, <1>7 DEF Next

\* The engine is an implementation of MergeQueuePromise, the run that
\* MergeQueueController takes it for.
THEOREM EngineRuns == Spec => ImplementsRun
  <1>1. Init => Promise!Init
    BY DEF Init, Promise!Init, Promise!Idle, RunNow, Unconfirmed
  <1> QED BY <1>1, NextRuns, Invariant, PTL
          DEF Spec, ImplementsRun, Promise!Spec

-----------------------------------------------------------------------------
(* The repository *)

\* What is known of the repository whatever the queue does: a head is made on
\* the one before and holds commits the base has, its green checks and the
\* base's passed runs were seen, and a merged pull request is a commit of the
\* base that merged its last head.
Recorded ==
    /\ \A p \in 1..N, k \in Nat : k \in 1..LastHead(p) =>
         /\ pulls[p].heads[k].upTo <= Tip
         /\ pulls[p].heads[k].from = k - 1
         /\ pulls[p].heads[k].checks = "green" => <<p, k>> \in greens
    /\ \A i \in Nat : i \in 2..Tip /\ base[i].run # None /\ base[i].run.state = "success"
         => i \in passed
    /\ \A p \in 1..N : pulls[p].state = "MERGED" =>
         /\ pulls[p].flag = "none" /\ pulls[p].at \in 2..Tip
         /\ base[pulls[p].at].pull = p
         /\ base[pulls[p].at].head = LastHead(p)

\* GitHub made head k of p by merging the base into the head before.
Made(p, k) ==
    LET head == pulls[p].heads[k]
    IN head.webFlow /\ head.merged # 0 /\ head.from = k - 1

\* Commit c is a head of p with nothing but such merges over the first.
Chain(p, c) ==
    \E k \in 1..LastHead(p) : c = <<p, k>> /\ \A j \in 2..k : Made(p, j)

\* Head c of p was green, on the base commit t that it holds.
Tested(p, c, t) ==
    \E k \in 1..LastHead(p), i \in 1..Tip :
        /\ c = <<p, k>> /\ t = <<0, i>>
        /\ pulls[p].heads[k].upTo = i
        /\ <<p, k>> \in greens

-----------------------------------------------------------------------------
(* What the queue knows of it *)

OwnHeads(es) == \A p \in 1..N : \A c \in es[p].heads : Chain(p, c)

\* DoneWasTested, of one entry.
Through(p, e) ==
    e.step \in {"waitingForPostMerge", "done"} =>
        LET m == pulls[p].at
            k == base[m].head
        IN /\ pulls[p].state = "MERGED"
           /\ e.mergeCommit = <<0, m>>
           /\ pulls[p].heads[k].upTo = m - 1
           /\ <<p, k>> \in greens
           /\ HasWorkflow /\ e.step = "done" => m \in passed

AllThrough(es) == \A p \in 1..N : Through(p, es[p])

\* What a request for this purpose rests on, for entry e of p.
Grounded(p, q, e) ==
    /\ q.kind = "updateCommit" => \E k \in 1..LastHead(p) : q.other = <<p, k>>
    /\ q.kind = "updateBase" =>
         \E k \in 1..LastHead(p) :
             /\ k > 1 /\ q.head = <<p, k>>
             /\ pulls[p].heads[k].webFlow /\ pulls[p].heads[k].from = k - 1
             /\ \A j \in 2..(k - 1) : Made(p, j)
             /\ q.other = <<0, pulls[p].heads[k].merged>>
    /\ q.kind \in {"merge", "mergeConfirm"} => Tested(p, q.head, q.other)
    /\ q.kind = "postMerge" =>
         /\ HasWorkflow /\ e.step = "waitingForPostMerge"
         /\ q.head = e.mergeCommit
    /\ q.kind \notin {"postMerge", "postMergeOutcome"} => e.step # "waitingForPostMerge"

\* The reads that the answer for a purpose is made of.
Needs(kind) ==
    CASE kind = "start" -> {"setup"} \cup (IF HasWorkflow THEN {"baseRuns"} ELSE {})
      [] kind \in {"preflight", "updatePoll", "updateFailed", "update422", "mergeConfirm"}
           -> {"pullRequest"}
      [] kind = "preflightLocal" -> {"local"}
      [] kind = "behind" -> {"compare"}
      [] kind = "updateCommit" -> {"commit"}
      [] kind = "updateBase" -> {"baseOf"}
      [] kind = "checks" -> {"pullRequest", "checks"}
      [] kind = "rerunCheck" -> {"checks"}
      [] kind = "mergeChecks" -> {"pullRequest", "checks", "compare", "local"}
                                   \cup (IF HasWorkflow THEN {"baseRuns"} ELSE {})
      [] kind = "baseRunWait" -> {"baseRuns"}
      [] kind = "postMerge" -> {"pushRuns"}
      [] OTHER -> {}

Among(s) == {s[i] : i \in 1..Len(s)}

Asked ==
    request # None =>
        /\ request.action = "read" => Needs(purpose.kind) \subseteq Among(request.reads)
        /\ current # 0 => Grounded(current, purpose, entries[current])

\* What read r of the current request may have answered.
Told(r, v) ==
    LET p == current
        k == purpose.head[2]
    IN CASE r = "setup" -> v \in Setup
         [] r = "pullRequest" ->
              /\ v \in Snapshot
              /\ \E j \in 1..LastHead(p) : v.head = <<p, j>>
              /\ v.state = "MERGED" /\ v.mergeCommit # None =>
                   /\ pulls[p].state = "MERGED" /\ v.head = <<p, LastHead(p)>>
                   /\ v.mergeCommit = <<0, pulls[p].at>>
                   /\ v.parent = <<0, pulls[p].at - 1>>
         [] r = "local" -> v \in Local \ {"busy"}
         [] r = "compare" ->
              /\ v \in Nullable(Comparison)
              /\ v # None /\ v.behindBy = 0 => k \in 1..LastHead(p) /\
                   \E i \in 1..Tip : v.baseCommit = <<0, i>> /\ pulls[p].heads[k].upTo = i
         [] r = "commit" ->
              LET new == purpose.other[2]
                  made == pulls[p].heads[new]
              IN v = [webFlow |-> made.webFlow, from |-> <<p, made.from>>,
                      merged |-> <<0, made.merged>>]
         [] r = "baseOf" ->
              /\ v \in Nullable(Comparison)
              /\ v # None /\ v.behindBy = 0 => purpose.other[2] \in 1..Tip
         [] r = "checks" -> v \in Checks /\ (v.state = "green" => <<p, k>> \in greens)
         [] r = "baseRuns" -> v \in BaseRuns
         [] r = "pushRuns" -> v \in Nullable(RunState) /\ (v # None /\ v = "success" => k \in passed)
         [] OTHER -> TRUE

\* The reads that were done are of the request that is out.
Reading ==
    batch # None =>
        /\ batch.todo \in Seq(ReadName) /\ DOMAIN batch.got = ReadName
        /\ phase # "idle"
        /\ request # None =>
             /\ request.action = "read"
             /\ \A r \in Needs(purpose.kind) : r \in Among(batch.todo) \/ Told(r, batch.got[r])

\* What GitHub still puts off names the queue's own heads; so does what landed,
\* after every earlier pull request of the queue.
PutOff == \A e \in late : /\ Chain(e.pull, <<e.pull, e.head>>)
                          /\ e.mutation = "merge" => entries[e.pull].step # "waiting"

LandedOwn ==
    \A i \in Nat : i \in 1..Tip /\ base[i].byQueue =>
        /\ base[i].pull \in 1..N
        /\ Chain(base[i].pull, <<base[i].pull, base[i].head>>)
        /\ pulls[base[i].pull].state = "MERGED" /\ pulls[base[i].pull].at = i
        /\ \A q \in 1..N : q < base[i].pull =>
             /\ pulls[q].state = "MERGED" /\ pulls[q].at < i
             /\ HasWorkflow => pulls[q].at \in passed

Joint ==
    /\ Recorded /\ OwnHeads(entries) /\ AllThrough(entries) /\ Asked /\ Reading
    /\ PutOff /\ LandedOwn

-----------------------------------------------------------------------------
(* What a step of the repository keeps *)

\* A head as it was made; its checks may turn.
SameHead(h, g) ==
    g.webFlow = h.webFlow /\ g.from = h.from /\ g.upTo = h.upTo /\ g.merged = h.merged

\* Commits and heads are only added, and a merge is for good.
Grows ==
    /\ Tip <= Tip'
    /\ \A i \in Nat : i \in 1..Tip =>
         /\ base'[i].pull = base[i].pull /\ base'[i].head = base[i].head
         /\ base'[i].byQueue = base[i].byQueue
    /\ \A p \in 1..N :
         /\ LastHead(p) <= LastHead(p)'
         /\ \A k \in Nat : k \in 1..LastHead(p) => SameHead(pulls[p].heads[k], pulls'[p].heads[k])
         /\ pulls[p].state = "MERGED" =>
              /\ pulls'[p].state = "MERGED" /\ pulls'[p].at = pulls[p].at
              /\ LastHead(p)' = LastHead(p)
    /\ greens \subseteq greens' /\ passed \subseteq passed'

\* The types of the repository.
RepositoryOK ==
    /\ base \in Seq(BaseCommit) /\ Tip \in 1..MaxBase
    /\ pulls \in [1..N -> Pull]
    /\ \A p \in 1..N : LastHead(p) \in 1..MaxHeads
    /\ greens \subseteq (1..N) \X (1..MaxHeads)
    /\ passed \subseteq 1..MaxBase

Kept == RepositoryOK' /\ Recorded' /\ Grows

\* The base branch after a step: its runs may turn, and commits be added.
BaseKept ==
    /\ base' \in Seq(BaseCommit) /\ Tip' \in Tip..MaxBase
    /\ \A i \in Nat : i \in 1..Tip =>
         /\ base'[i].pull = base[i].pull /\ base'[i].head = base[i].head
         /\ base'[i].byQueue = base[i].byQueue
    /\ \A i \in Nat : i \in 2..Tip' /\ base'[i].run # None /\ base'[i].run.state = "success"
         => i \in passed'
    /\ passed \subseteq passed' /\ passed' \subseteq 1..MaxBase

BaseStays == base' = base /\ passed' = passed

LEMMA StillKept ==
  ASSUME RepositoryOK, Recorded, BaseStays
  PROVE  BaseKept
  BY DEF RepositoryOK, Recorded, BaseStays, BaseKept, Tip

\* A step that changes one pull request.
LEMMA OnePull ==
  ASSUME RepositoryOK, Recorded, BaseKept, NEW p \in 1..N, NEW v \in Pull,
         pulls' = [pulls EXCEPT ![p] = v],
         greens \subseteq greens', greens' \subseteq (1..N) \X (1..MaxHeads),
         Len(v.heads) \in LastHead(p)..MaxHeads,
         \A k \in Nat : k \in 1..LastHead(p) => SameHead(pulls[p].heads[k], v.heads[k]),
         pulls[p].state = "MERGED" =>
            v.state = "MERGED" /\ v.at = pulls[p].at /\ Len(v.heads) = LastHead(p),
         v.state = "MERGED" => v.flag = "none",
         pulls[p].state # "MERGED" /\ v.state = "MERGED" =>
            /\ v.at \in 2..Tip'
            /\ base'[v.at].pull = p /\ base'[v.at].head = Len(v.heads),
         \A k \in Nat : k \in 1..Len(v.heads) =>
            /\ v.heads[k].upTo <= Tip'
            /\ v.heads[k].from = k - 1
            /\ v.heads[k].checks = "green" => <<p, k>> \in greens'
  PROVE  Kept
  <1>1. \A q \in 1..N : pulls'[q] = IF q = p THEN v ELSE pulls[q]
    BY DEF RepositoryOK
  <1>2. pulls' \in [1..N -> Pull]
    BY DEF RepositoryOK
  <1>3. \A q \in 1..N : LastHead(q)' \in 1..MaxHeads
    BY <1>1 DEF RepositoryOK, LastHead
  <1>4. Tip \in Nat /\ Tip' \in Nat /\ Tip' \in 1..MaxBase /\ Tip <= Tip'
    BY EnvironmentAssumption DEF RepositoryOK, BaseKept
  <1>5. RepositoryOK'
    BY <1>2, <1>3, <1>4 DEF RepositoryOK, BaseKept
  <1>6. Grows
    <2>1. ASSUME NEW q \in 1..N
          PROVE  /\ LastHead(q) <= LastHead(q)'
                 /\ \A k \in Nat : k \in 1..LastHead(q) => SameHead(pulls[q].heads[k], pulls'[q].heads[k])
                 /\ pulls[q].state = "MERGED" =>
                      /\ pulls'[q].state = "MERGED" /\ pulls'[q].at = pulls[q].at
                      /\ LastHead(q)' = LastHead(q)
      <3>1. LastHead(q) \in Nat /\ LastHead(q)' = Len(pulls'[q].heads)
        BY EnvironmentAssumption DEF RepositoryOK, LastHead
      <3>2. CASE q = p
        BY <1>1, <3>1, <3>2
      <3>3. CASE q # p
        <4>1. pulls'[q] = pulls[q] /\ LastHead(q)' = LastHead(q)
          BY <1>1, <3>3 DEF LastHead
        <4> QED BY <3>1, <4>1 DEF SameHead
      <3> QED BY <3>2, <3>3
    <2> QED BY <1>4, <2>1 DEF Grows, BaseKept
  <1>7. Recorded'
    <2>1. ASSUME NEW q \in 1..N, NEW k \in Nat, k \in 1..LastHead(q)'
          PROVE  /\ pulls'[q].heads[k].upTo <= Tip'
                 /\ pulls'[q].heads[k].from = k - 1
                 /\ pulls'[q].heads[k].checks = "green" => <<q, k>> \in greens'
      <3>1. CASE q = p
        BY <1>1, <2>1, <3>1 DEF LastHead
      <3>2. CASE q # p
        <4>1. pulls'[q] = pulls[q] /\ k \in 1..LastHead(q)
          BY <1>1, <2>1, <3>2 DEF LastHead
        <4>2. pulls[q].heads[k] \in PullHead
          BY <4>1, ElementOfSeq DEF RepositoryOK, LastHead, Pull
        <4>3. pulls[q].heads[k].upTo \in Nat
          BY <4>2, EnvironmentAssumption DEF PullHead
        <4>4. pulls[q].heads[k].upTo <= Tip
          BY <4>1 DEF Recorded
        <4>5. /\ pulls[q].heads[k].from = k - 1
              /\ pulls[q].heads[k].checks = "green" => <<q, k>> \in greens
          BY <4>1 DEF Recorded
        <4>6. PICK h : h = pulls[q].heads[k] /\ pulls'[q].heads[k] = h
          BY <4>1
        <4>7. h.upTo <= Tip'
          BY <1>4, <4>3, <4>4, <4>6
        <4>8. h.checks = "green" => <<q, k>> \in greens'
          BY <4>5, <4>6
        <4> QED BY <4>5, <4>6, <4>7, <4>8
      <3> QED BY <3>1, <3>2
    <2>2. ASSUME NEW q \in 1..N, pulls'[q].state = "MERGED"
          PROVE  /\ pulls'[q].flag = "none" /\ pulls'[q].at \in 2..Tip'
                 /\ base'[pulls'[q].at].pull = q
                 /\ base'[pulls'[q].at].head = LastHead(q)'
      <3>1. CASE pulls[q].state = "MERGED"
        <4>1. /\ pulls'[q].at = pulls[q].at /\ LastHead(q)' = LastHead(q)
              /\ pulls[q].at \in 2..Tip
          BY <1>6, <3>1 DEF Grows, Recorded
        <4>2. /\ base[pulls[q].at].pull = q /\ base[pulls[q].at].head = LastHead(q)
              /\ pulls[q].at \in Nat /\ pulls[q].at \in 1..Tip
          BY <1>4, <3>1, <4>1 DEF Recorded
        <4>3. /\ base'[pulls[q].at].pull = base[pulls[q].at].pull
              /\ base'[pulls[q].at].head = base[pulls[q].at].head
          BY <4>2 DEF BaseKept
        <4>4. pulls'[q].flag = "none"
          BY <1>1, <2>2, <3>1 DEF Recorded
        <4> QED BY <1>4, <4>1, <4>2, <4>3, <4>4
      <3>2. CASE pulls[q].state # "MERGED"
        BY <1>1, <2>2, <3>2 DEF LastHead
      <3> QED BY <3>1, <3>2
    <2> QED BY <2>1, <2>2 DEF BaseKept, Recorded
  <1> QED BY <1>5, <1>6, <1>7 DEF Kept

\* A step that changes none.
LEMMA NoPull ==
  ASSUME RepositoryOK, Recorded, BaseKept, pulls' = pulls, greens' = greens
  PROVE  Kept
  <1> DEFINE v == pulls[1]
  <1>1. 1 \in 1..N /\ v \in Pull
    BY NAssumption DEF RepositoryOK
  <1>2. pulls' = [pulls EXCEPT ![1] = v]
    BY <1>1 DEF RepositoryOK
  <1>3. \A k \in Nat : k \in 1..LastHead(1) =>
          /\ v.heads[k].upTo <= Tip'
          /\ v.heads[k].from = k - 1
          /\ v.heads[k].checks = "green" => <<1, k>> \in greens'
    <2> SUFFICES ASSUME NEW k \in Nat, k \in 1..LastHead(1)
                 PROVE  v.heads[k].upTo <= Tip'
      BY <1>1 DEF Recorded
    <2>1. v.heads[k] \in PullHead
      BY <1>1, ElementOfSeq DEF RepositoryOK, LastHead, Pull
    <2>2. v.heads[k].upTo \in Nat
      BY <2>1, EnvironmentAssumption DEF PullHead
    <2>3. v.heads[k].upTo <= Tip
      BY <1>1 DEF Recorded
    <2> QED BY <2>2, <2>3 DEF BaseKept, RepositoryOK
  <1>4. LastHead(1) = Len(v.heads) /\ LastHead(1) \in 1..MaxHeads
    BY <1>1 DEF LastHead, RepositoryOK
  <1> HIDE DEF v
  <1>5. /\ \A k \in Nat : k \in 1..LastHead(1) => SameHead(pulls[1].heads[k], v.heads[k])
        /\ pulls[1] = v
    BY DEF SameHead, v
  <1>6. Len(v.heads) \in LastHead(1)..MaxHeads /\ (v.state = "MERGED" => v.flag = "none")
    BY <1>1, <1>4, <1>5 DEF Recorded
  <1>7. greens \subseteq greens' /\ greens' \subseteq (1..N) \X (1..MaxHeads)
    BY DEF RepositoryOK
  <1> QED BY <1>1, <1>2, <1>3, <1>4, <1>5, <1>6, <1>7, OnePull

LEMMA PullFacts ==
  ASSUME RepositoryOK, NEW p \in 1..N
  PROVE  /\ pulls[p] \in Pull /\ pulls[p].heads \in Seq(PullHead)
         /\ LastHead(p) = Len(pulls[p].heads) /\ LastHead(p) \in 1..MaxHeads
         /\ LastHead(p) \in Nat /\ Tip \in Nat /\ Tip \in 1..MaxBase
         /\ \A k \in Nat : k \in 1..LastHead(p) => pulls[p].heads[k] \in PullHead
  <1>1. pulls[p] \in Pull
    BY DEF RepositoryOK
  <1>2. pulls[p].heads \in Seq(PullHead)
    BY <1>1 DEF Pull
  <1>3. LastHead(p) \in 1..MaxHeads /\ Tip \in 1..MaxBase
    BY DEF RepositoryOK
  <1>4. LastHead(p) \in Nat /\ Tip \in Nat
    BY <1>3, EnvironmentAssumption
  <1> QED BY <1>1, <1>2, <1>3, <1>4, ElementOfSeq DEF LastHead

\* The checks of a head turn.
LEMMA HeadTurns ==
  ASSUME RepositoryOK, Recorded, BaseStays, NEW p \in 1..N, NEW k \in 1..LastHead(p),
         NEW h \in PullHead, SameHead(pulls[p].heads[k], h),
         pulls' = [pulls EXCEPT ![p] = [pulls[p] EXCEPT !.heads =
                                          [pulls[p].heads EXCEPT ![k] = h]]],
         greens \subseteq greens', greens' \subseteq (1..N) \X (1..MaxHeads),
         h.checks = "green" => <<p, k>> \in greens'
  PROVE  Kept
  <1> DEFINE hs == [pulls[p].heads EXCEPT ![k] = h]
             v == [pulls[p] EXCEPT !.heads = hs]
  <1>1. /\ pulls[p] \in Pull /\ pulls[p].heads \in Seq(PullHead)
        /\ LastHead(p) = Len(pulls[p].heads) /\ LastHead(p) \in 1..MaxHeads
        /\ LastHead(p) \in Nat /\ k \in Nat
    BY PullFacts
  <1>2. /\ hs \in Seq(PullHead) /\ Len(hs) = LastHead(p)
        /\ \A j \in 1..LastHead(p) : hs[j] = IF j = k THEN h ELSE pulls[p].heads[j]
    BY <1>1, ExceptSeq
  <1>3. pulls' = [pulls EXCEPT ![p] = v]
    OBVIOUS
  <1> HIDE DEF hs
  <1>4. /\ v \in Pull /\ v.heads = hs /\ v.state = pulls[p].state /\ v.at = pulls[p].at
        /\ v.flag = pulls[p].flag
    BY <1>1, <1>2 DEF Pull
  <1> HIDE DEF v
  <1>5. Tip' = Tip
    BY DEF BaseStays, Tip
  <1>6. ASSUME NEW j \in Nat, j \in 1..LastHead(p)
        PROVE  /\ SameHead(pulls[p].heads[j], hs[j])
               /\ hs[j].upTo <= Tip
               /\ hs[j].from = j - 1
               /\ hs[j].checks = "green" => <<p, j>> \in greens'
    <2>1. /\ pulls[p].heads[j].upTo <= Tip
          /\ pulls[p].heads[j].from = j - 1
          /\ pulls[p].heads[j].checks = "green" => <<p, j>> \in greens
      BY <1>6 DEF Recorded
    <2>2. CASE j = k
      BY <1>2, <1>6, <2>1, <2>2 DEF SameHead
    <2>3. CASE j # k
      BY <1>2, <1>6, <2>1, <2>3 DEF SameHead
    <2> QED BY <2>2, <2>3
  <1>7. Len(v.heads) \in LastHead(p)..MaxHeads
    BY <1>1, <1>2, <1>4
  <1>8. v.state = "MERGED" => v.flag = "none"
    BY <1>4 DEF Recorded
  <1> QED BY <1>1, <1>2, <1>3, <1>4, <1>5, <1>6, <1>7, <1>8, StillKept, OnePull

\* A head is added to an open pull request.
LEMMA HeadAdded ==
  ASSUME RepositoryOK, Recorded, BaseStays, NEW p \in 1..N, NEW h \in PullHead,
         pulls[p].state = "OPEN", LastHead(p) < MaxHeads,
         h.from = LastHead(p), h.upTo <= Tip, h.checks = "pending",
         pulls' = [pulls EXCEPT ![p] = [pulls[p] EXCEPT !.heads = Append(pulls[p].heads, h)]],
         greens' = greens
  PROVE  Kept
  <1> DEFINE hs == Append(pulls[p].heads, h)
             v == [pulls[p] EXCEPT !.heads = hs]
  <1>1. /\ pulls[p] \in Pull /\ pulls[p].heads \in Seq(PullHead)
        /\ LastHead(p) = Len(pulls[p].heads) /\ LastHead(p) \in 1..MaxHeads
        /\ LastHead(p) \in Nat
    BY PullFacts
  <1>2. /\ hs \in Seq(PullHead) /\ Len(hs) = LastHead(p) + 1
        /\ \A j \in 1..LastHead(p) : hs[j] = pulls[p].heads[j]
        /\ hs[LastHead(p) + 1] = h
    BY <1>1, AppendProperties
  <1>3. pulls' = [pulls EXCEPT ![p] = v]
    OBVIOUS
  <1> HIDE DEF hs
  <1>4. /\ v \in Pull /\ v.heads = hs /\ v.state = pulls[p].state /\ v.at = pulls[p].at
        /\ v.flag = pulls[p].flag
    BY <1>1, <1>2 DEF Pull
  <1> HIDE DEF v
  <1>5. Tip' = Tip
    BY DEF BaseStays, Tip
  <1>6. ASSUME NEW j \in Nat, j \in 1..(LastHead(p) + 1)
        PROVE  /\ j \in 1..LastHead(p) => SameHead(pulls[p].heads[j], hs[j])
               /\ hs[j].upTo <= Tip
               /\ hs[j].from = j - 1
               /\ hs[j].checks = "green" => <<p, j>> \in greens'
    <2>1. CASE j = LastHead(p) + 1
      BY <1>1, <1>2, <2>1
    <2>2. CASE j \in 1..LastHead(p)
      <3>1. /\ pulls[p].heads[j].upTo <= Tip
            /\ pulls[p].heads[j].from = j - 1
            /\ pulls[p].heads[j].checks = "green" => <<p, j>> \in greens
        BY <2>2 DEF Recorded
      <3> QED BY <1>2, <2>2, <3>1 DEF SameHead
    <2> QED BY <1>1, <1>6, <2>1, <2>2
  <1>7. Len(v.heads) \in LastHead(p)..MaxHeads
    BY <1>1, <1>2, <1>4, EnvironmentAssumption
  <1>8. greens \subseteq greens' /\ greens' \subseteq (1..N) \X (1..MaxHeads)
    BY DEF RepositoryOK
  <1>9. \A k \in Nat : k \in 1..LastHead(p) => SameHead(pulls[p].heads[k], v.heads[k])
    <2> SUFFICES ASSUME NEW k \in Nat, k \in 1..LastHead(p)
                 PROVE  SameHead(pulls[p].heads[k], v.heads[k])
      OBVIOUS
    <2>1. k \in 1..(LastHead(p) + 1)
      BY <1>1
    <2> QED BY <1>4, <1>6, <2>1
  <1> QED BY <1>1, <1>2, <1>3, <1>4, <1>5, <1>6, <1>7, <1>8, <1>9, StillKept, OnePull

\* What is known of a pull request that isn't its heads turns.
LEMMA FlagTurns ==
  ASSUME RepositoryOK, Recorded, BaseKept, NEW p \in 1..N, NEW v \in Pull,
         pulls' = [pulls EXCEPT ![p] = v], v.heads = pulls[p].heads,
         v.state = "MERGED" <=> pulls[p].state = "MERGED",
         v.at = pulls[p].at, v.state = "MERGED" => v.flag = "none", greens' = greens
  PROVE  Kept
  <1>1. /\ LastHead(p) = Len(v.heads) /\ LastHead(p) \in 1..MaxHeads
        /\ LastHead(p) \in Nat /\ Tip \in Nat /\ Tip <= Tip' /\ Tip' \in Nat
    BY PullFacts DEF BaseKept
  <1>2. ASSUME NEW j \in Nat, j \in 1..LastHead(p)
        PROVE  /\ SameHead(pulls[p].heads[j], v.heads[j])
               /\ v.heads[j].upTo <= Tip'
               /\ v.heads[j].from = j - 1
               /\ v.heads[j].checks = "green" => <<p, j>> \in greens'
    <2>1. /\ pulls[p].heads[j].upTo <= Tip
          /\ pulls[p].heads[j].from = j - 1
          /\ pulls[p].heads[j].checks = "green" => <<p, j>> \in greens
      BY <1>2 DEF Recorded
    <2>2. pulls[p].heads[j] \in PullHead
      BY <1>2, PullFacts
    <2>3. pulls[p].heads[j].upTo \in Nat
      BY <2>2, EnvironmentAssumption DEF PullHead
    <2> QED BY <1>1, <2>1, <2>3 DEF SameHead
  <1>3. Len(v.heads) \in LastHead(p)..MaxHeads
    BY <1>1, EnvironmentAssumption
  <1>4. greens \subseteq greens' /\ greens' \subseteq (1..N) \X (1..MaxHeads)
    BY DEF RepositoryOK
  <1> QED BY <1>1, <1>2, <1>3, <1>4, OnePull

\* An open pull request lands, at its last head.
LEMMA Lands ==
  ASSUME RepositoryOK, Recorded, NEW p \in 1..N, NEW byQueue \in BOOLEAN,
         pulls[p].state = "OPEN", Land(p, LastHead(p), byQueue),
         greens' = greens, passed' = passed
  PROVE  /\ Kept /\ Tip' = Tip + 1
         /\ base'[Tip'].pull = p /\ base'[Tip'].head = LastHead(p)
         /\ base'[Tip'].byQueue = byQueue
         /\ \A i \in Nat : i \in 1..Tip => base'[i] = base[i]
         /\ pulls'[p].state = "MERGED" /\ pulls'[p].at = Tip + 1
         /\ \A q \in 1..N : q # p => pulls'[q] = pulls[q]
  <1> DEFINE c == [pull |-> p, head |-> LastHead(p), byQueue |-> byQueue, run |-> None]
             v == [pulls[p] EXCEPT !.state = "MERGED", !.at = Tip + 1, !.flag = "none"]
  <1>1. /\ pulls[p] \in Pull /\ LastHead(p) = Len(pulls[p].heads)
        /\ LastHead(p) \in 1..MaxHeads /\ LastHead(p) \in Nat
        /\ Tip \in Nat /\ Tip \in 1..MaxBase
    BY PullFacts
  <1>2. Tip < MaxBase /\ Tip + 1 \in 0..MaxBase
    BY <1>1, EnvironmentAssumption DEF Land
  <1>3. c \in BaseCommit /\ c.run = None
    BY <1>1, NAssumption, EnvironmentAssumption DEF BaseCommit, Nullable
  <1>4. base' = Append(base, c)
    BY DEF Land
  <1>5. pulls' = [pulls EXCEPT ![p] = v]
    BY DEF Land, RepositoryOK
  <1>6. /\ v \in Pull /\ v.heads = pulls[p].heads /\ v.state = "MERGED" /\ v.at = Tip + 1
        /\ v.flag = "none"
    BY <1>1, <1>2 DEF Pull
  <1> HIDE DEF v
  <1>7. /\ base' \in Seq(BaseCommit) /\ Tip' = Tip + 1
        /\ \A i \in 1..Tip : base'[i] = base[i]
        /\ base'[Tip + 1] = c
    BY <1>3, <1>4, AppendProperties DEF RepositoryOK, Tip
  <1>8. c.pull = p /\ c.head = LastHead(p) /\ c.byQueue = byQueue
    OBVIOUS
  <1> HIDE DEF c
  <1>9. BaseKept
    <2>1. Tip' \in Tip..MaxBase
      BY <1>1, <1>2, <1>7
    <2>2. ASSUME NEW i \in Nat, i \in 2..Tip', base'[i].run # None, base'[i].run.state = "success"
          PROVE  i \in passed'
      <3>1. i # Tip + 1
        BY <1>3, <1>7, <2>2
      <3>2. i \in 2..Tip /\ base'[i] = base[i]
        BY <1>1, <1>7, <2>2, <3>1
      <3> QED BY <2>2, <3>2 DEF Recorded
    <2> QED BY <1>7, <2>1, <2>2 DEF BaseKept, RepositoryOK
  <1>10. ASSUME NEW j \in Nat, j \in 1..LastHead(p)
         PROVE  /\ SameHead(pulls[p].heads[j], v.heads[j])
                /\ v.heads[j].upTo <= Tip'
                /\ v.heads[j].from = j - 1
                /\ v.heads[j].checks = "green" => <<p, j>> \in greens'
    <2>1. /\ pulls[p].heads[j].upTo <= Tip
          /\ pulls[p].heads[j].from = j - 1
          /\ pulls[p].heads[j].checks = "green" => <<p, j>> \in greens
      BY <1>10 DEF Recorded
    <2>2. pulls[p].heads[j] \in PullHead
      BY <1>10, PullFacts
    <2>3. pulls[p].heads[j].upTo \in Nat
      BY <2>2, EnvironmentAssumption DEF PullHead
    <2> QED BY <1>1, <1>6, <1>7, <2>1, <2>3 DEF SameHead
  <1>11. /\ Len(v.heads) \in LastHead(p)..MaxHeads /\ Len(v.heads) = LastHead(p)
         /\ v.at \in 2..Tip' /\ v.at = Tip + 1
    BY <1>1, <1>6, <1>7, EnvironmentAssumption
  <1>12. greens \subseteq greens' /\ greens' \subseteq (1..N) \X (1..MaxHeads)
    BY DEF RepositoryOK
  <1>13. Kept
    BY <1>5, <1>6, <1>7, <1>8, <1>9, <1>10, <1>11, <1>12, OnePull
  <1>14. pulls'[p] = v /\ \A q \in 1..N : q # p => pulls'[q] = pulls[q]
    BY <1>5 DEF RepositoryOK
  <1> QED BY <1>1, <1>6, <1>7, <1>8, <1>13, <1>14

\* GitHub merges the base into an open pull request's branch.
LEMMA UpdateKept ==
  ASSUME RepositoryOK, Recorded, BaseStays, NEW p \in 1..N, pulls[p].state = "OPEN",
         UpdateBranch(p), greens' = greens
  PROVE  Kept
  <1> DEFINE h == NewHead(TRUE, LastHead(p), Tip, Tip)
  <1>1. /\ LastHead(p) \in 1..MaxHeads /\ LastHead(p) \in Nat /\ Tip \in 1..MaxBase
    BY PullFacts
  <1>2. h \in PullHead /\ h.from = LastHead(p) /\ h.upTo <= Tip /\ h.checks = "pending"
    BY <1>1, EnvironmentAssumption DEF NewHead, PullHead, CheckState
  <1>3. /\ LastHead(p) < MaxHeads
        /\ pulls' = [pulls EXCEPT ![p] = [pulls[p] EXCEPT !.heads = Append(pulls[p].heads, h)]]
    BY DEF UpdateBranch, RepositoryOK
  <1> HIDE DEF h
  <1> QED BY <1>2, <1>3, HeadAdded

\* The checks of one of its heads are now these, in this run.
LEMMA ChecksTurn ==
  ASSUME RepositoryOK, Recorded, BaseStays, NEW p \in 1..N, NEW k \in 1..LastHead(p),
         NEW c \in CheckState, NEW run \in 1..3,
         pulls' = [pulls EXCEPT ![p] = [pulls[p] EXCEPT !.heads =
                     [pulls[p].heads EXCEPT ![k] =
                        [pulls[p].heads[k] EXCEPT !.checks = c, !.run = run]]]],
         greens \subseteq greens', greens' \subseteq (1..N) \X (1..MaxHeads),
         c = "green" => <<p, k>> \in greens'
  PROVE  Kept
  <1> DEFINE h == [pulls[p].heads[k] EXCEPT !.checks = c, !.run = run]
  <1>1. pulls[p].heads[k] \in PullHead
    BY PullFacts
  <1>2. h \in PullHead /\ SameHead(pulls[p].heads[k], h) /\ h.checks = c
    BY <1>1 DEF PullHead, SameHead
  <1>3. pulls' = [pulls EXCEPT ![p] = [pulls[p] EXCEPT !.heads =
                     [pulls[p].heads EXCEPT ![k] = h]]]
    OBVIOUS
  <1> HIDE DEF h
  <1> QED BY <1>2, <1>3, HeadTurns

\* The same, where the run stays.
LEMMA ChecksTurnTo ==
  ASSUME RepositoryOK, Recorded, BaseStays, NEW p \in 1..N, NEW k \in 1..LastHead(p),
         NEW c \in CheckState,
         pulls' = [pulls EXCEPT ![p].heads[k].checks = c],
         greens \subseteq greens', greens' \subseteq (1..N) \X (1..MaxHeads),
         c = "green" => <<p, k>> \in greens'
  PROVE  Kept
  <1> DEFINE h == pulls[p].heads[k]
  <1>1. h \in PullHead /\ pulls[p] \in Pull /\ k \in DOMAIN pulls[p].heads
    BY PullFacts, LenProperties
  <1>2. h.run \in 1..3
    BY <1>1 DEF PullHead
  <1>3. [h EXCEPT !.checks = c] = [h EXCEPT !.checks = c, !.run = h.run]
    BY <1>1 DEF PullHead
  <1>4. pulls' = [pulls EXCEPT ![p] = [pulls[p] EXCEPT !.heads =
                     [pulls[p].heads EXCEPT ![k] = [h EXCEPT !.checks = c]]]]
    OBVIOUS
  <1>5. pulls' = [pulls EXCEPT ![p] = [pulls[p] EXCEPT !.heads =
                     [pulls[p].heads EXCEPT ![k] = [h EXCEPT !.checks = c, !.run = h.run]]]]
    BY <1>3, <1>4
  <1> QED BY <1>2, <1>5, ChecksTurn

LEMMA RerunKept ==
  ASSUME RepositoryOK, Recorded, BaseStays, NEW p \in 1..N, NEW k \in 1..LastHead(p),
         pulls[p].heads[k].run < 3, Rerun(p, k), greens' = greens
  PROVE  Kept
  <1> DEFINE h == pulls[p].heads[k]
  <1>1. h \in PullHead /\ pulls[p] \in Pull /\ k \in DOMAIN pulls[p].heads
    BY PullFacts, LenProperties
  <1>2. h.run + 1 \in 1..3
    BY <1>1 DEF PullHead
  <1>3. pulls' = [pulls EXCEPT ![p] = [pulls[p] EXCEPT !.heads =
                     [pulls[p].heads EXCEPT ![k] =
                        [h EXCEPT !.checks = "pending", !.run = h.run + 1]]]]
    BY <1>1 DEF Rerun, RepositoryOK, Pull, PullHead
  <1>4. greens' \subseteq (1..N) \X (1..MaxHeads)
    BY DEF RepositoryOK
  <1> QED BY <1>2, <1>3, <1>4, ChecksTurn DEF CheckState

\* The runs of the base's commits turn, and nothing else.
LEMMA RunsTurn ==
  ASSUME RepositoryOK, Recorded, NEW b \in Seq(BaseCommit), base' = b, Len(b) = Tip,
         \A i \in Nat : i \in 1..Tip =>
           /\ b[i].pull = base[i].pull /\ b[i].head = base[i].head
           /\ b[i].byQueue = base[i].byQueue
           /\ b[i].run # None /\ b[i].run.state = "success" =>
                i \in passed' \/ b[i].run = base[i].run,
         passed \subseteq passed', passed' \subseteq 1..MaxBase,
         pulls' = pulls, greens' = greens
  PROVE  Kept /\ Tip' = Tip
  <1>1. Tip \in Nat /\ Tip' = Tip /\ Tip' \in Tip..MaxBase
    BY EnvironmentAssumption DEF RepositoryOK, Tip
  <1>2. ASSUME NEW i \in Nat, i \in 2..Tip', base'[i].run # None, base'[i].run.state = "success"
        PROVE  i \in passed'
    <2>1. i \in 1..Tip /\ i \in 2..Tip
      BY <1>1, <1>2
    <2>2. i \in passed' \/ b[i].run = base[i].run
      BY <1>2, <2>1
    <2> QED BY <1>2, <2>1, <2>2 DEF Recorded
  <1>3. BaseKept
    BY <1>1, <1>2 DEF BaseKept
  <1> QED BY <1>1, <1>3, NoPull

LEMMA BaseFacts ==
  ASSUME RepositoryOK, NEW i \in 1..Tip
  PROVE  /\ base[i] \in BaseCommit /\ i \in Nat
         /\ base[i].run # None => base[i].run \in [state: RunState, attempt: 1..2]
  <1>1. base[i] \in BaseCommit
    BY ElementOfSeq DEF RepositoryOK, Tip
  <1>2. i \in Nat
    BY EnvironmentAssumption DEF RepositoryOK
  <1> QED BY <1>1, <1>2 DEF BaseCommit, Nullable

LEMMA StartedKept ==
  ASSUME RepositoryOK, Recorded, NEW i \in 1..Tip, NEW attempt \in 1..2,
         base' = Started(base, i, attempt), pulls' = pulls, greens' = greens, passed' = passed
  PROVE  Kept /\ Tip' = Tip
  <1> DEFINE b == Started(base, i, attempt)
  <1>1. DOMAIN base = 1..Tip /\ Tip \in Nat
    BY LenProperties DEF RepositoryOK, Tip
  <1>2. ASSUME NEW j \in 1..Tip
        PROVE  /\ b[j] \in BaseCommit
               /\ b[j].pull = base[j].pull /\ b[j].head = base[j].head
               /\ b[j].byQueue = base[j].byQueue
               /\ b[j].run # None /\ b[j].run.state = "success" => b[j].run = base[j].run
    <2>1. /\ base[j] \in BaseCommit /\ j \in Nat
          /\ base[j].run # None => base[j].run \in [state: RunState, attempt: 1..2]
      BY BaseFacts
    <2>2. b[j] = IF j = i THEN [base[j] EXCEPT !.run = [state |-> "unfinished", attempt |-> attempt]]
                 ELSE IF base[j].run # None /\ base[j].run.state = "unfinished"
                 THEN [base[j] EXCEPT !.run.state = "cancelled"]
                 ELSE base[j]
      BY <1>1 DEF Started
    <2>3. CASE j = i
      <3>1. [state |-> "unfinished", attempt |-> attempt] \in [state: RunState, attempt: 1..2]
        BY DEF RunState
      <3> QED BY <2>1, <2>2, <2>3, <3>1 DEF BaseCommit, Nullable
    <2>4. CASE j # i /\ base[j].run # None /\ base[j].run.state = "unfinished"
      <3> DEFINE r == [base[j].run EXCEPT !.state = "cancelled"]
      <3>1. b[j] = [base[j] EXCEPT !.run = r]
        BY <2>2, <2>4
      <3>2. r \in [state: RunState, attempt: 1..2] /\ r.state = "cancelled"
        BY <2>1, <2>4 DEF RunState
      <3> HIDE DEF r
      <3> QED BY <2>1, <3>1, <3>2 DEF BaseCommit, Nullable
    <2>5. CASE j # i /\ ~(base[j].run # None /\ base[j].run.state = "unfinished")
      BY <2>1, <2>2, <2>5
    <2> QED BY <2>3, <2>4, <2>5
  <1>3. b \in [1..Tip -> BaseCommit]
    BY <1>1, <1>2 DEF Started
  <1> HIDE DEF b
  <1>4. b \in Seq(BaseCommit) /\ Len(b) = Tip
    BY <1>1, <1>3
  <1>5. base' = b
    BY DEF b
  <1>6. passed \subseteq passed' /\ passed' \subseteq 1..MaxBase
    BY DEF RepositoryOK
  <1> QED BY <1>2, <1>4, <1>5, <1>6, RunsTurn

LEMMA RunTurns ==
  ASSUME RepositoryOK, Recorded, NEW i \in 1..Tip, NEW s \in RunState,
         base[i].run # None, base' = [base EXCEPT ![i].run.state = s],
         pulls' = pulls, greens' = greens,
         passed' = IF s = "success" THEN passed \cup {i} ELSE passed
  PROVE  Kept /\ Tip' = Tip
  <1> DEFINE r == [base[i].run EXCEPT !.state = s]
             c == [base[i] EXCEPT !.run = r]
             b == [base EXCEPT ![i] = c]
  <1>1. /\ base[i] \in BaseCommit /\ base[i].run \in [state: RunState, attempt: 1..2]
        /\ base \in Seq(BaseCommit) /\ Tip = Len(base) /\ Tip \in 1..MaxBase
    BY BaseFacts DEF RepositoryOK, Tip
  <1>2. base' = b
    BY <1>1, LenProperties DEF BaseCommit
  <1>3. r \in [state: RunState, attempt: 1..2] /\ r.state = s
    BY <1>1
  <1> HIDE DEF r
  <1>4. /\ c \in BaseCommit /\ c.pull = base[i].pull /\ c.head = base[i].head
        /\ c.byQueue = base[i].byQueue /\ c.run = r
    BY <1>1, <1>3 DEF BaseCommit, Nullable
  <1> HIDE DEF c
  <1>5. /\ b \in Seq(BaseCommit) /\ Len(b) = Tip
        /\ \A j \in 1..Tip : b[j] = IF j = i THEN c ELSE base[j]
    BY <1>1, <1>4, ExceptSeq
  <1> HIDE DEF b
  <1>6. i \in 1..MaxBase
    BY <1>1, EnvironmentAssumption
  <1>7. passed \subseteq passed' /\ passed' \subseteq 1..MaxBase
    BY <1>6 DEF RepositoryOK
  <1>8. ASSUME NEW j \in Nat, j \in 1..Tip
        PROVE  /\ b[j].pull = base[j].pull /\ b[j].head = base[j].head
               /\ b[j].byQueue = base[j].byQueue
               /\ b[j].run # None /\ b[j].run.state = "success" =>
                    j \in passed' \/ b[j].run = base[j].run
    BY <1>3, <1>4, <1>5, <1>8
  <1> QED BY <1>2, <1>5, <1>7, <1>8, RunsTurn

\* No commit of the queue's is added.
NoLanding ==
    \A i \in Nat : i \in 1..Tip' => i \in 1..Tip \/ ~base'[i].byQueue

\* What the world does of its own, and what GitHub put off does, unless it is
\* a merge.
LEMMA PushKept ==
  ASSUME RepositoryOK, Recorded, PushToBase
  PROVE  Kept /\ NoLanding
  <1> DEFINE c == [pull |-> 0, head |-> 0, byQueue |-> FALSE, run |-> None]
  <1>1. c \in BaseCommit /\ c.run = None /\ c.byQueue = FALSE
    BY NAssumption, EnvironmentAssumption DEF BaseCommit, Nullable
  <1>2. base' = Append(base, c) /\ Tip < MaxBase /\ Tip \in Nat /\ passed' = passed /\ greens' = greens
    BY EnvironmentAssumption DEF PushToBase, RepositoryOK
  <1> HIDE DEF c
  <1>3. /\ base' \in Seq(BaseCommit) /\ Tip' = Tip + 1
        /\ \A i \in 1..Tip : base'[i] = base[i]
        /\ base'[Tip + 1] = c
    BY <1>1, <1>2, AppendProperties DEF RepositoryOK, Tip
  <1>8. Tip \in Nat /\ passed' = passed
    BY <1>2
  <1>4. BaseKept
    <2>1. Tip' \in Tip..MaxBase
      BY <1>2, <1>3, EnvironmentAssumption
    <2>2. ASSUME NEW i \in Nat, i \in 2..Tip', base'[i].run # None, base'[i].run.state = "success"
          PROVE  i \in passed'
      <3>1. i # Tip + 1
        BY <1>1, <1>3, <2>2
      <3>2. i \in 2..Tip /\ base'[i] = base[i]
        BY <1>8, <1>3, <2>2, <3>1
      <3> QED BY <1>8, <2>2, <3>2 DEF Recorded
    <2> QED BY <1>2, <1>3, <2>1, <2>2 DEF BaseKept, RepositoryOK
  <1>5. NoLanding
    BY <1>1, <1>8, <1>3 DEF NoLanding
  <1>6. CASE UNCHANGED pulls
    BY <1>2, <1>4, <1>5, <1>6, NoPull
  <1>7. ASSUME NEW p \in 1..N, pulls' = [pulls EXCEPT ![p].conflict = TRUE]
        PROVE  Kept
    <2> DEFINE v == [pulls[p] EXCEPT !.conflict = TRUE]
    <2>1. pulls[p] \in Pull
      BY DEF RepositoryOK
    <2>2. /\ v \in Pull /\ v.heads = pulls[p].heads /\ v.state = pulls[p].state /\ v.at = pulls[p].at
          /\ v.state = "MERGED" => v.flag = "none"
      BY <2>1 DEF Pull, Recorded
    <2>3. pulls' = [pulls EXCEPT ![p] = v]
      BY <1>7
    <2> HIDE DEF v
    <2> QED BY <1>2, <1>4, <2>2, <2>3, FlagTurns
  <1> QED BY <1>5, <1>6, <1>7 DEF PushToBase

LEMMA NothingLands ==
  ASSUME RepositoryOK, Tip' = Tip
  PROVE  NoLanding
  BY DEF NoLanding

LEMMA PushToPullKept ==
  ASSUME RepositoryOK, Recorded, NEW p \in 1..N, PushToPull(p)
  PROVE  Kept /\ NoLanding
  <1>1. /\ LastHead(p) \in 1..MaxHeads /\ LastHead(p) \in Nat /\ Tip \in 1..MaxBase
        /\ HeadOf(p) \in PullHead
    BY PullFacts DEF HeadOf
  <1>2. HeadOf(p).upTo \in 0..MaxBase /\ HeadOf(p).upTo <= Tip
    <2>1. HeadOf(p).upTo \in 0..MaxBase
      BY <1>1 DEF PullHead
    <2>3. LastHead(p) \in 1..LastHead(p)
      BY <1>1
    <2>2. pulls[p].heads[LastHead(p)].upTo <= Tip
      BY <1>1, <2>3 DEF Recorded
    <2> QED BY <2>1, <2>2 DEF HeadOf
  <1>3. PICK h \in {NewHead(FALSE, LastHead(p), Tip, Tip),
                    NewHead(TRUE, LastHead(p), HeadOf(p).upTo, 0),
                    NewHead(TRUE, LastHead(p), Tip, Tip)} :
          pulls' = [pulls EXCEPT ![p].heads = Append(@, h)]
    BY DEF PushToPull
  <1>4. /\ pulls[p].state = "OPEN" /\ LastHead(p) < MaxHeads
        /\ BaseStays /\ greens' = greens
    BY DEF PushToPull, BaseStays
  <1>5. h \in PullHead /\ h.from = LastHead(p) /\ h.upTo <= Tip /\ h.checks = "pending"
    <2>1. /\ LastHead(p) \in 0..MaxHeads /\ Tip \in 0..MaxBase /\ Tip \in Nat
          /\ 0 \in 0..MaxBase /\ 1 \in 1..3 /\ Tip <= Tip
      BY <1>1, EnvironmentAssumption
    <2>2. ASSUME NEW webFlow \in BOOLEAN, NEW upTo \in 0..MaxBase, NEW merged \in 0..MaxBase,
                 upTo <= Tip, h = NewHead(webFlow, LastHead(p), upTo, merged)
          PROVE  h \in PullHead /\ h.from = LastHead(p) /\ h.upTo <= Tip /\ h.checks = "pending"
      BY <2>1, <2>2 DEF NewHead, PullHead, CheckState
    <2>3. CASE h = NewHead(FALSE, LastHead(p), Tip, Tip)
      BY <2>1, <2>2, <2>3
    <2>4. CASE h = NewHead(TRUE, LastHead(p), HeadOf(p).upTo, 0)
      BY <1>2, <2>1, <2>2, <2>4
    <2>5. CASE h = NewHead(TRUE, LastHead(p), Tip, Tip)
      BY <2>1, <2>2, <2>5
    <2> QED BY <1>3, <2>3, <2>4, <2>5
  <1>6. pulls' = [pulls EXCEPT ![p] = [pulls[p] EXCEPT !.heads = Append(pulls[p].heads, h)]]
    BY <1>3 DEF RepositoryOK
  <1>7. Kept
    BY <1>4, <1>5, <1>6, HeadAdded
  <1>8. Tip' = Tip
    BY <1>4 DEF BaseStays, Tip
  <1> QED BY <1>7, <1>8, NothingLands

LEMMA MergedOutsideKept ==
  ASSUME RepositoryOK, Recorded, NEW p \in 1..N, MergedOutside(p)
  PROVE  Kept /\ NoLanding
  <1>1. /\ pulls[p].state = "OPEN" /\ Land(p, LastHead(p), FALSE)
        /\ greens' = greens /\ passed' = passed
    BY DEF MergedOutside
  <1>2. /\ Kept /\ Tip' = Tip + 1 /\ base'[Tip'].byQueue = FALSE
    BY <1>1, Lands
  <1>3. Tip \in Nat
    BY PullFacts
  <1> QED BY <1>2, <1>3 DEF NoLanding

\* What is known of the pull request on GitHub or on this Mac, but its heads.
LEMMA DetailTurns ==
  ASSUME RepositoryOK, Recorded, BaseStays, greens' = greens, NEW p \in 1..N,
         \/ pulls[p].state = "OPEN" /\ pulls' = [pulls EXCEPT ![p].state = "CLOSED"]
         \/ /\ pulls[p].state = "OPEN"
            /\ \E flag \in {"ineligible", "autoMerge"} : pulls' = [pulls EXCEPT ![p].flag = flag]
         \/ \E busy \in BOOLEAN : pulls' = [pulls EXCEPT ![p].busy = busy]
         \/ \E tree \in {"trackedChanges", "unpushed"} : pulls' = [pulls EXCEPT ![p].tree = tree]
  PROVE  Kept /\ NoLanding
  <1>1. pulls[p] \in Pull
    BY DEF RepositoryOK
  <1> DEFINE Turned(v) == /\ pulls' = [pulls EXCEPT ![p] = v] /\ v.heads = pulls[p].heads
                          /\ v.state = "MERGED" <=> pulls[p].state = "MERGED"
                          /\ v.at = pulls[p].at /\ (v.state = "MERGED" => v.flag = "none")
  <1>2. \E v \in Pull : Turned(v)
    <2>1. CASE pulls[p].state = "OPEN" /\ pulls' = [pulls EXCEPT ![p].state = "CLOSED"]
      <3> DEFINE v == [pulls[p] EXCEPT !.state = "CLOSED"]
      <3>1. /\ v \in Pull /\ v.heads = pulls[p].heads /\ v.state = "CLOSED" /\ v.at = pulls[p].at
            /\ v.state = "MERGED" => v.flag = "none"
        BY <1>1 DEF Pull, Recorded
      <3> QED BY <2>1, <3>1
    <2>2. ASSUME pulls[p].state = "OPEN", NEW flag \in {"ineligible", "autoMerge"}, pulls' = [pulls EXCEPT ![p].flag = flag]
          PROVE  \E v \in Pull : Turned(v)
      <3> DEFINE v == [pulls[p] EXCEPT !.flag = flag]
      <3>1. /\ v \in Pull /\ v.heads = pulls[p].heads /\ v.state = "OPEN" /\ v.at = pulls[p].at
        BY <1>1, <2>2 DEF Pull
      <3> QED BY <2>2, <3>1
    <2>3. ASSUME NEW busy \in BOOLEAN, pulls' = [pulls EXCEPT ![p].busy = busy]
          PROVE  \E v \in Pull : Turned(v)
      <3> DEFINE v == [pulls[p] EXCEPT !.busy = busy]
      <3>1. /\ v \in Pull /\ v.heads = pulls[p].heads /\ v.state = pulls[p].state /\ v.at = pulls[p].at
            /\ v.state = "MERGED" => v.flag = "none"
        BY <1>1 DEF Pull, Recorded
      <3> QED BY <2>3, <3>1
    <2>4. ASSUME NEW tree \in {"trackedChanges", "unpushed"}, pulls' = [pulls EXCEPT ![p].tree = tree]
          PROVE  \E v \in Pull : Turned(v)
      <3> DEFINE v == [pulls[p] EXCEPT !.tree = tree]
      <3>1. /\ v \in Pull /\ v.heads = pulls[p].heads /\ v.state = pulls[p].state /\ v.at = pulls[p].at
            /\ v.state = "MERGED" => v.flag = "none"
        BY <1>1 DEF Pull, Recorded
      <3> QED BY <2>4, <3>1
    <2> QED BY <2>1, <2>2, <2>3, <2>4
  <1>3. Kept
    BY <1>2, StillKept, FlagTurns
  <1>4. Tip' = Tip
    BY DEF BaseStays, Tip
  <1> QED BY <1>3, <1>4, NothingLands

LEMMA CheckTurnsKept ==
  ASSUME RepositoryOK, Recorded, NEW p \in 1..N, CheckTurns(p)
  PROVE  Kept /\ NoLanding
  <1>1. /\ LastHead(p) \in 1..LastHead(p) /\ BaseStays /\ greens' = greens
        /\ greens \subseteq greens' /\ greens' \subseteq (1..N) \X (1..MaxHeads)
    BY PullFacts DEF CheckTurns, BaseStays, RepositoryOK
  <1>2. Tip' = Tip
    BY <1>1 DEF BaseStays, Tip
  <1>3. ASSUME NEW c \in {"failing", "notGreen", "mixed", "otherFailed"},
               pulls' = [pulls EXCEPT ![p].heads[LastHead(p)].checks = c]
        PROVE  Kept
    BY <1>1, <1>3, ChecksTurnTo DEF CheckState
  <1>4. CASE HeadOf(p).run < 3 /\ Rerun(p, LastHead(p))
    <2>1. PICK k \in 1..LastHead(p) : k = LastHead(p)
      BY <1>1
    <2>2. pulls[p].heads[k].run < 3 /\ Rerun(p, k)
      BY <1>4, <2>1 DEF HeadOf
    <2> QED BY <1>1, <1>2, <2>2, RerunKept, NothingLands
  <1> QED BY <1>2, <1>3, <1>4, NothingLands DEF CheckTurns

LEMMA BaseRunTurnsKept ==
  ASSUME RepositoryOK, Recorded, NEW i \in 1..Tip, BaseRunTurns(i)
  PROVE  Kept /\ NoLanding
  <1>1. base[i].run # None /\ pulls' = pulls /\ greens' = greens /\ passed' = passed
    BY DEF BaseRunTurns
  <1>2. CASE base' = [base EXCEPT ![i].run.state = "failed"]
    <2>1. Kept /\ Tip' = Tip
      BY <1>1, <1>2, RunTurns DEF RunState
    <2> QED BY <2>1, NothingLands
  <1>3. CASE base' = Started(base, i, 2)
    <2>1. Kept /\ Tip' = Tip
      BY <1>1, <1>3, StartedKept
    <2> QED BY <2>1, NothingLands
  <1> QED BY <1>2, <1>3 DEF BaseRunTurns

LEMMA DisturbKept ==
  ASSUME RepositoryOK, Recorded, Disturb
  PROVE  Kept /\ NoLanding /\ late' = late
  <1>1. CASE PushToBase
    BY <1>1, PushKept DEF PushToBase
  <1>2. ASSUME NEW p \in 1..N, PushToPull(p)
        PROVE  Kept /\ NoLanding /\ late' = late
    BY <1>2, PushToPullKept DEF PushToPull
  <1>3. ASSUME NEW p \in 1..N, MergedOutside(p)
        PROVE  Kept /\ NoLanding /\ late' = late
    BY <1>3, MergedOutsideKept DEF MergedOutside
  <1>4. ASSUME NEW p \in 1..N, EditPull(p)
        PROVE  Kept /\ NoLanding /\ late' = late
    BY <1>4, DetailTurns DEF EditPull, BaseStays
  <1>5. ASSUME NEW p \in 1..N, CheckTurns(p)
        PROVE  Kept /\ NoLanding /\ late' = late
    BY <1>5, CheckTurnsKept DEF CheckTurns
  <1>6. ASSUME NEW p \in 1..N, LocalWork(p)
        PROVE  Kept /\ NoLanding /\ late' = late
    BY <1>6, DetailTurns DEF LocalWork, BaseStays
  <1>7. ASSUME NEW i \in 1..Tip, BaseRunTurns(i)
        PROVE  Kept /\ NoLanding /\ late' = late
    BY <1>7, BaseRunTurnsKept DEF BaseRunTurns
  <1> QED BY <1>1, <1>2, <1>3, <1>4, <1>5, <1>6, <1>7 DEF Disturb

LEMMA IdlesKept ==
  ASSUME RepositoryOK, Recorded, AgentIdles
  PROVE  Kept /\ NoLanding /\ late' = late
  <1>1. PICK p \in 1..N : pulls' = [pulls EXCEPT ![p].busy = FALSE]
    BY DEF AgentIdles
  <1>2. BaseStays /\ greens' = greens /\ late' = late
    BY DEF AgentIdles, BaseStays
  <1> QED BY <1>1, <1>2, DetailTurns

\* A merge that GitHub put off, or that it makes at once: the queue's, in any
\* case.
LandsLate(e) ==
    /\ e \in late /\ e.mutation = "merge"
    /\ pulls[e.pull].state = "OPEN" /\ LastHead(e.pull) = e.head
    /\ Land(e.pull, e.head, TRUE)
    /\ UNCHANGED <<greens, passed>>

LateOK == late \subseteq [mutation: Mutation, pull: 1..N, head: 1..MaxHeads]

LEMMA LateKept ==
  ASSUME RepositoryOK, Recorded, LateOK, PutOff, NEW e \in late, LateEffect(e)
  PROVE  Kept /\ late' \subseteq late /\ (NoLanding \/ LandsLate(e))
  <1>1. /\ late' \subseteq late /\ greens' = greens /\ passed' = passed
    BY DEF LateEffect
  <1>2. e.pull \in 1..N
    BY DEF LateOK
  <1>3. CASE LandsLate(e)
    BY <1>1, <1>2, <1>3, Lands DEF LandsLate
  <1>4. CASE /\ pulls[e.pull].state = "OPEN" /\ UpdateBranch(e.pull) /\ UNCHANGED base
    <2>1. BaseStays /\ Tip' = Tip
      BY <1>1, <1>4 DEF BaseStays, Tip
    <2> QED BY <1>1, <1>2, <1>4, <2>1, UpdateKept, NothingLands
  <1>5. CASE /\ pulls[e.pull].heads[e.head].checks = "failed"
             /\ pulls[e.pull].heads[e.head].run < 3
             /\ Rerun(e.pull, e.head) /\ UNCHANGED base
    <2>1. BaseStays /\ Tip' = Tip
      BY <1>1, <1>5 DEF BaseStays, Tip
    <2>2. e.head \in 1..LastHead(e.pull)
      BY <1>2 DEF PutOff, Chain
    <2> QED BY <1>1, <1>2, <1>5, <2>1, <2>2, RerunKept, NothingLands
  <1>6. CASE UNCHANGED <<base, pulls>>
    <2>1. BaseStays /\ Tip' = Tip
      BY <1>1, <1>6 DEF BaseStays, Tip
    <2> QED BY <1>1, <1>6, <2>1, StillKept, NoPull, NothingLands
  <1> QED BY <1>1, <1>3, <1>4, <1>5, <1>6 DEF LateEffect, LandsLate

LEMMA SmoothKept ==
  ASSUME RepositoryOK, Recorded, LateOK, PutOff, Smooth
  PROVE  /\ Kept /\ late' \subseteq late
         /\ NoLanding \/ \E e \in late : LandsLate(e)
  <1>1. ASSUME NEW p \in 1..N, CheckPasses(p)
        PROVE  Kept /\ NoLanding /\ late' = late
    <2>1. /\ LastHead(p) \in 1..LastHead(p) /\ BaseStays /\ Tip' = Tip /\ late' = late
          /\ LastHead(p) \in 1..MaxHeads
      BY <1>1, PullFacts DEF CheckPasses, BaseStays, Tip
    <2>2. /\ greens \subseteq greens' /\ greens' \subseteq (1..N) \X (1..MaxHeads)
          /\ <<p, LastHead(p)>> \in greens'
          /\ pulls' = [pulls EXCEPT ![p].heads[LastHead(p)].checks = "green"]
      BY <1>1, <2>1 DEF CheckPasses, RepositoryOK
    <2> QED BY <2>1, <2>2, ChecksTurnTo, NothingLands DEF CheckState
  <1>2. ASSUME NEW p \in 1..N, CheckRunEnds(p)
        PROVE  Kept /\ NoLanding /\ late' = late
    <2>1. /\ LastHead(p) \in 1..LastHead(p) /\ BaseStays /\ Tip' = Tip /\ late' = late
      BY <1>2, PullFacts DEF CheckRunEnds, BaseStays, Tip
    <2>2. /\ greens \subseteq greens' /\ greens' \subseteq (1..N) \X (1..MaxHeads)
          /\ pulls' = [pulls EXCEPT ![p].heads[LastHead(p)].checks = "failed"]
      BY <1>2 DEF CheckRunEnds, RepositoryOK
    <2> QED BY <2>1, <2>2, ChecksTurnTo, NothingLands DEF CheckState
  <1>3. CASE BaseRunStarts
    <2>1. Tip \in 1..Tip
      BY EnvironmentAssumption DEF RepositoryOK
    <2>2. Kept /\ Tip' = Tip
      BY <1>3, <2>1, StartedKept DEF BaseRunStarts
    <2> QED BY <1>3, <2>2, NothingLands DEF BaseRunStarts
  <1>4. ASSUME NEW i \in 1..Tip, BaseRunPasses(i)
        PROVE  Kept /\ NoLanding /\ late' = late
    <2>1. Kept /\ Tip' = Tip
      BY <1>4, RunTurns DEF BaseRunPasses, RunState
    <2> QED BY <1>4, <2>1, NothingLands DEF BaseRunPasses
  <1> QED BY <1>1, <1>2, <1>3, <1>4, LateKept DEF Smooth

-----------------------------------------------------------------------------
(* What the queue knows stays true *)

LEMMA HeadStays ==
  ASSUME Grows, NEW p \in 1..N, NEW k \in Nat, k \in 1..LastHead(p)
  PROVE  SameHead(pulls[p].heads[k], pulls'[p].heads[k])
  BY DEF Grows

LEMMA MadeKept ==
  ASSUME Grows, NEW p \in 1..N, NEW k \in Nat, k \in 1..LastHead(p), Made(p, k)
  PROVE  Made(p, k)'
  BY HeadStays DEF Made, SameHead

\* More heads: those that were heads before still are.
LEMMA HeadsStay ==
  ASSUME RepositoryOK, Kept, NEW p \in 1..N
  PROVE  /\ LastHead(p) \in Nat /\ LastHead(p)' \in Nat /\ LastHead(p) <= LastHead(p)'
         /\ \A k \in 1..LastHead(p) : k \in Nat /\ k \in 1..LastHead(p)'
         /\ Tip \in Nat /\ Tip' \in Nat /\ Tip <= Tip'
         /\ \A i \in 1..Tip : i \in Nat /\ i \in 1..Tip'
  <1>1. /\ LastHead(p) \in Nat /\ LastHead(p)' \in Nat /\ Tip \in Nat /\ Tip' \in Nat
    BY EnvironmentAssumption DEF Kept, RepositoryOK
  <1>2. LastHead(p) <= LastHead(p)' /\ Tip <= Tip'
    BY DEF Kept, Grows
  <1> QED BY <1>1, <1>2

LEMMA ChainKept ==
  ASSUME RepositoryOK, Kept, NEW p \in 1..N, NEW c, Chain(p, c)
  PROVE  Chain(p, c)'
  <1>1. PICK k \in 1..LastHead(p) : c = <<p, k>> /\ \A j \in 2..k : Made(p, j)
    BY DEF Chain
  <1>2. k \in 1..LastHead(p)' /\ LastHead(p) \in Nat
    BY HeadsStay
  <1>3. ASSUME NEW j \in 2..k
        PROVE  Made(p, j)'
    <2>1. j \in Nat /\ j \in 1..LastHead(p)
      BY <1>2
    <2> QED BY <1>1, <2>1, MadeKept DEF Kept
  <1> QED BY <1>1, <1>2, <1>3 DEF Chain

LEMMA TestedKept ==
  ASSUME RepositoryOK, Kept, NEW p \in 1..N, NEW c, NEW t, Tested(p, c, t)
  PROVE  Tested(p, c, t)'
  <1>1. PICK k \in 1..LastHead(p), i \in 1..Tip :
          /\ c = <<p, k>> /\ t = <<0, i>>
          /\ pulls[p].heads[k].upTo = i
          /\ <<p, k>> \in greens
    BY DEF Tested
  <1>2. k \in Nat /\ k \in 1..LastHead(p)' /\ i \in 1..Tip'
    BY HeadsStay
  <1>3. pulls'[p].heads[k].upTo = i /\ <<p, k>> \in greens'
    BY <1>1, <1>2, HeadStays DEF Kept, Grows, SameHead
  <1> QED BY <1>1, <1>2, <1>3 DEF Tested

\* A merged pull request: its commit of the base, for good.
LEMMA MergeStays ==
  ASSUME RepositoryOK, Recorded, Kept, NEW p \in 1..N, pulls[p].state = "MERGED"
  PROVE  LET m == pulls[p].at
             k == base[m].head
         IN /\ pulls'[p].state = "MERGED" /\ pulls'[p].at = m
            /\ base'[m].head = k /\ base'[m].pull = base[m].pull
            /\ m \in 1..Tip /\ m \in Nat /\ k \in 1..LastHead(p) /\ k \in Nat
            /\ k = LastHead(p) /\ LastHead(p)' = k
            /\ SameHead(pulls[p].heads[k], pulls'[p].heads[k])
  <1> DEFINE m == pulls[p].at
             k == base[m].head
  <1>1. m \in 2..Tip /\ k = LastHead(p)
    BY DEF Recorded
  <1>2. m \in 1..Tip /\ m \in Nat /\ k \in 1..LastHead(p) /\ k \in Nat
    BY <1>1, PullFacts
  <1>3. pulls'[p].state = "MERGED" /\ pulls'[p].at = m /\ LastHead(p)' = k
    BY <1>1 DEF Kept, Grows
  <1>4. base'[m].head = k /\ base'[m].pull = base[m].pull
    BY <1>2 DEF Kept, Grows
  <1>5. SameHead(pulls[p].heads[k], pulls'[p].heads[k])
    BY <1>2, HeadStays DEF Kept
  <1> QED BY <1>1, <1>2, <1>3, <1>4, <1>5

LEMMA ThroughKept ==
  ASSUME RepositoryOK, Recorded, Kept, NEW p \in 1..N, NEW e, Through(p, e)
  PROVE  Through(p, e)'
  <1> SUFFICES ASSUME e.step \in {"waitingForPostMerge", "done"} PROVE Through(p, e)'
    BY DEF Through
  <1>1. pulls[p].state = "MERGED"
    BY DEF Through
  <1>2. passed \subseteq passed' /\ greens \subseteq greens'
    BY DEF Kept, Grows
  <1> QED BY <1>1, <1>2, MergeStays DEF Through, SameHead

LEMMA GroundedKept ==
  ASSUME RepositoryOK, Kept, NEW p \in 1..N, NEW q, NEW e, Grounded(p, q, e)
  PROVE  Grounded(p, q, e)'
  <1>1. ASSUME q.kind = "updateCommit"
        PROVE  \E k \in 1..LastHead(p)' : q.other = <<p, k>>
    BY <1>1, HeadsStay DEF Grounded
  <1>2. ASSUME q.kind = "updateBase"
        PROVE  (\E k \in 1..LastHead(p) :
                 /\ k > 1 /\ q.head = <<p, k>>
                 /\ pulls[p].heads[k].webFlow /\ pulls[p].heads[k].from = k - 1
                 /\ \A j \in 2..(k - 1) : Made(p, j)
                 /\ q.other = <<0, pulls[p].heads[k].merged>>)'
    <2>1. PICK k \in 1..LastHead(p) :
                 /\ k > 1 /\ q.head = <<p, k>>
                 /\ pulls[p].heads[k].webFlow /\ pulls[p].heads[k].from = k - 1
                 /\ \A j \in 2..(k - 1) : Made(p, j)
                 /\ q.other = <<0, pulls[p].heads[k].merged>>
      BY <1>2 DEF Grounded
    <2>2. k \in Nat /\ k \in 1..LastHead(p)' /\ LastHead(p) \in Nat
      BY HeadsStay
    <2>3. /\ pulls'[p].heads[k].webFlow /\ pulls'[p].heads[k].from = k - 1
          /\ q.other = <<0, pulls'[p].heads[k].merged>>
      BY <2>1, <2>2, HeadStays DEF Kept, SameHead
    <2>4. ASSUME NEW j \in 2..(k - 1)
          PROVE  Made(p, j)'
      <3>1. j \in Nat /\ j \in 1..LastHead(p)
        BY <2>2
      <3> QED BY <2>1, <3>1, MadeKept DEF Kept
    <2> QED BY <2>1, <2>2, <2>3, <2>4
  <1>3. ASSUME q.kind \in {"merge", "mergeConfirm"}
        PROVE  Tested(p, q.head, q.other)'
    <2>1. PICK c, t : c = q.head /\ t = q.other
      OBVIOUS
    <2>2. Tested(p, c, t)
      BY <1>3, <2>1 DEF Grounded
    <2> QED BY <2>1, <2>2, TestedKept
  <1> QED BY <1>1, <1>2, <1>3 DEF Grounded

LEMMA ToldKept ==
  ASSUME RepositoryOK, Recorded, Kept, UNCHANGED <<current, purpose>>,
         current \in 1..N, NEW r, NEW v, Told(r, v),
         r = "commit" => purpose.other[2] \in 1..LastHead(current)
  PROVE  Told(r, v)'
  <1> DEFINE p == current
             k == purpose.head[2]
  <1>0. p \in 1..N /\ p' = p /\ k' = k
    OBVIOUS
  <1>1. CASE r = "pullRequest"
    <2>1. PICK j \in 1..LastHead(p) : v.head = <<p, j>>
      BY <1>1 DEF Told
    <2>2. j \in 1..LastHead(p)'
      BY <1>0, HeadsStay
    <2>3. ASSUME v.state = "MERGED", v.mergeCommit # None
          PROVE  /\ pulls'[p].state = "MERGED" /\ v.head = <<p, LastHead(p)'>>
                 /\ v.mergeCommit = <<0, pulls'[p].at>>
                 /\ v.parent = <<0, pulls'[p].at - 1>>
      <3>1. /\ pulls[p].state = "MERGED" /\ v.head = <<p, LastHead(p)>>
            /\ v.mergeCommit = <<0, pulls[p].at>>
            /\ v.parent = <<0, pulls[p].at - 1>>
        BY <1>1, <2>3 DEF Told
      <3> QED BY <1>0, <3>1, MergeStays
    <2> QED BY <1>0, <1>1, <2>1, <2>2, <2>3 DEF Told, LastHead
  <1>2. CASE r = "compare"
    <2>1. ASSUME v # None, v.behindBy = 0
          PROVE  k \in 1..LastHead(p)' /\
                   \E i \in 1..Tip' : v.baseCommit = <<0, i>> /\ pulls'[p].heads[k].upTo = i
      <3>1. k \in 1..LastHead(p)
        BY <1>2, <2>1 DEF Told
      <3>2. PICK i \in 1..Tip : v.baseCommit = <<0, i>> /\ pulls[p].heads[k].upTo = i
        BY <1>2, <2>1 DEF Told
      <3>3. k \in Nat /\ k \in 1..LastHead(p)' /\ i \in 1..Tip'
        BY <1>0, <3>1, HeadsStay
      <3> QED BY <1>0, <3>1, <3>2, <3>3, HeadStays DEF Kept, SameHead
    <2> QED BY <1>0, <1>2, <2>1 DEF Told, LastHead
  <1>3. CASE r = "commit"
    <2>1. purpose.other[2] \in 1..LastHead(p) /\ purpose.other[2] \in Nat
      BY <1>0, <1>3, HeadsStay
    <2>2. SameHead(pulls[p].heads[purpose.other[2]], pulls'[p].heads[purpose.other[2]])
      BY <1>0, <2>1, HeadStays DEF Kept
    <2> QED BY <1>0, <1>3, <2>2 DEF Told, SameHead
  <1>4. CASE r = "baseOf"
    BY <1>0, <1>4, HeadsStay DEF Told
  <1>5. CASE r = "checks"
    BY <1>0, <1>5 DEF Told, Kept, Grows
  <1>6. CASE r = "pushRuns"
    BY <1>0, <1>6 DEF Told, Kept, Grows
  <1>7. CASE r \notin {"pullRequest", "compare", "commit", "baseOf", "checks", "pushRuns"}
    BY <1>7 DEF Told
  <1> QED BY <1>1, <1>2, <1>3, <1>4, <1>5, <1>6, <1>7

\* Where the engine and the batch stay as they are.
LEMMA WorldKeeps ==
  ASSUME IInv, RepositoryOK, Joint, Kept, UNCHANGED vars, batch' = batch
  PROVE  OwnHeads(entries)' /\ AllThrough(entries)' /\ Asked' /\ Reading'
  <1>0. /\ entries' = entries /\ current' = current /\ purpose' = purpose
        /\ request' = request /\ phase' = phase
        /\ current # 0 => current \in 1..N
        /\ Recorded
    BY DEF vars, IInv, TypeOK, Joint
  <1>1. OwnHeads(entries)'
    <2>1. ASSUME NEW p \in 1..N, NEW c \in entries[p].heads
          PROVE  Chain(p, c)'
      BY ChainKept DEF Joint, OwnHeads
    <2> QED BY <1>0, <2>1 DEF OwnHeads
  <1>2. AllThrough(entries)'
    <2>1. ASSUME NEW p \in 1..N
          PROVE  Through(p, entries[p])'
      <3>1. PICK e : e = entries[p]
        OBVIOUS
      <3>2. Through(p, e)'
        BY <1>0, <3>1, ThroughKept DEF Joint, AllThrough
      <3> QED BY <1>0, <3>1, <3>2
    <2> QED BY <2>1 DEF AllThrough
  <1>3. ASSUME request # None, current # 0
        PROVE  Grounded(current, purpose, entries[current])'
    <2>1. PICK p, q, e : p = current /\ q = purpose /\ e = entries[current]
      OBVIOUS
    <2>2. Grounded(p, q, e) /\ p \in 1..N
      BY <1>0, <1>3, <2>1 DEF Joint, Asked
    <2>3. Grounded(p, q, e)'
      BY <2>2, GroundedKept
    <2> QED BY <1>0, <2>1, <2>3
  <1>4. Asked'
    BY <1>0, <1>3 DEF Joint, Asked
  <1>5. ASSUME batch # None, request # None, NEW r \in Needs(purpose.kind),
               r \notin Among(batch.todo)
        PROVE  Told(r, batch.got[r])'
    <2>1. PICK v : v = batch.got[r]
      OBVIOUS
    <2>2. Told(r, v)
      BY <1>5, <2>1 DEF Joint, Reading
    <2>3. CASE current = 0
      <3>1. purpose.kind = "start"
        BY <1>5, <2>3 DEF IInv, Matched
      <3>2. r \in {"setup", "baseRuns"}
        BY <1>5, <3>1 DEF Needs
      <3>3. Told(r, v)'
        BY <2>2, <3>2 DEF Told
      <3> QED BY <2>1, <3>3
    <2>4. CASE current # 0
      <3>1. r = "commit" => purpose.kind = "updateCommit"
        BY <1>5 DEF Needs
      <3>2. r = "commit" => purpose.other[2] \in 1..LastHead(current)
        BY <1>5, <2>4, <3>1 DEF Joint, Asked, Grounded
      <3>3. Told(r, v)'
        BY <1>0, <2>2, <2>4, <3>2, ToldKept
      <3> QED BY <2>1, <3>3
    <2> QED BY <2>3, <2>4
  <1>6. Reading'
    BY <1>0, <1>5 DEF Joint, Reading
  <1> QED BY <1>1, <1>2, <1>4, <1>6

LEMMA PutOffKept ==
  ASSUME RepositoryOK, LateOK, PutOff, Kept, entries' = entries, late' \subseteq late
  PROVE  PutOff'
  <1>1. ASSUME NEW e \in late'
        PROVE  /\ Chain(e.pull, <<e.pull, e.head>>)'
               /\ e.mutation = "merge" => entries'[e.pull].step # "waiting"
    <2>1. e.pull \in 1..N
      BY DEF LateOK
    <2>2. PICK p, c : p = e.pull /\ c = <<e.pull, e.head>>
      OBVIOUS
    <2> QED BY <2>1, <2>2, ChainKept DEF PutOff
  <1> QED BY <1>1 DEF PutOff

\* What is said of each of the queue's commits.
Landed(i) ==
    /\ base[i].pull \in 1..N
    /\ Chain(base[i].pull, <<base[i].pull, base[i].head>>)
    /\ pulls[base[i].pull].state = "MERGED" /\ pulls[base[i].pull].at = i
    /\ \A q \in 1..N : q < base[i].pull =>
         /\ pulls[q].state = "MERGED" /\ pulls[q].at < i
         /\ HasWorkflow => pulls[q].at \in passed

LEMMA LandedStays ==
  ASSUME RepositoryOK, Recorded, LandedOwn, Kept,
         NEW i \in Nat, i \in 1..Tip, base'[i].byQueue
  PROVE  Landed(i)'
  <1>1. /\ base'[i].pull = base[i].pull /\ base'[i].head = base[i].head
        /\ base[i].byQueue
    BY DEF Kept, Grows
  <1>2. Landed(i)
    BY <1>1 DEF LandedOwn, Landed
  <1>3. PICK p, k : p = base[i].pull /\ k = base[i].head
    OBVIOUS
  <1>4. /\ p \in 1..N /\ Chain(p, <<p, k>>)
        /\ pulls[p].state = "MERGED" /\ pulls[p].at = i
    BY <1>2, <1>3 DEF Landed
  <1>5. Chain(p, <<p, k>>)'
    BY <1>4, ChainKept
  <1>6. pulls'[p].state = "MERGED" /\ pulls'[p].at = i
    BY <1>4, MergeStays
  <1>7. ASSUME NEW q \in 1..N, q < p
        PROVE  /\ pulls'[q].state = "MERGED" /\ pulls'[q].at < i
               /\ HasWorkflow => pulls'[q].at \in passed'
    <2>1. /\ pulls[q].state = "MERGED" /\ pulls[q].at < i
          /\ HasWorkflow => pulls[q].at \in passed
      BY <1>2, <1>3, <1>7 DEF Landed
    <2>2. pulls'[q].state = "MERGED" /\ pulls'[q].at = pulls[q].at
      BY <2>1, MergeStays
    <2> QED BY <2>1, <2>2 DEF Kept, Grows
  <1> QED BY <1>1, <1>2, <1>3, <1>4, <1>5, <1>6, <1>7 DEF Landed

LEMMA LandedKept ==
  ASSUME RepositoryOK, Recorded, LandedOwn, Kept, NoLanding
  PROVE  LandedOwn'
  <1>1. ASSUME NEW i \in Nat, i \in 1..Tip', base'[i].byQueue
        PROVE  Landed(i)'
    <2>1. i \in 1..Tip
      BY <1>1 DEF NoLanding
    <2> QED BY <1>1, <2>1, LandedStays
  <1> QED BY <1>1 DEF LandedOwn, Landed

\* The entries before one that was begun are through.
LEMMA EarlierThrough ==
  ASSUME IInv, Joint, NEW p \in 1..N, entries[p].step # "waiting", NEW q \in 1..N, q < p
  PROVE  /\ pulls[q].state = "MERGED"
         /\ HasWorkflow => pulls[q].at \in passed
  <1>2. entries[q].step = "done"
    BY DEF IInv, Order, TypeOK
  <1> QED BY <1>2 DEF Joint, AllThrough, Through

LEMMA LandedNew ==
  ASSUME IInv, RepositoryOK, Joint, NEW p \in 1..N, pulls[p].state = "OPEN",
         Land(p, LastHead(p), TRUE), greens' = greens, passed' = passed,
         Chain(p, <<p, LastHead(p)>>), entries[p].step # "waiting"
  PROVE  Kept /\ LandedOwn'
  <1>0. Recorded /\ LandedOwn
    BY DEF Joint
  <1>1. /\ Kept /\ Tip' = Tip + 1
        /\ base'[Tip'].pull = p /\ base'[Tip'].head = LastHead(p)
        /\ pulls'[p].state = "MERGED" /\ pulls'[p].at = Tip + 1
        /\ \A q \in 1..N : q # p => pulls'[q] = pulls[q]
    BY <1>0, Lands
  <1>2. Tip \in Nat
    BY PullFacts
  <1>3. ASSUME NEW i \in Nat, i \in 1..Tip', base'[i].byQueue
        PROVE  Landed(i)'
    <2>1. CASE i \in 1..Tip
      BY <1>0, <1>1, <1>3, <2>1, LandedStays
    <2>2. CASE i = Tip'
      <3>1. PICK k : k = LastHead(p)
        OBVIOUS
      <3>2. Chain(p, <<p, k>>)'
        BY <1>1, <3>1, ChainKept
      <3>3. ASSUME NEW q \in 1..N, q < p
            PROVE  /\ pulls'[q].state = "MERGED" /\ pulls'[q].at < i
                   /\ HasWorkflow => pulls'[q].at \in passed'
        <4>1. /\ pulls[q].state = "MERGED"
              /\ HasWorkflow => pulls[q].at \in passed
          BY <3>3, EarlierThrough
        <4>2. pulls[q].at \in 2..Tip
          BY <1>0, <4>1 DEF Recorded
        <4>3. pulls'[q] = pulls[q]
          BY <1>1, <3>3
        <4> QED BY <1>1, <1>2, <2>2, <4>1, <4>2, <4>3
      <3> QED BY <1>1, <2>2, <3>1, <3>2, <3>3 DEF Landed
    <2> QED BY <1>1, <1>2, <1>3, <2>1, <2>2
  <1> QED BY <1>1, <1>3 DEF LandedOwn, Landed

-----------------------------------------------------------------------------
(* What the engine knows after it handled an answer *)

\* The steps of an entry that isn't being worked on before its merge.
Away == {"waiting", "done", "waitingForPostMerge"}

Busy == IInv /\ RepositoryOK /\ Joint /\ request # None /\ current # 0

\* The request that follows is made of the reads it needs, on known grounds.
Sound ==
    request' # None =>
        /\ request'.action = "read" => Needs(purpose'.kind) \subseteq Among(request'.reads)
        /\ current' # 0 => Grounded(current', purpose', entries'[current'])

Learns ==
    /\ OwnHeads(entries') /\ AllThrough(entries') /\ Sound
    /\ \A p \in 1..N : entries[p].step # "waiting" => entries'[p].step # "waiting"

\* Only the current entry changes, and not its heads.
Steady ==
    /\ current' = current
    /\ \A p \in 1..N : entries'[p].heads = entries[p].heads
    /\ \A p \in 1..N \ {current} : entries'[p] = entries[p]
    /\ entries'[current].step \notin Away

LEMMA BusyFacts ==
  ASSUME Busy
  PROVE  /\ current \in 1..N /\ current \in Nat
         /\ entries \in [1..N -> Entry]
         /\ entries[current].step \notin {"waiting", "done"}
         /\ purpose \in Purpose /\ purpose.kind # "start"
         /\ Grounded(current, purpose, entries[current])
         /\ purpose.kind \notin {"postMerge", "postMergeOutcome"} => entries[current].step \notin Away
         /\ OwnHeads(entries) /\ AllThrough(entries)
         /\ purpose.kind \notin Headless => purpose.head \in entries[current].heads
  <1>1. current \in 1..N /\ entries \in [1..N -> Entry]
    BY DEF Busy, IInv, TypeOK
  <1>2. entries[current].step \notin {"waiting", "done"}
    BY DEF Busy, IInv, Order
  <1>3. Grounded(current, purpose, entries[current])
    BY DEF Busy, Joint, Asked
  <1>4. purpose \in Purpose /\ purpose.kind # "start"
    BY DEF Busy, IInv, Matched
  <1>5. purpose.kind \notin Headless => purpose.head \in entries[current].heads
    BY DEF Busy, IInv, Owned
  <1>6. OwnHeads(entries) /\ AllThrough(entries)
    BY DEF Busy, Joint
  <1>7. purpose.kind \notin {"postMerge", "postMergeOutcome"} => entries[current].step # "waitingForPostMerge"
    BY <1>3 DEF Grounded
  <1> QED BY <1>1, <1>2, <1>3, <1>4, <1>5, <1>6, <1>7 DEF Away

LEMMA SteadyKnows ==
  ASSUME Busy, Steady
  PROVE  /\ OwnHeads(entries') /\ AllThrough(entries')
         /\ \A p \in 1..N : entries[p].step # "waiting" => entries'[p].step # "waiting"
  <1>1. OwnHeads(entries')
    BY BusyFacts DEF Steady, OwnHeads
  <1>2. AllThrough(entries')
    <2>1. ASSUME NEW p \in 1..N
          PROVE  Through(p, entries'[p])
      <3>1. CASE p = current
        BY <3>1 DEF Steady, Through, Away
      <3>2. CASE p # current
        BY <3>2, BusyFacts DEF Steady, AllThrough
      <3> QED BY <3>1, <3>2
    <2> QED BY <2>1 DEF AllThrough
  <1>3. \A p \in 1..N : entries[p].step # "waiting" => entries'[p].step # "waiting"
    BY DEF Steady, Away
  <1> QED BY <1>1, <1>2, <1>3

\* The purposes that rest on nothing.
Undemanding ==
    PurposeKind \ {"updateCommit", "updateBase", "merge", "mergeConfirm", "postMerge",
                   "postMergeOutcome"}

LEMMA SteadyLearns ==
  ASSUME Busy, Steady, purpose'.kind \in Undemanding,
         request'.action = "read" => Needs(purpose'.kind) \subseteq Among(request'.reads)
  PROVE  Learns
  <1>1. Grounded(current', purpose', entries'[current'])
    BY DEF Grounded, Undemanding, Steady, Away
  <1> QED BY <1>1, SteadyKnows DEF Learns, Sound

LEMMA SameIsSteady ==
  ASSUME Busy, purpose.kind \notin {"postMerge", "postMergeOutcome"},
         entries' = entries, current' = current
  PROVE  Steady
  BY BusyFacts DEF Steady

LEMMA StopLearns ==
  ASSUME Busy, NEW kind, NEW es \in [1..N -> Entry], StopWith(kind, es),
         \A p \in 1..N \ {current} : es[p] = entries[p],
         es[current].heads = entries[current].heads,
         es[current].step = entries[current].step
  PROVE  Learns
  <1>1. request' = None /\ current' = current
    BY DEF StopWith
  <1>2. entries' = [es EXCEPT ![current].step = "stopped"]
    BY BusyFacts DEF StopWith, Busy
  <1>3. Steady
    BY <1>1, <1>2, BusyFacts DEF Steady, Away, Entry
  <1> QED BY <1>1, <1>3, SteadyKnows DEF Learns, Sound

LEMMA JustStops ==
  ASSUME Busy, NEW kind, Stop(kind)
  PROVE  Learns
  BY BusyFacts, StopLearns DEF Stop

LEMMA Reads ==
  /\ \A a : Among(<<a>>) = {a}
  /\ \A a, b : Among(<<a, b>>) = {a, b}
  /\ Needs("mergeChecks") \subseteq
       Among(<<"pullRequest", "checks", "compare", "local">>
               \o IF HasWorkflow THEN <<"baseRuns">> ELSE <<>>)
  <1>1. ASSUME NEW a PROVE Among(<<a>>) = {a}
    BY DEF Among
  <1>2. ASSUME NEW a, NEW b PROVE Among(<<a, b>>) = {a, b}
    <2>1. Len(<<a, b>>) = 2 /\ <<a, b>>[1] = a /\ <<a, b>>[2] = b /\ 1..2 = {1, 2}
      OBVIOUS
    <2> QED BY <2>1 DEF Among
  <1> DEFINE s1 == <<"pullRequest", "checks", "compare", "local">>
             s2 == IF HasWorkflow THEN <<"baseRuns">> ELSE <<>>
  <1>3. /\ s1 \in Seq(ReadName) /\ Len(s1) = 4 /\ s1[1] = "pullRequest" /\ s1[2] = "checks"
        /\ s1[3] = "compare" /\ s1[4] = "local"
    BY DEF ReadName
  <1>4. /\ s2 \in Seq(ReadName)
        /\ HasWorkflow => Len(s2) = 1 /\ s2[1] = "baseRuns"
        /\ ~HasWorkflow => Len(s2) = 0
    <2>1. CASE HasWorkflow
      BY <2>1 DEF ReadName
    <2>2. CASE ~HasWorkflow
      BY <2>2 DEF ReadName
    <2> QED BY <2>1, <2>2
  <1> HIDE DEF s1, s2
  <1>5. /\ Len(s1 \o s2) = Len(s1) + Len(s2)
        /\ \A i \in 1 .. Len(s1) + Len(s2) : (s1 \o s2)[i] =
                     IF i <= Len(s1) THEN s1[i] ELSE s2[i - Len(s1)]
    BY <1>3, <1>4, ConcatProperties
  <1>6. Len(s1 \o s2) = IF HasWorkflow THEN 5 ELSE 4
    BY <1>3, <1>4, <1>5
  <1>7. /\ (s1 \o s2)[1] = "pullRequest" /\ (s1 \o s2)[2] = "checks"
        /\ (s1 \o s2)[3] = "compare" /\ (s1 \o s2)[4] = "local"
        /\ HasWorkflow => (s1 \o s2)[5] = "baseRuns"
    BY <1>3, <1>4, <1>5
  <1>8. \A r \in Needs("mergeChecks") : r \in Among(s1 \o s2)
    <2>1. /\ 1 \in 1..Len(s1 \o s2) /\ 2 \in 1..Len(s1 \o s2) /\ 3 \in 1..Len(s1 \o s2)
          /\ 4 \in 1..Len(s1 \o s2)
          /\ HasWorkflow => 5 \in 1..Len(s1 \o s2)
      BY <1>6
    <2> QED BY <1>7, <2>1 DEF Among, Needs
  <1> QED BY <1>1, <1>2, <1>8 DEF s1, s2

LEMMA StepIsSteady ==
  ASSUME Busy, NEW step, step \notin Away, entries' = Entries(step), current' = current
  PROVE  Steady
  BY BusyFacts DEF Steady, Entries, Entry

LEMMA AskLearns ==
  ASSUME Busy, Steady, NEW reads, NEW after, NEW kind \in Undemanding, NEW head, NEW other,
         Ask(reads, after, For(kind, head, other)), Needs(kind) \subseteq Among(reads)
  PROVE  Learns
  <1>1. purpose'.kind = kind /\ request'.reads = reads
    BY DEF Ask, For
  <1> QED BY <1>1, SteadyLearns

LEMMA SendLearns ==
  ASSUME Busy, Steady, NEW m \in Mutation, NEW p, Send(m, p), p.kind \in Undemanding
  PROVE  Learns
  <1>1. purpose' = p /\ request'.action = m /\ m # "read"
    BY DEF Send, Mutation
  <1> QED BY <1>1, SteadyLearns

LEMMA WaitForChecksLearns ==
  ASSUME Busy, NEW head, WaitForChecks(head)
  PROVE  Learns
  <1>1. Steady
    BY StepIsSteady DEF WaitForChecks, Ask, Away
  <1>2. Needs("checks") \subseteq Among(<<"pullRequest", "checks">>)
    BY Reads DEF Needs
  <1> QED BY <1>1, <1>2, AskLearns DEF WaitForChecks, Undemanding, PurposeKind

LEMMA PollChecksLearns ==
  ASSUME Busy, purpose.kind \notin {"postMerge", "postMergeOutcome"},
         NEW head, NEW cs, PollChecks(head, cs)
  PROVE  Learns
  <1>1. Steady
    BY SameIsSteady DEF PollChecks, Ask
  <1>2. Needs("checks") \subseteq Among(<<"pullRequest", "checks">>)
    BY Reads DEF Needs
  <1> QED BY <1>1, <1>2, AskLearns DEF PollChecks, Undemanding, PurposeKind

LEMMA MergeChecksLearns ==
  ASSUME Busy, NEW head, NEW after, NEW cs, MergeChecks(head, after, cs)
  PROVE  Learns
  <1> DEFINE reads == <<"pullRequest", "checks", "compare", "local">>
                        \o IF HasWorkflow THEN <<"baseRuns">> ELSE <<>>
  <1>1. Steady
    BY StepIsSteady DEF MergeChecks, Ask, Away
  <1>2. Needs("mergeChecks") \subseteq Among(reads)
    BY Reads
  <1>3. Ask(reads, after, For("mergeChecks", head, None))
    BY DEF MergeChecks
  <1> HIDE DEF reads
  <1> QED BY <1>1, <1>2, <1>3, AskLearns DEF Undemanding, PurposeKind

LEMMA BehindByLearns ==
  ASSUME Busy, NEW count, NEW head, BehindBy(count, head)
  PROVE  Learns
  <1>1. CASE WaitForChecks(head)
    BY <1>1, WaitForChecksLearns
  <1>2. CASE Stop("update")
    BY <1>2, JustStops
  <1>3. CASE /\ Send("updateBranch", For("update", head, None))
             /\ entries' = [entries EXCEPT ![current].updates = @ + 1,
                                           ![current].step = "updating"]
    <2>1. Steady
      BY <1>3, BusyFacts DEF Steady, Away, Entry, Send
    <2>2. For("update", head, None).kind = "update"
      BY DEF For
    <2> QED BY <1>3, <2>1, <2>2, SendLearns DEF Undemanding, PurposeKind, Mutation
  <1> QED BY <1>1, <1>2, <1>3 DEF BehindBy

LEMMA ChecksFailedLearns ==
  ASSUME Busy, purpose.kind \notin {"postMerge", "postMergeOutcome"},
         NEW checks, NEW head, ChecksFailed(checks, head)
  PROVE  Learns
  <1>1. CASE Stop("checks")
    BY <1>1, JustStops
  <1>2. CASE PollChecks(head, clocks)
    BY <1>2, PollChecksLearns
  <1>3. CASE /\ Send("rerun", [For("rerun", head, None) EXCEPT !.replaced = {checks.run}])
             /\ entries' = [entries EXCEPT ![current].hasRerun = TRUE,
                                           ![current].step = "rerunning"]
    <2>1. Steady
      BY <1>3, BusyFacts DEF Steady, Away, Entry, Send
    <2>2. [For("rerun", head, None) EXCEPT !.replaced = {checks.run}].kind = "rerun"
      BY DEF For
    <2> QED BY <1>3, <2>1, <2>2, SendLearns DEF Undemanding, PurposeKind, Mutation
  <1> QED BY <1>1, <1>2, <1>3 DEF ChecksFailed

LEMMA DecideLearns ==
  ASSUME Busy, purpose.kind \notin {"postMerge", "postMergeOutcome"},
         NEW checks, NEW head, Decide(checks, head)
  PROVE  Learns
  <1>1. CASE ChecksFailed(checks, head)
    BY <1>1, ChecksFailedLearns
  <1>2. CASE Stop("checks")
    BY <1>2, JustStops
  <1>3. CASE PollChecks(head, clocks)
    BY <1>3, PollChecksLearns
  <1>4. CASE MergeChecks(head, 0, clocks)
    BY <1>4, MergeChecksLearns
  <1> QED BY <1>1, <1>2, <1>3, <1>4 DEF Decide

LEMMA HoldLearns ==
  ASSUME Busy, NEW local, HoldForLocal(local)
  PROVE  Learns
  BY JustStops DEF HoldForLocal

LEMMA WaitForBaseRunsLearns ==
  ASSUME Busy, purpose.kind \notin {"postMerge", "postMergeOutcome"},
         NEW runs, NEW head, NEW cs, BaseRunsSay(runs) # "go", WaitForBaseRuns(runs, head, cs)
  PROVE  Learns
  <1>1. BaseRunsSay(runs) \in {"stop", "wait", "again", "go"}
    BY DEF BaseRunsSay
  <1>2. CASE BaseRunsSay(runs) = "stop"
    BY <1>2, JustStops DEF WaitForBaseRuns
  <1>3. CASE BaseRunsSay(runs) = "wait"
    <2>1. Ask(<<"baseRuns">>, 1, For("baseRunWait", head, None)) /\ entries' = entries
      BY <1>3 DEF WaitForBaseRuns
    <2>2. Steady
      BY <2>1, SameIsSteady DEF Ask
    <2>3. Needs("baseRunWait") \subseteq Among(<<"baseRuns">>)
      BY Reads DEF Needs
    <2> QED BY <2>1, <2>2, <2>3, AskLearns DEF Undemanding, PurposeKind
  <1>4. CASE BaseRunsSay(runs) = "again"
    BY <1>4, MergeChecksLearns DEF WaitForBaseRuns
  <1> QED BY <1>1, <1>2, <1>3, <1>4

\* The same request again, at once or in a while.
LEMMA AgainLearns ==
  ASSUME IInv, RepositoryOK, Joint, request # None,
         entries' = entries, current' = current, purpose' = purpose,
         NEW x, request' = [request EXCEPT !.after = x]
  PROVE  Learns
  <1>1. request'.action = request.action /\ request'.reads = request.reads
    BY DEF IInv, TypeOK, Nullable, ReadRequest, MutateRequest
  <1> QED BY <1>1 DEF Learns, Sound, Joint, Asked

\* The next entry begins, or the queue ends.
LEMMA AdvanceLearns ==
  ASSUME NEW es \in [1..N -> Entry], Advance(es), OwnHeads(es), AllThrough(es),
         \A p \in 1..N : entries[p].step # "waiting" => es[p].step # "waiting"
  PROVE  Learns
  <1> DEFINE waiting == {i \in 1..N : es[i].step = "waiting"}
  <1>1. CASE waiting = {}
    <2>1. request' = None /\ entries' = es
      BY <1>1 DEF Advance
    <2> QED BY <2>1 DEF Learns, Sound
  <1>2. CASE waiting # {}
    <2>1. PICK next \in waiting :
            /\ current' = next
            /\ entries' = [es EXCEPT ![next].step = "preflight"]
            /\ request' = [action |-> "read", reads |-> <<"pullRequest">>, after |-> 0]
            /\ purpose' = For("preflight", None, None)
      BY <1>2 DEF Advance
    <2>2. /\ \A p \in 1..N : entries'[p].heads = es[p].heads
          /\ \A p \in 1..N \ {next} : entries'[p] = es[p]
          /\ entries'[next].step = "preflight"
      BY <2>1 DEF Entry
    <2>3. OwnHeads(entries')
      BY <2>2 DEF OwnHeads
    <2>4. AllThrough(entries')
      <3>1. ASSUME NEW p \in 1..N PROVE Through(p, entries'[p])
        <4>1. CASE p = next
          BY <2>2, <4>1 DEF Through
        <4>2. CASE p # next
          BY <2>2, <4>2 DEF AllThrough
        <4> QED BY <4>1, <4>2
      <3> QED BY <3>1 DEF AllThrough
    <2>5. \A p \in 1..N : entries[p].step # "waiting" => entries'[p].step # "waiting"
      BY <2>2
    <2>6. purpose'.kind = "preflight"
      BY <2>1 DEF For
    <2>7. Grounded(current', purpose', entries'[current'])
      BY <2>1, <2>2, <2>6 DEF Grounded
    <2>8. Needs(purpose'.kind) \subseteq Among(request'.reads)
      BY <2>1, <2>6, Reads DEF Needs
    <2> QED BY <2>3, <2>4, <2>5, <2>7, <2>8 DEF Learns, Sound
  <1> QED BY <1>1, <1>2

-----------------------------------------------------------------------------
(* The handlers of each kind of answer *)

\* The head a request is about is one of the queue's own.
LEMMA OwnChain ==
  ASSUME Busy, purpose.kind \notin Headless
  PROVE  /\ purpose.head = <<current, purpose.head[2]>>
         /\ purpose.head[2] \in 1..LastHead(current) /\ purpose.head[2] \in Nat
         /\ \A j \in 2..purpose.head[2] : Made(current, j)
  <1>1. current \in 1..N /\ Chain(current, purpose.head)
    BY BusyFacts DEF OwnHeads
  <1>2. PICK k \in 1..LastHead(current) :
          purpose.head = <<current, k>> /\ \A j \in 2..k : Made(current, j)
    BY <1>1 DEF Chain
  <1>3. k \in Nat
    BY <1>1, PullFacts DEF Busy
  <1> QED BY <1>2, <1>3

LEMMA AnsweredBusy ==
  ASSUME IInv, RepositoryOK, Joint, NEW kind, kind # "start", Answered(kind)
  PROVE  Busy /\ purpose.kind = kind
  BY DEF Answered, Busy, IInv, Matched

LEMMA PreflightLearns ==
  ASSUME IInv, RepositoryOK, Joint, NEW pr, Preflight(pr)
  PROVE  Learns
  <1>1. Busy /\ purpose.kind = "preflight"
    BY AnsweredBusy DEF Preflight
  <1>2. CASE \E kind \in StopKind : Stop(kind)
    BY <1>1, <1>2, JustStops
  <1>3. CASE /\ Ask(<<"local">>, 0, For("preflightLocal", pr.head, None))
             /\ entries' = entries
    <2>1. Steady
      BY <1>1, <1>3, SameIsSteady DEF Ask
    <2>2. Needs("preflightLocal") \subseteq Among(<<"local">>)
      BY Reads DEF Needs
    <2> QED BY <1>1, <1>3, <2>1, <2>2, AskLearns DEF Undemanding, PurposeKind
  <1> QED BY <1>2, <1>3 DEF Preflight, StopKind

LEMMA PreflightLocalLearns ==
  ASSUME IInv, RepositoryOK, Joint, NEW local, PreflightLocal(local)
  PROVE  Learns
  <1>1. Busy /\ purpose.kind = "preflightLocal"
    BY AnsweredBusy DEF PreflightLocal
  <1>2. CASE HoldForLocal(local)
    BY <1>1, <1>2, HoldLearns
  <1>3. CASE /\ Ask(<<"pullRequest">>, 1, For("preflight", None, None))
             /\ entries' = entries
    <2>1. Steady
      BY <1>1, <1>3, SameIsSteady DEF Ask
    <2>2. Needs("preflight") \subseteq Among(<<"pullRequest">>)
      BY Reads DEF Needs
    <2> QED BY <1>1, <1>3, <2>1, <2>2, AskLearns DEF Undemanding, PurposeKind
  <1>4. CASE /\ Ask(<<"compare">>, 0, For("behind", purpose.head, None))
             /\ entries' = entries
    <2>1. Steady
      BY <1>1, <1>4, SameIsSteady DEF Ask
    <2>2. Needs("behind") \subseteq Among(<<"compare">>)
      BY Reads DEF Needs
    <2> QED BY <1>1, <1>4, <2>1, <2>2, AskLearns DEF Undemanding, PurposeKind
  <1> QED BY <1>2, <1>3, <1>4 DEF PreflightLocal

LEMMA BehindLearns ==
  ASSUME IInv, RepositoryOK, Joint, NEW comparison, Behind(comparison)
  PROVE  Learns
  <1>1. Busy
    BY AnsweredBusy DEF Behind
  <1> QED BY <1>1, JustStops, BehindByLearns DEF Behind

\* A new head that an update's answer shows: one of the pull request's.
LEMMA NewHeadLearns ==
  ASSUME Busy, purpose.kind \notin {"postMerge", "postMergeOutcome"}, NEW pr,
         Told("pullRequest", pr),
         Ask(<<"commit">>, 0, For("updateCommit", purpose.head, pr.head)),
         entries' = entries
  PROVE  Learns
  <1>1. Steady /\ current' = current
    BY SameIsSteady DEF Ask
  <1>2. PICK j \in 1..LastHead(current) : pr.head = <<current, j>>
    BY DEF Told
  <1>3. /\ purpose'.kind = "updateCommit" /\ purpose'.other = pr.head
        /\ request'.reads = <<"commit">>
    BY DEF Ask, For
  <1>4. Needs("updateCommit") \subseteq Among(<<"commit">>)
    BY Reads DEF Needs
  <1>5. Grounded(current', purpose', entries'[current'])
    BY <1>1, <1>2, <1>3 DEF Grounded, Steady, Away
  <1> QED BY <1>1, <1>3, <1>4, <1>5, SteadyKnows DEF Learns, Sound

LEMMA PollLearns ==
  ASSUME Busy, request.action = "read", purpose.kind \in Undemanding,
         Needs(purpose.kind) \subseteq {"pullRequest"},
         NEW after, Ask(<<"pullRequest">>, after, purpose), entries' = entries
  PROVE  Learns
  <1>1. Steady
    BY SameIsSteady DEF Ask, Undemanding
  <1>2. purpose' = purpose /\ request'.reads = <<"pullRequest">>
    BY DEF Ask
  <1>3. Among(<<"pullRequest">>) = {"pullRequest"}
    BY Reads
  <1> QED BY <1>1, <1>2, <1>3, SteadyLearns

LEMMA UpdatePolledLearns ==
  ASSUME IInv, RepositoryOK, Joint, NEW pr, Told("pullRequest", pr), UpdatePolled(pr)
  PROVE  Learns
  <1>1. Busy /\ purpose.kind = "updatePoll" /\ request.action = "read"
    BY AnsweredBusy DEF UpdatePolled, Answered
  <1>2. CASE \E kind \in StopKind : Stop(kind)
    BY <1>1, <1>2, JustStops
  <1>3. CASE /\ Ask(<<"commit">>, 0, For("updateCommit", purpose.head, pr.head))
             /\ entries' = entries
    BY <1>1, <1>3, NewHeadLearns
  <1>4. CASE Ask(<<"pullRequest">>, 1, purpose) /\ entries' = entries
    BY <1>1, <1>4, PollLearns DEF Undemanding, PurposeKind, Needs
  <1> QED BY <1>2, <1>3, <1>4 DEF UpdatePolled, StopKind

LEMMA UpdateFailedLearns ==
  ASSUME IInv, RepositoryOK, Joint, NEW pr, Told("pullRequest", pr), UpdateFailedRead(pr)
  PROVE  Learns
  <1>1. Busy /\ purpose.kind = "updateFailed"
    BY AnsweredBusy DEF UpdateFailedRead
  <1>2. CASE \E kind \in StopKind : Stop(kind)
    BY <1>1, <1>2, JustStops
  <1>3. CASE /\ Ask(<<"commit">>, 0, For("updateCommit", purpose.head, pr.head))
             /\ entries' = entries
    BY <1>1, <1>3, NewHeadLearns
  <1> QED BY <1>2, <1>3 DEF UpdateFailedRead, StopKind

LEMMA UpdateRefusedLearns ==
  ASSUME IInv, RepositoryOK, Joint, NEW pr, UpdateRefused(pr)
  PROVE  Learns
  <1>1. Busy /\ purpose.kind = "update422" /\ request.action = "read"
    BY AnsweredBusy DEF UpdateRefused, Answered
  <1>2. CASE \E kind \in StopKind : Stop(kind)
    BY <1>1, <1>2, JustStops
  <1>3. CASE WaitForChecks(purpose.head)
    BY <1>1, <1>3, WaitForChecksLearns
  <1>4. CASE Ask(<<"pullRequest">>, 1, purpose) /\ entries' = entries
    BY <1>1, <1>4, PollLearns DEF Undemanding, PurposeKind, Needs
  <1> QED BY <1>2, <1>3, <1>4 DEF UpdateRefused, StopKind

\* The new head is GitHub's merge on top of the one before.
LEMMA UpdateCommitLearns ==
  ASSUME IInv, RepositoryOK, Joint, NEW commit, Told("commit", commit),
         UpdateCommitRead(commit)
  PROVE  Learns
  <1>1. Busy /\ purpose.kind = "updateCommit"
    BY AnsweredBusy DEF UpdateCommitRead
  <1>2. CASE Stop("changed")
    BY <1>1, <1>2, JustStops
  <1>3. CASE /\ MadeByGitHub(commit)
             /\ Ask(<<"baseOf">>, 0, For("updateBase", purpose.other, commit.merged))
             /\ entries' = entries
    <2>1. Steady /\ current' = current
      BY <1>1, <1>3, SameIsSteady DEF Ask
    <2>2. PICK k \in 1..LastHead(current) : purpose.other = <<current, k>>
      BY <1>1, BusyFacts DEF Grounded
    <2>3. /\ purpose.other[2] = k /\ k \in Nat /\ pulls[current].heads[k].from = k - 1
      <3>1. current \in 1..N /\ k \in Nat
        BY <1>1, BusyFacts, PullFacts
      <3>2. pulls[current].heads[k].from = k - 1
        BY <3>1 DEF Joint, Recorded
      <3> QED BY <2>2, <3>1, <3>2
    <2>4. /\ commit.webFlow = pulls[current].heads[k].webFlow
          /\ commit.from = <<current, k - 1>>
          /\ commit.merged = <<0, pulls[current].heads[k].merged>>
      BY <2>3 DEF Told
    <2>5. /\ pulls[current].heads[k].webFlow /\ purpose.head = <<current, k - 1>>
      BY <1>3, <2>4 DEF MadeByGitHub
    <2>6. /\ purpose.head[2] = k - 1 /\ k - 1 \in 1..LastHead(current)
          /\ \A j \in 2..(k - 1) : Made(current, j)
      BY <1>1, <2>5, OwnChain DEF Headless
    <2>7. /\ purpose'.kind = "updateBase" /\ purpose'.head = <<current, k>>
          /\ purpose'.other = <<0, pulls[current].heads[k].merged>>
          /\ request'.reads = <<"baseOf">>
      BY <1>3, <2>2, <2>4 DEF Ask, For
    <2>8. k > 1
      BY <2>3, <2>6, BusyFacts, PullFacts, <1>1 DEF Busy
    <2>9. Grounded(current', purpose', entries'[current'])
      BY <2>1, <2>3, <2>5, <2>6, <2>7, <2>8 DEF Grounded, Steady, Away
    <2>10. Needs("updateBase") \subseteq Among(<<"baseOf">>)
      BY Reads DEF Needs
    <2> QED BY <1>1, <2>1, <2>7, <2>9, <2>10, SteadyKnows DEF Learns, Sound
  <1> QED BY <1>2, <1>3 DEF UpdateCommitRead

\* And the commit it merges is one of the base's: the head is the queue's own.
LEMMA UpdateBaseLearns ==
  ASSUME IInv, RepositoryOK, Joint, NEW comparison, Told("baseOf", comparison),
         UpdateBaseRead(comparison)
  PROVE  Learns
  <1>1. Busy /\ purpose.kind = "updateBase"
    BY AnsweredBusy DEF UpdateBaseRead
  <1>2. CASE Stop("changed")
    BY <1>1, <1>2, JustStops
  <1>3. CASE /\ comparison # None /\ comparison.behindBy = 0
             /\ entries' = [entries EXCEPT ![current].heads = @ \cup {purpose.head}]
             /\ Ask(<<"compare">>, 0, For("behind", purpose.head, None))
    <2>0. current \in 1..N /\ current' = current
      BY <1>1, <1>3, BusyFacts DEF Ask
    <2>1. PICK k \in 1..LastHead(current) :
             /\ k > 1 /\ purpose.head = <<current, k>>
             /\ pulls[current].heads[k].webFlow /\ pulls[current].heads[k].from = k - 1
             /\ \A j \in 2..(k - 1) : Made(current, j)
             /\ purpose.other = <<0, pulls[current].heads[k].merged>>
      BY <1>1, BusyFacts DEF Grounded
    <2>2. pulls[current].heads[k].merged \in 1..Tip
      BY <1>3, <2>1 DEF Told
    <2>3. Made(current, k)
      BY <2>1, <2>2, <2>0, PullFacts DEF Made
    <2>4. k \in Nat
      BY <2>0, PullFacts
    <2>5. Chain(current, purpose.head)
      <3>1. \A j \in 2..k : Made(current, j)
        BY <2>1, <2>3, <2>4
      <3> QED BY <2>1, <3>1 DEF Chain
    <2>6. /\ \A p \in 1..N \ {current} : entries'[p] = entries[p]
          /\ entries'[current].heads = entries[current].heads \cup {purpose.head}
          /\ entries'[current].step = entries[current].step
      BY <1>1, <1>3, BusyFacts DEF Entry
    <2>7. entries'[current].step \notin Away
      BY <1>1, <2>6, BusyFacts
    <2>8. OwnHeads(entries')
      <3>1. ASSUME NEW p \in 1..N, NEW c \in entries'[p].heads
            PROVE  Chain(p, c)
        <4>1. CASE p = current /\ c = purpose.head
          BY <2>5, <4>1
        <4>2. CASE ~(p = current /\ c = purpose.head)
          <5>1. c \in entries[p].heads
            BY <2>6, <3>1, <4>2
          <5> QED BY <1>1, <5>1, BusyFacts DEF OwnHeads
        <4> QED BY <4>1, <4>2
      <3> QED BY <3>1 DEF OwnHeads
    <2>9. AllThrough(entries')
      <3>1. ASSUME NEW p \in 1..N PROVE Through(p, entries'[p])
        <4>1. CASE p = current
          BY <2>7, <4>1 DEF Through, Away
        <4>2. CASE p # current
          BY <1>1, <2>6, <4>2, BusyFacts DEF AllThrough
        <4> QED BY <4>1, <4>2
      <3> QED BY <3>1 DEF AllThrough
    <2>10. \A p \in 1..N : entries[p].step # "waiting" => entries'[p].step # "waiting"
      BY <2>6
    <2>11. purpose'.kind = "behind" /\ request'.reads = <<"compare">>
      BY <1>3 DEF Ask, For
    <2>12. Grounded(current', purpose', entries'[current'])
      BY <2>0, <2>7, <2>11 DEF Grounded, Away
    <2>13. Needs("behind") \subseteq Among(<<"compare">>)
      BY Reads DEF Needs
    <2> QED BY <2>8, <2>9, <2>10, <2>11, <2>12, <2>13 DEF Learns, Sound
  <1> QED BY <1>2, <1>3 DEF UpdateBaseRead

LEMMA ChecksReadLearns ==
  ASSUME IInv, RepositoryOK, Joint, NEW pr, NEW checks, ChecksRead(pr, checks)
  PROVE  Learns
  <1>1. Busy /\ purpose.kind = "checks"
    BY AnsweredBusy DEF ChecksRead
  <1>2. CASE \E kind \in StopKind : Stop(kind)
    BY <1>1, <1>2, JustStops
  <1>3. CASE Decide(checks, purpose.head)
    BY <1>1, <1>3, DecideLearns
  <1> QED BY <1>2, <1>3 DEF ChecksRead, StopKind

LEMMA RerunCheckedLearns ==
  ASSUME IInv, RepositoryOK, Joint, NEW checks, RerunChecked(checks)
  PROVE  Learns
  <1>1. Busy /\ purpose.kind = "rerunCheck"
    BY AnsweredBusy DEF RerunChecked
  <1>2. CASE Stop("checks")
    BY <1>1, <1>2, JustStops
  <1>3. CASE RerunStarted(purpose.head, purpose.replaced)
    BY <1>1, <1>3, PollChecksLearns DEF RerunStarted
  <1> QED BY <1>2, <1>3 DEF RerunChecked

LEMMA BaseRunsReadLearns ==
  ASSUME IInv, RepositoryOK, Joint, NEW runs, BaseRunsRead(runs)
  PROVE  Learns
  <1>1. Busy /\ purpose.kind = "baseRunWait"
    BY AnsweredBusy DEF BaseRunsRead
  <1>2. CASE BaseRunsSay(runs) = "go"
    BY <1>1, <1>2, MergeChecksLearns DEF BaseRunsRead
  <1>3. CASE BaseRunsSay(runs) # "go"
    BY <1>1, <1>3, WaitForBaseRunsLearns DEF BaseRunsRead
  <1> QED BY <1>2, <1>3

\* A merge is asked for of a head whose checks are green, on the base it holds.
LEMMA MergeChecksReadLearns ==
  ASSUME IInv, RepositoryOK, Joint, NEW pr, NEW checks, NEW comparison, NEW local, NEW runs,
         Told("checks", checks), Told("compare", comparison),
         MergeChecksRead(pr, checks, comparison, local, runs)
  PROVE  Learns
  <1> DEFINE head == purpose.head
             ready == [[clocks EXCEPT !.agentBusy = None] EXCEPT !.unknown = None]
  <1>1. Busy /\ purpose.kind = "mergeChecks"
    BY AnsweredBusy DEF MergeChecksRead
  <1>2. CASE \E kind \in StopKind : Stop(kind)
    BY <1>1, <1>2, JustStops
  <1>3. CASE BehindBy(comparison.behindBy, head)
    BY <1>1, <1>3, BehindByLearns
  <1>4. CASE WaitForChecks(head)
    BY <1>1, <1>4, WaitForChecksLearns
  <1>5. CASE Decide(checks, head)
    BY <1>1, <1>5, DecideLearns
  <1>6. CASE \E cs : MergeChecks(head, 1, cs)
    BY <1>1, <1>6, MergeChecksLearns
  <1>7. CASE HoldForLocal(local)
    BY <1>1, <1>7, HoldLearns
  <1>8. CASE BaseRunsSay(runs) # "go" /\ WaitForBaseRuns(runs, head, ready)
    <2> HIDE DEF ready
    <2> QED BY <1>1, <1>8, WaitForBaseRunsLearns
  <1>9. CASE /\ comparison # None /\ ~(comparison.behindBy > 0)
             /\ Verdict(checks) = "green"
             /\ Send("merge", For("merge", head, comparison.baseCommit))
             /\ entries' = entries
    <2>1. Steady /\ current' = current
      BY <1>1, <1>9, SameIsSteady DEF Send
    <2>2. current \in 1..N /\ head = <<current, head[2]>> /\ head[2] \in 1..LastHead(current)
      BY <1>1, OwnChain, BusyFacts DEF Headless
    <2>3. comparison.behindBy = 0
      BY <1>9 DEF Told, Nullable, Comparison
    <2>4. PICK i \in 1..Tip : comparison.baseCommit = <<0, i>> /\ pulls[current].heads[head[2]].upTo = i
      BY <1>9, <2>3 DEF Told
    <2>5. checks.state = "green"
      BY <1>9 DEF Verdict
    <2>6. <<current, head[2]>> \in greens
      BY <2>5 DEF Told
    <2>7. Tested(current, head, comparison.baseCommit)
      BY <2>2, <2>4, <2>6 DEF Tested
    <2>8. /\ purpose'.kind = "merge" /\ purpose'.head = head
          /\ purpose'.other = comparison.baseCommit /\ request'.action = "merge"
      BY <1>9 DEF Send, For
    <2>9. Grounded(current', purpose', entries'[current'])
      BY <2>1, <2>7, <2>8 DEF Grounded, Steady, Away
    <2> QED BY <1>1, <2>1, <2>8, <2>9, SteadyKnows DEF Learns, Sound
  <1>10. Verdict(checks) \in {"green", "pending", "notGreen", "failed", "mixed", "otherFailed"}
    BY DEF Verdict, Told, Checks
  <1> HIDE DEF ready
  <1>11. \/ \E kind \in StopKind : Stop(kind)
         \/ BehindBy(comparison.behindBy, head)
         \/ WaitForChecks(head)
         \/ Decide(checks, head)
         \/ \E cs : MergeChecks(head, 1, cs)
         \/ HoldForLocal(local)
         \/ BaseRunsSay(runs) # "go" /\ WaitForBaseRuns(runs, head, ready)
         \/ /\ comparison # None /\ ~(comparison.behindBy > 0)
            /\ Verdict(checks) = "green"
            /\ Send("merge", For("merge", head, comparison.baseCommit))
            /\ entries' = entries
    BY DEF MergeChecksRead, StopKind, ready
  <1> QED BY <1>2, <1>3, <1>4, <1>5, <1>6, <1>7, <1>8, <1>9, <1>11

LEMMA SamePair ==
  ASSUME NEW a, NEW b, NEW c, NEW d, <<a, b>> = <<c, d>>
  PROVE  a = c /\ b = d
  OBVIOUS

\* A merged pull request was merged at the head and on the base that were
\* checked.
LEMMA MergeConfirmLearns ==
  ASSUME IInv, RepositoryOK, Joint, NEW pr, Told("pullRequest", pr), MergeConfirmRead(pr)
  PROVE  Learns
  <1> DEFINE merged == [entries EXCEPT ![current].mergeCommit = pr.mergeCommit]
  <1>1. Busy /\ purpose.kind = "mergeConfirm" /\ request.action = "read"
    BY AnsweredBusy DEF MergeConfirmRead, Answered
  <1>2. pr.mergeCommit \in Nullable(Commit)
    BY DEF Told, Snapshot, Nullable
  <1>3. /\ current \in 1..N
        /\ merged \in [1..N -> Entry]
        /\ \A p \in 1..N \ {current} : merged[p] = entries[p]
        /\ merged[current].heads = entries[current].heads
        /\ merged[current].step = entries[current].step
        /\ merged[current].mergeCommit = pr.mergeCommit
    BY <1>1, <1>2, BusyFacts DEF Entry
  <1>4. CASE StopWith("merge", merged)
    BY <1>1, <1>3, <1>4, StopLearns
  <1>5. CASE Ask(<<"pullRequest">>, 1, purpose) /\ entries' \in {merged, entries}
    <2>1. Steady /\ current' = current
      BY <1>1, <1>3, <1>5, BusyFacts DEF Steady, Ask
    <2>2. purpose' = purpose /\ request'.reads = <<"pullRequest">>
      BY <1>5 DEF Ask
    <2>3. Grounded(current', purpose', entries'[current'])
      BY <1>1, <2>1, <2>2, BusyFacts DEF Grounded, Steady, Away
    <2>4. Needs("mergeConfirm") \subseteq Among(<<"pullRequest">>)
      BY Reads DEF Needs
    <2> QED BY <1>1, <2>1, <2>2, <2>3, <2>4, SteadyKnows DEF Learns, Sound
  <1>6. CASE /\ pr.state = "MERGED" /\ pr.head = purpose.head /\ pr.mergeCommit # None
             /\ OnCheckedBase(pr) /\ Merged(pr.mergeCommit)
    <2> DEFINE m == pulls[current].at
               k == base[m].head
    <2>1. /\ pulls[current].state = "MERGED" /\ pr.head = <<current, LastHead(current)>>
          /\ pr.mergeCommit = <<0, m>> /\ pr.parent = <<0, m - 1>>
      BY <1>6 DEF Told
    <2>2. k = LastHead(current)
      BY <1>3, <2>1 DEF Joint, Recorded
    <2>3. PICK h \in 1..LastHead(current), i \in 1..Tip :
            /\ purpose.head = <<current, h>> /\ purpose.other = <<0, i>>
            /\ pulls[current].heads[h].upTo = i
            /\ <<current, h>> \in greens
      BY <1>1, BusyFacts DEF Grounded, Tested
    <2>4. h = k /\ i = m - 1
      <3>1. <<current, h>> = <<current, LastHead(current)>>
        BY <1>6, <2>1, <2>3
      <3>2. <<0, i>> = <<0, m - 1>>
        BY <1>6, <2>1, <2>3 DEF OnCheckedBase
      <3> HIDE DEF m, k
      <3> QED BY <2>2, <3>1, <3>2, SamePair
    <2>5. ASSUME NEW e, e.mergeCommit = pr.mergeCommit,
                 e.step = "waitingForPostMerge" \/ (e.step = "done" /\ ~HasWorkflow)
          PROVE  Through(current, e)
      BY <2>1, <2>3, <2>4, <2>5 DEF Through
    <2> HIDE DEF m, k
    <2>6. ASSUME NEW es \in [1..N -> Entry],
                 \A p \in 1..N \ {current} : es[p] = entries[p],
                 es[current].heads = entries[current].heads,
                 es[current].mergeCommit = pr.mergeCommit,
                 es[current].step = "waitingForPostMerge" \/ (es[current].step = "done" /\ ~HasWorkflow)
          PROVE  /\ OwnHeads(es) /\ AllThrough(es)
                 /\ \A p \in 1..N : entries[p].step # "waiting" => es[p].step # "waiting"
      <3>1. OwnHeads(es)
        BY <1>1, <1>3, <2>6, BusyFacts DEF OwnHeads
      <3>2. AllThrough(es)
        <4>1. ASSUME NEW p \in 1..N PROVE Through(p, es[p])
          <5>1. CASE p = current
            BY <2>5, <2>6, <5>1
          <5>2. CASE p # current
            BY <1>1, <2>6, <5>2, BusyFacts DEF AllThrough
          <5> QED BY <5>1, <5>2
        <4> QED BY <4>1 DEF AllThrough
      <3>3. \A p \in 1..N : entries[p].step # "waiting" => es[p].step # "waiting"
        BY <2>6
      <3> QED BY <3>1, <3>2, <3>3
    <2>7. CASE HasWorkflow
      <3>1. /\ Ask(<<"pushRuns">>, 1, For("postMerge", pr.mergeCommit, None))
            /\ entries' = [merged EXCEPT ![current].step = "waitingForPostMerge"]
        BY <1>6, <2>7 DEF Merged
      <3>2. /\ entries' \in [1..N -> Entry]
            /\ \A p \in 1..N \ {current} : entries'[p] = entries[p]
            /\ entries'[current].heads = entries[current].heads
            /\ entries'[current].mergeCommit = pr.mergeCommit
            /\ entries'[current].step = "waitingForPostMerge"
        <4> HIDE DEF merged
        <4>1. "waitingForPostMerge" \in StepName
          BY DEF StepName
        <4> QED BY <1>3, <3>1, <4>1 DEF Entry
      <3>3. /\ OwnHeads(entries') /\ AllThrough(entries')
            /\ \A p \in 1..N : entries[p].step # "waiting" => entries'[p].step # "waiting"
        <4>1. PICK es : es = entries'
          OBVIOUS
        <4> QED BY <2>6, <3>2, <4>1
      <3>4. /\ purpose'.kind = "postMerge" /\ purpose'.head = pr.mergeCommit
            /\ request'.reads = <<"pushRuns">> /\ current' = current
        BY <3>1 DEF Ask, For
      <3>5. Grounded(current', purpose', entries'[current'])
        BY <2>7, <3>2, <3>4 DEF Grounded
      <3>6. Needs("postMerge") \subseteq Among(<<"pushRuns">>)
        BY Reads DEF Needs
      <3> QED BY <3>3, <3>4, <3>5, <3>6 DEF Learns, Sound
    <2>8. CASE ~HasWorkflow
      <3> DEFINE es == [merged EXCEPT ![current].step = "done"]
      <3>1. Advance(es)
        BY <1>6, <2>8 DEF Merged
      <3>2. /\ es \in [1..N -> Entry]
            /\ \A p \in 1..N \ {current} : es[p] = entries[p]
            /\ es[current].heads = entries[current].heads
            /\ es[current].mergeCommit = pr.mergeCommit
            /\ es[current].step = "done"
        <4> HIDE DEF merged
        <4>1. "done" \in StepName
          BY DEF StepName
        <4> QED BY <1>3, <4>1 DEF Entry
      <3> HIDE DEF es
      <3> QED BY <2>6, <2>8, <3>1, <3>2, AdvanceLearns
    <2> QED BY <2>7, <2>8
  <1>7. CASE Stop("merge")
    BY <1>1, <1>7, JustStops
  <1> QED BY <1>4, <1>5, <1>6, <1>7 DEF MergeConfirmRead

\* It is done once the run of its commit succeeded.
LEMMA PostMergeLearns ==
  ASSUME IInv, RepositoryOK, Joint, NEW run, Told("pushRuns", run), PostMergeRead(run)
  PROVE  Learns
  <1>1. Busy /\ purpose.kind = "postMerge" /\ request.action = "read"
    BY AnsweredBusy DEF PostMergeRead, Answered
  <1>2. /\ current \in 1..N /\ HasWorkflow
        /\ entries \in [1..N -> Entry]
        /\ entries[current].step = "waitingForPostMerge"
        /\ purpose.head = entries[current].mergeCommit
        /\ Through(current, entries[current])
        /\ OwnHeads(entries) /\ AllThrough(entries)
    BY <1>1, BusyFacts DEF Grounded, AllThrough
  <1>3. CASE Stop("postMerge")
    BY <1>1, <1>3, JustStops
  <1>4. CASE Ask(<<"pushRuns">>, 1, purpose) /\ entries' = entries
    <2>1. purpose' = purpose /\ request'.reads = <<"pushRuns">> /\ current' = current
      BY <1>4 DEF Ask
    <2>2. Grounded(current', purpose', entries'[current'])
      BY <1>1, <1>4, <2>1, BusyFacts
    <2>3. Needs("postMerge") \subseteq Among(<<"pushRuns">>)
      BY Reads DEF Needs
    <2> QED BY <1>1, <1>2, <1>4, <2>1, <2>2, <2>3 DEF Learns, Sound
  <1>5. CASE run # None /\ run = "success" /\ FinishEntry
    <2> DEFINE es == Entries("done")
    <2>1. /\ es \in [1..N -> Entry]
          /\ \A p \in 1..N \ {current} : es[p] = entries[p]
          /\ es[current].heads = entries[current].heads
          /\ es[current].mergeCommit = entries[current].mergeCommit
          /\ es[current].step = "done"
      BY <1>2 DEF Entries, Entry, StepName
    <2>2. Advance(es)
      BY <1>5 DEF FinishEntry
    <2> HIDE DEF es
    <2>3. Through(current, es[current])
      <3>1. purpose.head = <<0, pulls[current].at>> /\ purpose.head[2] = pulls[current].at
        BY <1>2 DEF Through
      <3>2. pulls[current].at \in passed
        BY <1>5, <3>1 DEF Told
      <3> QED BY <1>2, <2>1, <3>2 DEF Through
    <2>4. AllThrough(es)
      <3>1. ASSUME NEW p \in 1..N PROVE Through(p, es[p])
        BY <1>2, <2>1, <2>3 DEF AllThrough
      <3> QED BY <3>1 DEF AllThrough
    <2>5. OwnHeads(es)
      BY <1>2, <2>1 DEF OwnHeads
    <2>6. \A p \in 1..N : entries[p].step # "waiting" => es[p].step # "waiting"
      BY <2>1
    <2> QED BY <2>1, <2>2, <2>4, <2>5, <2>6, AdvanceLearns
  <1>6. CASE /\ Ask(<<"baseRuns", "moved">>, 0, For("postMergeOutcome", purpose.head, None))
             /\ entries' = entries
    <2>1. purpose'.kind = "postMergeOutcome" /\ current' = current
      BY <1>6 DEF Ask, For
    <2>2. Grounded(current', purpose', entries'[current'])
      BY <2>1 DEF Grounded
    <2>3. Needs("postMergeOutcome") = {}
      BY DEF Needs
    <2> QED BY <1>2, <1>6, <2>1, <2>2, <2>3 DEF Learns, Sound
  <1> QED BY <1>3, <1>4, <1>5, <1>6 DEF PostMergeRead

\* A Stop before any entry was begun, or of one.
LEMMA AnyStopLearns ==
  ASSUME IInv, RepositoryOK, Joint, request # None, NEW kind, Stop(kind)
  PROVE  Learns
  <1>1. CASE current # 0
    BY <1>1, JustStops DEF Busy
  <1>2. CASE current = 0
    <2>1. entries' = entries /\ request' = None
      BY <1>2 DEF Stop, StopWith
    <2> QED BY <2>1 DEF Learns, Sound, Joint
  <1> QED BY <1>1, <1>2

LEMMA StartCheckedLearns ==
  ASSUME IInv, RepositoryOK, Joint, NEW setup, NEW runs, StartChecked(setup, runs)
  PROVE  Learns
  <1>1. CASE Advance(entries)
    <2>1. entries \in [1..N -> Entry] /\ OwnHeads(entries) /\ AllThrough(entries)
      BY DEF IInv, TypeOK, Joint
    <2> QED BY <1>1, <2>1, AdvanceLearns
  <1>2. CASE Stop("setup")
    BY <1>2, AnyStopLearns DEF StartChecked, Answered
  <1> QED BY <1>1, <1>2 DEF StartChecked

LEMMA PostMergeFailedLearns ==
  ASSUME IInv, RepositoryOK, Joint, PostMergeFailed
  PROVE  Learns
  BY AnyStopLearns DEF PostMergeFailed, Answered

LEMMA ReadFailedLearns ==
  ASSUME IInv, RepositoryOK, Joint, NEW failure, ReadFailed(failure)
  PROVE  Learns
  <1>1. CASE \E kind \in StopKind : Stop(kind)
    BY <1>1, AnyStopLearns DEF ReadFailed
  <1>2. CASE /\ request' = ReadAgain /\ entries' = entries /\ current' = current
             /\ purpose' = purpose
    BY <1>2, AgainLearns DEF ReadFailed, ReadAgain
  <1> QED BY <1>1, <1>2 DEF ReadFailed, Pause, StopKind

\* What a call's answer is followed by.
LEMMA MutatedLearns ==
  ASSUME IInv, RepositoryOK, Joint, NEW result, Mutated(result)
  PROVE  Learns
  <1>1. /\ request # None /\ request.action \in Mutation
        /\ request.action = "updateBranch" <=> purpose.kind = "update"
        /\ request.action = "rerun" <=> purpose.kind = "rerun"
        /\ request.action = "merge" <=> purpose.kind = "merge"
        /\ purpose.kind \in {"update", "rerun", "merge"}
        /\ purpose \in Purpose
    BY DEF Mutated, IInv, Matched, Mutation
  <1>2. Busy
    BY <1>1 DEF IInv, Matched, Busy
  <1>3. CASE \E kind \in StopKind : Stop(kind)
    BY <1>1, <1>3, AnyStopLearns
  <1>4. ASSUME NEW kind \in {"updatePoll", "updateFailed", "update422"}, NEW after,
               Ask(<<"pullRequest">>, after, With(kind, result)), entries' = entries
        PROVE  Learns
    <2>1. Steady
      BY <1>1, <1>2, <1>4, SameIsSteady DEF Ask
    <2>2. purpose' = With(kind, result) /\ request'.reads = <<"pullRequest">>
      BY <1>4 DEF Ask
    <2>3. With(kind, result).kind = kind
      BY <1>1 DEF With, Purpose
    <2>4. Needs(kind) = {"pullRequest"}
      BY DEF Needs
    <2> QED BY <1>2, <2>1, <2>2, <2>3, <2>4, Reads, SteadyLearns DEF Undemanding, PurposeKind
  <1>5. CASE RerunStarted(purpose.head, purpose.replaced)
    BY <1>1, <1>2, <1>5, PollChecksLearns DEF RerunStarted
  <1>6. ASSUME NEW after, Ask(<<"checks">>, after, With("rerunCheck", result)),
               entries' = entries
        PROVE  Learns
    <2>1. Steady
      BY <1>1, <1>2, <1>6, SameIsSteady DEF Ask
    <2>2. purpose' = With("rerunCheck", result) /\ request'.reads = <<"checks">>
      BY <1>6 DEF Ask
    <2>3. With("rerunCheck", result).kind = "rerunCheck"
      BY <1>1 DEF With, Purpose
    <2>4. Needs("rerunCheck") = {"checks"}
      BY DEF Needs
    <2> QED BY <1>2, <2>1, <2>2, <2>3, <2>4, Reads, SteadyLearns DEF Undemanding, PurposeKind
  <1>7. CASE request.action = "merge" /\ MergeAnswered(result)
    <2>1. Steady /\ current' = current
      BY <1>1, <1>2, <1>7, SameIsSteady DEF MergeAnswered, Ask
    <2>2. purpose' = With("mergeConfirm", result) /\ request'.reads = <<"pullRequest">>
      BY <1>7 DEF MergeAnswered, Ask
    <2>3. /\ purpose'.kind = "mergeConfirm" /\ purpose'.head = purpose.head
          /\ purpose'.other = purpose.other
      BY <1>1, <2>2 DEF With, Purpose
    <2>4. Tested(current, purpose.head, purpose.other)
      BY <1>1, <1>2, <1>7, BusyFacts DEF Grounded
    <2>5. Grounded(current', purpose', entries'[current'])
      BY <2>1, <2>3, <2>4 DEF Grounded, Steady, Away
    <2>6. Needs("mergeConfirm") = {"pullRequest"}
      BY DEF Needs
    <2> QED BY <1>2, <2>1, <2>2, <2>3, <2>5, <2>6, Reads, SteadyKnows DEF Learns, Sound
  <1>8. \/ \E kind \in StopKind : Stop(kind)
        \/ request.action = "updateBranch" /\ UpdateAnswered(result)
        \/ request.action = "rerun" /\ RerunAnswered(result)
        \/ request.action = "merge" /\ MergeAnswered(result)
    BY <1>1 DEF Mutated, Mutation, StopKind
  <1>9. CASE request.action = "updateBranch" /\ UpdateAnswered(result)
    <2>1. CASE Stop("update")
      BY <1>3, <2>1 DEF StopKind
    <2> QED BY <1>4, <1>9, <2>1 DEF UpdateAnswered
  <1>10. CASE request.action = "rerun" /\ RerunAnswered(result)
    <2>1. CASE Stop("checks")
      BY <1>3, <2>1 DEF StopKind
    <2> QED BY <1>5, <1>6, <1>10, <2>1 DEF RerunAnswered
  <1> QED BY <1>3, <1>7, <1>8, <1>9, <1>10

LEMMA StartLearns ==
  ASSUME IInv, RepositoryOK, Joint, Start
  PROVE  Learns
  <1>1. /\ current = 0 /\ current' = current /\ entries' = entries
        /\ purpose'.kind = "start"
    BY DEF Start, IInv, Order, Ask, For
  <1>2. Needs("start") \subseteq Among(request'.reads)
    <2>1. CASE HasWorkflow
      BY <2>1, Reads DEF Start, Ask, Needs
    <2>2. CASE ~HasWorkflow
      BY <2>2, Reads DEF Start, Ask, Needs
    <2> QED BY <2>1, <2>2
  <1> QED BY <1>1, <1>2 DEF Learns, Sound, Joint

LEMMA UserStopLearns ==
  ASSUME IInv, RepositoryOK, Joint, UserStop
  PROVE  Learns
  <1>1. CASE UNCHANGED <<current, entries, request, purpose>>
    BY <1>1 DEF Learns, Sound, Joint, Asked
  <1>2. CASE Stop("user")
    BY <1>2, AnyStopLearns DEF UserStop, IInv, NeverStranded, Active
  <1> QED BY <1>1, <1>2 DEF UserStop

LEMMA TickLearns ==
  ASSUME IInv, RepositoryOK, Joint, Tick
  PROVE  Learns
  BY AgainLearns DEF Tick, IInv, NeverStranded

-----------------------------------------------------------------------------
(* What a read answers *)

\* The commits of this repository are commits.
LEMMA CommitsAre ==
  /\ \A i \in 0..MaxBase : <<0, i>> \in Commit
  /\ \A p \in 1..N, k \in 1..MaxHeads : <<p, k>> \in Commit
  <1>1. MaxBase \in Nat /\ MaxHeads \in Nat /\ N \in Nat
    BY EnvironmentAssumption, NAssumption
  <1>2. 0..MaxBase \subseteq 0..(MaxBase + MaxHeads) /\ 1..MaxHeads \subseteq 0..(MaxBase + MaxHeads)
    BY <1>1
  <1>3. 0 \in 0..N /\ 1..N \subseteq 0..N
    BY <1>1
  <1> QED BY <1>2, <1>3, EnvironmentAssumption DEF Commits

LEMMA OddIsSnapshot ==
  ASSUME NEW pr \in Snapshot
  PROVE  [pr EXCEPT !.mergeable = "UNKNOWN", !.mergeCommit = None, !.parent = None] \in Snapshot
  <1> DEFINE odd == [pr EXCEPT !.mergeable = "UNKNOWN", !.mergeCommit = None, !.parent = None]
             Open == [state: {"OPEN", "CLOSED"},
                      flag: {"none", "ineligible", "autoMerge", "mergeQueue"}, head: Commit,
                      mergeable: {"MERGEABLE", "CONFLICTING", "UNKNOWN"},
                      mergeCommit: {None}, parent: {None}]
             Landed_ == [state: {"MERGED"}, flag: {"none"}, head: Commit,
                         mergeable: {"UNKNOWN"}, mergeCommit: Nullable(Commit),
                         parent: Nullable(Commit)]
  <1>1. CASE pr \in Open
    <2>1. odd \in Open
      BY <1>1
    <2> QED BY <2>1 DEF Snapshot
  <1>2. CASE pr \in Landed_
    <2>1. odd \in Landed_
      BY <1>2 DEF Nullable
    <2> QED BY <2>1 DEF Snapshot
  <1> QED BY <1>1, <1>2 DEF Snapshot

LEMMA SnapTold ==
  ASSUME RepositoryOK, Recorded, current \in 1..N
  PROVE  /\ Told("pullRequest", Snap(current))
         /\ Told("pullRequest", [Snap(current) EXCEPT !.mergeable = "UNKNOWN",
                                   !.mergeCommit = None, !.parent = None])
  <1> DEFINE p == current
             pr == Snap(p)
             odd == [pr EXCEPT !.mergeable = "UNKNOWN", !.mergeCommit = None, !.parent = None]
  <1>1. /\ pulls[p].state \in {"OPEN", "MERGED", "CLOSED"}
        /\ pulls[p].flag \in {"none", "ineligible", "autoMerge", "mergeQueue"}
        /\ LastHead(p) \in 1..LastHead(p) /\ LastHead(p) \in 1..MaxHeads
    BY PullFacts DEF Pull
  <1>2. <<p, LastHead(p)>> \in Commit
    BY <1>1, CommitsAre
  <1>3. pulls[p].state = "MERGED" =>
          /\ pulls[p].flag = "none"
          /\ <<0, pulls[p].at>> \in Commit /\ <<0, pulls[p].at - 1>> \in Commit
    <2>1. Tip \in 1..MaxBase /\ MaxBase \in Nat
      BY EnvironmentAssumption DEF RepositoryOK
    <2> SUFFICES ASSUME pulls[p].state = "MERGED"
                 PROVE  /\ pulls[p].flag = "none"
                        /\ <<0, pulls[p].at>> \in Commit /\ <<0, pulls[p].at - 1>> \in Commit
      OBVIOUS
    <2>2. pulls[p].flag = "none" /\ pulls[p].at \in 2..Tip
      BY DEF Recorded
    <2>3. pulls[p].at \in 0..MaxBase /\ pulls[p].at - 1 \in 0..MaxBase
      BY <2>1, <2>2
    <2> QED BY <2>2, <2>3, CommitsAre
  <1>4. /\ pr.state = pulls[p].state /\ pr.head = <<p, LastHead(p)>>
        /\ pr.state = "MERGED" => /\ pr.mergeCommit = <<0, pulls[p].at>>
                                  /\ pr.parent = <<0, pulls[p].at - 1>>
        /\ odd.state = pr.state /\ odd.head = pr.head /\ odd.mergeCommit = None
    BY DEF Snap
  <1>5. pr \in Snapshot
    <2>1. CASE pulls[p].state = "MERGED"
      <3>1. pr = [state |-> "MERGED", flag |-> "none", head |-> <<p, LastHead(p)>>,
                  mergeable |-> "UNKNOWN", mergeCommit |-> <<0, pulls[p].at>>,
                  parent |-> <<0, pulls[p].at - 1>>]
        BY <1>3, <2>1 DEF Snap
      <3> QED BY <1>2, <1>3, <2>1, <3>1 DEF Snapshot, Nullable
    <2>2. CASE pulls[p].state # "MERGED"
      <3>1. PICK m \in {"MERGEABLE", "CONFLICTING", "UNKNOWN"} :
              pr = [state |-> pulls[p].state, flag |-> pulls[p].flag,
                    head |-> <<p, LastHead(p)>>, mergeable |-> m,
                    mergeCommit |-> None, parent |-> None]
        BY <2>2 DEF Snap
      <3> QED BY <1>1, <1>2, <2>2, <3>1 DEF Snapshot
    <2> QED BY <2>1, <2>2
  <1>8. odd \in Snapshot
    <2> HIDE DEF pr
    <2> QED BY <1>5, OddIsSnapshot
  <1> HIDE DEF pr, odd
  <1>6. Told("pullRequest", pr) /\ Told("pullRequest", odd)
    BY <1>1, <1>4, <1>5, <1>8 DEF Told
  <1> QED BY <1>6 DEF pr, odd

\* The head a request is about, as the reads take it.
LEMMA ReadHead ==
  ASSUME Busy, purpose.kind \notin Headless
  PROVE  /\ purpose.head # None
         /\ purpose.head[2] \in 1..LastHead(current) /\ purpose.head[2] \in Nat
         /\ current \in 1..N /\ RepositoryOK /\ Recorded
         /\ pulls[current].heads[purpose.head[2]] \in PullHead
  <1>1. purpose.head \in Commit
    BY BusyFacts DEF Entry
  <1> QED BY <1>1, CommitAssumption, BusyFacts, OwnChain, PullFacts DEF Busy, Joint

LEMMA CompareTold ==
  ASSUME Busy, purpose.kind \notin Headless
  PROVE  Told("compare", Compared(pulls[current].heads[purpose.head[2]].upTo))
  <1> DEFINE k == purpose.head[2]
             upTo == pulls[current].heads[k].upTo
             v == Compared(upTo)
  <1>1. Tip \in 1..MaxBase /\ Tip \in Nat /\ upTo \in Nat /\ upTo <= Tip
    <2>1. /\ k \in Nat /\ k \in 1..LastHead(current) /\ current \in 1..N
          /\ pulls[current].heads[k] \in PullHead /\ RepositoryOK /\ Recorded
      BY ReadHead
    <2>2. upTo \in 0..MaxBase /\ MaxBase \in Nat
      BY <2>1, EnvironmentAssumption DEF PullHead
    <2> HIDE DEF k
    <2>3. upTo <= Tip
      BY <2>1 DEF Recorded
    <2>4. Tip \in 1..MaxBase /\ Tip \in Nat
      BY <2>1, PullFacts
    <2> QED BY <2>2, <2>3, <2>4
  <1>2. <<0, Tip>> \in Commit
    BY <1>1, CommitsAre, EnvironmentAssumption
  <1>3. v.behindBy \in 0..1 /\ v.baseCommit = <<0, Tip>> /\ (v.behindBy = 0 => upTo = Tip)
    BY <1>1 DEF Compared
  <1>4. v \in Nullable(Comparison)
    BY <1>2, <1>3 DEF Compared, Comparison, Nullable
  <1>5. Tip \in 1..Tip
    BY <1>1
  <1> HIDE DEF v
  <1>6. Told("compare", v)
    BY <1>3, <1>4, <1>5, ReadHead DEF Told
  <1> QED BY <1>6 DEF v

LEMMA ChecksTold ==
  ASSUME Busy, purpose.kind \notin Headless
  PROVE  Told("checks", ChecksOf(current, purpose.head[2]))
  <1> DEFINE k == purpose.head[2]
             head == pulls[current].heads[k]
             v == ChecksOf(current, k)
  <1>1. /\ k \in 1..MaxHeads /\ head.run \in 1..3 /\ head.checks \in CheckState
        /\ head.checks = "green" => <<current, k>> \in greens
    <2>1. /\ k \in Nat /\ k \in 1..LastHead(current) /\ current \in 1..N
          /\ head \in PullHead /\ RepositoryOK /\ Recorded
      BY ReadHead
    <2> HIDE DEF k
    <2>2. k \in 1..MaxHeads
      BY <2>1, PullFacts, EnvironmentAssumption
    <2>3. head.run \in 1..3 /\ head.checks \in CheckState
      BY <2>1 DEF PullHead
    <2>4. head.checks = "green" => <<current, k>> \in greens
      BY <2>1 DEF Recorded
    <2> QED BY <2>2, <2>3, <2>4
  <1>2. <<k, head.run>> \in CheckRun
    BY <1>1, EnvironmentAssumption
  <1>3. /\ v.state \in {"green", "pending", "notGreen", "failed", "mixed", "otherFailed"}
        /\ v.state = "green" => head.checks = "green"
    BY <1>1 DEF ChecksOf, CheckState
  <1>4. v \in Checks
    BY <1>2, <1>3 DEF ChecksOf, Checks
  <1> HIDE DEF v
  <1>5. Told("checks", v)
    BY <1>1, <1>3, <1>4 DEF Told
  <1> QED BY <1>5 DEF v

LEMMA BaseOfTold ==
  ASSUME Busy, purpose.kind = "updateBase"
  PROVE  Told("baseOf", [behindBy |-> IF purpose.other[2] \in 1..Tip THEN 0 ELSE 1,
                         baseCommit |-> purpose.other])
  <1> DEFINE v == [behindBy |-> IF purpose.other[2] \in 1..Tip THEN 0 ELSE 1,
                   baseCommit |-> purpose.other]
  <1>1. PICK k \in 1..LastHead(current) :
          purpose.other = <<0, pulls[current].heads[k].merged>>
    BY BusyFacts DEF Grounded
  <1>2. pulls[current].heads[k].merged \in 0..MaxBase
    BY BusyFacts, PullFacts DEF PullHead, Busy
  <1>3. purpose.other \in Commit
    BY <1>1, <1>2, CommitsAre
  <1>4. v \in Nullable(Comparison) /\ (v.behindBy = 0 => purpose.other[2] \in 1..Tip)
    BY <1>3 DEF Comparison, Nullable
  <1> HIDE DEF v
  <1>5. Told("baseOf", v)
    BY <1>4 DEF Told
  <1> QED BY <1>5 DEF v

LEMMA BaseRunsTold ==
  ASSUME RepositoryOK
  PROVE  Told("baseRuns", [i \in BaseRun |-> IF i <= Tip THEN base[i].run ELSE None])
  <1> DEFINE v == [i \in BaseRun |-> IF i <= Tip THEN base[i].run ELSE None]
  <1>1. ASSUME NEW i \in BaseRun
        PROVE  (IF i <= Tip THEN base[i].run ELSE None) \in
                 Nullable([state: RunState, attempt: 1..2])
    <2>1. CASE i <= Tip
      <3>1. i \in 1..Tip
        BY <2>1, EnvironmentAssumption DEF RepositoryOK
      <3>2. base[i] \in BaseCommit
        BY <3>1, ElementOfSeq DEF RepositoryOK, Tip
      <3> QED BY <2>1, <3>2 DEF BaseCommit
    <2>2. CASE ~(i <= Tip)
      BY <2>2 DEF Nullable
    <2> QED BY <2>1, <2>2
  <1>2. v \in BaseRuns
    BY <1>1 DEF BaseRuns
  <1> HIDE DEF v
  <1>3. Told("baseRuns", v)
    BY <1>2 DEF Told
  <1> QED BY <1>3 DEF v

LEMMA PushRunsTold ==
  ASSUME Busy, purpose.kind = "postMerge"
  PROVE  /\ purpose.head # None
         /\ Told("pushRuns", IF base[purpose.head[2]].run = None THEN None
                             ELSE base[purpose.head[2]].run.state)
  <1> DEFINE m == pulls[current].at
             v == IF base[m].run = None THEN None ELSE base[m].run.state
  <1>1. /\ purpose.head = <<0, m>> /\ pulls[current].state = "MERGED" /\ current \in 1..N
    BY BusyFacts DEF Grounded, AllThrough, Through
  <1>2. m \in 2..Tip /\ Tip \in 1..MaxBase /\ Tip \in Nat /\ MaxBase \in Nat
    BY <1>1, EnvironmentAssumption DEF Busy, Joint, Recorded, RepositoryOK
  <1>3. m \in 0..MaxBase /\ m \in 1..Tip /\ m \in Nat
    BY <1>2
  <1>4. purpose.head # None
    BY <1>1, <1>3, CommitsAre, CommitAssumption
  <1>5. base[m] \in BaseCommit
    BY <1>3, ElementOfSeq DEF Busy, RepositoryOK, Tip
  <1>6. v \in Nullable(RunState) /\ (v # None /\ v = "success" => m \in passed)
    <2>1. CASE base[m].run = None
      BY <2>1 DEF Nullable
    <2>2. CASE base[m].run # None
      <3>1. base[m].run.state \in RunState
        BY <1>5, <2>2 DEF BaseCommit, Nullable
      <3>2. base[m].run.state = "success" => m \in passed
        BY <1>2, <1>3, <2>2 DEF Busy, Joint, Recorded
      <3> QED BY <2>2, <3>1, <3>2 DEF Nullable
    <2> QED BY <2>1, <2>2
  <1> QED BY <1>1, <1>4, <1>6 DEF Told

\* Whatever is read for the request that is out is what the repository says.
LEMMA ReadTold ==
  ASSUME IInv, RepositoryOK, Joint, request # None, NEW r \in Needs(purpose.kind)
  PROVE  /\ Told(r, ReadNow(r))
         /\ \A answer \in ReadOddly(r) : Told(r, answer)
  <1>1. r = "setup" => Told(r, "ready") /\ \A answer \in ReadOddly(r) : Told(r, answer)
    BY DEF Told, Setup, ReadOddly
  <1>2. CASE r = "setup"
    BY <1>1, <1>2 DEF ReadNow
  <1>3. CASE r = "baseRuns"
    <2>1. ReadOddly(r) = {}
      BY <1>3 DEF ReadOddly
    <2> QED BY <1>3, <2>1, BaseRunsTold DEF ReadNow
  <1>4. CASE r \notin {"setup", "baseRuns"}
    <2>1. Busy
      <3>1. purpose.kind # "start"
        BY <1>4 DEF Needs
      <3> QED BY <3>1 DEF Busy, IInv, Matched
    <2>2. purpose \in Purpose /\ current \in 1..N /\ Recorded
      BY <2>1, BusyFacts DEF Joint
    <2>3. CASE r = "pullRequest"
      <3>1. ReadNow(r) = Snap(current)
        BY <2>3 DEF ReadNow
      <3>2. ReadOddly(r) = {[Snap(current) EXCEPT !.mergeable = "UNKNOWN",
                               !.mergeCommit = None, !.parent = None]}
        BY <2>3 DEF ReadOddly
      <3> QED BY <2>2, <2>3, <3>1, <3>2, SnapTold
    <2>4. CASE r = "local"
      <3>1. pulls[current].tree \in {"clean", "trackedChanges", "unpushed"}
        BY <2>2, PullFacts DEF Pull
      <3>2. ReadNow(r) = pulls[current].tree /\ ReadOddly(r) = {"unreadable"}
        BY <2>4 DEF ReadNow, ReadOddly
      <3> QED BY <2>4, <3>1, <3>2 DEF Told, Local
    <2>5. CASE r = "compare"
      <3>1. purpose.kind \notin Headless
        BY <2>5 DEF Needs, Headless
      <3>2. ReadNow(r) = Compared(pulls[current].heads[purpose.head[2]].upTo)
        BY <2>1, <2>5, <3>1, ReadHead DEF ReadNow
      <3>3. Told(r, ReadNow(r))
        BY <2>1, <2>5, <3>1, <3>2, CompareTold
      <3>4. ReadOddly(r) = {None} /\ Told(r, None)
        BY <2>5 DEF ReadOddly, Told, Nullable
      <3> QED BY <3>3, <3>4
    <2>6. CASE r = "commit"
      BY <2>6 DEF ReadNow, ReadOddly, Told
    <2>7. CASE r = "baseOf"
      <3>1. purpose.kind = "updateBase"
        BY <2>7 DEF Needs
      <3>2. Told(r, ReadNow(r))
        BY <2>1, <2>7, <3>1, BaseOfTold DEF ReadNow
      <3>3. ReadOddly(r) = {None} /\ Told(r, None)
        BY <2>7 DEF ReadOddly, Told, Nullable
      <3> QED BY <3>2, <3>3
    <2>8. CASE r = "checks"
      <3>1. purpose.kind \notin Headless
        BY <2>8 DEF Needs, Headless
      <3>2. ReadNow(r) = ChecksOf(current, purpose.head[2])
        BY <2>1, <2>8, <3>1, ReadHead DEF ReadNow
      <3>3. ReadOddly(r) = {}
        BY <2>8 DEF ReadOddly
      <3> QED BY <2>1, <2>8, <3>1, <3>2, <3>3, ChecksTold
    <2>9. CASE r = "pushRuns"
      <3>1. purpose.kind = "postMerge"
        BY <2>9 DEF Needs
      <3>2. ReadOddly(r) = {}
        BY <2>9 DEF ReadOddly
      <3>3. ReadNow(r) = IF base[purpose.head[2]].run = None THEN None
                         ELSE base[purpose.head[2]].run.state
        BY <2>1, <2>9, <3>1, PushRunsTold DEF ReadNow
      <3> QED BY <2>1, <2>9, <3>1, <3>2, <3>3, PushRunsTold
    <2>10. r \in {"pullRequest", "local", "compare", "commit", "baseOf", "checks", "pushRuns"}
      BY <1>4 DEF Needs
    <2> QED BY <2>3, <2>4, <2>5, <2>6, <2>7, <2>8, <2>9, <2>10
  <1> QED BY <1>2, <1>3, <1>4

\* Nothing the reads are about changes.
World == <<base, pulls, greens, passed>>

LEMMA ToldStays ==
  ASSUME UNCHANGED World, UNCHANGED <<current, purpose>>, NEW r, NEW v, Told(r, v)
  PROVE  Told(r, v)'
  BY DEF Told, World, LastHead, Tip

LEMMA AmongTail ==
  ASSUME NEW s \in Seq(ReadName), s # <<>>
  PROVE  /\ Head(s) \in ReadName /\ Tail(s) \in Seq(ReadName)
         /\ Among(s) \subseteq {Head(s)} \cup Among(Tail(s))
  <1>1. /\ Head(s) \in ReadName /\ Head(s) = s[1] /\ Tail(s) \in Seq(ReadName)
        /\ Len(Tail(s)) = Len(s) - 1 /\ Len(s) \in Nat
        /\ \A i \in 1..Len(Tail(s)) : Tail(s)[i] = s[i + 1]
    BY HeadTailProperties, EmptySeq, LenProperties
  <1>2. ASSUME NEW i \in 1..Len(s)
        PROVE  s[i] \in {Head(s)} \cup Among(Tail(s))
    <2>1. CASE i = 1
      BY <1>1, <2>1
    <2>2. CASE i # 1
      <3>1. i - 1 \in 1..Len(Tail(s)) /\ (i - 1) + 1 = i
        BY <1>1, <2>2
      <3>2. Tail(s)[i - 1] = s[i]
        BY <1>1, <3>1
      <3> QED BY <3>1, <3>2 DEF Among
    <2> QED BY <2>1, <2>2
  <1> QED BY <1>1, <1>2 DEF Among

\* A read is done, in the repository as it is at that moment.
LEMMA FetchKeeps ==
  ASSUME IInv, RepositoryOK, Joint, Due, ToDo # <<>>, UNCHANGED <<vars, envVars>>,
         NEW v, v = ReadNow(Head(ToDo)) \/ v \in ReadOddly(Head(ToDo)),
         batch' = [todo |-> Tail(ToDo), got |-> [Got EXCEPT ![Head(ToDo)] = v]]
  PROVE  Reading'
  <1>0. /\ phase' = phase /\ request' = request /\ current' = current /\ purpose' = purpose
        /\ UNCHANGED World
    BY DEF vars, envVars, World
  <1>1. /\ request # None /\ request.action = "read" /\ request \in ReadRequest
        /\ phase # "idle"
    BY DEF Due, IInv, TypeOK, NeverStranded, Active, Nullable, MutateRequest, Mutation
  <1>2. ToDo \in Seq(ReadName) /\ DOMAIN Got = ReadName
    BY <1>1 DEF ToDo, Got, Joint, Reading, ReadRequest
  <1>3. \A r \in Needs(purpose.kind) : r \in Among(ToDo) \/ Told(r, Got[r])
    BY <1>1 DEF ToDo, Got, Joint, Reading, Asked
  <1>4. /\ Head(ToDo) \in ReadName /\ Tail(ToDo) \in Seq(ReadName)
        /\ Among(ToDo) \subseteq {Head(ToDo)} \cup Among(Tail(ToDo))
    BY <1>2, AmongTail
  <1>5. ASSUME NEW r \in Needs(purpose.kind)
        PROVE  r \in Among(Tail(ToDo)) \/ Told(r, batch'.got[r])
    <2>1. r \in ReadName
      BY DEF Needs, ReadName
    <2>2. CASE r = Head(ToDo)
      <3>1. batch'.got[r] = v
        BY <1>2, <1>4, <2>2
      <3>2. Told(r, v)
        BY <1>1, <2>2, ReadTold
      <3> QED BY <3>1, <3>2
    <2>3. CASE r # Head(ToDo)
      <3>1. batch'.got[r] = Got[r]
        BY <1>2, <2>1, <2>3
      <3> QED BY <1>3, <1>4, <2>3, <3>1
    <2> QED BY <2>2, <2>3
  <1>6. ASSUME NEW r \in Needs(purpose.kind), r \notin Among(Tail(ToDo))
        PROVE  Told(r, batch.got[r])'
    <2>1. PICK w : w = batch'.got[r]
      OBVIOUS
    <2>2. Told(r, w)
      BY <1>5, <1>6, <2>1
    <2>3. Told(r, w)'
      BY <1>0, <2>2, ToldStays
    <2> QED BY <2>1, <2>3
  <1>7. batch'.todo = Tail(ToDo) /\ DOMAIN batch'.got = ReadName
    BY <1>2
  <1> QED BY <1>0, <1>1, <1>4, <1>6, <1>7 DEF Reading

-----------------------------------------------------------------------------
(* The driver's steps *)

\* All the reads are done: their answers are what the repository says.
LEMMA GotTold ==
  ASSUME Joint, Due, batch # None, batch.todo = <<>>
  PROVE  \A r \in Needs(purpose.kind) : Told(r, Got[r])
  <1>1. Among(batch.todo) = {}
    BY DEF Among
  <1> QED BY <1>1 DEF Joint, Reading, Due, Got

LEMMA NowLocal ==
  ASSUME Told("local", Got["local"])
  PROVE  LocalNow \in Local
  BY DEF Told, LocalNow, Local

NoRuns == [i \in BaseRun |-> None]

\* The answers are ones that the engine is shown to handle, and it learns from
\* them what the repository says.
LEMMA FinishLearns ==
  ASSUME IInv, RepositoryOK, Joint, FinishReads
  PROVE  ReadAnswered /\ Learns
  <1>1. Due /\ \A r \in Needs(purpose.kind) : Told(r, Got[r])
    BY GotTold DEF FinishReads
  <1>2. NoRuns \in BaseRuns
    BY DEF NoRuns, BaseRuns, Nullable
  <1>3. CASE StartChecked(Got["setup"], Got["baseRuns"])
    <2>1. Needs(purpose.kind) = {"setup"} \cup (IF HasWorkflow THEN {"baseRuns"} ELSE {})
      BY <1>3 DEF StartChecked, Answered, Needs
    <2>2. Got["setup"] \in Setup /\ (HasWorkflow => Got["baseRuns"] \in BaseRuns)
      <3>1. Told("setup", Got["setup"]) /\ (HasWorkflow => Told("baseRuns", Got["baseRuns"]))
        BY <1>1, <2>1
      <3> QED BY <3>1 DEF Told
    <2>3. \E runs \in BaseRuns : StartChecked(Got["setup"], runs)
      <3>1. CASE HasWorkflow
        BY <1>3, <2>2, <3>1
      <3>2. CASE ~HasWorkflow
        <4>1. StartChecked(Got["setup"], NoRuns)
          BY <1>3, <3>2 DEF StartChecked
        <4> QED BY <1>2, <4>1
      <3> QED BY <3>1, <3>2
    <2>4. ReadAnswered
      BY <2>2, <2>3 DEF ReadAnswered
    <2> QED BY <1>3, <2>4, StartCheckedLearns
  <1>4. CASE \/ Preflight(Got["pullRequest"]) \/ UpdatePolled(Got["pullRequest"])
             \/ UpdateFailedRead(Got["pullRequest"]) \/ UpdateRefused(Got["pullRequest"])
             \/ MergeConfirmRead(Got["pullRequest"])
    <2>1. Needs(purpose.kind) = {"pullRequest"}
      BY <1>4 DEF Preflight, UpdatePolled, UpdateFailedRead, UpdateRefused, MergeConfirmRead,
                  Answered, Needs
    <2>2. Told("pullRequest", Got["pullRequest"])
      BY <1>1, <2>1
    <2>3. Got["pullRequest"] \in Snapshot
      BY <2>2 DEF Told
    <2>4. ReadAnswered
      BY <1>4, <2>3 DEF ReadAnswered
    <2> QED BY <1>4, <2>2, <2>4, PreflightLearns, UpdatePolledLearns, UpdateFailedLearns,
               UpdateRefusedLearns, MergeConfirmLearns
  <1>5. CASE PreflightLocal(LocalNow)
    <2>1. Needs(purpose.kind) = {"local"}
      BY <1>5 DEF PreflightLocal, Answered, Needs
    <2>2. LocalNow \in Local
      BY <1>1, <2>1, NowLocal
    <2>3. ReadAnswered
      BY <1>5, <2>2 DEF ReadAnswered
    <2> QED BY <1>5, <2>3, PreflightLocalLearns
  <1>6. CASE Behind(Got["compare"])
    <2>1. Needs(purpose.kind) = {"compare"}
      BY <1>6 DEF Behind, Answered, Needs
    <2>2. Got["compare"] \in Nullable(Comparison)
      BY <1>1, <2>1 DEF Told
    <2>3. ReadAnswered
      BY <1>6, <2>2 DEF ReadAnswered
    <2> QED BY <1>6, <2>3, BehindLearns
  <1>7. CASE UpdateCommitRead(Got["commit"])
    <2>1. purpose.kind = "updateCommit" /\ Needs(purpose.kind) = {"commit"} /\ Busy
      BY <1>7, AnsweredBusy DEF UpdateCommitRead, Answered, Needs
    <2>2. Told("commit", Got["commit"])
      BY <1>1, <2>1
    <2>3. Got["commit"] \in CommitInfo
      <3>1. PICK k \in 1..LastHead(current) : purpose.other = <<current, k>>
        BY <2>1, BusyFacts DEF Grounded
      <3>2. /\ current \in 1..N /\ k \in Nat /\ k \in 1..MaxHeads
            /\ pulls[current].heads[k] \in PullHead /\ pulls[current].heads[k].from = k - 1
        <4>1. current \in 1..N /\ RepositoryOK /\ Recorded
          BY <2>1, BusyFacts DEF Joint
        <4>2. /\ k \in Nat /\ k \in 1..LastHead(current) /\ LastHead(current) \in 1..MaxHeads
              /\ LastHead(current) \in Nat
          BY <4>1, PullFacts
        <4>3. k \in 1..MaxHeads
          BY <4>2, EnvironmentAssumption
        <4>4. pulls[current].heads[k] \in PullHead
          BY <4>1, <4>2, PullFacts
        <4>5. pulls[current].heads[k].from = k - 1
          BY <4>1, <4>2 DEF Recorded
        <4> QED BY <4>1, <4>2, <4>3, <4>4, <4>5
      <3>3. <<current, k - 1>> \in Commit
        BY <3>2, NAssumption, EnvironmentAssumption DEF Commits
      <3>4. <<0, pulls[current].heads[k].merged>> \in Commit
        BY <3>2, CommitsAre DEF PullHead
      <3>5. Got["commit"] = [webFlow |-> pulls[current].heads[k].webFlow,
                             from |-> <<current, k - 1>>,
                             merged |-> <<0, pulls[current].heads[k].merged>>]
        <4>1. purpose.other[2] = k
          BY <3>1
        <4> QED BY <2>2, <3>2, <4>1 DEF Told
      <3>6. pulls[current].heads[k].webFlow \in BOOLEAN
        BY <3>2 DEF PullHead
      <3> QED BY <3>3, <3>4, <3>5, <3>6 DEF CommitInfo
    <2>4. ReadAnswered
      BY <1>7, <2>3 DEF ReadAnswered
    <2> QED BY <1>7, <2>2, <2>4, UpdateCommitLearns
  <1>8. CASE UpdateBaseRead(Got["baseOf"])
    <2>1. Needs(purpose.kind) = {"baseOf"}
      BY <1>8 DEF UpdateBaseRead, Answered, Needs
    <2>2. Told("baseOf", Got["baseOf"])
      BY <1>1, <2>1
    <2>3. Got["baseOf"] \in Nullable(Comparison)
      BY <2>2 DEF Told
    <2>4. ReadAnswered
      BY <1>8, <2>3 DEF ReadAnswered
    <2> QED BY <1>8, <2>2, <2>4, UpdateBaseLearns
  <1>9. CASE ChecksRead(Got["pullRequest"], Got["checks"])
    <2>1. Needs(purpose.kind) = {"pullRequest", "checks"}
      BY <1>9 DEF ChecksRead, Answered, Needs
    <2>2. Told("pullRequest", Got["pullRequest"]) /\ Told("checks", Got["checks"])
      BY <1>1, <2>1
    <2>3. Got["pullRequest"] \in Snapshot /\ Got["checks"] \in Checks
      BY <2>2 DEF Told
    <2>4. ReadAnswered
      BY <1>9, <2>3 DEF ReadAnswered
    <2> QED BY <1>9, <2>4, ChecksReadLearns
  <1>10. CASE RerunChecked(Got["checks"])
    <2>1. Needs(purpose.kind) = {"checks"}
      BY <1>10 DEF RerunChecked, Answered, Needs
    <2>2. Got["checks"] \in Checks
      BY <1>1, <2>1 DEF Told
    <2>3. ReadAnswered
      BY <1>10, <2>2 DEF ReadAnswered
    <2> QED BY <1>10, <2>3, RerunCheckedLearns
  <1>11. CASE MergeChecksRead(Got["pullRequest"], Got["checks"], Got["compare"], LocalNow,
                              Got["baseRuns"])
    <2>1. Needs(purpose.kind) = {"pullRequest", "checks", "compare", "local"}
                                  \cup (IF HasWorkflow THEN {"baseRuns"} ELSE {})
      BY <1>11 DEF MergeChecksRead, Answered, Needs
    <2>2. /\ Told("pullRequest", Got["pullRequest"]) /\ Told("checks", Got["checks"])
          /\ Told("compare", Got["compare"]) /\ Told("local", Got["local"])
          /\ HasWorkflow => Told("baseRuns", Got["baseRuns"])
      BY <1>1, <2>1
    <2>3. /\ Got["pullRequest"] \in Snapshot /\ Got["checks"] \in Checks
          /\ Got["compare"] \in Nullable(Comparison)
          /\ HasWorkflow => Got["baseRuns"] \in BaseRuns
      BY <2>2 DEF Told
    <2>4. LocalNow \in Local
      BY <2>2, NowLocal
    <2>5. \E runs \in BaseRuns :
            MergeChecksRead(Got["pullRequest"], Got["checks"], Got["compare"], LocalNow, runs)
      <3>1. CASE HasWorkflow
        BY <1>11, <2>3, <3>1
      <3>2. CASE ~HasWorkflow
        <4>1. MergeChecksRead(Got["pullRequest"], Got["checks"], Got["compare"], LocalNow, NoRuns)
          BY <1>11, <3>2 DEF MergeChecksRead
        <4> QED BY <1>2, <4>1
      <3> QED BY <3>1, <3>2
    <2>6. ReadAnswered
      BY <2>3, <2>4, <2>5 DEF ReadAnswered
    <2> QED BY <1>11, <2>2, <2>6, MergeChecksReadLearns
  <1>12. CASE BaseRunsRead(Got["baseRuns"])
    <2>1. Needs(purpose.kind) = {"baseRuns"}
      BY <1>12 DEF BaseRunsRead, Answered, Needs
    <2>2. Got["baseRuns"] \in BaseRuns
      BY <1>1, <2>1 DEF Told
    <2>3. ReadAnswered
      BY <1>12, <2>2 DEF ReadAnswered
    <2> QED BY <1>12, <2>3, BaseRunsReadLearns
  <1>13. CASE PostMergeRead(Got["pushRuns"])
    <2>1. Needs(purpose.kind) = {"pushRuns"}
      BY <1>13 DEF PostMergeRead, Answered, Needs
    <2>2. Told("pushRuns", Got["pushRuns"])
      BY <1>1, <2>1
    <2>3. Got["pushRuns"] \in Nullable(RunState)
      BY <2>2 DEF Told
    <2>4. ReadAnswered
      BY <1>13, <2>3 DEF ReadAnswered
    <2> QED BY <1>13, <2>2, <2>4, PostMergeLearns
  <1>14. CASE PostMergeFailed
    BY <1>14, PostMergeFailedLearns DEF ReadAnswered
  <1> QED BY <1>3, <1>4, <1>5, <1>6, <1>7, <1>8, <1>9, <1>10, <1>11, <1>12, <1>13, <1>14
          DEF FinishReads

-----------------------------------------------------------------------------
(* Every step keeps the invariant *)

Whole == IInv /\ EnvTypeOK /\ Joint

LEMMA WholeFacts ==
  ASSUME Whole
  PROVE  /\ IInv /\ RepositoryOK /\ LateOK /\ Joint /\ Recorded /\ PutOff /\ LandedOwn
         /\ call \in Nullable(MutationResult) /\ trouble \in 0..MaxTrouble
         /\ MaxTrouble \in Nat
  BY EnvironmentAssumption DEF Whole, EnvTypeOK, RepositoryOK, LateOK, Joint

LEMMA TypesKept ==
  ASSUME EnvTypeOK, RepositoryOK', LateOK', live' = live,
         call' \in Nullable(MutationResult), trouble' \in 0..MaxTrouble, Reading'
  PROVE  EnvTypeOK'
  BY DEF EnvTypeOK, RepositoryOK, LateOK, Reading

\* The engine handles something, and the repository stays as it is.
LEMMA EngineStep ==
  ASSUME Whole, Next, Learns, UNCHANGED envVars, Reading',
         call' \in Nullable(MutationResult), trouble' \in 0..MaxTrouble
  PROVE  Whole'
  <1>1. IInv' /\ entries \in [1..N -> Entry]
    BY WholeFacts, NextInvariant DEF IInv, TypeOK
  <1>2. RepositoryOK' /\ LateOK' /\ Recorded' /\ live' = live
    BY WholeFacts DEF envVars, RepositoryOK, LateOK, Recorded, Tip, LastHead
  <1>3. EnvTypeOK'
    BY <1>2, TypesKept DEF Whole
  <1>4. OwnHeads(entries)'
    BY DEF Learns, OwnHeads, Chain, Made, LastHead, envVars
  <1>5. AllThrough(entries)'
    BY DEF Learns, AllThrough, Through, envVars
  <1>6. Asked'
    BY DEF Learns, Sound, Asked, Grounded, Made, Tested, LastHead, Tip, envVars
  <1>7. PutOff'
    <2>1. ASSUME NEW e \in late
          PROVE  Chain(e.pull, <<e.pull, e.head>>)'
      BY <2>1, WholeFacts DEF PutOff, Chain, Made, LastHead, envVars
    <2>2. ASSUME NEW e \in late, e.mutation = "merge"
          PROVE  entries'[e.pull].step # "waiting"
      BY <2>2, WholeFacts DEF PutOff, Learns, LateOK
    <2> QED BY <2>1, <2>2 DEF PutOff, envVars
  <1>8. LandedOwn'
    BY WholeFacts DEF LandedOwn, Chain, Made, LastHead, Tip, envVars
  <1> QED BY <1>1, <1>2, <1>3, <1>4, <1>5, <1>6, <1>7, <1>8 DEF Whole, Joint

\* The repository changes, and the engine stays as it is.
LEMMA WorldStep ==
  ASSUME Whole, UNCHANGED vars, batch' = batch, Kept, LandedOwn', PutOff', LateOK',
         call' \in Nullable(MutationResult), trouble' \in 0..MaxTrouble, live' = live
  PROVE  Whole'
  <1>1. IInv'
    BY WholeFacts, NextInvariant
  <1>2. OwnHeads(entries)' /\ AllThrough(entries)' /\ Asked' /\ Reading'
    BY WholeFacts, WorldKeeps
  <1>3. RepositoryOK' /\ Recorded'
    BY DEF Kept
  <1>4. EnvTypeOK'
    BY <1>2, <1>3, TypesKept DEF Whole
  <1> QED BY <1>1, <1>2, <1>3, <1>4 DEF Whole, Joint

\* Nothing of the repository changes.
LEMMA WorldStays ==
  ASSUME Whole, UNCHANGED <<base, pulls, greens, passed>>
  PROVE  Kept /\ LandedOwn'
  <1>1. Kept
    BY WholeFacts, StillKept, NoPull DEF BaseStays
  <1>2. Tip' = Tip
    BY DEF Tip
  <1>3. NoLanding
    BY <1>2, WholeFacts, NothingLands
  <1> QED BY <1>1, <1>3, WholeFacts, LandedKept

LEMMA FetchStep ==
  ASSUME Whole, Fetch
  PROVE  Whole'
  <1>1. Reading'
    BY WholeFacts, FetchKeeps DEF Fetch
  <1>2. UNCHANGED <<vars, envVars, call>> /\ trouble' \in 0..MaxTrouble
    BY WholeFacts DEF Fetch
  <1>3. UNCHANGED <<base, pulls, greens, passed>> /\ late' = late /\ live' = live /\ call' = call
    BY <1>2 DEF envVars
  <1>4. IInv' /\ Kept /\ LandedOwn'
    BY <1>2, <1>3, WholeFacts, WorldStays, NextInvariant
  <1>5. PutOff' /\ LateOK'
    BY <1>2, <1>3, <1>4, WholeFacts, PutOffKept DEF vars, LateOK
  <1>6. UNCHANGED <<entries, current, purpose, request>>
    BY <1>2 DEF vars
  <1>7. OwnHeads(entries)' /\ AllThrough(entries)' /\ Asked'
    BY <1>3, <1>6, WholeFacts DEF Joint, OwnHeads, Chain, Made, LastHead, Tip, AllThrough, Through,
         Asked, Grounded, Tested
  <1>8. EnvTypeOK'
    BY <1>1, <1>2, <1>3, <1>4, <1>5, WholeFacts, TypesKept DEF Whole, Kept
  <1> QED BY <1>1, <1>4, <1>5, <1>7, <1>8 DEF Whole, Joint, Kept

LEMMA FinishStep ==
  ASSUME Whole, FinishReads
  PROVE  Whole'
  <1>1. ReadAnswered /\ Learns
    BY WholeFacts, FinishLearns
  <1>2. Next
    BY <1>1 DEF Next
  <1>3. Reading'
    BY DEF FinishReads, Reading
  <1> QED BY <1>1, <1>2, <1>3, WholeFacts, EngineStep DEF FinishReads

LEMMA FetchFailsStep ==
  ASSUME Whole, FetchFails
  PROVE  Whole'
  <1>1. PICK failure \in ReadFailure : ReadFailed(failure)
    BY DEF FetchFails
  <1>2. Learns
    BY <1>1, WholeFacts, ReadFailedLearns
  <1>3. Next
    BY <1>1 DEF Next, ReadAnswered
  <1>4. Reading'
    BY DEF FetchFails, Reading
  <1>5. UNCHANGED envVars /\ call' = call /\ trouble' \in 0..MaxTrouble
    BY WholeFacts DEF FetchFails
  <1> QED BY <1>2, <1>3, <1>4, <1>5, WholeFacts, EngineStep

LEMMA GhAnswersStep ==
  ASSUME Whole, GhAnswers
  PROVE  Whole'
  <1>1. call \in MutationResult /\ Mutated(call)
    BY WholeFacts DEF GhAnswers, Nullable
  <1>2. Learns
    BY <1>1, WholeFacts, MutatedLearns
  <1>3. Next
    BY <1>1 DEF Next
  <1>4. batch' = None
    <2>1. request # None /\ request.action \in Mutation
      BY <1>1 DEF Mutated
    <2>2. batch = None
      BY <2>1, WholeFacts DEF Joint, Reading, Mutation
    <2> QED BY <2>2 DEF GhAnswers
  <1>5. Reading'
    BY <1>4 DEF Reading
  <1>6. UNCHANGED envVars /\ call' \in Nullable(MutationResult) /\ trouble' = trouble
    BY DEF GhAnswers, Nullable
  <1> QED BY <1>2, <1>3, <1>5, <1>6, WholeFacts, EngineStep

\* The reads go on over a tick, and over a Stop.
LEMMA ReadsGoOn ==
  ASSUME Whole, UNCHANGED envVars, batch' = batch, phase' # "idle",
         \/ request' = None
         \/ /\ request # None /\ request'.action = request.action
            /\ UNCHANGED <<current, purpose>>
  PROVE  Reading'
  <1>1. ASSUME batch # None, request' # None, NEW r \in Needs(purpose.kind),
               r \notin Among(batch.todo)
        PROVE  Told(r, batch.got[r])'
    <2>1. PICK v : v = batch.got[r]
      OBVIOUS
    <2>2. Told(r, v)
      BY <1>1, <2>1, WholeFacts DEF Joint, Reading
    <2>3. Told(r, v)'
      BY <1>1, <2>2, ToldStays DEF World, envVars
    <2> QED BY <2>1, <2>3
  <1> QED BY <1>1, WholeFacts DEF Joint, Reading

LEMMA UserActsStep ==
  ASSUME Whole, UserActs
  PROVE  Whole'
  <1>1. Learns
    BY WholeFacts, StartLearns, UserStopLearns DEF UserActs
  <1>2. Next
    BY DEF UserActs, Next
  <1>3. UNCHANGED envVars /\ call' = call /\ batch' = batch /\ trouble' = trouble
    BY DEF UserActs, driverVars
  <1>4. Reading'
    <2>1. CASE Start
      <3>1. batch = None
        BY <2>1, WholeFacts DEF Start, Joint, Reading
      <3> QED BY <1>3, <3>1 DEF Reading
    <2>2. CASE UserStop
      <3>1. request # None
        BY <2>2, WholeFacts DEF UserStop, IInv, NeverStranded, Active
      <3>2. phase' # "idle" /\ (request' = None \/ UNCHANGED <<request, current, purpose>>)
        BY <2>2 DEF UserStop, Stop, StopWith
      <3> QED BY <1>3, <3>1, <3>2, ReadsGoOn
    <2> QED BY <2>1, <2>2 DEF UserActs
  <1> QED BY <1>1, <1>2, <1>3, <1>4, WholeFacts, EngineStep

LEMMA TicksStep ==
  ASSUME Whole, Ticks
  PROVE  Whole'
  <1>1. Learns /\ Next
    BY WholeFacts, TickLearns DEF Ticks, Next
  <1>2. UNCHANGED envVars /\ call' = call /\ batch' = batch /\ trouble' = trouble
    BY DEF Ticks, driverVars
  <1>3. request # None
    BY WholeFacts DEF Ticks, Tick, IInv, NeverStranded
  <1>4. request'.action = request.action
    BY <1>3, WholeFacts DEF Ticks, Tick, IInv, TypeOK, Nullable, ReadRequest, MutateRequest
  <1>5. phase' # "idle" /\ UNCHANGED <<current, purpose>>
    BY DEF Ticks, Tick, Active
  <1>6. Reading'
    BY <1>2, <1>3, <1>4, <1>5, ReadsGoOn
  <1> QED BY <1>1, <1>2, <1>6, WholeFacts, EngineStep

LEMMA DropReadsStep ==
  ASSUME Whole, DropReads
  PROVE  Whole'
  <1>1. UNCHANGED vars /\ UNCHANGED <<base, pulls, late, live, greens, passed, call, trouble>>
    BY DEF DropReads, envVars
  <1>2. IInv' /\ Kept /\ LandedOwn'
    BY <1>1, WholeFacts, WorldStays, NextInvariant
  <1>3. PutOff' /\ LateOK'
    BY <1>1, <1>2, WholeFacts, PutOffKept DEF vars, LateOK
  <1>4. UNCHANGED <<entries, current, purpose, request>>
    BY <1>1 DEF vars
  <1>5. OwnHeads(entries)' /\ AllThrough(entries)' /\ Asked'
    BY <1>1, <1>4, WholeFacts DEF Joint, OwnHeads, Chain, Made, LastHead, Tip, AllThrough, Through,
         Asked, Grounded, Tested
  <1>6. Reading'
    BY DEF DropReads, Reading
  <1>7. EnvTypeOK'
    BY <1>1, <1>2, <1>3, <1>6, WholeFacts, TypesKept DEF Whole, Kept
  <1> QED BY <1>2, <1>3, <1>5, <1>6, <1>7 DEF Whole, Joint, Kept

\* What people and agents do, and an agent that goes idle.
LEMMA OutsideStep ==
  ASSUME Whole, Disturb \/ AgentIdles
  PROVE  Whole'
  <1>1. Kept /\ NoLanding /\ late' = late
    BY WholeFacts, DisturbKept, IdlesKept
  <1>2. /\ UNCHANGED vars /\ batch' = batch /\ call' = call /\ live' = live
        /\ trouble' \in 0..MaxTrouble
    BY WholeFacts DEF Disturb, AgentIdles, driverVars
  <1>3. LandedOwn'
    BY <1>1, WholeFacts, LandedKept
  <1>4. PutOff' /\ LateOK'
    BY <1>1, <1>2, WholeFacts, PutOffKept DEF vars, LateOK
  <1> QED BY <1>1, <1>2, <1>3, <1>4, WholeFacts, WorldStep

\* CI, and what GitHub put off: a merge among it is of the queue's own head.
LEMMA SmoothStep ==
  ASSUME Whole, Smooth
  PROVE  Whole'
  <1>1. Kept /\ late' \subseteq late /\ (NoLanding \/ \E e \in late : LandsLate(e))
    BY WholeFacts, SmoothKept
  <1>2. /\ UNCHANGED vars /\ batch' = batch /\ call' = call /\ live' = live
        /\ trouble' = trouble
    BY DEF Smooth, driverVars, CheckPasses, CheckRunEnds, BaseRunStarts, BaseRunPasses, LateEffect
  <1>3. LandedOwn'
    <2>1. CASE NoLanding
      BY <1>1, <2>1, WholeFacts, LandedKept
    <2>2. ASSUME NEW e \in late, LandsLate(e)
          PROVE  LandedOwn'
      <3>1. e.pull \in 1..N /\ e.mutation = "merge" /\ LastHead(e.pull) = e.head
        BY <2>2, WholeFacts DEF LandsLate, LateOK
      <3>2. Chain(e.pull, <<e.pull, e.head>>) /\ entries[e.pull].step # "waiting"
        BY <3>1, WholeFacts DEF PutOff
      <3>3. /\ pulls[e.pull].state = "OPEN" /\ Land(e.pull, LastHead(e.pull), TRUE)
            /\ greens' = greens /\ passed' = passed
        BY <2>2, <3>1 DEF LandsLate
      <3> QED BY <3>1, <3>2, <3>3, WholeFacts, LandedNew
    <2> QED BY <1>1, <2>1, <2>2
  <1>4. PutOff' /\ LateOK'
    BY <1>1, <1>2, WholeFacts, PutOffKept DEF vars, LateOK
  <1> QED BY <1>1, <1>2, <1>3, <1>4, WholeFacts, WorldStep

\* The head that a call names is the queue's own.
LEMMA CallFacts ==
  ASSUME Whole, request # None, request.action \in Mutation
  PROVE  LET k == purpose.head[2]
         IN /\ current \in 1..N /\ k \in 1..MaxHeads
            /\ Chain(current, <<current, k>>)
            /\ entries[current].step # "waiting"
            /\ Effect \in [mutation: Mutation, pull: 1..N, head: 1..MaxHeads]
  <1> DEFINE k == purpose.head[2]
  <1>1. purpose.kind \in {"update", "rerun", "merge"} /\ Busy
    BY WholeFacts DEF IInv, Matched, Mutation, Busy
  <1>2. /\ current \in 1..N /\ entries[current].step # "waiting"
        /\ k \in 1..LastHead(current) /\ k \in Nat /\ \A j \in 2..k : Made(current, j)
    BY <1>1, BusyFacts, OwnChain DEF Headless
  <1>3. k \in 1..MaxHeads
    <2>1. LastHead(current) \in 1..MaxHeads /\ LastHead(current) \in Nat /\ MaxHeads \in Nat
      BY <1>2, WholeFacts, PullFacts, EnvironmentAssumption
    <2> HIDE DEF k
    <2> QED BY <1>2, <2>1
  <1>4. Chain(current, <<current, k>>)
    BY <1>2 DEF Chain
  <1>5. Effect \in [mutation: Mutation, pull: 1..N, head: 1..MaxHeads]
    BY <1>2, <1>3 DEF Effect
  <1> QED BY <1>2, <1>3, <1>4, <1>5

\* gh runs: the repository stays, a merge lands, or an effect is put off.
LEMMA GhRunsStep ==
  ASSUME Whole, GhRuns
  PROVE  Whole'
  <1> DEFINE k == purpose.head[2]
  <1>1. /\ request # None /\ request.action \in Mutation
        /\ UNCHANGED <<vars, live, greens, passed, batch>>
    BY DEF GhRuns
  <1>2. /\ current \in 1..N /\ k \in 1..MaxHeads
        /\ Chain(current, <<current, k>>)
        /\ entries[current].step # "waiting"
        /\ Effect \in [mutation: Mutation, pull: 1..N, head: 1..MaxHeads]
    BY <1>1, CallFacts
  <1>3. call' \in Nullable(MutationResult) /\ trouble' \in 0..MaxTrouble
    <2>1. call' \in MutationResult
      BY DEF GhRuns, AnsweredOddly, Refusal, MutationResult
    <2>2. trouble' \in 0..MaxTrouble
      BY WholeFacts DEF GhRuns
    <2> QED BY <2>1, <2>2 DEF Nullable
  <1>4. /\ \/ UNCHANGED <<base, pulls>>
           \/ /\ request.action = "merge" /\ Grants
              /\ Land(current, k, TRUE)
        /\ late' \in {late, late \cup {Effect}}
    BY DEF GhRuns, AnsweredOddly, TakesEffect
  <1>5. Kept /\ LandedOwn'
    <2>1. CASE UNCHANGED <<base, pulls>>
      BY <1>1, <2>1, WorldStays
    <2>2. CASE request.action = "merge" /\ Grants /\ Land(current, k, TRUE)
      <3>1. pulls[current].state = "OPEN" /\ LastHead(current) = k
        BY <2>2 DEF Grants
      <3> HIDE DEF k
      <3> QED BY <1>1, <1>2, <2>2, <3>1, WholeFacts, LandedNew
    <2> QED BY <1>4, <2>1, <2>2
  <1>6. LateOK'
    BY <1>2, <1>4, WholeFacts DEF LateOK
  <1>7. PutOff'
    <2>1. ASSUME NEW e \in late'
          PROVE  Chain(e.pull, <<e.pull, e.head>>) /\ e.pull \in 1..N
                 /\ (e.mutation = "merge" => entries[e.pull].step # "waiting")
      <3>1. CASE e \in late
        BY <3>1, WholeFacts DEF PutOff, LateOK
      <3>2. CASE e = Effect
        BY <1>2, <3>2 DEF Effect
      <3> QED BY <1>4, <3>1, <3>2
    <2>2. ASSUME NEW e \in late'
          PROVE  Chain(e.pull, <<e.pull, e.head>>)'
      <3>1. PICK p, c : p = e.pull /\ c = <<e.pull, e.head>>
        OBVIOUS
      <3>2. Chain(p, c)'
        BY <1>5, <2>1, <3>1, WholeFacts, ChainKept
      <3> QED BY <3>1, <3>2
    <2>3. entries' = entries
      BY <1>1 DEF vars
    <2> QED BY <2>1, <2>2, <2>3 DEF PutOff
  <1> QED BY <1>1, <1>3, <1>5, <1>6, <1>7, WorldStep

-----------------------------------------------------------------------------
(* The first state *)

LEMMA OneLong ==
  ASSUME NEW S, NEW a \in S
  PROVE  <<a>> \in Seq(S) /\ Len(<<a>>) = 1 /\ <<a>>[1] = a
  OBVIOUS

LEMMA FirstBase ==
  ASSUME AllInit
  PROVE  /\ base \in Seq(BaseCommit) /\ Tip = 1 /\ 1 \in 1..MaxBase
         /\ base[1].byQueue = FALSE
  <1>1. PICK first \in {None} \cup {[state |-> s, attempt |-> 1] : s \in RunState} :
          base = <<[pull |-> 0, head |-> 0, byQueue |-> FALSE, run |-> first]>>
    BY DEF AllInit, EnvInit
  <1> DEFINE c == [pull |-> 0, head |-> 0, byQueue |-> FALSE, run |-> first]
  <1>2. first \in Nullable([state: RunState, attempt: 1..2])
    BY DEF Nullable
  <1>3. c \in BaseCommit /\ c.byQueue = FALSE
    BY <1>2, NAssumption, EnvironmentAssumption DEF BaseCommit
  <1>4. base = <<c>>
    BY <1>1
  <1> HIDE DEF c
  <1>5. 1 \in 1..MaxBase
    BY NAssumption, EnvironmentAssumption
  <1> QED BY <1>3, <1>4, <1>5, OneLong DEF Tip

LEMMA FirstPulls ==
  ASSUME AllInit
  PROVE  /\ pulls \in [1..N -> Pull]
         /\ \A p \in 1..N : /\ pulls[p].state = "OPEN" /\ LastHead(p) = 1
                            /\ pulls[p].heads[1].upTo = 1 /\ pulls[p].heads[1].from = 0
         /\ 1 \in 1..MaxHeads
  <1> DEFINE h(c) == [NewHead(FALSE, 0, 1, 0) EXCEPT !.checks = c]
             One(c) == [state |-> "OPEN", flag |-> "none", conflict |-> FALSE, at |-> 0,
                        tree |-> "clean", busy |-> FALSE, heads |-> <<h(c)>>]
  <1>1. 1 \in 1..MaxHeads /\ 1 \in 0..MaxBase /\ 0 \in 0..MaxBase /\ 0 \in 0..MaxHeads
    BY NAssumption, SettingsAssumption, EnvironmentAssumption
  <1>2. ASSUME NEW c \in {"pending", "green"}
        PROVE  /\ One(c) \in Pull /\ One(c).state = "OPEN" /\ Len(One(c).heads) = 1
               /\ One(c).heads[1].upTo = 1 /\ One(c).heads[1].from = 0
    <2>1. h(c) \in PullHead /\ h(c).upTo = 1 /\ h(c).from = 0
      <3>1. /\ NewHead(FALSE, 0, 1, 0) \in PullHead
            /\ NewHead(FALSE, 0, 1, 0).upTo = 1 /\ NewHead(FALSE, 0, 1, 0).from = 0
        BY <1>1 DEF NewHead, PullHead, CheckState
      <3> QED BY <1>2, <3>1 DEF PullHead, CheckState
    <2> HIDE DEF h
    <2>2. <<h(c)>> \in Seq(PullHead) /\ Len(<<h(c)>>) = 1 /\ <<h(c)>>[1] = h(c)
      BY <2>1, OneLong
    <2>3. One(c) \in Pull
      BY <1>1, <2>2 DEF Pull
    <2> QED BY <2>1, <2>2, <2>3
  <1>3. pulls \in [1..N -> {One(c) : c \in {"pending", "green"}}]
    BY DEF AllInit, EnvInit
  <1> HIDE DEF One
  <1> QED BY <1>1, <1>2, <1>3 DEF LastHead

\* The invariant holds before Start is pressed: the confirmed heads are the
\* first heads, and nothing was asked, read, put off or merged.
THEOREM AllInitInvariant == AllInit => Whole
  <1> SUFFICES ASSUME AllInit PROVE Whole
    OBVIOUS
  <1>1. IInv
    BY InitInvariant DEF AllInit
  <1>2. /\ late = {} /\ call = None /\ batch = None /\ trouble = 0 /\ live \in BOOLEAN
        /\ greens = {<<p, 1>> : p \in {q \in 1..N : pulls[q].heads[1].checks = "green"}}
        /\ passed = {} /\ request = None
        /\ \A p \in 1..N : entries[p].step = "waiting" /\ entries[p].heads = {Confirmed[p]}
    BY DEF AllInit, EnvInit, Init
  <1>3. EnvTypeOK
    <2>1. greens \subseteq (1..N) \X (1..MaxHeads)
      BY <1>2, FirstPulls
    <2>2. 0 \in 0..MaxTrouble
      BY EnvironmentAssumption
    <2>3. \A p \in 1..N : LastHead(p) \in 1..MaxHeads
      BY FirstPulls
    <2>4. Tip \in 1..MaxBase /\ base \in Seq(BaseCommit)
      BY FirstBase
    <2> QED BY <1>2, <2>1, <2>2, <2>3, <2>4, FirstPulls DEF EnvTypeOK, Nullable
  <1>4. Recorded
    <2>1. ASSUME NEW p \in 1..N, NEW k \in Nat, k \in 1..LastHead(p)
          PROVE  /\ pulls[p].heads[k].upTo <= Tip
                 /\ pulls[p].heads[k].from = k - 1
                 /\ pulls[p].heads[k].checks = "green" => <<p, k>> \in greens
      <3>1. k = 1
        BY <2>1, FirstPulls
      <3> QED BY <1>2, <3>1, FirstPulls, FirstBase
    <2>2. 2..Tip = {}
      BY FirstBase
    <2> QED BY <2>1, <2>2, FirstPulls DEF Recorded
  <1>5. OwnHeads(entries)
    <2>1. ASSUME NEW p \in 1..N, NEW c \in entries[p].heads
          PROVE  Chain(p, c)
      <3>1. c = <<p, 1>> /\ 1 \in 1..LastHead(p) /\ 2..1 = {}
        <4>1. c = <<p, 1>>
          BY <1>2, EnvironmentAssumption
        <4>2. LastHead(p) = 1
          BY FirstPulls
        <4> QED BY <4>1, <4>2
      <3> QED BY <3>1 DEF Chain
    <2> QED BY <2>1 DEF OwnHeads
  <1>6. AllThrough(entries) /\ Asked /\ Reading /\ PutOff
    BY <1>2 DEF AllThrough, Through, Asked, Reading, PutOff
  <1>7. LandedOwn
    <2>1. ASSUME NEW i \in Nat, i \in 1..Tip
          PROVE  ~base[i].byQueue
      <3>1. i = 1
        BY <2>1, FirstBase
      <3> QED BY <3>1, FirstBase
    <2> QED BY <2>1 DEF LandedOwn
  <1> QED BY <1>1, <1>3, <1>4, <1>5, <1>6, <1>7 DEF Whole, Joint

\* Every step of the engine, its driver, gh, GitHub and the people around it
\* keeps it.
THEOREM AllNextInvariant == Whole /\ [AllNext]_allVars => Whole'
  <1> SUFFICES ASSUME Whole, [AllNext]_allVars PROVE Whole'
    OBVIOUS
  <1>1. CASE Driver
    BY <1>1, FetchStep, FinishStep, GhRunsStep, GhAnswersStep DEF Driver
  <1>2. CASE FetchFails \/ DropReads
    BY <1>2, FetchFailsStep, DropReadsStep
  <1>3. CASE UserActs \/ Ticks
    BY <1>3, UserActsStep, TicksStep
  <1>4. CASE Smooth \/ Disturb \/ AgentIdles
    BY <1>4, SmoothStep, OutsideStep
  <1>5. CASE UNCHANGED allVars
    <2>1. /\ UNCHANGED vars /\ UNCHANGED <<base, pulls, late, live, greens, passed, call, batch, trouble>>
      BY <1>5 DEF allVars, envVars, driverVars
    <2>2. Kept /\ LandedOwn'
      BY <2>1, WorldStays
    <2>3. PutOff' /\ LateOK'
      BY <2>1, <2>2, WholeFacts, PutOffKept DEF vars, LateOK
    <2> QED BY <2>1, <2>2, <2>3, WholeFacts, WorldStep
  <1> QED BY <1>1, <1>2, <1>3, <1>4, <1>5 DEF AllNext

\* Whatever the interleaving of reads, calls, pushes, merges and late effects,
\* the whole invariant holds, for any number of pull requests.
THEOREM AllInvariant == AllSpec => []Whole
  BY AllInitInvariant, AllNextInvariant, PTL DEF AllSpec

\* The engine, its driver and the repository keep their types: the answers the
\* driver hands to the engine are ones that it is shown to handle.
THEOREM AllTypeCorrect == AllSpec => []AllTypeOK
  <1>1. Whole => AllTypeOK
    BY DEF Whole, IInv, AllTypeOK
  <1> QED BY <1>1, AllInvariant, PTL

\* A pull request that goes on past its merge (merged(_:index:now:)) was
\* merged at a head whose required checks were green, on the very base commit
\* that head holds, and it is done only once the post-merge workflow of its
\* merge commit succeeded.
THEOREM OnlyTestedIsDone == AllSpec => []DoneWasTested
  <1>1. ASSUME Whole
        PROVE  DoneWasTested
    <2>1. ASSUME NEW p \in 1..N, entries[p].step \in {"waitingForPostMerge", "done"}
          PROVE  LET m == pulls[p].at
                     k == base[m].head
                 IN /\ entries[p].mergeCommit = <<0, m>>
                    /\ base[m].pull = p
                    /\ pulls[p].heads[k].upTo = m - 1
                    /\ <<p, k>> \in greens
                    /\ HasWorkflow /\ entries[p].step = "done" => m \in passed
      <3>1. Through(p, entries[p]) /\ Recorded
        BY <1>1 DEF Whole, Joint, AllThrough
      <3> QED BY <2>1, <3>1 DEF Through, Recorded
    <2> QED BY <2>1 DEF DoneWasTested
  <1> QED BY <1>1, AllInvariant, PTL

\* What the queue merges has nothing over the confirmed head but GitHub's
\* merges of base commits, even by a merge that GitHub put off and that shows
\* while the queue is elsewhere.
THEOREM OnlyConfirmedLands == AllSpec => []QueueLandsConfirmed
  <1>1. ASSUME Whole
        PROVE  QueueLandsConfirmed
    <2>1. ASSUME NEW i \in 1..Tip, base[i].byQueue, NEW k \in 2..base[i].head
          PROVE  LET head == pulls[base[i].pull].heads[k]
                 IN head.webFlow /\ head.merged # 0 /\ head.from = k - 1
      <3>1. i \in Nat
        BY WholeFacts, <1>1 DEF RepositoryOK
      <3>2. Chain(base[i].pull, <<base[i].pull, base[i].head>>)
        BY <1>1, <2>1, <3>1 DEF Whole, Joint, LandedOwn
      <3>3. PICK h \in 1..LastHead(base[i].pull) :
              /\ <<base[i].pull, base[i].head>> = <<base[i].pull, h>>
              /\ \A j \in 2..h : Made(base[i].pull, j)
        BY <3>2 DEF Chain
      <3>4. base[i].head = h
        BY <3>3, SamePair
      <3> QED BY <2>1, <3>3, <3>4 DEF Made
    <2> QED BY <2>1 DEF QueueLandsConfirmed
  <1> QED BY <1>1, AllInvariant, PTL

\* The queue never merges before the post-merge workflow of its own previous
\* merge succeeded, not even by a merge that GitHub put off.
THEOREM NightlyGoesFirst == AllSpec => []NightlyFirst
  <1>1. ASSUME Whole
        PROVE  NightlyFirst
    <2>1. ASSUME NEW i \in 1..Tip, NEW j \in 1..Tip, i < j, base[i].byQueue, base[j].byQueue,
                 HasWorkflow
          PROVE  i \in passed
      <3>1. i \in Nat /\ j \in Nat
        BY WholeFacts, <1>1 DEF RepositoryOK
      <3> DEFINE p == base[i].pull
                 q == base[j].pull
      <3>2. /\ p \in 1..N /\ q \in 1..N /\ pulls[p].at = i /\ pulls[q].at = j
            /\ q < p => pulls[q].at < i
            /\ p < q => pulls[p].at \in passed
        BY <1>1, <2>1, <3>1 DEF Whole, Joint, LandedOwn
      <3>3. p < q
        <4> HIDE DEF p, q
        <4> QED BY <2>1, <3>1, <3>2, NAssumption
      <3> QED BY <3>2, <3>3
    <2> QED BY <2>1 DEF NightlyFirst
  <1> QED BY <1>1, AllInvariant, PTL

\* Every step of the whole is a step of the engine alone, or leaves it be: the
\* driver answers as Next allows.
LEMMA EngineAllows ==
  ASSUME Whole, [AllNext]_allVars
  PROVE  [Next]_vars
  <1>1. CASE FinishReads
    BY <1>1, WholeFacts, FinishLearns DEF Next
  <1>2. CASE FetchFails
    BY <1>2 DEF FetchFails, Next, ReadAnswered
  <1>3. CASE GhAnswers
    <2>1. call \in MutationResult
      BY <1>3, WholeFacts DEF GhAnswers, Nullable
    <2> QED BY <1>3, <2>1 DEF GhAnswers, Next
  <1>4. CASE UserActs \/ Ticks
    BY <1>4 DEF UserActs, Ticks, Next
  <1>5. CASE Fetch \/ GhRuns \/ DropReads \/ Smooth \/ Disturb \/ AgentIdles
    <2>1. UNCHANGED vars
      BY <1>5 DEF Fetch, GhRuns, DropReads, Smooth, Disturb, AgentIdles
    <2> QED BY <2>1
  <1>6. CASE UNCHANGED allVars
    BY <1>6 DEF allVars
  <1> QED BY <1>1, <1>2, <1>3, <1>4, <1>5, <1>6 DEF AllNext, Driver

\* The engine with its driver and the repository is the engine: what is proved
\* of it for any answers holds for the answers that GitHub gives.
THEOREM DriverImplementsEngine == AllSpec => Spec
  <1>1. AllInit => Init
    BY DEF AllInit
  <1> QED BY <1>1, EngineAllows, AllInvariant, PTL DEF AllSpec, Spec

\* So the whole keeps what the controller relies on, and never leaves a queue
\* without an answer to wait for.
COROLLARY DriverKeepsPromise == AllSpec => ImplementsRun /\ []NeverStranded /\ StopEndsSending
  BY DriverImplementsEngine, EngineRuns, AlwaysAwaken, StopIsFinal

=============================================================================
