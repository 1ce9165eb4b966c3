------------------------ MODULE ExplainQueue_proofs ------------------------
(***************************************************************************)
(* Proofs about ExplainQueue, for any columns, worktrees and runs: one run *)
(* at a time, in the order they came, none while its worktree's review     *)
(* file is deleted, and every column shows where its own run is.           *)
(***************************************************************************)
EXTENDS ExplainQueue, SequenceTheorems, TLAPS

\* Runs that were submitted.
Known == 1..Len(owner)

\* The line and the run under way hold different runs, all submitted.
Line == waiting \subseteq Known /\ running \in Known \cup {0} /\ running \notin waiting

\* A deletion is under way only while its worktree has no run: what StoppedForGood
\* and HoldsCounted leave out is that the run ended.
Alone == \A w \in Worktree : job[w] = "cleans" => ~UnderWay(w)

\* The panel stopped each of its rows' worktrees, and its row's clean-up is
\* confirmed.
PanelHolds ==
    /\ row \subseteq held
    /\ \A w \in row : job[w] \in {"waits", "cleans"}
    /\ rows \in Seq(held)

IInv ==
    /\ TypeOK /\ Line /\ OneRun /\ StoppedForGood /\ HoldsCounted
    /\ Alone /\ ThenIsDue /\ PanelHolds

-----------------------------------------------------------------------------
(* What a column keeps is well typed *)

LEMMA ColumnExcept ==
  ASSUME NEW k \in ColumnState, NEW b \in BOOLEAN, NEW d \in BOOLEAN, NEW e \in BOOLEAN,
         NEW n \in Run \cup {0}, NEW m \in Run \cup {0}, NEW bar \in Bar
  PROVE  /\ [k EXCEPT !.active = n, !.ticket = m, !.bar = bar] \in ColumnState
         /\ [k EXCEPT !.bar = bar] \in ColumnState
         /\ [k EXCEPT !.bar = bar, !.asking = b] \in ColumnState
         /\ [k EXCEPT !.open = b] \in ColumnState
         /\ [k EXCEPT !.asking = b] \in ColumnState
         /\ [k EXCEPT !.checking = b, !.after = d] \in ColumnState
         /\ [k EXCEPT !.checking = b, !.bar = bar] \in ColumnState
         /\ [k EXCEPT !.after = b, !.checking = d, !.bar = bar] \in ColumnState
         /\ [k EXCEPT !.after = b, !.cancelled = d, !.bar = bar] \in ColumnState
         /\ [k EXCEPT !.asking = b, !.cancelled = d, !.active = n, !.ticket = m, !.bar = bar]
              \in ColumnState
  BY DEF ColumnState

LEMMA ColumnFields ==
  ASSUME NEW k \in ColumnState
  PROVE  /\ k.open \in BOOLEAN /\ k.checking \in BOOLEAN /\ k.after \in BOOLEAN
         /\ k.asking \in BOOLEAN /\ k.cancelled \in BOOLEAN
         /\ k.active \in Run \cup {0} /\ k.ticket \in Run \cup {0} /\ k.bar \in Bar
  BY DEF ColumnState

LEMMA ColumnUpdated ==
  ASSUME NEW columns \in [Column -> ColumnState], NEW c \in Column, NEW k \in ColumnState
  PROVE  [columns EXCEPT ![c] = k] \in [Column -> ColumnState]
  OBVIOUS

LEMMA EndedTyped ==
  ASSUME NEW columns \in [Column -> ColumnState], NEW gone
  PROVE  Ended(columns, gone) \in [Column -> ColumnState]
  <1>1. ASSUME NEW c \in Column
        PROVE  [columns[c] EXCEPT !.active = 0, !.ticket = 0, !.bar = "ready"] \in ColumnState
    <2>1. columns[c] \in ColumnState /\ 0 \in Run \cup {0} /\ "ready" \in Bar
      BY DEF Bar
    <2> QED BY <2>1, ColumnExcept
  <1> QED BY <1>1 DEF Ended

LEMMA StartedTyped ==
  ASSUME NEW columns \in [Column -> ColumnState], NEW n
  PROVE  Started(columns, n) \in [Column -> ColumnState]
  <1>1. ASSUME NEW c \in Column
        PROVE  [columns[c] EXCEPT !.bar = IF columns[c].cancelled THEN "stopping" ELSE "running"]
                 \in ColumnState
    <2>1. columns[c] \in ColumnState
      OBVIOUS
    <2>2. "stopping" \in Bar /\ "running" \in Bar
      BY DEF Bar
    <2>3. CASE columns[c].cancelled
      BY <2>1, <2>2, <2>3, ColumnExcept
    <2>4. CASE ~columns[c].cancelled
      BY <2>1, <2>2, <2>4, ColumnExcept
    <2> QED BY <2>3, <2>4
  <1> QED BY <1>1 DEF Started

-----------------------------------------------------------------------------
(* What the queue's helpers do *)

\* A stop's count is the only one its resume takes back.
LEMMA ResumedCount ==
  ASSUME NEW n \in Nat
  PROVE  /\ Resumed(n) \in Nat
         /\ n > 0 => Resumed(n) = n - 1
         /\ n = 0 => Resumed(n) = 0
  BY DEF Resumed

\* startNext takes the first of the line, whose work begins; those left came
\* after it.
LEMMA StartsFirst ==
  ASSUME NEW line \in SUBSET Nat, 0 \notin line, StartNext(line)
  PROVE  /\ running' \in line \cup {0}
         /\ waiting' = line \ {running'}
         /\ working' = working \cup ({running'} \ {0})
         /\ running' # 0 => \A n \in waiting' : running' < n
  BY DEF StartNext, First

-----------------------------------------------------------------------------
(* Every action keeps the inductive invariant *)

\* What changes only a column's state keeps all but its type.
LEMMA ColumnOnly ==
  ASSUME IInv, UNCHANGED <<queue, stopped, job, panel, quit>>,
         column' \in [Column -> ColumnState]
  PROVE  IInv'
  BY DEF IInv, TypeOK, Known, Line, OneRun, StoppedForGood, HoldsCounted, Alone, ThenIsDue,
         PanelHolds, UnderWay, TreeOf, queue, panel

LEMMA AsksKeep ==
  ASSUME IInv, NEW c \in Column,
         \/ CheckExplain(c) \/ Explain(c) \/ Declined(c) \/ Refused(c) \/ Reopen(c)
         \/ \E ready \in BOOLEAN : Checked(c, ready)
  PROVE  IInv'
  <1>1. column \in [Column -> ColumnState] /\ column[c] \in ColumnState
    BY DEF IInv, TypeOK
  <1>2. /\ TRUE \in BOOLEAN /\ FALSE \in BOOLEAN /\ 0 \in Run \cup {0}
        /\ "checking" \in Bar /\ "ready" \in Bar
    BY DEF Bar
  <1>3. /\ UNCHANGED <<queue, stopped, job, panel, quit>>
        /\ \E k \in ColumnState : column' = [column EXCEPT ![c] = k]
    <2>1. CASE CheckExplain(c)
      BY <1>1, <1>2, <2>1, ColumnExcept DEF CheckExplain
    <2>2. CASE Explain(c)
      BY <1>1, <1>2, <2>2, ColumnExcept DEF Explain
    <2>3. CASE Declined(c)
      BY <1>1, <1>2, <2>3, ColumnExcept DEF Declined
    <2>4. CASE Refused(c)
      BY <1>1, <1>2, <2>4, ColumnExcept DEF Refused
    <2>5. CASE Reopen(c)
      BY <1>1, <1>2, <2>5, ColumnExcept DEF Reopen
    <2>6. ASSUME NEW ready \in BOOLEAN, Checked(c, ready) PROVE <1>3!1 /\ <1>3!2
      <3> DEFINE k == [column[c] EXCEPT !.checking = FALSE, !.after = FALSE]
                 ask == k.asking \/ (ready /\ column[c].after)
      <3>1. k \in ColumnState
        BY <1>1 DEF ColumnState
      <3>2. ask \in BOOLEAN
        BY <3>1, <1>1, ColumnFields
      <3>3. [k EXCEPT !.bar = "ready", !.asking = ask] \in ColumnState
        <4> HIDE DEF k, ask
        <4> QED BY <3>1, <3>2, <1>2, ColumnExcept
      <3>4. column' = [column EXCEPT ![c] = IF k.active # 0 THEN k
                         ELSE [k EXCEPT !.bar = "ready", !.asking = ask]]
        BY <2>6 DEF Checked
      <3>5. UNCHANGED <<queue, stopped, job, panel, quit>>
        BY <2>6 DEF Checked
      <3> HIDE DEF k, ask
      <3> QED BY <3>1, <3>3, <3>4, <3>5
    <2> QED BY <2>1, <2>2, <2>3, <2>4, <2>5, <2>6
  <1>4. column' \in [Column -> ColumnState]
    BY <1>1, <1>3, ColumnUpdated
  <1> QED BY <1>3, <1>4, ColumnOnly

\* Every run in the queue has a worktree.
LEMMA TreesKnown ==
  ASSUME IInv
  PROVE  /\ \A n \in waiting : TreeOf(n) \in Worktree
         /\ running # 0 => TreeOf(running) \in Worktree
  BY OfAssumption DEF IInv, TypeOK, Line, Known, TreeOf

\* A run joins the line behind all others, of a worktree nothing stops.
LEMMA SubmittedKeeps ==
  ASSUME IInv, NEW c \in Column, Submitted(c)
  PROVE  IInv'
  <1> DEFINE n == Len(owner) + 1
             k == [column[c] EXCEPT !.asking = FALSE, !.cancelled = FALSE,
                        !.active = n, !.ticket = n, !.bar = "queued"]
             line == waiting \cup {n}
  <1>1. /\ n \in Run /\ n \notin waiting /\ owner \in Seq(Column)
        /\ owner' = Append(owner, c) /\ Len(owner') = n /\ owner'[n] = c
        /\ owner' \in Seq(Column)
        /\ \A m \in Known : owner'[m] = owner[m]
    BY MaxRunsAssumption DEF IInv, TypeOK, Line, Known, Run, Submitted
  <1>2. /\ waiting' \cup ({running'} \ {0}) = waiting \cup {n} \cup ({running} \ {0})
        /\ working' = working \cup ({running'} \ {running})
        /\ running' \in line \cup {running} /\ running' \notin waiting'
        /\ running # 0 => running' = running
        /\ column' \in [Column -> ColumnState]
    <2>1. column \in [Column -> ColumnState] /\ column[c] \in ColumnState
      BY DEF IInv, TypeOK
    <2>2. k \in ColumnState
      <3>1. FALSE \in BOOLEAN /\ n \in Run \cup {0} /\ "queued" \in Bar
        BY <1>1 DEF Bar
      <3> HIDE DEF n
      <3> QED BY <2>1, <3>1, ColumnExcept
    <2>3. [column EXCEPT ![c] = k] \in [Column -> ColumnState]
      <3> HIDE DEF k
      <3> QED BY <2>1, <2>2
    <2>4. CASE running = 0
      <3>1. StartNext(line) /\ column' = Started([column EXCEPT ![c] = k], running')
        BY <1>1, <2>4 DEF Submitted
      <3>2. line \in SUBSET Nat /\ 0 \notin line
        <4>1. waiting \subseteq Run /\ n \in Run
          BY <1>1 DEF IInv, TypeOK
        <4>2. Run \subseteq Nat /\ 0 \notin Run
          BY MaxRunsAssumption DEF Run
        <4> HIDE DEF n
        <4> QED BY <4>1, <4>2
      <3>3. column' \in [Column -> ColumnState]
        <4> HIDE DEF k
        <4> QED BY <2>3, <3>1, StartedTyped
      <3>4. running' \in line \cup {0} /\ waiting' = line \ {running'}
            /\ working' = working \cup ({running'} \ {0})
        <4> HIDE DEF line
        <4> QED BY <3>1, <3>2, StartsFirst
      <3>5. running' \in line
        BY <3>1 DEF StartNext, First
      <3> QED BY <2>4, <3>3, <3>4, <3>5, <3>2
    <2>5. CASE running # 0
      <3>1. /\ waiting' = line /\ running' = running /\ working' = working
            /\ column' = [column EXCEPT ![c] = k]
        BY <1>1, <2>5 DEF Submitted
      <3>2. running \notin line
        BY <1>1, <2>5, MaxRunsAssumption DEF IInv, TypeOK, Line, Known, Run
      <3> QED BY <2>3, <3>1, <3>2, <2>5
    <2> QED BY <2>4, <2>5
  <1>3. /\ UNCHANGED <<returned, cancelled, stopped, job, rows, row, held, quit>>
        /\ stopped[Of[c]] = 0
    BY OfAssumption DEF Submitted, Refuses, panel, IInv, TypeOK
  <1> HIDE DEF n, k, line
  <1>4. /\ TypeOK' /\ Line' /\ OneRun'
    <2>1. waiting' \subseteq Run /\ running' \in Run \cup {0} /\ working' \subseteq Run
      BY <1>1, <1>2 DEF IInv, TypeOK, line
    <2>2. TypeOK'
      BY <1>1, <1>2, <1>3, <2>1, MaxRunsAssumption DEF IInv, TypeOK, Run
    <2>3. Known' = Known \cup {n}
      BY <1>1 DEF Known, n
    <2>4. Line'
      BY <1>2, <2>3 DEF IInv, Line, line
    <2>5. OneRun'
      BY <1>1, <1>2, <1>3 DEF IInv, OneRun, Line, line, TypeOK
    <2> QED BY <2>2, <2>4, <2>5
  <1>5. /\ \A m \in waiting : Of[owner'[m]] = TreeOf(m)
        /\ running # 0 => Of[owner'[running]] = TreeOf(running)
        /\ Of[owner'[n]] = Of[c]
    <2>1. waiting \subseteq Known /\ (running # 0 => running \in Known)
      BY DEF IInv, Line
    <2> QED BY <1>1, <2>1 DEF TreeOf
  <1>6. StoppedForGood'
    <2>1. \A m \in line \cup ({running} \ {0}) :
            stopped[Of[owner'[m]]] > 0 => m = running /\ running \in cancelled
      <3>1. \A m \in waiting : ~(stopped[TreeOf(m)] > 0)
        BY TreesKnown DEF IInv, StoppedForGood
      <3>2. running # 0 /\ stopped[TreeOf(running)] > 0 => running \in cancelled
        BY TreesKnown DEF IInv, StoppedForGood, UnderWay
      <3> QED BY <1>3, <1>5, <3>1, <3>2 DEF line
    <2>2. waiting' \subseteq line /\ running \notin waiting'
      BY <1>2, <1>1 DEF line, IInv, Line
    <2> QED BY <1>2, <1>3, <2>1, <2>2 DEF StoppedForGood, UnderWay, TreeOf
  <1>7. HoldsCounted' /\ PanelHolds'
    BY <1>3 DEF IInv, HoldsCounted, PanelHolds
  <1>8. Alone'
    <2> SUFFICES ASSUME NEW w \in Worktree, job[w] = "cleans", running' # 0,
                        Of[owner'[running']] = w
                 PROVE  FALSE
      BY <1>3 DEF Alone, UnderWay, TreeOf
    <2>1. stopped[w] > 0
      BY DEF IInv, HoldsCounted
    <2>2. running' # running
      BY <1>5 DEF IInv, Alone, UnderWay
    <2>3. running' \in waiting \/ running' = n
      BY <1>2, <2>2 DEF line
    <2> QED BY <1>3, <1>5, <2>1, <2>3 DEF IInv, StoppedForGood
  <1>9. ThenIsDue'
    BY <1>2, <1>3, <1>5 DEF IInv, ThenIsDue, UnderWay, TreeOf
  <1> QED BY <1>4, <1>6, <1>7, <1>8, <1>9 DEF IInv

\* A run waiting leaves the line, one under way is told to stop; which worktree
\* is stopped, and what runs, stays.
LEMMA FewerWait ==
  ASSUME IInv, waiting' \subseteq waiting, cancelled \subseteq cancelled',
         cancelled' \subseteq cancelled \cup ({running} \ {0}),
         UNCHANGED <<running, working, returned, owner, stopped, job, rows, row, held>>,
         quit' \in BOOLEAN, column' \in [Column -> ColumnState]
  PROVE  IInv'
  <1>1. TypeOK'
    BY DEF IInv, TypeOK
  <1>2. Line' /\ OneRun' /\ HoldsCounted' /\ Alone' /\ ThenIsDue' /\ PanelHolds'
    BY DEF IInv, Line, Known, OneRun, HoldsCounted, Alone, ThenIsDue, PanelHolds, UnderWay, TreeOf
  <1>3. StoppedForGood'
    BY DEF IInv, StoppedForGood, UnderWay, TreeOf
  <1> QED BY <1>1, <1>2, <1>3 DEF IInv

LEMMA CancelKeeps ==
  ASSUME IInv, NEW c \in Column, NEW k \in ColumnState, CancelExplain(c, k)
  PROVE  IInv'
  <1> DEFINE d == k.cancelled \/ k.ticket # 0
             bar == IF k.ticket # 0 /\ k.bar = "running" THEN "stopping" ELSE k.bar
             told == [k EXCEPT !.after = FALSE, !.cancelled = d, !.bar = bar]
  <1>1. told \in ColumnState
    <2>1. d \in BOOLEAN /\ bar \in Bar /\ FALSE \in BOOLEAN
      BY ColumnFields DEF Bar
    <2> HIDE DEF d, bar
    <2> QED BY <2>1, ColumnExcept
  <1>2. column' = Ended([column EXCEPT ![c] = told], {k.ticket} \cap waiting)
    BY DEF CancelExplain
  <1>3. column' \in [Column -> ColumnState]
    <2>1. column \in [Column -> ColumnState]
      BY DEF IInv, TypeOK
    <2> HIDE DEF told
    <2> QED BY <1>1, <1>2, <2>1, ColumnUpdated, EndedTyped
  <1>4. /\ waiting' \subseteq waiting /\ cancelled \subseteq cancelled'
        /\ cancelled' \subseteq cancelled \cup ({running} \ {0})
        /\ UNCHANGED <<running, working, returned, owner, stopped, job, rows, row, held>>
        /\ quit' \in BOOLEAN
    BY DEF CancelExplain, panel, IInv, TypeOK
  <1> QED BY <1>3, <1>4, FewerWait

LEMMA LeavesKeep ==
  ASSUME IInv, NEW c \in Column, Cancel(c) \/ Close(c)
  PROVE  IInv'
  <1>1. /\ column[c] \in ColumnState /\ FALSE \in BOOLEAN
        /\ 0 \in Run \cup {0} /\ "ready" \in Bar
    BY DEF IInv, TypeOK, Bar
  <1>2. [column[c] EXCEPT !.open = FALSE] \in ColumnState
    BY <1>1, ColumnExcept
  <1> QED BY <1>1, <1>2, CancelKeeps DEF Cancel, Close

LEMMA QuitKeeps ==
  ASSUME IInv, Quit
  PROVE  IInv'
  <1>1. column' \in [Column -> ColumnState]
    BY EndedTyped DEF Quit, IInv, TypeOK
  <1>2. /\ waiting' \subseteq waiting /\ cancelled \subseteq cancelled'
        /\ cancelled' \subseteq cancelled \cup ({running} \ {0})
        /\ UNCHANGED <<running, working, returned, owner, stopped, job, rows, row, held>>
        /\ quit' \in BOOLEAN
    BY DEF Quit, panel
  <1> QED BY <1>1, <1>2, FewerWait

\* The work ends off the main thread: the queue's run is still under way.
LEMMA WorkReturnsKeeps ==
  ASSUME IInv, NEW n \in Run, WorkReturns(n)
  PROVE  IInv'
  BY DEF IInv, TypeOK, Known, Line, OneRun, StoppedForGood, HoldsCounted, Alone, ThenIsDue,
         PanelHolds, UnderWay, TreeOf, panel, WorkReturns

\* What waited on the run goes on, and the next run is of no worktree that is
\* stopped.
LEMMA RunEndsKeeps ==
  ASSUME IInv, NEW n \in Run, RunEnds(n)
  PROVE  IInv'
  <1>1. waiting \in SUBSET Nat /\ 0 \notin waiting /\ n # 0
    BY MaxRunsAssumption DEF IInv, TypeOK, Run
  <1>2. /\ running' \in waiting \cup {0} /\ waiting' = waiting \ {running'}
        /\ working' = working \cup ({running'} \ {0})
    BY <1>1, StartsFirst DEF RunEnds
  <1>3. n = running /\ working = {} /\ returned = {n} /\ returned' = {}
    BY <1>1 DEF RunEnds, IInv, OneRun
  <1>4. /\ UNCHANGED <<owner, stopped, rows, row, held, quit>>
        /\ cancelled' \subseteq cancelled
        /\ \A w \in Worktree : job'[w] = IF job[w] = "waits" THEN "cleans" ELSE job[w]
        /\ job' \in [Worktree -> Job]
    BY DEF RunEnds, panel, AfterRun, IInv, TypeOK, Job
  <1>5. column' \in [Column -> ColumnState]
    BY EndedTyped, StartedTyped DEF RunEnds, IInv, TypeOK
  <1>6. TypeOK' /\ Line' /\ OneRun'
    BY <1>2, <1>3, <1>4, <1>5 DEF IInv, TypeOK, Line, Known, OneRun
  <1>7. \A m \in waiting : ~(stopped[TreeOf(m)] > 0)
    BY TreesKnown DEF IInv, StoppedForGood
  <1>8. StoppedForGood'
    BY <1>2, <1>4, <1>7 DEF StoppedForGood, UnderWay, TreeOf
  <1>9. HoldsCounted'
    BY <1>4 DEF IInv, HoldsCounted, TypeOK, Job
  <1>10. Alone'
    <2> SUFFICES ASSUME NEW w \in Worktree, job'[w] = "cleans", running' # 0,
                        Of[owner[running']] = w
                 PROVE  FALSE
      BY <1>4 DEF Alone, UnderWay, TreeOf
    <2>1. job[w] \in {"waits", "cleans"}
      BY <1>4
    <2>2. stopped[w] > 0
      BY <2>1 DEF IInv, HoldsCounted
    <2> QED BY <1>2, <1>7, <2>2 DEF TreeOf
  <1>11. ThenIsDue'
    BY <1>4 DEF ThenIsDue
  <1>12. PanelHolds'
    BY <1>4 DEF IInv, PanelHolds, TypeOK
  <1> QED BY <1>6, <1>8, <1>9, <1>10, <1>11, <1>12 DEF IInv

\* A clean-up that is asked for, or isn't confirmed, stops nothing.
LEMMA AskedKeeps ==
  ASSUME IInv, NEW w \in Worktree, RequestCleanup(w) \/ CleanupDeclined(w)
  PROVE  IInv'
  <1>1. /\ UNCHANGED <<queue, stopped, column, rows, row, held, quit>>
        /\ \E j \in {"none", "asked"} : job' = [job EXCEPT ![w] = j]
        /\ job[w] \in {"none", "asked"}
    BY DEF RequestCleanup, CleanupDeclined, panel
  <1>2. /\ job' \in [Worktree -> Job]
        /\ \A v \in Worktree : job'[v] = job[v]
              \/ (job[v] \in {"none", "asked"} /\ job'[v] \in {"none", "asked"})
    <2>1. job \in [Worktree -> Job]
      BY DEF IInv, TypeOK
    <2>2. PICK j \in {"none", "asked"} : job' = [job EXCEPT ![w] = j]
      BY <1>1
    <2>3. j \in Job
      BY DEF Job
    <2>4. job' \in [Worktree -> Job]
      BY <2>1, <2>2, <2>3
    <2>5. job'[w] = j /\ \A v \in Worktree \ {w} : job'[v] = job[v]
      BY <2>1, <2>2
    <2>6. job[w] \in {"none", "asked"} /\ job'[w] \in {"none", "asked"}
      BY <1>1, <2>5
    <2> QED BY <2>4, <2>5, <2>6
  <1>3. TypeOK' /\ Line' /\ OneRun' /\ StoppedForGood'
    BY <1>1, <1>2 DEF IInv, TypeOK, Line, Known, OneRun, StoppedForGood, UnderWay, TreeOf, queue
  <1>4. HoldsCounted' /\ PanelHolds'
    BY <1>1, <1>2 DEF IInv, TypeOK, HoldsCounted, PanelHolds
  <1>5. Alone' /\ ThenIsDue'
    BY <1>1, <1>2 DEF IInv, Alone, ThenIsDue, UnderWay, TreeOf, queue
  <1> QED BY <1>3, <1>4, <1>5 DEF IInv

\* What a stop of some worktrees leaves in the queue.
LEMMA StopsRuns ==
  ASSUME IInv, NEW trees \in SUBSET Worktree, StopRuns(trees)
  PROVE  /\ waiting' \subseteq waiting /\ cancelled' \subseteq Run
         /\ UNCHANGED <<running, working, returned, owner>>
         /\ column' \in [Column -> ColumnState]
         /\ \A w \in Worktree : w \in trees \/ stopped[w] > 0 =>
              /\ \A n \in waiting' : TreeOf(n) # w
              /\ UnderWay(w) => running \in cancelled'
  <1>1. column' \in [Column -> ColumnState]
    BY EndedTyped DEF StopRuns, IInv, TypeOK
  <1>2. waiting' \subseteq waiting /\ cancelled \subseteq cancelled' /\ cancelled' \subseteq Run
    BY DEF StopRuns, IInv, TypeOK
  <1>3. ASSUME NEW w \in trees
        PROVE  /\ \A n \in waiting' : TreeOf(n) # w
               /\ UnderWay(w) => running \in cancelled'
    BY DEF StopRuns, Dropped, UnderWay
  <1>4. ASSUME NEW w \in Worktree, stopped[w] > 0
        PROVE  /\ \A n \in waiting' : TreeOf(n) # w
               /\ UnderWay(w) => running \in cancelled'
    BY <1>2, <1>4 DEF IInv, StoppedForGood
  <1> QED BY <1>1, <1>2, <1>3, <1>4 DEF StopRuns

\* A step that confirms clean-ups, ends them, and counts their stops: what is
\* left to show once it left the queue's runs alone, or stopped some.
LEMMA CleanupsKeep ==
  ASSUME IInv, waiting' \subseteq waiting, cancelled' \subseteq Run,
         UNCHANGED <<running, working, returned, owner, quit>>,
         column' \in [Column -> ColumnState],
         stopped' \in [Worktree -> Nat], job' \in [Worktree -> Job],
         rows' \in Seq(held'), row' \subseteq held', held' \subseteq Worktree,
         \A w \in row' : job'[w] \in {"waits", "cleans"},
         \A w \in Worktree : stopped'[w] > 0 =>
              /\ \A n \in waiting' : TreeOf(n) # w
              /\ UnderWay(w) => running \in cancelled',
         \A w \in Worktree : job'[w] # job[w] => job'[w] = "none" \/ job'[w] = Then(w),
         HoldsCounted'
  PROVE  IInv'
  <1>1. TypeOK' /\ Line' /\ OneRun' /\ PanelHolds'
    <2>1. rows' \in Seq(Worktree)
      BY SeqMonotonic
    <2> QED BY <2>1 DEF IInv, TypeOK, Line, Known, OneRun, PanelHolds
  <1>2. StoppedForGood'
    BY DEF StoppedForGood, UnderWay, TreeOf
  <1>3. Alone' /\ ThenIsDue'
    BY DEF IInv, Alone, ThenIsDue, Then, UnderWay, TreeOf
  <1> QED BY <1>1, <1>2, <1>3 DEF IInv

LEMMA ConfirmedKeeps ==
  ASSUME IInv, NEW w \in Worktree, CleanupConfirmed(w)
  PROVE  IInv'
  <1>1. Then(w) \in {"waits", "cleans"}
    BY DEF Then
  <1>2. /\ stopped' = [stopped EXCEPT ![w] = @ + 1] /\ job' = [job EXCEPT ![w] = Then(w)]
        /\ job[w] = "asked" /\ StopRuns({w}) /\ UNCHANGED <<rows, row, held, quit>>
    BY DEF CleanupConfirmed, panel
  <1>3. stopped' \in [Worktree -> Nat] /\ job' \in [Worktree -> Job]
    BY <1>1, <1>2 DEF IInv, TypeOK, Job
  <1>4. HoldsCounted'
    BY <1>1, <1>2 DEF IInv, TypeOK, HoldsCounted
  <1>5. \A v \in Worktree : stopped'[v] > 0 => v \in {w} \/ stopped[v] > 0
    BY <1>2 DEF IInv, TypeOK
  <1>6. \A v \in Worktree : job'[v] # job[v] => job'[v] = Then(v)
    BY <1>2 DEF IInv, TypeOK
  <1>7. /\ row' \subseteq held' /\ held' \subseteq Worktree /\ rows' \in Seq(held')
        /\ \A v \in row' : job'[v] \in {"waits", "cleans"}
    BY <1>1, <1>2 DEF IInv, TypeOK, PanelHolds
  <1> QED BY <1>2, <1>3, <1>4, <1>5, <1>6, <1>7, StopsRuns, CleanupsKeep

LEMMA CleanupEndsKeeps ==
  ASSUME IInv, NEW w \in Worktree, CleanupEnds(w)
  PROVE  IInv'
  <1>1. /\ stopped' = [stopped EXCEPT ![w] = Resumed(@)] /\ job' = [job EXCEPT ![w] = "none"]
        /\ job[w] = "cleans" /\ w \notin row
        /\ UNCHANGED <<waiting, cancelled, running, working, returned, owner, column>>
        /\ UNCHANGED <<rows, row, held, quit>>
    BY DEF CleanupEnds, panel, queue
  <1>2. /\ stopped[w] \in Nat /\ stopped[w] > 0 /\ Resumed(stopped[w]) = stopped[w] - 1
        /\ Resumed(stopped[w]) \in Nat
    <2>1. stopped[w] \in Nat
      BY DEF IInv, TypeOK
    <2>2. stopped[w] > 0
      BY <1>1 DEF IInv, HoldsCounted
    <2> QED BY <2>1, <2>2, ResumedCount
  <1>3. stopped' \in [Worktree -> Nat] /\ job' \in [Worktree -> Job]
    BY <1>1, <1>2 DEF IInv, TypeOK, Job
  <1>4. HoldsCounted'
    BY <1>1, <1>2 DEF IInv, TypeOK, HoldsCounted
  <1>5. \A v \in Worktree : stopped'[v] > 0 =>
              /\ \A n \in waiting' : TreeOf(n) # v
              /\ UnderWay(v) => running \in cancelled'
    BY <1>1, <1>2 DEF IInv, TypeOK, StoppedForGood
  <1>6. /\ \A v \in Worktree : job'[v] # job[v] => job'[v] = "none"
        /\ row' \subseteq held' /\ held' \subseteq Worktree /\ rows' \in Seq(held')
        /\ \A v \in row' : job'[v] \in {"waits", "cleans"}
        /\ waiting' \subseteq waiting /\ cancelled' \subseteq Run
        /\ column' \in [Column -> ColumnState]
    BY <1>1 DEF IInv, TypeOK, PanelHolds
  <1> QED BY <1>1, <1>3, <1>4, <1>5, <1>6, CleanupsKeep

\* A row starts or the panel ends, its worktrees stopped with some counts:
\* each by its clean-up once, and by the panel once if it is one of all.
LEMMA RowsRun ==
  ASSUME NEW all \in SUBSET Worktree, NEW list \in Seq(all),
         NEW counts \in [Worktree -> Nat], NEW jobs \in [Worktree -> Job],
         \A w \in Worktree :
             counts[w] = (IF jobs[w] \in {"waits", "cleans"} THEN 1 ELSE 0)
                       + (IF w \in all THEN 1 ELSE 0),
         RunRows(list, all, counts, jobs)
  PROVE  /\ stopped' \in [Worktree -> Nat] /\ job' \in [Worktree -> Job]
         /\ rows' \in Seq(held') /\ row' \subseteq held' /\ held' \subseteq all
         /\ \A w \in row' : job'[w] \in {"waits", "cleans"}
         /\ \A w \in Worktree : stopped'[w] > 0 => counts[w] > 0
         /\ \A w \in Worktree : job'[w] # jobs[w] => job'[w] = Then(w)
         /\ HoldsCounted'
  <1>1. CASE NextRow(list, jobs) = {} /\ RunRows(list, all, counts, jobs)
    <2>1. /\ rows' = <<>> /\ row' = {} /\ held' = {} /\ job' = jobs
          /\ stopped' = [w \in Worktree |-> IF w \in all THEN Resumed(counts[w]) ELSE counts[w]]
      BY <1>1 DEF RunRows
    <2>2. ASSUME NEW w \in Worktree
          PROVE  /\ stopped'[w] = (IF jobs[w] \in {"waits", "cleans"} THEN 1 ELSE 0)
                 /\ stopped'[w] \in Nat
                 /\ stopped'[w] > 0 => counts[w] > 0
      <3>1. counts[w] \in Nat
        OBVIOUS
      <3> QED BY <2>1, <3>1, ResumedCount
    <2>3. HoldsCounted'
      BY <2>1, <2>2 DEF HoldsCounted
    <2>4. stopped' \in [Worktree -> Nat]
      BY <2>1, <2>2
    <2> QED BY <2>1, <2>2, <2>3, <2>4, EmptySeq
  <1>2. ASSUME NEW i \in NextRow(list, jobs),
               /\ rows' = SubSeq(list, i + 1, Len(list))
               /\ row' = {list[i]} /\ held' = all
               /\ stopped' = [counts EXCEPT ![list[i]] = @ + 1]
               /\ job' = [jobs EXCEPT ![list[i]] = Then(list[i])]
        PROVE  /\ stopped' \in [Worktree -> Nat] /\ job' \in [Worktree -> Job]
               /\ rows' \in Seq(held') /\ row' \subseteq held' /\ held' \subseteq all
               /\ \A w \in row' : job'[w] \in {"waits", "cleans"}
               /\ \A w \in Worktree : stopped'[w] > 0 => counts[w] > 0
               /\ \A w \in Worktree : job'[w] # jobs[w] => job'[w] = Then(w)
               /\ HoldsCounted'
    <2>1. i \in 1..Len(list) /\ jobs[list[i]] = "none"
      BY DEF NextRow
    <2>2. list[i] \in all /\ list[i] \in Worktree
      BY <2>1, ElementOfSeq
    <2>3. Then(list[i]) \in {"waits", "cleans"}
      BY DEF Then
    <2>4. stopped' \in [Worktree -> Nat] /\ job' \in [Worktree -> Job]
      BY <1>2, <2>2, <2>3 DEF Job
    <2>5. rows' \in Seq(held')
      <3>1. Len(list) \in Nat /\ i + 1 \in Int
        BY <2>1, LenProperties
      <3>2. \A k \in (i + 1)..Len(list) : list[k] \in all
        BY <2>1, <3>1, ElementOfSeq
      <3> QED BY <1>2, <3>1, <3>2, SubSeqProperties
    <2>6. counts[list[i]] = 1
      BY <2>1, <2>2
    <2>7. HoldsCounted'
      BY <1>2, <2>1, <2>2, <2>3, <2>6 DEF HoldsCounted
    <2>8. \A w \in row' : job'[w] \in {"waits", "cleans"}
      BY <1>2, <2>2, <2>3
    <2>9. \A w \in Worktree : job'[w] # jobs[w] => job'[w] = Then(w)
      BY <1>2, <2>2
    <2>10. \A w \in Worktree : stopped'[w] > 0 => counts[w] > 0
      BY <1>2, <2>2, <2>6
    <2> QED BY <1>2, <2>2, <2>4, <2>5, <2>7, <2>8, <2>9, <2>10
  <1> QED BY <1>1, <1>2 DEF RunRows

LEMMA PanelConfirmedKeeps ==
  ASSUME IInv, NEW list \in PanelLists, PanelConfirmed(list)
  PROVE  IInv'
  <1> DEFINE all == {list[i] : i \in DOMAIN list}
             counts == [w \in Worktree |-> stopped[w] + IF w \in all THEN 1 ELSE 0]
  <1>1. /\ held = {} /\ StopRuns(all) /\ RunRows(list, all, counts, job)
        /\ UNCHANGED quit
    BY DEF PanelConfirmed
  <1>2. list \in Seq(all) /\ all \in SUBSET Worktree
    <2>1. PICK k \in 1..Cardinality(Worktree) : list \in [1..k -> Worktree]
      BY DEF PanelLists
    <2>2. k \in Nat /\ list \in [1..k -> all] /\ all \in SUBSET Worktree
      BY <2>1
    <2> HIDE DEF all
    <2> QED BY <2>2
  <1>3. /\ counts \in [Worktree -> Nat] /\ job \in [Worktree -> Job]
        /\ \A w \in Worktree :
             counts[w] = (IF job[w] \in {"waits", "cleans"} THEN 1 ELSE 0)
                       + (IF w \in all THEN 1 ELSE 0)
        /\ \A w \in Worktree : counts[w] > 0 => w \in all \/ stopped[w] > 0
    BY <1>1 DEF IInv, TypeOK, HoldsCounted
  <1> HIDE DEF all, counts
  <1>4. /\ stopped' \in [Worktree -> Nat] /\ job' \in [Worktree -> Job]
        /\ rows' \in Seq(held') /\ row' \subseteq held' /\ held' \subseteq all
        /\ \A w \in row' : job'[w] \in {"waits", "cleans"}
        /\ \A w \in Worktree : stopped'[w] > 0 => counts[w] > 0
        /\ \A w \in Worktree : job'[w] # job[w] => job'[w] = Then(w)
        /\ HoldsCounted'
    BY <1>1, <1>2, <1>3, RowsRun
  <1>5. /\ waiting' \subseteq waiting /\ cancelled' \subseteq Run
        /\ UNCHANGED <<running, working, returned, owner>>
        /\ column' \in [Column -> ColumnState]
        /\ \A w \in Worktree : w \in all \/ stopped[w] > 0 =>
              /\ \A n \in waiting' : TreeOf(n) # w
              /\ UnderWay(w) => running \in cancelled'
    BY <1>1, <1>2, StopsRuns
  <1>6. held' \subseteq Worktree
    BY <1>2, <1>4
  <1>7. \A w \in Worktree : stopped'[w] > 0 => w \in all \/ stopped[w] > 0
    BY <1>3, <1>4
  <1> QED BY <1>1, <1>4, <1>5, <1>6, <1>7, CleanupsKeep

LEMMA RowEndsKeeps ==
  ASSUME IInv, NEW w \in Worktree, NEW stop \in BOOLEAN, RowEnds(w, stop)
  PROVE  IInv'
  <1> DEFINE list == IF stop THEN <<>> ELSE rows
             counts == [stopped EXCEPT ![w] = Resumed(@)]
             jobs == [job EXCEPT ![w] = "none"]
  <1>1. /\ job[w] = "cleans" /\ w \in row /\ RunRows(list, held, counts, jobs)
        /\ UNCHANGED <<waiting, cancelled, running, working, returned, owner, column, quit>>
    BY DEF RowEnds, queue
  <1>2. list \in Seq(held) /\ held \in SUBSET Worktree
    BY EmptySeq DEF IInv, TypeOK, PanelHolds
  <1>3. /\ stopped[w] \in Nat /\ Resumed(stopped[w]) = stopped[w] - 1
        /\ Resumed(stopped[w]) \in Nat /\ stopped[w] > 0
    <2>1. stopped[w] \in Nat
      BY DEF IInv, TypeOK
    <2>2. stopped[w] > 0
      BY <1>1 DEF IInv, HoldsCounted
    <2> QED BY <2>1, <2>2, ResumedCount
  <1>4. /\ counts \in [Worktree -> Nat] /\ jobs \in [Worktree -> Job]
        /\ \A v \in Worktree : counts[v] > 0 => stopped[v] > 0
        /\ \A v \in Worktree : jobs[v] = IF v = w THEN "none" ELSE job[v]
    BY <1>3 DEF IInv, TypeOK, Job
  <1>5. \A v \in Worktree :
             counts[v] = (IF jobs[v] \in {"waits", "cleans"} THEN 1 ELSE 0)
                       + (IF v \in held THEN 1 ELSE 0)
    BY <1>1, <1>3 DEF IInv, TypeOK, HoldsCounted
  <1> HIDE DEF list, counts, jobs
  <1>6. /\ stopped' \in [Worktree -> Nat] /\ job' \in [Worktree -> Job]
        /\ rows' \in Seq(held') /\ row' \subseteq held' /\ held' \subseteq held
        /\ \A v \in row' : job'[v] \in {"waits", "cleans"}
        /\ \A v \in Worktree : stopped'[v] > 0 => counts[v] > 0
        /\ \A v \in Worktree : job'[v] # jobs[v] => job'[v] = Then(v)
        /\ HoldsCounted'
    BY <1>1, <1>2, <1>4, <1>5, RowsRun
  <1>7. \A v \in Worktree : job'[v] # job[v] => job'[v] = "none" \/ job'[v] = Then(v)
    BY <1>4, <1>6
  <1>8. \A v \in Worktree : stopped'[v] > 0 =>
              /\ \A n \in waiting' : TreeOf(n) # v
              /\ UnderWay(v) => running \in cancelled'
    BY <1>1, <1>4, <1>6 DEF IInv, StoppedForGood
  <1>9. /\ waiting' \subseteq waiting /\ cancelled' \subseteq Run
        /\ column' \in [Column -> ColumnState] /\ held' \subseteq Worktree
    BY <1>1, <1>2, <1>6 DEF IInv, TypeOK
  <1> QED BY <1>1, <1>6, <1>7, <1>8, <1>9, CleanupsKeep

-----------------------------------------------------------------------------
(* Theorems *)

\* Nothing runs, waits or is stopped when Nirux starts.
THEOREM InitInvariant == Init => IInv
  <1> SUFFICES ASSUME Init PROVE IInv
    OBVIOUS
  <1>1. column \in [Column -> ColumnState]
    <2>1. [open |-> TRUE, checking |-> FALSE, after |-> FALSE, asking |-> FALSE,
           active |-> 0, ticket |-> 0, cancelled |-> FALSE, bar |-> "ready"] \in ColumnState
      BY DEF ColumnState, Bar
    <2> QED BY <2>1 DEF Init
  <1>2. TypeOK
    <2>1. owner \in Seq(Column) /\ Len(owner) <= MaxRuns /\ rows \in Seq(Worktree)
      BY EmptySeq, MaxRunsAssumption DEF Init
    <2> QED BY <1>1, <2>1 DEF Init, TypeOK, Job
  <1>3. rows \in Seq(held)
    BY EmptySeq DEF Init
  <1> QED
    BY <1>2, <1>3 DEF Init, IInv, Known, Line, OneRun, StoppedForGood, HoldsCounted, Alone, ThenIsDue,
            PanelHolds, UnderWay

\* Every main-actor block, and every end of a run's work, keeps the invariant.
THEOREM NextInvariant == IInv /\ [Next]_vars => IInv'
  <1> SUFFICES ASSUME IInv, [Next]_vars PROVE IInv'
    OBVIOUS
  <1>1. CASE UNCHANGED vars
    <2>1. column' \in [Column -> ColumnState]
      BY <1>1 DEF vars, IInv, TypeOK
    <2> QED BY <1>1, <2>1, ColumnOnly DEF vars
  <1>2. ASSUME NEW c \in Column, ColumnActs(c) PROVE IInv'
    BY <1>2, AsksKeep, SubmittedKeeps, LeavesKeep DEF ColumnActs
  <1>3. ASSUME NEW n \in Run, RunEnds(n) PROVE IInv'
    BY <1>3, RunEndsKeeps
  <1>4. ASSUME NEW w \in Worktree, CleanupActs(w) PROVE IInv'
    BY <1>4, AskedKeeps, ConfirmedKeeps, CleanupEndsKeeps, RowEndsKeeps DEF CleanupActs
  <1>5. ASSUME NEW list \in PanelLists, PanelConfirmed(list) PROVE IInv'
    BY <1>5, PanelConfirmedKeeps
  <1>6. CASE Quit
    BY <1>6, QuitKeeps
  <1>7. ASSUME NEW n \in Run, WorkReturns(n) PROVE IInv'
    BY <1>7, WorkReturnsKeeps
  <1> QED BY <1>1, <1>2, <1>3, <1>4, <1>5, <1>6, <1>7 DEF Next, OnMain

\* The queue's inductive invariant holds throughout.
THEOREM Invariant == Spec => []IInv
  BY InitInvariant, NextInvariant, PTL DEF Spec

\* The state is well typed, however many columns, worktrees and runs.
THEOREM TypeCorrect == Spec => []TypeOK
  <1>1. IInv => TypeOK
    BY DEF IInv
  <1> QED BY <1>1, Invariant, PTL

\* One run at a time in the whole app (ExplainQueue.swift:3).
THEOREM OneAtATime == Spec => []OneRun
  <1>1. IInv => OneRun
    BY DEF IInv
  <1> QED BY <1>1, Invariant, PTL

\* While a worktree's review file is deleted no run of it is under way, so
\* none writes it again (ExplainQueue.swift:40-42).
THEOREM DeletesAlone == Spec => []CleansAlone
  <1>1. IInv => CleansAlone
    BY DEF IInv, CleansAlone, Alone, OneRun, UnderWay
  <1> QED BY <1>1, Invariant, PTL

\* A stopped worktree has no run in line, and its run was told to stop.
THEOREM StopHolds == Spec => []StoppedForGood
  <1>1. IInv => StoppedForGood
    BY DEF IInv
  <1> QED BY <1>1, Invariant, PTL

\* Each stop is resumed once: a worktree is stopped by its clean-up and by
\* the panel that lists it, and never for longer.
THEOREM StopsResumed == Spec => []HoldsCounted
  <1>1. IInv => HoldsCounted
    BY DEF IInv
  <1> QED BY <1>1, Invariant, PTL

\* A clean-up that waits has a run to wait for.
THEOREM ThenRuns == Spec => []ThenIsDue
  <1>1. IInv => ThenIsDue
    BY DEF IInv
  <1> QED BY <1>1, Invariant, PTL

\* Runs start in the order they were submitted: one that starts came before
\* every run left in line (ExplainQueue.swift:57-58).
THEOREM StartsInTurn == Spec => InTurn
  <1> DEFINE Turn == running' \notin {running, 0} => \A n \in waiting' : running' < n
  <1>1. IInv /\ [Next]_vars => [Turn]_vars
    <2> SUFFICES ASSUME IInv, Next PROVE Turn
      OBVIOUS
    <2>1. waiting \in SUBSET Nat /\ 0 \notin waiting
      BY MaxRunsAssumption DEF IInv, TypeOK, Run
    <2>2. ASSUME NEW c \in Column, Submitted(c) PROVE Turn
      <3>1. CASE running # 0
        BY <2>2, <3>1 DEF Submitted
      <3>2. CASE running = 0
        <4> DEFINE line == waiting \cup {Len(owner')}
        <4>1. StartNext(line)
          BY <2>2, <3>2 DEF Submitted
        <4>2. owner' = Append(owner, c) /\ owner \in Seq(Column)
          BY <2>2 DEF Submitted, IInv, TypeOK
        <4>3. Len(owner') \in Nat \ {0}
          BY <4>2
        <4>4. line \in SUBSET Nat /\ 0 \notin line
          BY <2>1, <4>3
        <4> HIDE DEF line
        <4> QED BY <4>1, <4>4, StartsFirst
      <3> QED BY <3>1, <3>2
    <2>3. ASSUME NEW n \in Run, RunEnds(n) PROVE Turn
      BY <2>1, <2>3, StartsFirst DEF RunEnds
    <2>4. \/ running' = running
          \/ \E c \in Column : Submitted(c)
          \/ \E n \in Run : RunEnds(n)
      BY DEF Next, OnMain, ColumnActs, CleanupActs, CheckExplain, Explain, Checked, Declined,
             Refused, Cancel, Close, CancelExplain, Reopen, RequestCleanup, CleanupDeclined,
             CleanupConfirmed, StopRuns, CleanupEnds, RowEnds, PanelConfirmed, Quit,
             WorkReturns, queue
    <2> QED BY <2>2, <2>3, <2>4
  <1> QED BY <1>1, Invariant, PTL DEF Spec, InTurn
-----------------------------------------------------------------------------
(* What a column shows of its run *)

\* What a column in state k knows of its run, when some wait, one is under way
\* (or none) and some were told to stop. It says more than its bar does: a column
\* that asks has no run, and one whose run was told to stop has it under way, so
\* that a run that starts is shown as running.
Tells(c, k, line, run, told, by) ==
    /\ \A n \in Run : n \in line \/ n = run => (by[n] = c <=> k.active = n)
    /\ k.active # 0 => k.active \in line \/ k.active = run
    /\ k.ticket = k.active
    /\ k.bar = "queued" <=> k.active \in line
    /\ k.bar \in {"running", "stopping"} <=> k.active # 0 /\ k.active = run
    /\ k.bar = "stopping" => run \in told
    /\ k.asking => k.active = 0
    /\ k.cancelled /\ k.active # 0 => k.active = run /\ run \in told

Truthful == \A c \in Column : Tells(c, column[c], waiting, running, cancelled, owner)

\* An end's effect on a column, field by field.
LEMMA EndedFields ==
  ASSUME NEW columns \in [Column -> ColumnState], NEW gone, NEW c \in Column
  PROVE  LET k == columns[c]
             e == Ended(columns, gone)[c]
         IN  /\ k.active \in gone =>
                   /\ e.active = 0 /\ e.ticket = 0 /\ e.bar = "ready"
                   /\ e.asking = k.asking /\ e.cancelled = k.cancelled
             /\ k.active \notin gone => e = k
  BY DEF Ended, ColumnState

\* A start's effect on a column, field by field.
LEMMA StartedFields ==
  ASSUME NEW columns \in [Column -> ColumnState], NEW n, NEW c \in Column
  PROVE  LET k == columns[c]
             e == Started(columns, n)[c]
         IN  /\ n # 0 /\ k.active = n =>
                   /\ e.active = k.active /\ e.ticket = k.ticket
                   /\ e.asking = k.asking /\ e.cancelled = k.cancelled
                   /\ e.bar = IF k.cancelled THEN "stopping" ELSE "running"
             /\ ~(n # 0 /\ k.active = n) => e = k
  BY DEF Started, ColumnState

\* Runs that leave the line without having started leave each column truthful.
LEMMA LeftLine ==
  ASSUME NEW columns \in [Column -> ColumnState], NEW c \in Column,
         NEW line \in SUBSET Run, NEW run \in Run \cup {0}, run \notin line,
         NEW told, NEW more, told \subseteq more, NEW by, NEW gone \in SUBSET line,
         Tells(c, columns[c], line, run, told, by)
  PROVE  Tells(c, Ended(columns, gone)[c], line \ gone, run, more, by)
  <1> DEFINE k == columns[c]
             e == Ended(columns, gone)[c]
  <1>0. k \in ColumnState /\ 0 \notin Run
    BY MaxRunsAssumption DEF Run
  <1>1. Tells(c, k, line, run, told, by)
    OBVIOUS
  <1>2. CASE k.active \in gone
    <2>1. /\ e.active = 0 /\ e.ticket = 0 /\ e.bar = "ready"
      BY <1>2, EndedFields
    <2>2. \A n \in Run : n \in (line \ gone) \/ n = run => ~(by[n] = c)
      <3> HIDE DEF k
      <3> QED BY <1>1, <1>2 DEF Tells
    <2>3. 0 \notin line \ gone
      BY <1>0
    <2>4. Tells(c, e, line \ gone, run, more, by)
      <3> HIDE DEF k, e
      <3> QED BY <2>1, <2>2, <2>3, <1>0 DEF Tells
    <2> QED BY <2>4
  <1>3. CASE k.active \notin gone
    <2>1. e = k
      BY <1>3, EndedFields
    <2>2. Tells(c, k, line \ gone, run, more, by)
      <3> HIDE DEF k
      <3> QED BY <1>1, <1>3 DEF Tells
    <2> QED BY <2>1, <2>2
  <1> QED BY <1>2, <1>3

\* The run under way ends, and the first of the line, if there is one, starts:
\* whoever cancelled its own run while it waited has none.
LEMMA MovedOn ==
  ASSUME NEW columns \in [Column -> ColumnState], NEW c \in Column,
         NEW line \in SUBSET Run, NEW run \in Run, run \notin line,
         NEW told, NEW by, NEW next \in line \cup {0},
         Tells(c, columns[c], line, run, told, by)
  PROVE  Tells(c, Started(Ended(columns, {run}), next)[c], line \ {next}, next,
               told \ {run}, by)
  <1> DEFINE k == columns[c]
             e == Ended(columns, {run})[c]
             s == Started(Ended(columns, {run}), next)[c]
             stop == told \ {run}
  <1>0. /\ k \in ColumnState /\ 0 \notin Run
        /\ Ended(columns, {run}) \in [Column -> ColumnState]
    BY MaxRunsAssumption, EndedTyped DEF Run
  <1>1. Tells(c, k, line, run, told, by)
    OBVIOUS
  <1>2. /\ next # 0 /\ e.active = next =>
              /\ s.active = e.active /\ s.ticket = e.ticket
              /\ s.asking = e.asking /\ s.cancelled = e.cancelled
              /\ s.bar = IF e.cancelled THEN "stopping" ELSE "running"
        /\ ~(next # 0 /\ e.active = next) => s = e
    <2> DEFINE ended == Ended(columns, {run})
    <2>1. ended \in [Column -> ColumnState]
      BY <1>0
    <2> HIDE DEF ended
    <2>2. /\ next # 0 /\ ended[c].active = next =>
                /\ Started(ended, next)[c].active = ended[c].active
                /\ Started(ended, next)[c].ticket = ended[c].ticket
                /\ Started(ended, next)[c].asking = ended[c].asking
                /\ Started(ended, next)[c].cancelled = ended[c].cancelled
                /\ Started(ended, next)[c].bar = IF ended[c].cancelled THEN "stopping" ELSE "running"
          /\ ~(next # 0 /\ ended[c].active = next) => Started(ended, next)[c] = ended[c]
      BY <2>1, StartedFields
    <2> QED BY <2>2 DEF ended
  <1>3. CASE k.active = run
    <2>1. e.active = 0 /\ e.ticket = 0 /\ e.bar = "ready"
      BY <1>3, EndedFields
    <2>2. s = e
      BY <2>1, <1>2
    <2>3. \A n \in Run : n \in line => ~(by[n] = c)
      <3> HIDE DEF k
      <3> QED BY <1>1, <1>3 DEF Tells
    <2>4. Tells(c, e, line \ {next}, next, stop, by)
      <3>1. \A n \in Run : n \in line \ {next} \/ n = next => ~(by[n] = c)
        BY <2>3, <1>0
      <3>2. 0 \notin line
        BY <1>0
      <3> HIDE DEF k, e, stop
      <3> QED BY <2>1, <3>1, <3>2, <1>0 DEF Tells
    <2> QED BY <2>2, <2>4
  <1>4. CASE k.active # run
    <2>1. e = k
      BY <1>4, EndedFields
    <2>2. CASE next # 0 /\ k.active = next
      <3>1. /\ s.active = next /\ s.ticket = k.ticket /\ s.asking = k.asking
            /\ s.cancelled = k.cancelled
            /\ s.bar = IF k.cancelled THEN "stopping" ELSE "running"
        BY <1>2, <2>1, <2>2
      <3>2. ~k.cancelled /\ ~k.asking /\ k.ticket = next
        <4>1. k.cancelled \in BOOLEAN /\ k.asking \in BOOLEAN
          BY <1>0 DEF ColumnState
        <4> HIDE DEF k
        <4> QED BY <4>1, <1>1, <1>4, <2>2 DEF Tells
      <3>3. \A n \in Run : n \in line => (by[n] = c <=> n = next)
        <4> HIDE DEF k
        <4> QED BY <1>1, <2>2 DEF Tells
      <3>4. s.bar = "running" /\ ~s.asking /\ ~s.cancelled
        BY <3>1, <3>2
      <3>5. Tells(c, s, line \ {next}, next, stop, by)
        <4> HIDE DEF k, e, s, stop
        <4> QED BY <3>1, <3>2, <3>3, <3>4, <2>2, <1>0 DEF Tells
      <3> QED BY <3>5
    <2>3. CASE ~(next # 0 /\ k.active = next)
      <3>1. s = k
        BY <1>2, <2>1, <2>3
      <3>2. Tells(c, k, line \ {next}, next, stop, by)
        <4> HIDE DEF k, e, s, stop
        <4> QED BY <1>1, <1>4, <2>3, <1>0 DEF Tells
      <3> QED BY <3>1, <3>2
    <2> QED BY <2>2, <2>3
  <1> QED BY <1>3, <1>4

\* Nothing is asked, waits or is under way when Nirux starts.
LEMMA InitTruthful == Init => Truthful
  BY MaxRunsAssumption DEF Init, Truthful, Tells, Run

\* What a column knows of its run stays true if only the rest of it changes.
LEMMA ColumnTells ==
  ASSUME IInv, Truthful, NEW c \in Column, NEW to \in ColumnState,
         column' = [column EXCEPT ![c] = to], UNCHANGED queue,
         to.active = column[c].active, to.ticket = column[c].ticket,
         to.asking => column[c].active = 0, to.cancelled => column[c].cancelled,
         \/ to.bar = column[c].bar
         \/ column[c].active = 0 /\ to.bar \in {"checking", "ready"}
  PROVE  Truthful'
  <1> DEFINE k == column[c]
  <1>1. /\ column \in [Column -> ColumnState] /\ 0 \notin Run /\ waiting \subseteq Run
        /\ Tells(c, k, waiting, running, cancelled, owner)
    BY MaxRunsAssumption DEF IInv, TypeOK, Truthful, Run
  <1>2. Tells(c, to, waiting, running, cancelled, owner)
    <2>1. k.active = 0 => k.active \notin waiting /\ k.bar \notin {"queued", "running", "stopping"}
      BY <1>1 DEF Tells
    <2> HIDE DEF k
    <2>2. /\ to.active = k.active /\ to.ticket = k.ticket
          /\ to.asking => k.active = 0
          /\ to.cancelled => k.cancelled
          /\ \/ to.bar = k.bar
             \/ k.active = 0 /\ to.bar \in {"checking", "ready"}
      BY DEF k
    <2> QED BY <1>1, <2>1, <2>2 DEF Tells
  <1>3. \A d \in Column : column'[d] = IF d = c THEN to ELSE column[d]
    BY <1>1
  <1>4. UNCHANGED <<waiting, running, cancelled, owner>>
    BY DEF queue
  <1> QED BY <1>2, <1>3, <1>4 DEF Truthful

LEMMA AsksTell ==
  ASSUME IInv, Truthful, NEW c \in Column,
         CheckExplain(c) \/ Explain(c) \/ Declined(c) \/ Refused(c) \/ Reopen(c)
  PROVE  Truthful'
  <1> DEFINE k == column[c]
  <1>1. /\ k \in ColumnState /\ Tells(c, k, waiting, running, cancelled, owner)
    BY DEF IInv, TypeOK, Truthful
  <1>2. UNCHANGED queue
    BY DEF CheckExplain, Explain, Declined, Refused, Reopen
  <1>3. CASE CheckExplain(c)
    <2> DEFINE to == [k EXCEPT !.checking = TRUE, !.bar = "checking"]
    <2>1. column' = [column EXCEPT ![c] = to]
      BY <1>3 DEF CheckExplain
    <2>2. /\ to \in ColumnState /\ to.active = k.active /\ to.ticket = k.ticket
          /\ to.asking = k.asking /\ to.cancelled = k.cancelled /\ to.bar = "checking"
      BY <1>1 DEF ColumnState, Bar
    <2>3. k.active = 0
      BY <1>3 DEF CheckExplain
    <2> HIDE DEF to
    <2> QED BY <1>2, <2>1, <2>2, <2>3, ColumnTells
  <1>4. CASE Explain(c)
    <2> DEFINE to == [k EXCEPT !.after = TRUE, !.checking = TRUE, !.bar = "checking"]
    <2>1. column' = [column EXCEPT ![c] = to]
      BY <1>4 DEF Explain
    <2>2. /\ to \in ColumnState /\ to.active = k.active /\ to.ticket = k.ticket
          /\ to.asking = k.asking /\ to.cancelled = k.cancelled /\ to.bar = "checking"
      BY <1>1 DEF ColumnState, Bar
    <2>3. k.active = 0
      BY <1>4 DEF Explain
    <2> HIDE DEF to
    <2> QED BY <1>2, <2>1, <2>2, <2>3, ColumnTells
  <1>5. CASE Declined(c) \/ Reopen(c)
    <2>1. PICK to \in ColumnState :
            /\ column' = [column EXCEPT ![c] = to]
            /\ to.active = k.active /\ to.ticket = k.ticket /\ to.bar = k.bar
            /\ to.asking => k.asking
            /\ to.cancelled = k.cancelled
      <3>1. /\ [k EXCEPT !.asking = FALSE] \in ColumnState
            /\ [k EXCEPT !.open = TRUE] \in ColumnState
        BY <1>1 DEF ColumnState
      <3>2. CASE Declined(c)
        BY <1>1, <3>1, <3>2 DEF Declined, ColumnState
      <3>3. CASE Reopen(c)
        BY <1>1, <3>1, <3>3 DEF Reopen, ColumnState
      <3> QED BY <1>5, <3>2, <3>3
    <2>2. k.asking => k.active = 0
      BY <1>1 DEF Tells
    <2> QED BY <1>2, <2>1, <2>2, ColumnTells
  <1>6. CASE Refused(c)
    <2> DEFINE to == [k EXCEPT !.asking = FALSE, !.cancelled = FALSE,
                               !.active = 0, !.ticket = 0, !.bar = "ready"]
    <2>1. /\ to \in ColumnState /\ to.active = 0 /\ to.ticket = 0
          /\ ~to.asking /\ ~to.cancelled /\ to.bar = "ready"
      BY <1>1 DEF ColumnState, Bar
    <2>2. column' = [column EXCEPT ![c] = to]
      BY <1>6 DEF Refused
    <2>3. k.active = 0 /\ k.ticket = 0
      <3>1. k.asking
        BY <1>6 DEF Refused
      <3> HIDE DEF k
      <3> QED BY <1>1, <3>1 DEF Tells
    <2> HIDE DEF to
    <2> QED BY <1>2, <2>1, <2>2, <2>3, ColumnTells
  <1> QED BY <1>3, <1>4, <1>5, <1>6

\* A check tells the column whether it may ask.
LEMMA CheckedTells ==
  ASSUME IInv, Truthful, NEW c \in Column, NEW ready \in BOOLEAN, Checked(c, ready)
  PROVE  Truthful'
  <1> DEFINE k == column[c]
             seen == [k EXCEPT !.checking = FALSE, !.after = FALSE]
             ask == seen.asking \/ (ready /\ k.after)
             to == IF seen.active # 0 THEN seen
                   ELSE [seen EXCEPT !.bar = "ready", !.asking = ask]
  <1>0. /\ k \in ColumnState /\ Tells(c, k, waiting, running, cancelled, owner)
    BY DEF IInv, TypeOK, Truthful
  <1>1. /\ seen \in ColumnState /\ seen.active = k.active /\ seen.ticket = k.ticket
        /\ seen.asking = k.asking /\ seen.cancelled = k.cancelled /\ seen.bar = k.bar
    BY <1>0 DEF ColumnState
  <1>2. ask \in BOOLEAN
    BY <1>0, <1>1, ColumnFields
  <1>3. column' = [column EXCEPT ![c] = IF seen.active # 0 THEN seen
                      ELSE [seen EXCEPT !.bar = "ready", !.asking = ask]]
    BY DEF Checked
  <1>4. k.asking => k.active = 0
    <2> HIDE DEF k
    <2> QED BY <1>0 DEF Tells
  <1> HIDE DEF seen, ask
  <1>5. /\ to \in ColumnState /\ to.active = k.active /\ to.ticket = k.ticket
        /\ to.asking => k.active = 0
        /\ to.cancelled = k.cancelled
        /\ \/ to.bar = k.bar
           \/ k.active = 0 /\ to.bar = "ready"
    <2>1. CASE seen.active # 0
      BY <1>1, <1>4, <2>1
    <2>2. CASE seen.active = 0
      <3> HIDE DEF k
      <3> QED BY <1>1, <1>2, <2>2 DEF ColumnState, Bar
    <2> QED BY <2>1, <2>2
  <1>6. UNCHANGED queue
    BY DEF Checked
  <1>7. column' = [column EXCEPT ![c] = to]
    BY <1>3
  <1> HIDE DEF to
  <1> QED BY <1>5, <1>6, <1>7, ColumnTells

\* A column's yes: the run it gets is its own, is in line or is the one that
\* starts, and no other column's.
LEMMA SubmittedTells ==
  ASSUME IInv, Truthful, NEW c \in Column, Submitted(c)
  PROVE  Truthful'
  <1> DEFINE n == Len(owner) + 1
             k == [column[c] EXCEPT !.asking = FALSE, !.cancelled = FALSE,
                        !.active = n, !.ticket = n, !.bar = "queued"]
             asked == [column EXCEPT ![c] = k]
             line == waiting \cup {n}
  <1>1. /\ n \in Run /\ n \notin waiting /\ n # running
        /\ owner' = Append(owner, c) /\ owner'[n] = c
        /\ \A m \in waiting : owner'[m] = owner[m]
        /\ running # 0 => owner'[running] = owner[running]
        /\ UNCHANGED cancelled
        /\ Len(owner') = n
    BY MaxRunsAssumption DEF IInv, TypeOK, Line, Known, Run, Submitted
  <1>2. /\ waiting \in SUBSET Run /\ running \in Run \cup {0} /\ running \notin waiting
        /\ column \in [Column -> ColumnState] /\ column[c] \in ColumnState
        /\ 0 \notin Run /\ Run \subseteq Nat
    BY MaxRunsAssumption DEF IInv, TypeOK, Line, Run
  <1>3. /\ k \in ColumnState /\ k.active = n /\ k.ticket = n /\ k.bar = "queued"
        /\ k.asking = FALSE /\ k.cancelled = FALSE
    <2>1. FALSE \in BOOLEAN /\ n \in Run \cup {0} /\ "queued" \in Bar
      BY <1>1 DEF Bar
    <2> HIDE DEF n
    <2> QED BY <1>2, <2>1 DEF ColumnState
  <1> HIDE DEF n, k
  <1>4. asked \in [Column -> ColumnState]
    BY <1>2, <1>3
  <1>5. column[c].active = 0
    BY DEF Submitted, Truthful, Tells
  <1>6. ASSUME NEW d \in Column
        PROVE  Tells(d, asked[d], line, running, cancelled, owner')
    <2>1. CASE d = c
      <3>1. asked[d] = k
        BY <2>1, <1>2
      <3>2. \A m \in Run : m \in waiting \/ m = running => owner[m] # c
        BY <1>5, <1>2 DEF Truthful, Tells
      <3>3. \A m \in Run : m \in line \/ m = running => (owner'[m] = c <=> m = n)
        BY <1>1, <1>2, <3>2
      <3> HIDE DEF asked
      <3> QED BY <1>1, <1>2, <1>3, <2>1, <3>1, <3>3 DEF Tells
    <2>2. CASE d # c
      <3>1. asked[d] = column[d]
        BY <2>2
      <3>2. Tells(d, column[d], waiting, running, cancelled, owner)
        BY DEF Truthful
      <3>3. column[d].active # n
        BY <1>1, <1>2, <3>2 DEF Tells
      <3> HIDE DEF asked
      <3> QED BY <1>1, <1>2, <2>2, <3>1, <3>2, <3>3 DEF Tells
    <2> QED BY <2>1, <2>2
  <1>7. CASE running # 0
    <2>1. waiting' = line /\ running' = running /\ column' = asked
      <3>1. /\ waiting' = waiting \cup {Len(owner')} /\ running' = running
            /\ column' = [column EXCEPT ![c] = [column[c] EXCEPT !.asking = FALSE, !.cancelled = FALSE,
                            !.active = Len(owner'), !.ticket = Len(owner'), !.bar = "queued"]]
        BY <1>7 DEF Submitted
      <3> QED BY <1>1, <3>1 DEF k
    <2> HIDE DEF asked
    <2> QED BY <1>1, <1>6, <2>1 DEF Truthful
  <1>8. CASE running = 0
    <2>1. StartNext(line) /\ column' = Started(asked, running')
      BY <1>1, <1>8 DEF Submitted, k, n
    <2>2. line \in SUBSET Nat /\ 0 \notin line /\ line \in SUBSET Run
      BY <1>1, <1>2
    <2>3. running' \in line /\ waiting' = line \ {running'}
      <3>1. running' \in line
        BY <2>1 DEF StartNext, First
      <3> HIDE DEF line
      <3> QED BY <2>1, <2>2, <3>1, StartsFirst
    <2>4. ASSUME NEW d \in Column
          PROVE  Tells(d, column'[d], waiting', running', cancelled', owner')
      <3> DEFINE s == column'[d]
                 a == asked[d]
      <3>1. Tells(d, a, line, 0, cancelled, owner')
        BY <1>6, <1>8
      <3>2. a \in ColumnState
        BY <1>4
      <3>3. CASE a.active = running'
        <4>1. /\ s.active = a.active /\ s.ticket = a.ticket /\ s.asking = a.asking
              /\ s.cancelled = a.cancelled
              /\ s.bar = IF a.cancelled THEN "stopping" ELSE "running"
          <5> HIDE DEF asked, line
          <5> QED BY <1>4, <2>1, <2>2, <2>3, <3>3, StartedFields
        <4>2. running' # 0 /\ running' \in Run
          BY <2>2, <2>3
        <4>3. ~a.cancelled /\ ~a.asking
          BY <3>1, <3>3, <4>2 DEF Tells
        <4>4. Tells(d, s, waiting', running', cancelled', owner')
          <5>1. cancelled' = cancelled
            BY <1>1
          <5> HIDE DEF a, s, asked, line
          <5> QED BY <2>2, <2>3, <3>1, <3>3, <4>1, <4>2, <4>3, <5>1 DEF Tells
        <4> QED BY <4>4
      <3>4. CASE a.active # running'
        <4>1. s = a
          <5> HIDE DEF asked, line
          <5> QED BY <1>4, <2>1, <2>3, <3>4, StartedFields
        <4>2. 0 \notin waiting' /\ running' # 0
          BY <2>2, <2>3
        <4>3. Tells(d, a, waiting', running', cancelled', owner')
          <5>1. cancelled' = cancelled
            BY <1>1
          <5> HIDE DEF a, s, asked, line
          <5> QED BY <5>1, <2>2, <2>3, <3>1, <3>4, <4>2 DEF Tells
        <4> QED BY <4>1, <4>3
      <3> QED BY <3>3, <3>4
    <2> QED BY <2>4 DEF Truthful
  <1> QED BY <1>7, <1>8
\* A column cancels: its run leaves the line, or is told to stop and shows it;
\* no other column has that run.
LEMMA CancelTells ==
  ASSUME IInv, Truthful, NEW c \in Column, NEW k \in ColumnState, CancelExplain(c, k),
         /\ k.active = column[c].active /\ k.ticket = column[c].ticket
         /\ k.bar = column[c].bar /\ k.asking = column[c].asking
         /\ k.cancelled = column[c].cancelled
  PROVE  Truthful'
  <1> DEFINE d == k.cancelled \/ k.ticket # 0
             bar == IF k.ticket # 0 /\ k.bar = "running" THEN "stopping" ELSE k.bar
             told == [k EXCEPT !.after = FALSE, !.cancelled = d, !.bar = bar]
             columns == [column EXCEPT ![c] = told]
             left == {k.ticket} \cap waiting
  <1>1. /\ waiting' = waiting \ left /\ column' = Ended(columns, left)
        /\ cancelled' = cancelled \cup (({k.ticket} \cap {running}) \ {0})
        /\ UNCHANGED <<running, owner>>
    BY DEF CancelExplain
  <1>2. /\ waiting \in SUBSET Run /\ running \in Run \cup {0} /\ running \notin waiting
        /\ column \in [Column -> ColumnState] /\ 0 \notin Run
    BY MaxRunsAssumption DEF IInv, TypeOK, Line, Run
  <1>3. /\ told \in ColumnState /\ told.active = k.active /\ told.ticket = k.ticket
        /\ told.asking = k.asking /\ told.cancelled = d /\ told.bar = bar
    <2>1. d \in BOOLEAN /\ bar \in Bar /\ FALSE \in BOOLEAN
      BY ColumnFields DEF Bar
    <2> HIDE DEF d, bar
    <2> QED BY <2>1 DEF ColumnState
  <1>4. /\ Tells(c, k, waiting, running, cancelled, owner)
        /\ k.cancelled \in BOOLEAN /\ k.asking \in BOOLEAN
    <2>1. Tells(c, column[c], waiting, running, cancelled, owner)
      BY DEF Truthful
    <2> QED BY <2>1, ColumnFields DEF Tells
  <1> HIDE DEF told
  <1>5. columns \in [Column -> ColumnState] /\ columns[c] = told
    BY <1>2, <1>3
  <1>6. ASSUME NEW e \in Column, e # c
        PROVE  Tells(e, column'[e], waiting', running', cancelled', owner')
    <2>1. columns[e] = column[e]
      BY <1>6
    <2>2. Tells(e, columns[e], waiting, running, cancelled, owner)
      BY <2>1 DEF Truthful
    <2>3. cancelled \subseteq cancelled' /\ left \in SUBSET waiting
      BY <1>1
    <2> HIDE DEF columns, left
    <2> QED BY <1>1, <1>2, <1>5, <2>2, <2>3, LeftLine
  <1>7. Tells(c, column'[c], waiting', running', cancelled', owner')
    <2> DEFINE f == column'[c]
    <2>1. CASE k.active \in waiting
      <3>1. left = {k.active} /\ columns[c].active \in left
        BY <2>1, <1>3, <1>4, <1>5 DEF Tells
      <3>2. f.active = 0 /\ f.ticket = 0 /\ f.bar = "ready"
        <4> HIDE DEF columns, left
        <4> QED BY <1>1, <1>5, <3>1, EndedFields
      <3>3. \A n \in Run : n \in waiting' \/ n = running => owner[n] # c
        <4> HIDE DEF left
        <4> QED BY <1>1, <1>2, <1>4, <2>1, <3>1 DEF Tells
      <3>4. 0 \notin waiting' /\ UNCHANGED <<running, owner>>
        BY <1>1, <1>2
      <3>5. f.asking => f.active = 0
        BY <3>2
      <3>6. Tells(c, f, waiting', running', cancelled', owner')
        <4> HIDE DEF f, columns, left
        <4> QED BY <1>2, <3>2, <3>3, <3>4, <3>5 DEF Tells
      <3> QED BY <3>6
    <2>2. CASE k.active \notin waiting
      <3>1. left = {}
        BY <2>2, <1>4 DEF Tells
      <3>2. f = told /\ waiting' = waiting
        <4>1. columns[c].active \notin left
          BY <3>1
        <4> HIDE DEF columns, left
        <4> QED BY <1>1, <1>5, <3>1, <4>1, EndedFields
      <3>3. CASE k.active = 0
        <4>1. f.active = 0 /\ f.ticket = 0 /\ f.bar = k.bar
          BY <1>3, <1>4, <3>2, <3>3 DEF Tells
        <4>2. /\ f.asking => f.active = 0
              /\ UNCHANGED <<waiting, running, owner>>
          BY <1>1, <3>2, <4>1
        <4>3. Tells(c, f, waiting', running', cancelled', owner')
          <5> HIDE DEF f, columns, left, d, bar
          <5> QED BY <1>2, <1>4, <3>3, <4>1, <4>2 DEF Tells
        <4> QED BY <4>3
      <3>4. CASE k.active # 0
        <4>1. k.active = running /\ k.ticket = running /\ k.bar \in {"running", "stopping"}
              /\ ~k.asking
          BY <1>4, <2>2, <3>4 DEF Tells
        <4>2. f.active = running /\ f.ticket = running /\ f.bar = "stopping" /\ ~f.asking
          BY <1>3, <1>4, <3>2, <3>4, <4>1
        <4>3. running \in cancelled'
          BY <1>1, <3>4, <4>1
        <4>4. UNCHANGED <<waiting, running, owner>>
          BY <1>1, <3>2
        <4>5. Tells(c, f, waiting', running', cancelled', owner')
          <5> HIDE DEF f, columns, left, d, bar
          <5> QED BY <1>2, <1>4, <2>2, <3>4, <4>1, <4>2, <4>3, <4>4 DEF Tells
        <4> QED BY <4>5
      <3> QED BY <3>3, <3>4
    <2> QED BY <2>1, <2>2
  <1> QED BY <1>6, <1>7 DEF Truthful

LEMMA LeavesTell ==
  ASSUME IInv, Truthful, NEW c \in Column, Cancel(c) \/ Close(c)
  PROVE  Truthful'
  <1>1. /\ column[c] \in ColumnState /\ FALSE \in BOOLEAN
        /\ 0 \in Run \cup {0} /\ "ready" \in Bar
    BY DEF IInv, TypeOK, Bar
  <1> DEFINE k == [column[c] EXCEPT !.open = FALSE]
  <1>2. k \in ColumnState
    BY <1>1 DEF ColumnState
  <1>3. /\ k.active = column[c].active /\ k.ticket = column[c].ticket
        /\ k.bar = column[c].bar /\ k.asking = column[c].asking
        /\ k.cancelled = column[c].cancelled
    BY <1>1 DEF ColumnState
  <1>4. CASE Cancel(c)
    BY <1>1, <1>4, CancelTells DEF Cancel
  <1>5. CASE Close(c)
    <2>1. CancelExplain(c, k)
      BY <1>5 DEF Close
    <2> HIDE DEF k
    <2> QED BY <1>2, <1>3, <2>1, CancelTells
  <1> QED BY <1>4, <1>5

\* The run's completion reaches the column that submitted it, and the next
\* run's column sees it start.
LEMMA RunEndsTells ==
  ASSUME IInv, Truthful, NEW n \in Run, RunEnds(n)
  PROVE  Truthful'
  <1>1. /\ waiting \in SUBSET Run /\ waiting \in SUBSET Nat /\ 0 \notin waiting /\ n # 0
        /\ running \notin waiting /\ column \in [Column -> ColumnState]
    BY MaxRunsAssumption DEF IInv, TypeOK, Line, Run
  <1>2. running' \in waiting \cup {0} /\ waiting' = waiting \ {running'}
    BY <1>1, StartsFirst DEF RunEnds
  <1>3. n = running
    BY <1>1 DEF RunEnds, IInv, OneRun
  <1>4. /\ column' = Started(Ended(column, {running}), running')
        /\ cancelled' = cancelled \ {running} /\ UNCHANGED owner
    BY <1>3 DEF RunEnds
  <1>5. ASSUME NEW c \in Column
        PROVE  Tells(c, column'[c], waiting', running', cancelled', owner')
    <2>1. Tells(c, column[c], waiting, running, cancelled, owner)
      BY DEF Truthful
    <2> QED BY <1>1, <1>2, <1>3, <1>4, <2>1, MovedOn
  <1> QED BY <1>5 DEF Truthful

\* A stop of worktrees' runs, and the app's end, empty the line or part of it:
\* each column whose run left it is told.
LEMMA DroppedTell ==
  ASSUME IInv, Truthful, NEW gone \in SUBSET waiting, waiting' = waiting \ gone,
         column' = Ended(column, gone), cancelled \subseteq cancelled',
         UNCHANGED <<running, owner>>
  PROVE  Truthful'
  <1>1. /\ waiting \in SUBSET Run /\ running \in Run \cup {0} /\ running \notin waiting
        /\ column \in [Column -> ColumnState]
    BY DEF IInv, TypeOK, Line
  <1>2. ASSUME NEW c \in Column
        PROVE  Tells(c, column'[c], waiting', running', cancelled', owner')
    <2>1. Tells(c, column[c], waiting, running, cancelled, owner)
      BY DEF Truthful
    <2> QED BY <1>1, <2>1, LeftLine
  <1> QED BY <1>2 DEF Truthful

LEMMA StopsTell ==
  ASSUME IInv, Truthful, NEW trees, StopRuns(trees)
  PROVE  Truthful'
  <1>1. /\ waiting' = waiting \ Dropped(trees) /\ column' = Ended(column, Dropped(trees))
        /\ cancelled \subseteq cancelled' /\ UNCHANGED <<running, owner>>
    BY DEF StopRuns
  <1>2. Dropped(trees) \in SUBSET waiting
    BY DEF Dropped
  <1> QED BY <1>1, <1>2, DroppedTell

\* Every main-actor block, and every end of a run's work, leaves each column
\* truthful about its run.
LEMMA NextTells ==
  ASSUME IInv, Truthful, [Next]_vars
  PROVE  Truthful'
  <1>1. ASSUME UNCHANGED <<waiting, running, cancelled, owner, column>> PROVE Truthful'
    BY <1>1 DEF Truthful
  <1>2. ASSUME NEW c \in Column, ColumnActs(c) PROVE Truthful'
    BY <1>2, AsksTell, CheckedTells, SubmittedTells, LeavesTell DEF ColumnActs
  <1>3. ASSUME NEW n \in Run, RunEnds(n) PROVE Truthful'
    BY <1>3, RunEndsTells
  <1>4. ASSUME NEW w \in Worktree, CleanupActs(w) PROVE Truthful'
    <2>1. CASE CleanupConfirmed(w)
      BY <2>1, StopsTell DEF CleanupConfirmed
    <2>2. CASE ~CleanupConfirmed(w)
      BY <1>1, <1>4, <2>2
         DEF CleanupActs, RequestCleanup, CleanupDeclined, CleanupEnds, RowEnds, queue
    <2> QED BY <2>1, <2>2
  <1>5. ASSUME NEW list \in PanelLists, PanelConfirmed(list) PROVE Truthful'
    BY <1>5, StopsTell DEF PanelConfirmed
  <1>6. CASE Quit
    <2>1. waiting' = waiting \ waiting /\ cancelled \subseteq cancelled'
      BY <1>6 DEF Quit
    <2> QED BY <1>6, <2>1, DroppedTell DEF Quit
  <1>7. ASSUME NEW n \in Run, WorkReturns(n) PROVE Truthful'
    BY <1>1, <1>7 DEF WorkReturns
  <1>8. CASE UNCHANGED vars
    BY <1>1, <1>8 DEF vars, queue
  <1> QED BY <1>2, <1>3, <1>4, <1>5, <1>6, <1>7, <1>8 DEF Next, OnMain

\* A column has a run in the queue exactly while it believes so, and its bar says
\* where that run is: completions reach the column that submitted the run, once,
\* whatever is cancelled, stopped, closed or refused meanwhile.
THEOREM BarIsTrue == Spec => []BarTellsTruth
  <1>1. IInv /\ Truthful => BarTellsTruth
    <2> SUFFICES ASSUME IInv, Truthful, NEW c \in Column
                 PROVE  LET k == column[c]
                            mine == {n \in waiting \cup ({running} \ {0}) : owner[n] = c}
                        IN  /\ mine = {k.active} \ {0}
                            /\ k.ticket = k.active
                            /\ k.bar = "queued" <=> k.active \in waiting
                            /\ k.bar \in {"running", "stopping"} <=>
                                 k.active # 0 /\ k.active = running
                            /\ k.bar = "stopping" => running \in cancelled
      BY DEF BarTellsTruth
    <2>1. waiting \subseteq Run /\ running \in Run \cup {0} /\ 0 \notin Run
      BY MaxRunsAssumption DEF IInv, TypeOK, Run
    <2>2. Tells(c, column[c], waiting, running, cancelled, owner)
      BY DEF Truthful
    <2> QED BY <2>1, <2>2 DEF Tells
  <1> QED BY <1>1, Invariant, InitTruthful, NextTells, PTL DEF Spec
=============================================================================
