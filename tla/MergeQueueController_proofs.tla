--------------------- MODULE MergeQueueController_proofs ---------------------
(***************************************************************************)
(* One live queue per repository, for any number of processes, projects    *)
(* and repositories, whoever crashes and whatever can't be written.        *)
(*                                                                         *)
(* A repository's lock is held for one of three reasons: a queue runs on   *)
(* it, a queue that ended has yet to let it go, on the file queue, or a    *)
(* restore marks a killed queue.  The inductive invariant says that a      *)
(* process has at most one of them for a repository, and then its lock.    *)
(*                                                                         *)
(* And what the file of a project says, while boards keep their            *)
(* repository: only a killed queue is marked interrupted, and nobody       *)
(* writes over the state of a queue that runs.                             *)
(***************************************************************************)
EXTENDS MergeQueueController, SequenceTheorems, TLAPS

-----------------------------------------------------------------------------
(* The inductive invariant *)

On(n, p, r) == IsActive(queues[n][p].run) /\ queues[n][p].repository = r

\* A release of r's lock waits on the file queue, at place i.
LetsAt(n, i, r) == i \in DOMAIN writes[n] /\ writes[n][i].lets = r

Marks(n, r) == main[n].at \in {"read", "flush"} /\ main[n].repository = r

\* A queue that runs has its number and its repository.
Numbered ==
    \A n \in Nirux, p \in Project : IsActive(queues[n][p].run)
        => queues[n][p].number \in Number /\ queues[n][p].repository \in Repository

\* What a main thread goes on with.
Threaded ==
    \A n \in Nirux : main[n].at # "free" =>
        /\ main[n].project \in Project
        /\ main[n].repository \in Repository
        /\ main[n].at \in {"lock", "read"} => main[n].saved \in SavedQueue

RunsAlone ==
    \A n \in Nirux, p \in Project, r \in Repository : On(n, p, r) =>
        /\ lock[r] = n
        /\ \A q \in Project : On(n, q, r) => q = p

LetsAlone ==
    \A n \in Nirux, r \in Repository, i \in Nat : LetsAt(n, i, r) =>
        /\ lock[r] = n
        /\ \A p \in Project : ~On(n, p, r)
        /\ \A j \in Nat : LetsAt(n, j, r) => j = i

MarksAlone ==
    \A n \in Nirux, r \in Repository : Marks(n, r) =>
        /\ lock[r] = n
        /\ \A p \in Project : ~On(n, p, r)
        /\ \A i \in Nat : ~LetsAt(n, i, r)

\* Dry runs take no lock.
Held == ~DryRun => RunsAlone /\ LetsAlone /\ MarksAlone

IInv == TypeOK /\ Numbered /\ Threaded /\ Held

-----------------------------------------------------------------------------
(* The parts that steps are made of *)

LEMMA SaveIsWrite ==
  ASSUME NEW p \in Project, NEW s \in SavedQueue
  PROVE  Saves(p, s) \in Write /\ Saves(p, s).lets = None
  BY DEF Saves, Write

LEMMA LetIsWrite ==
  ASSUME NEW p \in Project, NEW r \in Repository
  PROVE  Lets(p, r) \in Write /\ Lets(p, r).lets = r
  BY DEF Lets, Write

\* What is asked for comes after what was.
LEMMA AsksAfter ==
  ASSUME TypeOK, NEW n \in Nirux, NEW ws \in Seq(Write), Asks(n, ws)
  PROVE  /\ writes' \in [Nirux -> Seq(Write)]
         /\ \A m \in Nirux \ {n} : writes'[m] = writes[m]
         /\ writes'[n] = writes[n] \o ws
         /\ DOMAIN writes[n] = 1..Len(writes[n])
         /\ DOMAIN writes'[n] = 1..(Len(writes[n]) + Len(ws))
         /\ \A i \in 1..(Len(writes[n]) + Len(ws)) :
              writes'[n][i] = IF i <= Len(writes[n]) THEN writes[n][i]
                                                     ELSE ws[i - Len(writes[n])]
  <1>1. writes[n] \in Seq(Write)
    BY DEF TypeOK
  <1>2. /\ writes[n] \o ws \in Seq(Write)
        /\ Len(writes[n] \o ws) = Len(writes[n]) + Len(ws)
        /\ \A i \in 1..(Len(writes[n]) + Len(ws)) :
             (writes[n] \o ws)[i] = IF i <= Len(writes[n]) THEN writes[n][i]
                                    ELSE ws[i - Len(writes[n])]
    BY <1>1, ConcatProperties
  <1>3. writes' = [writes EXCEPT ![n] = writes[n] \o ws]
    BY DEF Asks
  <1>4. /\ DOMAIN writes[n] = 1..Len(writes[n])
        /\ DOMAIN (writes[n] \o ws) = 1..Len(writes[n] \o ws)
    BY <1>1, <1>2, LenProperties
  <1> DEFINE all == writes[n] \o ws
  <1>5. writes'[n] = all /\ \A m \in Nirux \ {n} : writes'[m] = writes[m]
    BY <1>3 DEF TypeOK
  <1>6. writes' \in [Nirux -> Seq(Write)]
    <2>1. all \in Seq(Write)
      BY <1>2
    <2>2. writes' = [writes EXCEPT ![n] = all]
      BY <1>3
    <2> HIDE DEF all
    <2> QED BY <2>1, <2>2 DEF TypeOK
  <1> QED BY <1>2, <1>4, <1>5, <1>6

\* A step that only saves leaves every release where it was.
SavesOnly(n) ==
    /\ writes' \in [Nirux -> Seq(Write)]
    /\ \A m \in Nirux, i \in Nat, r \in Repository :
         LetsAt(m, i, r)' <=> LetsAt(m, i, r)

LEMMA SavingSavesOnly ==
  ASSUME TypeOK, NEW n \in Nirux, NEW p \in Project, NEW s \in SavedQueue,
         Asks(n, <<Saves(p, s)>>)
  PROVE  SavesOnly(n)
  <1> DEFINE w == Saves(p, s)
  <1>1. w \in Write /\ w.lets = None
    BY SaveIsWrite
  <1>2. Asks(n, <<w>>)
    OBVIOUS
  <1> HIDE DEF w
  <1>3. <<w>> \in Seq(Write) /\ Len(<<w>>) = 1 /\ <<w>>[1] = w
    BY <1>1
  <1>4. /\ writes' \in [Nirux -> Seq(Write)]
        /\ \A m \in Nirux \ {n} : writes'[m] = writes[m]
        /\ DOMAIN writes[n] = 1..Len(writes[n])
        /\ DOMAIN writes'[n] = 1..(Len(writes[n]) + 1)
        /\ \A i \in 1..(Len(writes[n]) + 1) :
             writes'[n][i] = IF i <= Len(writes[n]) THEN writes[n][i] ELSE w
    <2> DEFINE ws == <<w>>
    <2>1. ws \in Seq(Write) /\ Len(ws) = 1 /\ ws[1] = w /\ Asks(n, ws)
      BY <1>2, <1>3
    <2>2. Len(writes[n]) \in Nat
      BY LenProperties DEF TypeOK
    <2> HIDE DEF ws
    <2>3. /\ writes' \in [Nirux -> Seq(Write)]
          /\ \A m \in Nirux \ {n} : writes'[m] = writes[m]
          /\ DOMAIN writes[n] = 1..Len(writes[n])
          /\ DOMAIN writes'[n] = 1..(Len(writes[n]) + Len(ws))
          /\ \A i \in 1..(Len(writes[n]) + Len(ws)) :
               writes'[n][i] = IF i <= Len(writes[n]) THEN writes[n][i]
                                                      ELSE ws[i - Len(writes[n])]
      BY <2>1, AsksAfter
    <2>4. \A i \in 1..(Len(writes[n]) + 1) :
            ~(i <= Len(writes[n])) => i - Len(writes[n]) = 1
      BY <2>2
    <2> QED BY <2>1, <2>3, <2>4
  <1>5. Len(writes[n]) \in Nat
    BY LenProperties DEF TypeOK
  <1> QED BY <1>1, <1>4, <1>5, NoneAssumption DEF SavesOnly, LetsAt

LEMMA NothingSavesOnly ==
  ASSUME TypeOK, NEW n \in Nirux, UNCHANGED writes
  PROVE  SavesOnly(n)
  BY DEF SavesOnly, LetsAt, TypeOK

\* A controller that only reads keeps its run.
SameRuns ==
    /\ queues' \in [Nirux -> [Project -> Controller]]
    /\ \A m \in Nirux, q \in Project :
         /\ queues'[m][q].run = queues[m][q].run
         /\ queues'[m][q].number = queues[m][q].number
         /\ queues'[m][q].repository = queues[m][q].repository

LEMMA PutSame ==
  ASSUME TypeOK, NEW n \in Nirux, NEW p \in Project, NEW c \in Controller, Put(n, p, c),
         c.run = queues[n][p].run, c.number = queues[n][p].number,
         c.repository = queues[n][p].repository
  PROVE  SameRuns
  <1>1. queues' = [queues EXCEPT ![n] = [queues[n] EXCEPT ![p] = c]]
    BY DEF Put
  <1> QED BY <1>1 DEF SameRuns, TypeOK

LEMMA SavedExcept ==
  ASSUME NEW c \in Controller, NEW s \in SavedQueue \cup {None}, NEW b \in BOOLEAN
  PROVE  /\ [c EXCEPT !.saved = s] \in Controller
         /\ [c EXCEPT !.saved = s].run = c.run
         /\ [c EXCEPT !.saved = s].number = c.number
         /\ [c EXCEPT !.saved = s].repository = c.repository
         /\ [c EXCEPT !.saved = s, !.runsElsewhere = b] \in Controller
         /\ [c EXCEPT !.saved = s, !.runsElsewhere = b].run = c.run
         /\ [c EXCEPT !.saved = s, !.runsElsewhere = b].number = c.number
         /\ [c EXCEPT !.saved = s, !.runsElsewhere = b].repository = c.repository
         /\ [c EXCEPT !.made = b] \in Controller
         /\ [c EXCEPT !.made = b].run = c.run
         /\ [c EXCEPT !.made = b].number = c.number
         /\ [c EXCEPT !.made = b].repository = c.repository
  BY DEF Controller

\* settle(_:), for a controller with this run.
LEMMA SettlesSame ==
  ASSUME TypeOK, NEW n \in Nirux, NEW p \in Project, NEW c \in Controller,
         NEW s \in SavedQueue, Settles(n, p, c, s),
         c.run = queues[n][p].run, c.number = queues[n][p].number,
         c.repository = queues[n][p].repository
  PROVE  SameRuns /\ SavesOnly(n)
  <1>1. Interrupted(s) \in SavedQueue
    BY DEF Interrupted, SavedQueue, Status
  <1>2. ASSUME NEW t \in SavedQueue, Put(n, p, [c EXCEPT !.saved = t])
        PROVE  SameRuns
    <2> DEFINE d == [c EXCEPT !.saved = t]
    <2>1. d \in Controller /\ d.run = c.run /\ d.number = c.number
          /\ d.repository = c.repository /\ Put(n, p, d)
      BY <1>2, SavedExcept
    <2> HIDE DEF d
    <2> QED BY <2>1, PutSame
  <1>3. CASE IsRunning(s)
    BY <1>1, <1>2, <1>3, SavingSavesOnly DEF Settles
  <1>4. CASE ~IsRunning(s)
    BY <1>2, <1>4, NothingSavesOnly DEF Settles
  <1> QED BY <1>3, <1>4

\* The main thread goes on with something else.
LEMMA Going ==
  ASSUME TypeOK, NEW n \in Nirux, NEW at \in {"lock", "read", "flush", "start"},
         NEW p \in Project, NEW r \in Repository, NEW s \in SavedQueue \cup {None},
         Goes(n, at, p, r, s)
  PROVE  /\ main' \in [Nirux -> Thread]
         /\ \A m \in Nirux \ {n} : main'[m] = main[m]
         /\ main'[n].at = at /\ main'[n].project = p
         /\ main'[n].repository = r /\ main'[n].saved = s
  <1> DEFINE t == [at |-> at, project |-> p, repository |-> r, saved |-> s]
  <1>1. t \in Thread
    BY DEF Thread
  <1>2. main' = [main EXCEPT ![n] = t]
    BY DEF Goes
  <1>3. t.at = at /\ t.project = p /\ t.repository = r /\ t.saved = s
    OBVIOUS
  <1> HIDE DEF t
  <1> QED BY <1>1, <1>2, <1>3 DEF TypeOK

LEMMA Returning ==
  ASSUME TypeOK, NEW n \in Nirux, Returns(n)
  PROVE  /\ main' \in [Nirux -> Thread]
         /\ \A m \in Nirux \ {n} : main'[m] = main[m]
         /\ main'[n].at = "free"
  <1>1. Free \in Thread /\ Free.at = "free"
    BY DEF Free, Thread
  <1> QED BY <1>1 DEF Returns, TypeOK

\* Steps that neither take nor let go of a lock, nor start or end a queue.
LEMMA QuietKeeps ==
  ASSUME IInv, NEW n \in Nirux, SameRuns, SavesOnly(n), lock' = lock,
         main' \in [Nirux -> Thread], Threaded',
         \A m \in Nirux, r \in Repository : Marks(m, r)' => Marks(m, r),
         UNCHANGED <<board, file, up, count, lost, open>>
  PROVE  IInv'
  <1>1. TypeOK'
    BY DEF IInv, TypeOK, SameRuns, SavesOnly
  <1>2. \A m \in Nirux, q \in Project, r \in Repository : On(m, q, r)' <=> On(m, q, r)
    BY DEF On, SameRuns
  <1>3. Numbered'
    BY DEF IInv, Numbered, SameRuns
  <1>4. Held'
    BY <1>2 DEF IInv, Held, RunsAlone, LetsAlone, MarksAlone, SavesOnly
  <1> QED BY <1>1, <1>3, <1>4 DEF IInv

\* restore(), for a controller that keeps its run.
LEMMA RestoresKeeps ==
  ASSUME IInv, NEW n \in Nirux, main[n].at = "free", NEW p \in Project,
         NEW c \in Controller, NEW busy, Restores(n, p, c, busy),
         c.run = queues[n][p].run, c.number = queues[n][p].number,
         c.repository = queues[n][p].repository,
         UNCHANGED <<board, file, lock, up, count, lost, open>>
  PROVE  IInv'
  <1> DEFINE s == file[p]
  <1>1. s \in SavedQueue \cup {None} /\ TypeOK
    BY DEF IInv, TypeOK
  <1>2. CASE s # None /\ IsRunning(s) /\ ~DryRun /\ s.repository \notin busy
    <2>1. Put(n, p, c) /\ Goes(n, "lock", p, s.repository, s) /\ UNCHANGED writes
      BY <1>2 DEF Restores
    <2>2. s \in SavedQueue /\ s.repository \in Repository
      BY <1>1, <1>2 DEF SavedQueue
    <2> HIDE DEF s
    <2>3. SameRuns /\ SavesOnly(n)
      BY <1>1, <2>1, PutSame, NothingSavesOnly
    <2>4. /\ main' \in [Nirux -> Thread]
          /\ \A m \in Nirux \ {n} : main'[m] = main[m]
          /\ main'[n].at = "lock" /\ main'[n].project = p
          /\ main'[n].repository = s.repository /\ main'[n].saved = s
      BY <1>1, <2>1, <2>2, Going
    <2>5. Threaded'
      BY <2>2, <2>4 DEF IInv, Threaded
    <2>6. \A m \in Nirux, r \in Repository : Marks(m, r)' => Marks(m, r)
      BY <2>4 DEF Marks
    <2> QED BY <2>3, <2>4, <2>5, <2>6, QuietKeeps
  <1>3. CASE ~(s # None /\ IsRunning(s) /\ ~DryRun /\ s.repository \notin busy)
    <2>1. /\ main' = main
          /\ IF s = None THEN Put(n, p, c) /\ UNCHANGED writes ELSE Settles(n, p, c, s)
      BY <1>3 DEF Restores
    <2> HIDE DEF s
    <2>2. SameRuns /\ SavesOnly(n)
      BY <1>1, <2>1, PutSame, NothingSavesOnly, SettlesSame
    <2>3. Threaded' /\ main' \in [Nirux -> Thread]
      BY <2>1 DEF IInv, Threaded, TypeOK
    <2>4. \A m \in Nirux, r \in Repository : Marks(m, r)' => Marks(m, r)
      BY <2>1 DEF Marks
    <2> QED BY <2>2, <2>3, <2>4, QuietKeeps
  <1> QED BY <1>2, <1>3

-----------------------------------------------------------------------------
(* Each action keeps the invariant *)

LEMMA MakeKeeps ==
  ASSUME IInv, NEW n \in Nirux, NEW p \in Project, Make(n, p)
  PROVE  IInv'
  <1> DEFINE c == [queues[n][p] EXCEPT !.made = TRUE]
  <1>1. c \in Controller /\ c.run = queues[n][p].run
        /\ c.number = queues[n][p].number /\ c.repository = queues[n][p].repository
    <2>1. queues[n][p] \in Controller
      BY DEF IInv, TypeOK
    <2> QED BY <2>1, SavedExcept
  <1>2. Restores(n, p, c, {}) /\ main[n].at = "free"
        /\ UNCHANGED <<board, file, lock, up, count, lost, open>>
    BY DEF Make, IsFree
  <1> HIDE DEF c
  <1> QED BY <1>1, <1>2, RestoresKeeps

LEMMA ReloadKeeps ==
  ASSUME IInv, NEW n \in Nirux, NEW p \in Project, Reload(n, p)
  PROVE  IInv'
  <1> DEFINE c == Forgets(queues[n][p])
  <1>1. c \in Controller /\ c.run = queues[n][p].run
        /\ c.number = queues[n][p].number /\ c.repository = queues[n][p].repository
    <2>1. queues[n][p] \in Controller
      BY DEF IInv, TypeOK
    <2> QED BY <2>1, SavedExcept DEF Forgets
  <1>2. Restores(n, p, c, BusyHere(n, p)) /\ main[n].at = "free"
        /\ UNCHANGED <<board, file, lock, up, count, lost, open>>
    BY DEF Reload, IsFree
  <1> HIDE DEF c
  <1> QED BY <1>1, <1>2, RestoresKeeps

\* A lock that nobody holds: nobody has a reason to.
LEMMA FreeLock ==
  ASSUME IInv, ~DryRun, NEW r \in Repository, lock[r] = None, NEW m \in Nirux
  PROVE  /\ \A p \in Project : ~On(m, p, r)
         /\ \A i \in Nat : ~LetsAt(m, i, r)
         /\ ~Marks(m, r)
  BY NoneAssumption DEF IInv, Held, RunsAlone, LetsAlone, MarksAlone

LEMMA RestoreLocksKeeps ==
  ASSUME IInv, NEW n \in Nirux, RestoreLocks(n)
  PROVE  IInv'
  <1> DEFINE t == main[n]
  <1>1. /\ t.project \in Project /\ t.repository \in Repository
        /\ t.saved \in SavedQueue /\ t.at = "lock" /\ TypeOK
    BY DEF IInv, Threaded, RestoreLocks
  <1>2. UNCHANGED <<board, file, up, writes, count, lost, open>>
    BY DEF RestoreLocks
  <1>3. CASE MayTake(t.repository)
    <2>1. /\ lock[t.repository] = None
          /\ lock' = [lock EXCEPT ![t.repository] = n]
          /\ Goes(n, "read", t.project, t.repository, t.saved)
          /\ UNCHANGED queues
      BY <1>3 DEF RestoreLocks, MayTake
    <2>2. /\ main' \in [Nirux -> Thread]
          /\ \A m \in Nirux \ {n} : main'[m] = main[m]
          /\ main'[n].at = "read" /\ main'[n].project = t.project
          /\ main'[n].repository = t.repository /\ main'[n].saved = t.saved
      BY <1>1, <2>1, Going
    <2>3. /\ \A m \in Nirux, q \in Project, r \in Repository : On(m, q, r)' <=> On(m, q, r)
          /\ \A m \in Nirux, i \in Nat, r \in Repository : LetsAt(m, i, r)' <=> LetsAt(m, i, r)
          /\ \A m \in Nirux, r \in Repository :
               Marks(m, r)' => Marks(m, r) \/ (m = n /\ r = t.repository)
          /\ \A r \in Repository \ {t.repository} : lock'[r] = lock[r]
          /\ lock'[t.repository] = n
      BY <1>1, <1>2, <2>1, <2>2 DEF On, LetsAt, Marks, TypeOK
    <2>4. ~DryRun => \A m \in Nirux :
            /\ \A p \in Project : ~On(m, p, t.repository)
            /\ \A i \in Nat : ~LetsAt(m, i, t.repository)
            /\ ~Marks(m, t.repository)
      BY <1>1, <2>1, FreeLock
    <2>5. TypeOK'
      BY <1>2, <2>1, <2>2 DEF IInv, TypeOK
    <2>6. Numbered' /\ Threaded'
      BY <1>1, <2>1, <2>2 DEF IInv, Numbered, Threaded
    <2> HIDE DEF t
    <2>7. ASSUME ~DryRun
          PROVE  RunsAlone' /\ LetsAlone' /\ MarksAlone'
      <3>1. RunsAlone /\ LetsAlone /\ MarksAlone
        BY <2>7 DEF IInv, Held
      <3>2. RunsAlone'
        BY <2>3, <2>4, <2>7, <3>1 DEF RunsAlone
      <3>3. LetsAlone'
        BY <2>3, <2>4, <2>7, <3>1 DEF LetsAlone
      <3>4. MarksAlone'
        BY <2>3, <2>4, <2>7, <3>1 DEF MarksAlone
      <3> QED BY <3>2, <3>3, <3>4
    <2> QED BY <2>5, <2>6, <2>7 DEF IInv, Held
  <1>4. CASE ~MayTake(t.repository)
    <2> DEFINE d == [queues[n][t.project] EXCEPT !.saved = t.saved,
                                                 !.runsElsewhere = TRUE]
    <2>1. /\ Put(n, t.project, d) /\ Returns(n) /\ UNCHANGED lock
      BY <1>4 DEF RestoreLocks
    <2>2. SameRuns /\ SavesOnly(n)
      <3>1. queues[n][t.project] \in Controller
        BY <1>1 DEF TypeOK
      <3>2. /\ d \in Controller /\ d.run = queues[n][t.project].run
            /\ d.number = queues[n][t.project].number
            /\ d.repository = queues[n][t.project].repository
        BY <1>1, <3>1, SavedExcept
      <3> HIDE DEF d, t
      <3> QED BY <1>1, <1>2, <2>1, <3>2, PutSame, NothingSavesOnly
    <2>3. /\ main' \in [Nirux -> Thread] /\ main'[n].at = "free"
          /\ \A m \in Nirux \ {n} : main'[m] = main[m]
      BY <1>1, <2>1, Returning
    <2>4. Threaded' /\ \A m \in Nirux, r \in Repository : Marks(m, r)' => Marks(m, r)
      BY <2>3 DEF IInv, Threaded, Marks
    <2> QED BY <1>2, <2>1, <2>2, <2>3, <2>4, QuietKeeps
  <1> QED BY <1>3, <1>4

LEMMA RestoreReadsKeeps ==
  ASSUME IInv, NEW n \in Nirux, RestoreReads(n)
  PROVE  IInv'
  <1> DEFINE t == main[n]
             s == ReadAgain(t)
  <1>1. /\ t.project \in Project /\ t.repository \in Repository
        /\ s \in SavedQueue /\ t.at = "read" /\ TypeOK
    BY DEF IInv, Threaded, RestoreReads, ReadAgain, TypeOK
  <1>2. /\ Settles(n, t.project, queues[n][t.project], s)
        /\ Goes(n, "flush", t.project, t.repository, None)
        /\ UNCHANGED <<board, file, lock, up, count, lost, open>>
    BY DEF RestoreReads
  <1>3. queues[n][t.project] \in Controller
    BY <1>1 DEF TypeOK
  <1> HIDE DEF s
  <1>4. SameRuns /\ SavesOnly(n)
    BY <1>1, <1>2, <1>3, SettlesSame
  <1>5. /\ main' \in [Nirux -> Thread]
        /\ \A m \in Nirux \ {n} : main'[m] = main[m]
        /\ main'[n].at = "flush" /\ main'[n].project = t.project
        /\ main'[n].repository = t.repository
    BY <1>1, <1>2, Going
  <1>6. Threaded' /\ \A m \in Nirux, r \in Repository : Marks(m, r)' => Marks(m, r)
    BY <1>1, <1>5 DEF IInv, Threaded, Marks
  <1> QED BY <1>2, <1>4, <1>5, <1>6, QuietKeeps

LEMMA RestoreEndsKeeps ==
  ASSUME IInv, NEW n \in Nirux, RestoreEnds(n)
  PROVE  IInv'
  <1> DEFINE t == main[n]
  <1>1. /\ t.at = "flush" /\ t.repository \in Repository /\ TypeOK
        /\ lock' = [lock EXCEPT ![t.repository] = None] /\ Returns(n)
        /\ UNCHANGED <<board, file, up, writes, queues, count, lost, open>>
    BY DEF IInv, Threaded, RestoreEnds
  <1>2. /\ main' \in [Nirux -> Thread] /\ main'[n].at = "free"
        /\ \A m \in Nirux \ {n} : main'[m] = main[m]
    BY <1>1, Returning
  <1>3. Marks(n, t.repository)
    BY <1>1 DEF Marks
  <1>4. /\ \A m \in Nirux, q \in Project, r \in Repository : On(m, q, r)' <=> On(m, q, r)
        /\ \A m \in Nirux, i \in Nat, r \in Repository : LetsAt(m, i, r)' <=> LetsAt(m, i, r)
        /\ \A m \in Nirux, r \in Repository : Marks(m, r)' => Marks(m, r) /\ m # n
        /\ \A r \in Repository \ {t.repository} : lock'[r] = lock[r]
    BY <1>1, <1>2 DEF On, LetsAt, Marks, TypeOK
  <1>5. TypeOK'
    BY <1>1, <1>2 DEF TypeOK
  <1>6. Numbered' /\ Threaded'
    BY <1>1, <1>2 DEF IInv, Numbered, Threaded
  <1>7. t.repository \in Repository
    BY <1>1
  <1> HIDE DEF t
  <1>8. Held'
    BY <1>3, <1>4, <1>7 DEF IInv, Held, RunsAlone, LetsAlone, MarksAlone
  <1> QED BY <1>5, <1>6, <1>8 DEF IInv

-----------------------------------------------------------------------------
(* Steps of a queue *)

LEMMA AfterIsRun ==
  ASSUME NEW r \in Run, NEW s \in After(r)
  PROVE  s \in Run /\ s.phase # "idle" /\ IsActive(r)
  BY DEF After, Sends, Answers, Sees, Ends, Stops, EndsStopping, Ended, Running,
         Run, RunPhase, Call, IsActive

LEMMA StartsRun ==
  ASSUME NEW s \in Starts(Idle)
  PROVE  s \in Run /\ s.phase # "idle" /\ IsActive(s)
  BY DEF Starts, Idle, Running, Run, RunPhase, Call, IsActive

LEMMA SavedNowIsSaved ==
  ASSUME NEW c \in Controller, c.run.phase # "idle", c.number \in Number,
         c.repository \in Repository
  PROVE  SavedNow(c) \in SavedQueue
  BY DEF SavedNow, SavedQueue, Status, Controller, Run, RunPhase

\* update(_:notes:): a controller takes its next state; only one that ended
\* asks for a release, of its own repository, and last.
LEMMA UpdatesPut ==
  ASSUME TypeOK, NEW n \in Nirux, NEW p \in Project, NEW c \in Controller,
         c.run.phase # "idle", c.number \in Number, c.repository \in Repository,
         Updates(n, p, c)
  PROVE  /\ queues' \in [Nirux -> [Project -> Controller]]
         /\ \A m \in Nirux, q \in Project :
              <<m, q>> # <<n, p>> => queues'[m][q] = queues[m][q]
         /\ queues'[n][p].run = c.run /\ queues'[n][p].number = c.number
         /\ queues'[n][p].repository = c.repository
         /\ \/ SavesOnly(n)
            \/ /\ ~IsActive(c.run) /\ ~DryRun
               /\ Asks(n, LastWrites(p, SavedNow(c), c.repository))
  <1> DEFINE s == SavedNow(c)
             d == [c EXCEPT !.saved = s]
  <1>1. s \in SavedQueue
    BY SavedNowIsSaved
  <1>2. /\ d \in Controller /\ d.run = c.run /\ d.number = c.number
        /\ d.repository = c.repository
    BY <1>1, SavedExcept
  <1>3. /\ queues' = [queues EXCEPT ![n] = [queues[n] EXCEPT ![p] = d]]
        /\ Asks(n, IF s = c.saved THEN <<>>
                   ELSE IF IsActive(c.run) \/ DryRun THEN <<Saves(p, s)>>
                   ELSE LastWrites(p, s, c.repository))
    BY DEF Updates, Put
  <1> HIDE DEF d, s
  <1>4. /\ queues' \in [Nirux -> [Project -> Controller]]
        /\ \A m \in Nirux, q \in Project :
             <<m, q>> # <<n, p>> => queues'[m][q] = queues[m][q]
        /\ queues'[n][p] = d
    BY <1>2, <1>3 DEF TypeOK
  <1>5. CASE s = c.saved
    <2>1. writes' = writes
      <3>1. writes[n] \in Seq(Write)
        BY DEF TypeOK
      <3>2. writes[n] \o <<>> = writes[n]
        BY <3>1, ConcatEmptySeq
      <3> QED BY <1>3, <1>5, <3>2 DEF Asks, TypeOK
    <2> QED BY <1>2, <1>4, <2>1, NothingSavesOnly
  <1>6. CASE s # c.saved /\ (IsActive(c.run) \/ DryRun)
    BY <1>1, <1>2, <1>3, <1>4, <1>6, SavingSavesOnly
  <1>7. CASE s # c.saved /\ ~(IsActive(c.run) \/ DryRun)
    BY <1>2, <1>3, <1>4, <1>7 DEF s
  <1> QED BY <1>5, <1>6, <1>7

LEMMA BeginsTo ==
  ASSUME TypeOK, NEW n \in Nirux, NEW p \in Project, NEW r \in Repository,
         Begins(n, p, r)
  PROVE  /\ queues' \in [Nirux -> [Project -> Controller]]
         /\ \A m \in Nirux, q \in Project :
              <<m, q>> # <<n, p>> => queues'[m][q] = queues[m][q]
         /\ queues'[n][p].number \in Number /\ queues'[n][p].repository = r
         /\ SavesOnly(n)
         /\ count' \in [Bounded -> Nat]
  <1>1. count["starts"] \in Nat /\ count["starts"] < MaxStarts
        /\ count' = [count EXCEPT !["starts"] = count["starts"] + 1]
    BY DEF Begins, Happens, TypeOK, Bounded
  <1>2. PICK run \in Starts(Idle) :
          Updates(n, p, [queues[n][p] EXCEPT
                          !.run = run, !.number = count["starts"] + 1,
                          !.repository = r, !.runsElsewhere = FALSE])
    BY DEF Begins
  <1> DEFINE k == count["starts"] + 1
             c == [queues[n][p] EXCEPT !.run = run, !.number = k,
                                       !.repository = r, !.runsElsewhere = FALSE]
  <1>3. k \in Number
    BY <1>1, BoundsAssumption DEF Number
  <1>4. run \in Run /\ run.phase # "idle" /\ IsActive(run)
    BY StartsRun
  <1>5. queues[n][p] \in Controller
    BY DEF TypeOK
  <1> HIDE DEF k
  <1>6. c \in Controller /\ c.run = run /\ c.number = k /\ c.repository = r
    BY <1>3, <1>4, <1>5 DEF Controller
  <1>7. Updates(n, p, c)
    BY <1>2 DEF k
  <1> HIDE DEF c
  <1>8. ~(~IsActive(c.run) /\ ~DryRun
          /\ Asks(n, LastWrites(p, SavedNow(c), c.repository)))
    BY <1>4, <1>6
  <1>9. /\ queues' \in [Nirux -> [Project -> Controller]]
        /\ \A m \in Nirux, q \in Project :
             <<m, q>> # <<n, p>> => queues'[m][q] = queues[m][q]
        /\ queues'[n][p].number = c.number /\ queues'[n][p].repository = c.repository
        /\ SavesOnly(n)
    <2>1. c.run.phase # "idle" /\ c.number \in Number /\ c.repository \in Repository
      BY <1>3, <1>4, <1>6
    <2> QED BY <1>6, <1>7, <1>8, <2>1, UpdatesPut
  <1>10. count' \in [Bounded -> Nat]
    <2>1. k \in Nat /\ count' = [count EXCEPT !["starts"] = k]
      BY <1>1 DEF k
    <2> QED BY <2>1 DEF TypeOK
  <1> QED BY <1>3, <1>6, <1>9, <1>10

LEMMA StartKeeps ==
  ASSUME IInv, NEW n \in Nirux, NEW p \in Project, Start(n, p)
  PROVE  IInv'
  <1>1. /\ board[p] \in Repository /\ main[n].at = "free" /\ TypeOK
        /\ UNCHANGED <<board, file, lock, up, lost, open>>
    BY DEF Start, IsFree, IInv, TypeOK
  <1>2. CASE DryRun
    <2>1. Begins(n, p, board[p]) /\ UNCHANGED main
      BY <1>2 DEF Start
    <2>2. /\ queues' \in [Nirux -> [Project -> Controller]]
          /\ \A m \in Nirux, q \in Project :
               <<m, q>> # <<n, p>> => queues'[m][q] = queues[m][q]
          /\ queues'[n][p].number \in Number
          /\ queues'[n][p].repository \in Repository
          /\ writes' \in [Nirux -> Seq(Write)]
          /\ count' \in [Bounded -> Nat]
      BY <1>1, <2>1, BeginsTo DEF SavesOnly
    <2>3. TypeOK' /\ Threaded'
      BY <1>1, <2>1, <2>2 DEF IInv, TypeOK, Threaded
    <2>4. Numbered'
      BY <2>2 DEF IInv, Numbered
    <2> QED BY <1>2, <2>3, <2>4 DEF IInv, Held
  <1>3. CASE ~DryRun
    <2>1. Goes(n, "start", p, board[p], None) /\ UNCHANGED <<queues, writes, count>>
      BY <1>3 DEF Start
    <2>2. /\ main' \in [Nirux -> Thread] /\ main'[n].at = "start"
          /\ \A m \in Nirux \ {n} : main'[m] = main[m]
          /\ main'[n].project = p /\ main'[n].repository = board[p]
      BY <1>1, <2>1, Going
    <2>3. SameRuns /\ SavesOnly(n)
      BY <1>1, <2>1, NothingSavesOnly DEF SameRuns, TypeOK
    <2>4. Threaded' /\ \A m \in Nirux, r \in Repository : Marks(m, r)' => Marks(m, r)
      BY <1>1, <2>2 DEF IInv, Threaded, Marks
    <2> QED BY <1>1, <2>1, <2>2, <2>3, <2>4, QuietKeeps
  <1> QED BY <1>2, <1>3

LEMMA StartLocksKeeps ==
  ASSUME IInv, NEW n \in Nirux, StartLocks(n)
  PROVE  IInv'
  <1> DEFINE p == main[n].project
             r0 == main[n].repository
  <1>1. /\ p \in Project /\ r0 \in Repository /\ main[n].at = "start"
        /\ Returns(n) /\ TypeOK
        /\ UNCHANGED <<board, file, up, lost, open>>
    BY DEF StartLocks, IInv, Threaded
  <1>2. /\ main' \in [Nirux -> Thread] /\ main'[n].at = "free"
        /\ \A m \in Nirux \ {n} : main'[m] = main[m]
    BY <1>1, Returning
  <1>3. Threaded' /\ \A m \in Nirux, r \in Repository : Marks(m, r)' => Marks(m, r)
    BY <1>2 DEF IInv, Threaded, Marks
  <1>4. CASE MayTake(r0) /\ count["starts"] < MaxStarts
    <2>1. /\ lock[r0] = None /\ lock' = [lock EXCEPT ![r0] = n]
          /\ Begins(n, p, r0)
      BY <1>4 DEF StartLocks, MayTake
    <2> HIDE DEF p, r0
    <2>2. /\ queues' \in [Nirux -> [Project -> Controller]]
          /\ \A m \in Nirux, q \in Project :
               <<m, q>> # <<n, p>> => queues'[m][q] = queues[m][q]
          /\ queues'[n][p].number \in Number /\ queues'[n][p].repository = r0
          /\ SavesOnly(n)
          /\ count' \in [Bounded -> Nat]
      BY <1>1, <2>1, BeginsTo
    <2>3. TypeOK'
      BY <1>1, <1>2, <2>1, <2>2 DEF TypeOK, SavesOnly
    <2>4. Numbered'
      BY <1>1, <2>2 DEF IInv, Numbered
    <2>5. /\ \A m \in Nirux, q \in Project, r \in Repository :
               On(m, q, r)' => On(m, q, r) \/ (m = n /\ q = p /\ r = r0)
          /\ \A r \in Repository \ {r0} : lock'[r] = lock[r]
          /\ lock'[r0] = n
      BY <1>1, <2>1, <2>2 DEF On, TypeOK
    <2>6. ~DryRun => \A m \in Nirux : /\ \A q \in Project : ~On(m, q, r0)
                                      /\ \A i \in Nat : ~LetsAt(m, i, r0)
                                      /\ ~Marks(m, r0)
      BY <1>1, <2>1, FreeLock
    <2>7. ASSUME ~DryRun
          PROVE  RunsAlone' /\ LetsAlone' /\ MarksAlone'
      <3>1. RunsAlone /\ LetsAlone /\ MarksAlone
        BY <2>7 DEF IInv, Held
      <3>2. \A m \in Nirux : /\ \A q \in Project : ~On(m, q, r0)
                            /\ \A i \in Nat : ~LetsAt(m, i, r0)
                            /\ ~Marks(m, r0)
        BY <2>6, <2>7
      <3>3. RunsAlone'
        BY <1>1, <2>5, <3>1, <3>2 DEF RunsAlone
      <3>4. \A m \in Nirux, i \in Nat, r \in Repository :
              LetsAt(m, i, r)' <=> LetsAt(m, i, r)
        BY <2>2 DEF SavesOnly
      <3>5. LetsAlone'
        <4> SUFFICES ASSUME NEW m \in Nirux, NEW r \in Repository, NEW i \in Nat,
                            LetsAt(m, i, r)'
                     PROVE  /\ lock'[r] = m
                            /\ \A q \in Project : ~On(m, q, r)'
                            /\ \A j \in Nat : LetsAt(m, j, r)' => j = i
          BY DEF LetsAlone
        <4>1. LetsAt(m, i, r) /\ r # r0
          BY <3>2, <3>4
        <4> QED BY <2>5, <3>1, <3>4, <4>1 DEF LetsAlone
      <3>6. MarksAlone'
        <4> SUFFICES ASSUME NEW m \in Nirux, NEW r \in Repository, Marks(m, r)'
                     PROVE  /\ lock'[r] = m
                            /\ \A q \in Project : ~On(m, q, r)'
                            /\ \A i \in Nat : ~LetsAt(m, i, r)'
          BY DEF MarksAlone
        <4>1. Marks(m, r) /\ r # r0
          BY <1>3, <3>2
        <4> QED BY <2>5, <3>1, <3>4, <4>1 DEF MarksAlone
      <3> QED BY <3>3, <3>5, <3>6
    <2>8. Held'
      BY <2>7 DEF Held
    <2> QED BY <1>3, <2>3, <2>4, <2>8 DEF IInv
  <1>5. CASE ~(MayTake(r0) /\ count["starts"] < MaxStarts)
    <2>1. UNCHANGED <<lock, queues, writes, count>>
      BY <1>5 DEF StartLocks
    <2>2. SameRuns /\ SavesOnly(n)
      BY <1>1, <2>1, NothingSavesOnly DEF SameRuns, TypeOK
    <2> QED BY <1>1, <1>2, <1>3, <2>1, <2>2, QuietKeeps
  <1> QED BY <1>4, <1>5

LEMMA HeldStays ==
  ASSUME Held, lock' = lock,
         \A m \in Nirux, q \in Project, r \in Repository : On(m, q, r)' => On(m, q, r),
         \A m \in Nirux, i \in Nat, r \in Repository : LetsAt(m, i, r)' => LetsAt(m, i, r),
         \A m \in Nirux, r \in Repository : Marks(m, r)' => Marks(m, r)
  PROVE  Held'
  BY DEF Held, RunsAlone, LetsAlone, MarksAlone

\* The release of a queue that ended is the last thing its process is asked.
LEMMA LastWritesLetsLast ==
  ASSUME TypeOK, NEW n \in Nirux, NEW p \in Project, NEW r0 \in Repository,
         NEW s \in SavedQueue, Asks(n, LastWrites(p, s, r0))
  PROVE  /\ writes' \in [Nirux -> Seq(Write)]
         /\ \A m \in Nirux, i \in Nat, r \in Repository :
              LetsAt(m, i, r)' => \/ LetsAt(m, i, r)
                                  \/ m = n /\ r = r0 /\ i = Len(writes[n]) + 2
  <1> DEFINE a == Saves(p, s)
             b == Lets(p, r0)
             ws == <<a, b>>
  <1>1. a \in Write /\ a.lets = None /\ b \in Write /\ b.lets = r0
    BY SaveIsWrite, LetIsWrite
  <1>2. Asks(n, ws)
    BY DEF LastWrites
  <1> HIDE DEF a, b
  <1>3. ws \in Seq(Write) /\ Len(ws) = 2 /\ ws[1] = a /\ ws[2] = b
    BY <1>1
  <1> HIDE DEF ws
  <1>4. /\ writes' \in [Nirux -> Seq(Write)]
        /\ \A m \in Nirux \ {n} : writes'[m] = writes[m]
        /\ DOMAIN writes[n] = 1..Len(writes[n])
        /\ DOMAIN writes'[n] = 1..(Len(writes[n]) + Len(ws))
        /\ \A i \in 1..(Len(writes[n]) + Len(ws)) :
             writes'[n][i] = IF i <= Len(writes[n]) THEN writes[n][i]
                                                    ELSE ws[i - Len(writes[n])]
    BY <1>2, <1>3, AsksAfter
  <1>5. Len(writes[n]) \in Nat
    BY LenProperties DEF TypeOK
  <1>6. ASSUME NEW i \in Nat, NEW r \in Repository, LetsAt(n, i, r)'
        PROVE  LetsAt(n, i, r) \/ (r = r0 /\ i = Len(writes[n]) + 2)
    <2>1. i \in 1..(Len(writes[n]) + 2) /\ writes'[n][i].lets = r
      BY <1>3, <1>4, <1>6 DEF LetsAt
    <2>2. CASE i <= Len(writes[n])
      BY <1>3, <1>4, <1>5, <2>1, <2>2 DEF LetsAt
    <2>3. CASE i = Len(writes[n]) + 1
      <3>1. writes'[n][i] = ws[1]
        <4>1. /\ i \in 1..(Len(writes[n]) + Len(ws))
              /\ ~(i <= Len(writes[n])) /\ i - Len(writes[n]) = 1
          BY <1>3, <1>5, <2>1, <2>3
        <4> QED BY <1>4, <4>1
      <3> QED BY <1>1, <1>3, <2>1, <3>1, NoneAssumption
    <2>4. CASE i = Len(writes[n]) + 2
      <3>1. writes'[n][i] = ws[2]
        <4>1. /\ i \in 1..(Len(writes[n]) + Len(ws))
              /\ ~(i <= Len(writes[n])) /\ i - Len(writes[n]) = 2
          BY <1>3, <1>5, <2>1, <2>4
        <4> QED BY <1>4, <4>1
      <3> QED BY <1>1, <1>3, <2>1, <2>4, <3>1
    <2> QED BY <1>5, <2>1, <2>2, <2>3, <2>4
  <1> QED BY <1>4, <1>6 DEF LetsAt

LEMMA StepKeeps ==
  ASSUME IInv, NEW n \in Nirux, NEW p \in Project, Step(n, p)
  PROVE  IInv'
  <1>1. TypeOK /\ queues[n][p] \in Controller /\ queues[n][p].run \in Run
        /\ UNCHANGED <<board, file, lock, up, main, count, lost, open>>
    BY DEF IInv, TypeOK, Step, Controller
  <1>2. PICK run \in After(queues[n][p].run) :
          Updates(n, p, [queues[n][p] EXCEPT !.run = run])
    BY DEF Step
  <1>3. run \in Run /\ run.phase # "idle" /\ IsActive(queues[n][p].run)
    BY <1>1, AfterIsRun
  <1>4. PICK r0 \in Repository :
          queues[n][p].number \in Number /\ r0 = queues[n][p].repository
    BY <1>3 DEF IInv, Numbered
  <1> DEFINE c == [queues[n][p] EXCEPT !.run = run]
  <1>5. c \in Controller /\ c.run = run /\ c.number = queues[n][p].number
        /\ c.repository = r0
    BY <1>1, <1>3, <1>4 DEF Controller
  <1>6. Updates(n, p, c)
    BY <1>2
  <1>7. On(n, p, r0)
    BY <1>3, <1>4 DEF On
  <1>8. SavedNow(c) \in SavedQueue
    BY <1>3, <1>4, <1>5, SavedNowIsSaved
  <1> HIDE DEF c
  <1>9. /\ queues' \in [Nirux -> [Project -> Controller]]
        /\ \A m \in Nirux, q \in Project :
             <<m, q>> # <<n, p>> => queues'[m][q] = queues[m][q]
        /\ queues'[n][p].run = run /\ queues'[n][p].number = queues[n][p].number
        /\ queues'[n][p].repository = r0
        /\ \/ SavesOnly(n)
           \/ /\ ~IsActive(run) /\ ~DryRun
              /\ Asks(n, LastWrites(p, SavedNow(c), r0))
    <2>1. c.run.phase # "idle" /\ c.number \in Number /\ c.repository \in Repository
      BY <1>3, <1>4, <1>5
    <2> QED BY <1>1, <1>5, <1>6, <2>1, UpdatesPut
  <1>10. Numbered' /\ Threaded'
    BY <1>1, <1>4, <1>9 DEF IInv, Numbered, Threaded
  <1>11. /\ \A m \in Nirux, q \in Project, r \in Repository : On(m, q, r)' => On(m, q, r)
         /\ \A m \in Nirux, r \in Repository : Marks(m, r)' => Marks(m, r)
    BY <1>1, <1>3, <1>4, <1>9 DEF On, Marks
  <1>12. CASE SavesOnly(n)
    <2>1. TypeOK'
      BY <1>1, <1>9, <1>12 DEF TypeOK, SavesOnly
    <2>2. Held'
      BY <1>1, <1>11, <1>12, HeldStays DEF IInv, SavesOnly
    <2> QED BY <1>10, <2>1, <2>2 DEF IInv
  <1>13. CASE /\ ~IsActive(run) /\ ~DryRun
              /\ Asks(n, LastWrites(p, SavedNow(c), r0))
    <2>1. /\ writes' \in [Nirux -> Seq(Write)]
          /\ \A m \in Nirux, i \in Nat, r \in Repository :
               LetsAt(m, i, r)' => \/ LetsAt(m, i, r)
                                   \/ m = n /\ r = r0 /\ i = Len(writes[n]) + 2
      BY <1>1, <1>4, <1>8, <1>13, LastWritesLetsLast
    <2>2. TypeOK'
      BY <1>1, <1>9, <2>1 DEF TypeOK
    <2>3. RunsAlone /\ LetsAlone /\ MarksAlone
      BY <1>13 DEF IInv, Held
    <2>4. /\ lock[r0] = n
          /\ \A q \in Project : ~On(n, q, r0)'
          /\ \A i \in Nat : ~LetsAt(n, i, r0)
          /\ ~Marks(n, r0)
      <3>1. lock[r0] = n /\ \A q \in Project : On(n, q, r0) => q = p
        BY <1>4, <1>7, <2>3 DEF RunsAlone
      <3>2. ~On(n, p, r0)'
        BY <1>9, <1>13 DEF On
      <3> QED BY <1>4, <1>7, <1>11, <2>3, <3>1, <3>2 DEF LetsAlone, MarksAlone
    <2>5. RunsAlone'
      BY <1>1, <1>11, <2>3 DEF RunsAlone
    <2>6. LetsAlone'
      <3> SUFFICES ASSUME NEW m \in Nirux, NEW r \in Repository, NEW i \in Nat,
                          LetsAt(m, i, r)'
                   PROVE  /\ lock'[r] = m
                          /\ \A q \in Project : ~On(m, q, r)'
                          /\ \A j \in Nat : LetsAt(m, j, r)' => j = i
        BY DEF LetsAlone
      <3>1. CASE m = n /\ r = r0
        BY <1>1, <1>4, <2>1, <2>4, <3>1
      <3>2. CASE ~(m = n /\ r = r0)
        BY <1>1, <1>11, <2>1, <2>3, <3>2 DEF LetsAlone
      <3> QED BY <3>1, <3>2
    <2>7. MarksAlone'
      <3> SUFFICES ASSUME NEW m \in Nirux, NEW r \in Repository, Marks(m, r)'
                   PROVE  /\ lock'[r] = m
                          /\ \A q \in Project : ~On(m, q, r)'
                          /\ \A i \in Nat : ~LetsAt(m, i, r)'
        BY DEF MarksAlone
      <3>1. Marks(m, r) /\ ~(m = n /\ r = r0)
        BY <1>11, <2>4
      <3> QED BY <1>1, <1>11, <2>1, <2>3, <3>1 DEF MarksAlone
    <2> QED BY <1>10, <2>2, <2>5, <2>6, <2>7 DEF IInv, Held
  <1> QED BY <1>9, <1>12, <1>13

-----------------------------------------------------------------------------
(* The file queue, the board and the end of a process *)

LEMMA FileQueueKeeps ==
  ASSUME IInv, NEW n \in Nirux, FileQueue(n)
  PROVE  IInv'
  <1> DEFINE w == Head(writes[n])
             rest == Tail(writes[n])
  <1>1. /\ TypeOK /\ writes[n] \in Seq(Write) /\ writes[n] # <<>>
        /\ writes' = [writes EXCEPT ![n] = rest]
        /\ UNCHANGED <<board, up, main, queues, open>>
    BY DEF FileQueue, IInv, TypeOK
  <1>2. /\ w = writes[n][1] /\ w \in Write /\ rest \in Seq(Write)
        /\ Len(rest) = Len(writes[n]) - 1
        /\ \A i \in 1..(Len(writes[n]) - 1) : rest[i] = writes[n][i + 1]
        /\ Len(writes[n]) \in Nat /\ Len(writes[n]) >= 1
        /\ DOMAIN writes[n] = 1..Len(writes[n]) /\ DOMAIN rest = 1..Len(rest)
    BY <1>1, HeadTailProperties, LenProperties, EmptySeq
  <1>3. IF w.saved = None
        THEN lock' = [lock EXCEPT ![w.lets] = None] /\ UNCHANGED <<file, count, lost>>
        ELSE /\ \/ file' = [file EXCEPT ![w.project] = w.saved]
                   /\ UNCHANGED <<count, lost>>
                \/ /\ Happens("fails", MaxFails)
                   /\ lost' = lost \cup {w.saved.number}
                   /\ UNCHANGED file
             /\ UNCHANGED lock
    BY DEF FileQueue
  <1>4. /\ w.project \in Project
        /\ w.saved = None => w.lets \in Repository
        /\ w.saved # None => w.saved \in SavedQueue /\ w.saved.number \in Number
    BY <1>2, NoneAssumption DEF Write, SavedQueue
  <1> HIDE DEF w, rest
  <1>5. writes' \in [Nirux -> Seq(Write)]
    BY <1>1, <1>2 DEF TypeOK
  <1>6. file' \in [Project -> SavedQueue \cup {None}]
    BY <1>1, <1>3, <1>4 DEF TypeOK
  <1>7. lost' \subseteq Number
    BY <1>1, <1>3, <1>4 DEF TypeOK
  <1>8. count' \in [Bounded -> Nat]
    BY <1>1, <1>3 DEF TypeOK, Happens, Bounded
  <1>9. lock' \in [Repository -> Nirux \cup {None}]
    BY <1>1, <1>3, <1>4 DEF TypeOK
  <1>10. TypeOK'
    BY <1>1, <1>5, <1>6, <1>7, <1>8, <1>9 DEF TypeOK
  <1>11. Numbered' /\ Threaded'
    BY <1>1 DEF IInv, Numbered, Threaded
  <1>12. /\ \A m \in Nirux, q \in Project, r \in Repository : On(m, q, r)' <=> On(m, q, r)
         /\ \A m \in Nirux, r \in Repository : Marks(m, r)' <=> Marks(m, r)
    BY <1>1 DEF On, Marks
  <1>13. /\ \A i \in Nat, r \in Repository :
              LetsAt(n, i, r)' => i >= 1 /\ LetsAt(n, i + 1, r)
         /\ \A m \in Nirux \ {n}, i \in Nat, r \in Repository :
              LetsAt(m, i, r)' => LetsAt(m, i, r)
    <2>1. writes'[n] = rest /\ \A m \in Nirux \ {n} : writes'[m] = writes[m]
      BY <1>1 DEF TypeOK
    <2> QED BY <1>2, <2>1 DEF LetsAt
  <1>14. ASSUME ~DryRun
         PROVE  RunsAlone' /\ LetsAlone' /\ MarksAlone'
    <2>1. RunsAlone /\ LetsAlone /\ MarksAlone
      BY <1>14 DEF IInv, Held
    <2>2. CASE w.saved = None
      <3>0. PICK r0 \in Repository : r0 = w.lets
        BY <1>4, <2>2
      <3>1. /\ LetsAt(n, 1, r0)
            /\ \A r \in Repository \ {r0} : lock'[r] = lock[r]
        BY <1>1, <1>2, <1>3, <2>2, <3>0 DEF LetsAt, TypeOK
      <3>2. /\ lock[r0] = n
            /\ \A q \in Project : ~On(n, q, r0)
            /\ \A j \in Nat : LetsAt(n, j, r0) => j = 1
            /\ ~Marks(n, r0)
        BY <2>1, <3>1 DEF LetsAlone, MarksAlone
      <3>3. \A m \in Nirux :
              /\ \A q \in Project : ~On(m, q, r0)
              /\ \A j \in Nat : ~LetsAt(m, j, r0)'
              /\ ~Marks(m, r0)
        <4> SUFFICES ASSUME NEW m \in Nirux
                     PROVE  /\ \A q \in Project : ~On(m, q, r0)
                            /\ \A j \in Nat : ~LetsAt(m, j, r0)'
                            /\ ~Marks(m, r0)
          OBVIOUS
        <4>1. CASE m = n
          BY <1>13, <3>1, <3>2, <4>1
        <4>2. CASE m # n
          BY <1>13, <2>1, <3>1, <3>2, <4>2 DEF RunsAlone, LetsAlone, MarksAlone
        <4> QED BY <4>1, <4>2
      <3>4. RunsAlone'
        BY <1>12, <2>1, <3>1, <3>3 DEF RunsAlone
      <3>5. LetsAlone'
        <4> SUFFICES ASSUME NEW m \in Nirux, NEW r \in Repository, NEW i \in Nat,
                            LetsAt(m, i, r)'
                     PROVE  /\ lock'[r] = m
                            /\ \A q \in Project : ~On(m, q, r)'
                            /\ \A j \in Nat : LetsAt(m, j, r)' => j = i
          BY DEF LetsAlone
        <4>1. r # r0 /\ lock'[r] = lock[r]
          BY <3>1, <3>3
        <4>2. CASE m = n
          BY <1>12, <1>13, <2>1, <4>1, <4>2 DEF LetsAlone
        <4>3. CASE m # n
          BY <1>12, <1>13, <2>1, <4>1, <4>3 DEF LetsAlone
        <4> QED BY <4>2, <4>3
      <3>6. MarksAlone'
        <4> SUFFICES ASSUME NEW m \in Nirux, NEW r \in Repository, Marks(m, r)'
                     PROVE  /\ lock'[r] = m
                            /\ \A q \in Project : ~On(m, q, r)'
                            /\ \A i \in Nat : ~LetsAt(m, i, r)'
          BY DEF MarksAlone
        <4>1. Marks(m, r) /\ r # r0 /\ lock'[r] = lock[r]
          BY <1>12, <3>1, <3>3
        <4> QED BY <1>12, <1>13, <2>1, <4>1 DEF MarksAlone
      <3> QED BY <3>4, <3>5, <3>6
    <2>3. CASE w.saved # None
      <3>1. lock' = lock
        BY <1>3, <2>3
      <3>2. RunsAlone' /\ MarksAlone'
        BY <1>12, <1>13, <2>1, <3>1 DEF RunsAlone, MarksAlone
      <3>3. LetsAlone'
        <4> SUFFICES ASSUME NEW m \in Nirux, NEW r \in Repository, NEW i \in Nat,
                            LetsAt(m, i, r)'
                     PROVE  /\ lock'[r] = m
                            /\ \A q \in Project : ~On(m, q, r)'
                            /\ \A j \in Nat : LetsAt(m, j, r)' => j = i
          BY DEF LetsAlone
        <4>2. CASE m = n
          BY <1>12, <1>13, <2>1, <3>1, <4>2 DEF LetsAlone
        <4>3. CASE m # n
          BY <1>12, <1>13, <2>1, <3>1, <4>3 DEF LetsAlone
        <4> QED BY <4>2, <4>3
      <3> QED BY <3>2, <3>3
    <2> QED BY <2>2, <2>3
  <1> QED BY <1>10, <1>11, <1>14 DEF IInv, Held

LEMMA MoveBoardKeeps ==
  ASSUME IInv, NEW p \in Project, MoveBoard(p)
  PROVE  IInv'
  <1>1. /\ TypeOK /\ Happens("moves", MaxMoves)
        /\ UNCHANGED <<file, lock, up, main, writes, queues, lost, open>>
    BY DEF MoveBoard, IInv
  <1>2. board' \in [Project -> Repository]
    BY <1>1 DEF MoveBoard, TypeOK
  <1>3. count' \in [Bounded -> Nat]
    BY <1>1 DEF Happens, TypeOK, Bounded
  <1>4. TypeOK'
    BY <1>1, <1>2, <1>3 DEF TypeOK
  <1>5. Numbered' /\ Threaded'
    BY <1>1 DEF IInv, Numbered, Threaded
  <1>6. Held'
    BY <1>1, HeldStays DEF IInv, On, LetsAt, Marks
  <1> QED BY <1>4, <1>5, <1>6 DEF IInv

\* The kernel lets the locks of a process go; nothing of it is left to hold one.
LEMMA DiesKeeps ==
  ASSUME IInv, NEW n \in Nirux, NEW b \in Bounded, NEW max, Happens(b, max), Dies(n),
         open' = open \/ open' = open \cup CallsOut(n)
  PROVE  IInv'
  <1>1. TypeOK
    BY DEF IInv
  <1>2. /\ main' \in [Nirux -> Thread] /\ main'[n].at = "free"
        /\ \A m \in Nirux \ {n} : main'[m] = main[m]
    <2>1. Free \in Thread /\ Free.at = "free"
      BY DEF Free, Thread
    <2> QED BY <1>1, <2>1 DEF Dies, TypeOK
  <1>3. /\ queues' \in [Nirux -> [Project -> Controller]]
        /\ \A q \in Project : ~IsActive(queues'[n][q].run)
        /\ \A m \in Nirux \ {n} : queues'[m] = queues[m]
    <2> DEFINE gone == [q \in Project |-> NoController]
    <2>1. NoController \in Controller /\ ~IsActive(NoController.run)
      BY DEF NoController, Controller, Idle, Run, RunPhase, Call, IsActive
    <2>2. gone \in [Project -> Controller] /\ \A q \in Project : ~IsActive(gone[q].run)
      BY <2>1
    <2>3. queues' = [queues EXCEPT ![n] = gone]
      BY DEF Dies
    <2> HIDE DEF gone
    <2> QED BY <1>1, <2>2, <2>3 DEF TypeOK
  <1>4. /\ writes' \in [Nirux -> Seq(Write)] /\ writes'[n] = <<>>
        /\ \A m \in Nirux \ {n} : writes'[m] = writes[m]
    BY <1>1 DEF Dies, TypeOK
  <1>5. /\ lock' \in [Repository -> Nirux \cup {None}]
        /\ \A r \in Repository : lock[r] # n => lock'[r] = lock[r]
    BY <1>1 DEF Dies, TypeOK
  <1>6. {queues[n][p].number : p \in ActiveIn(n)} \subseteq Number
    BY DEF ActiveIn, IInv, Numbered
  <1>7. {writes[n][i].saved.number :
           i \in {j \in DOMAIN writes[n] : writes[n][j].saved # None}} \subseteq Number
    <2>1. \A i \in DOMAIN writes[n] : writes[n][i] \in Write
      <3>1. writes[n] \in Seq(Write)
        BY <1>1 DEF TypeOK
      <3> QED BY <3>1, LenProperties, ElementOfSeq
    <2> QED BY <2>1 DEF Write, SavedQueue
  <1>8. CallsOut(n) \subseteq Number
    BY DEF CallsOut, ActiveIn, IInv, Numbered
  <1>9. TypeOK'
    <2>1. lost' \subseteq Number /\ open' \subseteq Number
      BY <1>1, <1>6, <1>7, <1>8 DEF Dies, TypeOK
    <2>2. count' \in [Bounded -> Nat]
      BY <1>1 DEF Happens, TypeOK
    <2>3. /\ up' \in [Nirux -> BOOLEAN] /\ board' \in [Project -> Repository]
          /\ file' \in [Project -> SavedQueue \cup {None}]
      BY <1>1 DEF Dies, TypeOK
    <2> QED BY <1>2, <1>3, <1>4, <1>5, <2>1, <2>2, <2>3 DEF TypeOK
  <1>10. Numbered' /\ Threaded'
    BY <1>2, <1>3 DEF IInv, Numbered, Threaded
  <1>11. /\ \A m \in Nirux, q \in Project, r \in Repository :
              On(m, q, r)' => On(m, q, r) /\ m # n
         /\ \A m \in Nirux, i \in Nat, r \in Repository :
              LetsAt(m, i, r)' => LetsAt(m, i, r) /\ m # n
         /\ \A m \in Nirux, r \in Repository : Marks(m, r)' => Marks(m, r) /\ m # n
    BY <1>2, <1>3, <1>4 DEF On, LetsAt, Marks
  <1>12. Held'
    BY <1>5, <1>11 DEF IInv, Held, RunsAlone, LetsAlone, MarksAlone
  <1> QED BY <1>9, <1>10, <1>12 DEF IInv

LEMMA LaunchKeeps ==
  ASSUME IInv, NEW n \in Nirux, Launch(n)
  PROVE  IInv'
  <1>1. TypeOK'
    BY DEF IInv, Launch, TypeOK
  <1>2. Numbered' /\ Threaded'
    BY DEF IInv, Launch, Numbered, Threaded
  <1>3. Held'
    BY HeldStays DEF IInv, Launch, On, LetsAt, Marks
  <1> QED BY <1>1, <1>2, <1>3 DEF IInv

-----------------------------------------------------------------------------
(* Theorems *)

LEMMA InitInvariant == Init => IInv
  <1> SUFFICES ASSUME Init PROVE IInv
    OBVIOUS
  <1>1. NoController \in Controller /\ ~IsActive(NoController.run)
    BY DEF NoController, Controller, Idle, Run, RunPhase, Call, IsActive
  <1>2. Free \in Thread /\ Free.at = "free"
    BY DEF Free, Thread
  <1>3. TypeOK
    BY <1>1, <1>2, BoardsAssumption DEF Init, TypeOK
  <1>4. /\ \A n \in Nirux, p \in Project : ~IsActive(queues[n][p].run)
        /\ \A n \in Nirux : main[n].at = "free"
    BY <1>1, <1>2 DEF Init
  <1>5. \A n \in Nirux : DOMAIN writes[n] = {}
    BY DEF Init
  <1> QED BY <1>3, <1>4, <1>5 DEF IInv, Numbered, Threaded, Held, RunsAlone, LetsAlone,
               MarksAlone, On, LetsAt, Marks

LEMMA NextInvariant == IInv /\ [Next]_vars => IInv'
  <1> SUFFICES ASSUME IInv, [Next]_vars PROVE IInv'
    OBVIOUS
  <1>1. CASE UNCHANGED vars
    <2>1. TypeOK'
      BY <1>1 DEF vars, IInv, TypeOK
    <2>2. Numbered' /\ Threaded'
      BY <1>1 DEF vars, IInv, Numbered, Threaded
    <2>3. Held'
      BY <1>1, HeldStays DEF vars, IInv, On, LetsAt, Marks
    <2> QED BY <2>1, <2>2, <2>3 DEF IInv
  <1>2. ASSUME NEW n \in Nirux, NEW p \in Project,
               Make(n, p) \/ Reload(n, p) \/ Start(n, p) \/ Step(n, p)
        PROVE  IInv'
    BY <1>2, MakeKeeps, ReloadKeeps, StartKeeps, StepKeeps
  <1>3. ASSUME NEW n \in Nirux, Restoring(n) \/ StartLocks(n) \/ FileQueue(n)
        PROVE  IInv'
    BY <1>3, RestoreLocksKeeps, RestoreReadsKeeps, RestoreEndsKeeps, StartLocksKeeps,
       FileQueueKeeps DEF Restoring
  <1>4. ASSUME NEW n \in Nirux, Crash(n) \/ Quit(n) \/ Launch(n)
        PROVE  IInv'
    BY <1>4, DiesKeeps, LaunchKeeps DEF Crash, Quit, Bounded
  <1>5. ASSUME NEW p \in Project, MoveBoard(p)
        PROVE  IInv'
    BY <1>5, MoveBoardKeeps
  <1> QED BY <1>1, <1>2, <1>3, <1>4, <1>5 DEF Next

\* The inductive invariant: a process that holds a repository's lock does for
\* one reason, and a queue, its release and a restore each have the lock
\* (MergeQueueController.start, finish and restore).
THEOREM Invariant == Spec => []IInv
  BY InitInvariant, NextInvariant, PTL DEF Spec

\* The controllers, the saved queues and the file queues keep their types: what
\* waits to be written is a queue that started, for a repository.
THEOREM TypeCorrect == Spec => []TypeOK
  <1>1. IInv => TypeOK
    BY DEF IInv
  <1> QED BY <1>1, Invariant, PTL

\* One live queue per repository, for any number of processes, projects,
\* crashes and failed writes, and whatever Board Settings say meanwhile.
THEOREM OneQueue == Spec => []OneQueuePerRepository
  <1>1. IInv => OneQueuePerRepository
    <2> SUFFICES ASSUME IInv, ~DryRun, NEW q1 \in Queues, NEW q2 \in Queues,
                        IsActive(RunOf(q1)), IsActive(RunOf(q2)),
                        RepositoryOf(q1) = RepositoryOf(q2)
                 PROVE  q1 = q2
      BY DEF OneQueuePerRepository
    <2>1. PICK n1 \in Nirux, p1 \in Project : q1 = <<n1, p1>>
      BY DEF Queues
    <2>2. PICK n2 \in Nirux, p2 \in Project : q2 = <<n2, p2>>
      BY DEF Queues
    <2>3. PICK r \in Repository : r = queues[n1][p1].repository
      BY <2>1 DEF IInv, Numbered, RunOf
    <2>4. On(n1, p1, r) /\ On(n2, p2, r)
      BY <2>1, <2>2, <2>3 DEF On, RunOf, RepositoryOf
    <2>5. lock[r] = n1 /\ lock[r] = n2
      BY <2>4 DEF IInv, Held, RunsAlone
    <2> QED BY <2>1, <2>2, <2>4, <2>5 DEF IInv, Held, RunsAlone
  <1> QED BY <1>1, Invariant, PTL

-----------------------------------------------------------------------------
(* What the file of a project says, while boards keep their repository *)

\* A controller that runs saved what it is; one that shows a running queue it
\* doesn't run knows that the queue runs elsewhere.
SavedIsNow ==
    \A n \in Nirux, p \in Project :
        LET c == queues[n][p]
        IN /\ IsActive(c.run) => c.made /\ c.saved = SavedNow(c)
           /\ ~IsActive(c.run) /\ c.saved # None /\ IsRunning(c.saved) => c.runsElsewhere

\* A main thread in the middle of something doesn't run that project's queue.
ThreadRests ==
    \A n \in Nirux : main[n].at # "free" =>
        /\ ~IsActive(queues[n][main[n].project].run)
        /\ main[n].at = "start" => /\ queues[n][main[n].project].made
                                 /\ ~queues[n][main[n].project].runsElsewhere
        /\ main[n].at \in {"lock", "read"} => file[main[n].project] # None

\* A save of p's queue waits on the file queue, at place i.
Saving(n, i, p) ==
    /\ i \in DOMAIN writes[n]
    /\ writes[n][i].project = p /\ writes[n][i].saved # None

\* Queue k of p runs here; or it ended here, and its last save waits, with the
\* lock's release behind it.
RunsHere(n, p, k) == IsActive(queues[n][p].run) /\ queues[n][p].number = k

EndsAt(n, i, p, k) ==
    /\ Saving(n, i, p)
    /\ writes[n][i].saved.number = k /\ ~IsRunning(writes[n][i].saved)
    /\ LetsAt(n, i + 1, board[p])

\* All that is known of a project names the board's repository.
OneBoard ==
    /\ \A p \in Project : file[p] # None => file[p].repository = board[p]
    /\ \A n \in Nirux, p \in Project :
         IsActive(queues[n][p].run) => queues[n][p].repository = board[p]
    /\ \A n \in Nirux : main[n].at # "free" => main[n].repository = board[main[n].project]
    /\ \A n \in Nirux, i \in Nat, p \in Project :
         Saving(n, i, p) => writes[n][i].saved.repository = board[p]

\* A save waits only where the lock is held, until it is written.
SavesLocked ==
    \A n \in Nirux, i \in Nat, p \in Project : Saving(n, i, p) =>
        /\ lock[board[p]] = n
        /\ \/ \E q \in Project : On(n, q, board[p])
           \/ \E j \in Nat : j > i /\ LetsAt(n, j, board[p])
           \/ main[n].at = "flush" /\ main[n].repository = board[p]

\* A queue the file calls running, and that wasn't killed, runs, or ended and
\* says so soon.
RunningRuns ==
    \A p \in Project :
        file[p] # None /\ IsRunning(file[p]) /\ file[p].number \notin lost =>
            \E n \in Nirux : \/ RunsHere(n, p, file[p].number)
                             \/ \E i \in Nat : EndsAt(n, i, p, file[p].number)

SavingRuns ==
    \A n \in Nirux, i \in Nat, p \in Project :
        LET s == writes[n][i].saved
        IN Saving(n, i, p) /\ IsRunning(s) /\ s.number \notin lost =>
            \/ RunsHere(n, p, s.number)
            \/ \E j \in Nat : j > i /\ EndsAt(n, j, p, s.number)

\* Only a lost queue is, or will be, marked interrupted.
MarkedLost ==
    /\ OnlyKilledInterrupted
    /\ \A n \in Nirux, i \in Nat, p \in Project :
         Saving(n, i, p) /\ writes[n][i].saved.status = "interrupted"
            => writes[n][i].saved.number \in lost

LastSaving(n, i, p) == Saving(n, i, p) /\ \A j \in Nat : Saving(n, j, p) => j <= i

\* The last save of a queue that runs, or its file, is what it is.
LastSaveStands ==
    \A n \in Nirux, p \in Project :
        LET c == queues[n][p]
        IN IsActive(c.run) /\ c.number \notin lost =>
            /\ (\A i \in Nat : ~Saving(n, i, p)) => file[p] = c.saved
            /\ \A i \in Nat : LastSaving(n, i, p) => writes[n][i].saved = c.saved

\* In a live build, while boards keep their repository.
Stays == ~DryRun /\ BoardsStay

Files ==
    /\ SavedIsNow /\ ThreadRests
    /\ Stays => /\ OneBoard /\ SavesLocked /\ RunningRuns /\ SavingRuns
                /\ MarkedLost /\ LastSaveStands

-----------------------------------------------------------------------------
(* The parts that the proof of it is made of *)

\* What a save that is asked for adds.
LEMMA AddsSave ==
  ASSUME TypeOK, NEW n \in Nirux, NEW p \in Project, NEW s \in SavedQueue,
         Asks(n, <<Saves(p, s)>>)
  PROVE  /\ Len(writes[n]) \in Nat
         /\ \A m \in Nirux, i \in Nat, q \in Project :
              /\ Saving(m, i, q)' <=> \/ Saving(m, i, q)
                                      \/ m = n /\ i = Len(writes[n]) + 1 /\ q = p
              /\ Saving(m, i, q) => writes'[m][i] = writes[m][i]
              /\ Saving(n, i, q) => i <= Len(writes[n])
         /\ writes'[n][Len(writes[n]) + 1].saved = s
         /\ \A m \in Nirux, i \in Nat, r \in Repository : LetsAt(m, i, r)' <=> LetsAt(m, i, r)
  <1> DEFINE w == Saves(p, s)
             ws == <<w>>
             len == Len(writes[n])
  <1>1. w \in Write /\ w.lets = None /\ w.project = p /\ w.saved = s /\ s # None
    BY SaveIsWrite, NoneAssumption DEF Saves
  <1> HIDE DEF w
  <1>2. ws \in Seq(Write) /\ Len(ws) = 1 /\ ws[1] = w
    BY <1>1
  <1>3. Asks(n, ws)
    BY DEF w
  <1> HIDE DEF ws
  <1>4. /\ \A m \in Nirux \ {n} : writes'[m] = writes[m]
        /\ DOMAIN writes[n] = 1..len /\ DOMAIN writes'[n] = 1..(len + Len(ws))
        /\ \A i \in 1..(len + Len(ws)) :
             writes'[n][i] = IF i <= len THEN writes[n][i] ELSE ws[i - len]
    BY <1>2, <1>3, AsksAfter
  <1>5. len \in Nat
    BY LenProperties DEF TypeOK
  <1>6. writes'[n][len + 1] = w
    <2>1. len + 1 \in 1..(len + 1) /\ ~(len + 1 <= len) /\ (len + 1) - len = 1
      BY <1>5
    <2> QED BY <1>2, <1>4, <2>1
  <1>7. \A i \in 1..len : writes'[n][i] = writes[n][i]
    BY <1>4, <1>5
  <1> HIDE DEF len
  <1>8. \A i \in Nat, q \in Project :
          /\ Saving(n, i, q)' <=> Saving(n, i, q) \/ (i = len + 1 /\ q = p)
          /\ Saving(n, i, q) => writes'[n][i] = writes[n][i] /\ i <= len
    BY <1>1, <1>2, <1>4, <1>5, <1>6, <1>7 DEF Saving
  <1>9. \A m \in Nirux \ {n}, i \in Nat, q \in Project :
          /\ Saving(m, i, q)' <=> Saving(m, i, q)
          /\ writes'[m][i] = writes[m][i]
    BY <1>4 DEF Saving
  <1>10. SavesOnly(n)
    BY SavingSavesOnly
  <1> QED BY <1>1, <1>5, <1>6, <1>8, <1>9, <1>10 DEF len, SavesOnly

\* What the end of a queue adds: its last save, and the release behind it.
LEMMA AddsLast ==
  ASSUME TypeOK, NEW n \in Nirux, NEW p \in Project, NEW s \in SavedQueue,
         NEW r0 \in Repository, Asks(n, LastWrites(p, s, r0))
  PROVE  /\ Len(writes[n]) \in Nat
         /\ \A m \in Nirux, i \in Nat, q \in Project :
              /\ Saving(m, i, q)' <=> \/ Saving(m, i, q)
                                      \/ m = n /\ i = Len(writes[n]) + 1 /\ q = p
              /\ Saving(m, i, q) => writes'[m][i] = writes[m][i]
              /\ Saving(n, i, q) => i <= Len(writes[n])
         /\ writes'[n][Len(writes[n]) + 1].saved = s
         /\ \A m \in Nirux, i \in Nat, r \in Repository :
              /\ LetsAt(m, i, r)' <=> \/ LetsAt(m, i, r)
                                      \/ m = n /\ i = Len(writes[n]) + 2 /\ r = r0
  <1> DEFINE a == Saves(p, s)
             b == Lets(p, r0)
             ws == <<a, b>>
             len == Len(writes[n])
  <1>1. /\ a \in Write /\ a.lets = None /\ a.project = p /\ a.saved = s /\ s # None
        /\ b \in Write /\ b.lets = r0 /\ b.saved = None /\ r0 # None
    BY SaveIsWrite, LetIsWrite, NoneAssumption DEF Saves, Lets
  <1>2. Asks(n, ws)
    BY DEF LastWrites
  <1> HIDE DEF a, b
  <1>3. ws \in Seq(Write) /\ Len(ws) = 2 /\ ws[1] = a /\ ws[2] = b
    BY <1>1
  <1> HIDE DEF ws
  <1>4. /\ \A m \in Nirux \ {n} : writes'[m] = writes[m]
        /\ DOMAIN writes[n] = 1..len /\ DOMAIN writes'[n] = 1..(len + Len(ws))
        /\ \A i \in 1..(len + Len(ws)) :
             writes'[n][i] = IF i <= len THEN writes[n][i] ELSE ws[i - len]
    BY <1>2, <1>3, AsksAfter
  <1>5. len \in Nat
    BY LenProperties DEF TypeOK
  <1>6. writes'[n][len + 1] = a /\ writes'[n][len + 2] = b
    <2>1. /\ len + 1 \in 1..(len + 2) /\ ~(len + 1 <= len) /\ (len + 1) - len = 1
          /\ len + 2 \in 1..(len + 2) /\ ~(len + 2 <= len) /\ (len + 2) - len = 2
      BY <1>5
    <2> QED BY <1>3, <1>4, <2>1
  <1>7. \A i \in 1..len : writes'[n][i] = writes[n][i]
    BY <1>4, <1>5
  <1>8. \A i \in 1..(len + 2) : i <= len \/ i = len + 1 \/ i = len + 2
    BY <1>5
  <1> HIDE DEF len
  <1>9. \A i \in Nat, q \in Project :
          /\ Saving(n, i, q)' <=> Saving(n, i, q) \/ (i = len + 1 /\ q = p)
          /\ Saving(n, i, q) => writes'[n][i] = writes[n][i] /\ i <= len
    BY <1>1, <1>3, <1>4, <1>5, <1>6, <1>7, <1>8 DEF Saving
  <1>10. \A i \in Nat, r \in Repository :
          LetsAt(n, i, r)' <=> LetsAt(n, i, r) \/ (i = len + 2 /\ r = r0)
    BY <1>1, <1>3, <1>4, <1>5, <1>6, <1>7, <1>8, NoneAssumption DEF LetsAt
  <1>11. \A m \in Nirux \ {n}, i \in Nat, q \in Project :
          /\ Saving(m, i, q)' <=> Saving(m, i, q)
          /\ writes'[m][i] = writes[m][i]
    BY <1>4 DEF Saving
  <1>12. \A m \in Nirux \ {n}, i \in Nat, r \in Repository :
          LetsAt(m, i, r)' <=> LetsAt(m, i, r)
    BY <1>4 DEF LetsAt
  <1> QED BY <1>1, <1>5, <1>6, <1>9, <1>10, <1>11, <1>12 DEF len

\* What is left once the first of the writes was done.
LEMMA TakesFirst ==
  ASSUME TypeOK, NEW n \in Nirux, writes[n] # <<>>,
         writes' = [writes EXCEPT ![n] = Tail(@)]
  PROVE  /\ \A i \in Nat, q \in Project :
              /\ Saving(n, i, q)' <=> i >= 1 /\ Saving(n, i + 1, q)
              /\ Saving(n, i, q)' => writes'[n][i] = writes[n][i + 1]
              /\ Saving(n, i, q) => i >= 1
         /\ \A i \in Nat, r \in Repository : LetsAt(n, i, r)' <=> i >= 1 /\ LetsAt(n, i + 1, r)
         /\ \A m \in Nirux \ {n} : writes'[m] = writes[m]
         /\ Head(writes[n]) = writes[n][1] /\ 1 \in DOMAIN writes[n]
         /\ Head(writes[n]) \in Write
  <1> DEFINE rest == Tail(writes[n])
             len == Len(writes[n])
  <1>1. /\ rest \in Seq(Write) /\ Len(rest) = len - 1
        /\ \A i \in 1..(len - 1) : rest[i] = writes[n][i + 1]
        /\ len \in Nat /\ len >= 1 /\ Head(writes[n]) = writes[n][1]
        /\ Head(writes[n]) \in Write
        /\ DOMAIN writes[n] = 1..len /\ DOMAIN rest = 1..(len - 1)
    <2>1. writes[n] \in Seq(Write)
      BY DEF TypeOK
    <2> QED BY <2>1, HeadTailProperties, LenProperties, EmptySeq
  <1>2. writes'[n] = rest /\ \A m \in Nirux \ {n} : writes'[m] = writes[m]
    BY DEF TypeOK
  <1> HIDE DEF rest, len
  <1>3. \A i \in Nat : i \in DOMAIN rest <=> i >= 1 /\ i + 1 \in DOMAIN writes[n]
    BY <1>1
  <1>4. \A i \in DOMAIN rest : rest[i] = writes[n][i + 1]
    BY <1>1
  <1> QED BY <1>1, <1>2, <1>3, <1>4 DEF Saving, LetsAt

-----------------------------------------------------------------------------
(* Steps that keep what the files say *)

\* Runs go on as they were, and what they saved last with them.
RunsOn ==
    \A m \in Nirux, q \in Project :
        /\ queues'[m][q].run = queues[m][q].run
        /\ queues'[m][q].number = queues[m][q].number
        /\ queues'[m][q].repository = queues[m][q].repository
        /\ IsActive(queues[m][q].run) => queues'[m][q] = queues[m][q]

LEMMA RunsOnSame ==
  ASSUME RunsOn
  PROVE  /\ \A m \in Nirux, q \in Project, r \in Repository : On(m, q, r)' <=> On(m, q, r)
         /\ \A m \in Nirux, q \in Project : \A k : RunsHere(m, q, k)' <=> RunsHere(m, q, k)
  BY DEF RunsOn, On, RunsHere

\* A step that asks for no write and writes nothing.
LEMMA QuietFiles ==
  ASSUME TypeOK, Files, SavedIsNow', ThreadRests', RunsOn, Stays' => Stays,
         UNCHANGED <<board, file, writes, lost>>,
         \A m \in Nirux : main'[m].at # "free" /\ Stays
            => main'[m].repository = board[main'[m].project],
         \A m \in Nirux, i \in Nat, q \in Project : Saving(m, i, q) /\ Stays =>
            /\ lock'[board[q]] = lock[board[q]]
            /\ main[m].at = "flush" => main'[m] = main[m]
  PROVE  Files'
  <1> SUFFICES ASSUME Stays'
               PROVE  /\ OneBoard' /\ SavesLocked' /\ RunningRuns' /\ SavingRuns'
                      /\ MarkedLost' /\ LastSaveStands'
    BY DEF Files
  <1>1. OneBoard /\ SavesLocked /\ RunningRuns /\ SavingRuns /\ MarkedLost /\ LastSaveStands
    BY DEF Files
  <1>2. /\ \A m \in Nirux, i \in Nat, q \in Project : Saving(m, i, q)' <=> Saving(m, i, q)
        /\ \A m \in Nirux, i \in Nat, r \in Repository : LetsAt(m, i, r)' <=> LetsAt(m, i, r)
    BY DEF Saving, LetsAt
  <1>3. \A m \in Nirux, i \in Nat, q \in Project : \A k : EndsAt(m, i, q, k)' <=> EndsAt(m, i, q, k)
    BY <1>2 DEF EndsAt, LetsAt
  <1>4. OneBoard'
    BY <1>1, <1>2 DEF OneBoard, RunsOn
  <1>5. SavesLocked'
    <2> SUFFICES ASSUME NEW m \in Nirux, NEW i \in Nat, NEW q \in Project, Saving(m, i, q)
                 PROVE  /\ lock'[board[q]] = m
                        /\ \/ \E o \in Project : On(m, o, board[q])
                           \/ \E j \in Nat : j > i /\ LetsAt(m, j, board[q])
                           \/ main'[m].at = "flush" /\ main'[m].repository = board[q]
      BY <1>2 DEF SavesLocked, On, LetsAt, RunsOn
    <2> QED BY <1>1 DEF SavesLocked
  <1>6. RunningRuns'
    BY <1>1, <1>3, RunsOnSame DEF RunningRuns
  <1>7. SavingRuns'
    BY <1>1, <1>2, <1>3, RunsOnSame DEF SavingRuns
  <1>8. MarkedLost'
    BY <1>1, <1>2 DEF MarkedLost, OnlyKilledInterrupted
  <1>9. LastSaveStands'
    BY <1>1, <1>2 DEF LastSaveStands, LastSaving, RunsOn
  <1> QED BY <1>4, <1>5, <1>6, <1>7, <1>8, <1>9

\* A lost queue is marked where the lock is held, and its state waits to be written.
LEMMA MarkFiles ==
  ASSUME TypeOK, Files, SavedIsNow', ThreadRests', RunsOn, Stays' => Stays,
         UNCHANGED <<board, file, lock, lost>>,
         NEW n \in Nirux, NEW p \in Project, NEW s \in SavedQueue, Asks(n, <<Saves(p, s)>>),
         ~IsActive(queues[n][p].run), s.status = "interrupted",
         Stays => /\ s.repository = board[p] /\ s.number \in lost /\ lock[board[p]] = n
                  /\ \/ \E q \in Project : On(n, q, board[p])
                     \/ main'[n].at = "flush" /\ main'[n].repository = board[p],
         \A m \in Nirux : main'[m].at # "free" /\ Stays
            => main'[m].repository = board[main'[m].project],
         \A m \in Nirux : main[m].at = "flush" => main'[m] = main[m]
  PROVE  Files'
  <1> SUFFICES ASSUME Stays'
               PROVE  /\ OneBoard' /\ SavesLocked' /\ RunningRuns' /\ SavingRuns'
                      /\ MarkedLost' /\ LastSaveStands'
    BY DEF Files
  <1>1. OneBoard /\ SavesLocked /\ RunningRuns /\ SavingRuns /\ MarkedLost /\ LastSaveStands
    BY DEF Files
  <1>2. PICK len \in Nat :
        /\ \A m \in Nirux, i \in Nat, q \in Project :
             /\ Saving(m, i, q)' <=> Saving(m, i, q) \/ (m = n /\ i = len + 1 /\ q = p)
             /\ Saving(m, i, q) => writes'[m][i] = writes[m][i]
             /\ Saving(n, i, q) => i <= len
        /\ writes'[n][len + 1].saved = s
        /\ \A m \in Nirux, i \in Nat, r \in Repository : LetsAt(m, i, r)' <=> LetsAt(m, i, r)
    <2>1. Len(writes[n]) \in Nat
      BY AddsSave
    <2> WITNESS Len(writes[n]) \in Nat
    <2> QED BY AddsSave
  <1>3. \A q \in Project : board[q] \in Repository /\ board'[q] = board[q]
    BY DEF TypeOK
  <1>4. \A m \in Nirux, i \in Nat, q \in Project : \A k : EndsAt(m, i, q, k) => EndsAt(m, i, q, k)'
    BY <1>2, <1>3 DEF EndsAt
  <1>5. OneBoard'
    BY <1>1, <1>2, <1>3 DEF OneBoard, RunsOn
  <1>6. SavesLocked'
    <2> SUFFICES ASSUME NEW m \in Nirux, NEW i \in Nat, NEW q \in Project, Saving(m, i, q)'
                 PROVE  /\ lock[board[q]] = m
                        /\ \/ \E o \in Project : On(m, o, board[q])
                           \/ \E j \in Nat : j > i /\ LetsAt(m, j, board[q])
                           \/ main'[m].at = "flush" /\ main'[m].repository = board[q]
      BY <1>2, <1>3 DEF SavesLocked, On, LetsAt, RunsOn
    <2>1. CASE Saving(m, i, q)
      BY <1>1, <2>1 DEF SavesLocked
    <2>2. CASE m = n /\ q = p
      BY <2>2
    <2> QED BY <1>2, <2>1, <2>2
  <1>7. RunningRuns'
    BY <1>1, <1>4, RunsOnSame DEF RunningRuns
  <1>8. SavingRuns'
    BY <1>1, <1>2, <1>4, RunsOnSame DEF SavingRuns, IsRunning
  <1>9. MarkedLost'
    BY <1>1, <1>2 DEF MarkedLost, OnlyKilledInterrupted
  <1>10. LastSaveStands'
    <2> SUFFICES ASSUME NEW m \in Nirux, NEW q \in Project, IsActive(queues[m][q].run),
                        queues[m][q].number \notin lost
                 PROVE  /\ (\A i \in Nat : ~Saving(m, i, q)') => file[q] = queues[m][q].saved
                        /\ \A i \in Nat : LastSaving(m, i, q)' =>
                             writes'[m][i].saved = queues[m][q].saved
      BY DEF LastSaveStands, RunsOn
    <2>1. \A i \in Nat : /\ Saving(m, i, q)' <=> Saving(m, i, q)
                         /\ Saving(m, i, q) => writes'[m][i] = writes[m][i]
      BY <1>2
    <2> QED BY <1>1, <2>1 DEF LastSaveStands, LastSaving
  <1> QED BY <1>5, <1>6, <1>7, <1>8, <1>9, <1>10

\* A queue the file calls running is lost, once the lock is held for another reason.
LEMMA Lost ==
  ASSUME IInv, Files, Stays, NEW p \in Project, file[p] # None, IsRunning(file[p]),
         NEW n \in Nirux, lock[board[p]] = n, ~On(n, p, board[p]),
         \A i \in Nat : ~LetsAt(n, i, board[p])
  PROVE  file[p].number \in lost
  <1>1. RunsAlone /\ LetsAlone /\ board[p] \in Repository
    BY DEF IInv, Held, Stays, TypeOK
  <1>2. OneBoard /\ RunningRuns
    BY DEF Files
  <1> SUFFICES ASSUME file[p].number \notin lost
               PROVE  FALSE
    OBVIOUS
  <1>3. PICK m \in Nirux : \/ RunsHere(m, p, file[p].number)
                           \/ \E i \in Nat : EndsAt(m, i, p, file[p].number)
    BY <1>2 DEF RunningRuns
  <1>4. CASE RunsHere(m, p, file[p].number)
    <2>1. On(m, p, board[p])
      BY <1>2, <1>4 DEF RunsHere, OneBoard, On
    <2> QED BY <1>1, <2>1 DEF RunsAlone
  <1>5. CASE \E i \in Nat : EndsAt(m, i, p, file[p].number)
    <2>1. PICK i \in Nat : LetsAt(m, i + 1, board[p])
      BY <1>5 DEF EndsAt
    <2>2. i + 1 \in Nat
      OBVIOUS
    <2> QED BY <1>1, <2>1, <2>2 DEF LetsAlone
  <1> QED BY <1>3, <1>4, <1>5

\* A controller that doesn't run a queue is put in its place.
LEMMA PutRests ==
  ASSUME TypeOK, NEW n \in Nirux, NEW p \in Project, NEW c \in Controller, Put(n, p, c),
         ~IsActive(queues[n][p].run), c.run = queues[n][p].run,
         c.number = queues[n][p].number, c.repository = queues[n][p].repository
  PROVE  RunsOn /\ queues'[n][p] = c
         /\ \A m \in Nirux, q \in Project : <<m, q>> # <<n, p>> => queues'[m][q] = queues[m][q]
  <1>1. queues' = [queues EXCEPT ![n] = [queues[n] EXCEPT ![p] = c]]
    BY DEF Put
  <1> QED BY <1>1 DEF RunsOn, TypeOK

LEMMA PutSavedIsNow ==
  ASSUME SavedIsNow, NEW n \in Nirux, NEW p \in Project, ~IsActive(queues'[n][p].run),
         \A m \in Nirux, q \in Project : <<m, q>> # <<n, p>> => queues'[m][q] = queues[m][q],
         queues'[n][p].saved # None /\ IsRunning(queues'[n][p].saved)
            => queues'[n][p].runsElsewhere
  PROVE  SavedIsNow'
  BY DEF SavedIsNow, SavedNow, IsRunning

\* restore(), for a controller that runs nothing.
LEMMA RestoresFiles ==
  ASSUME IInv, Files, NEW n \in Nirux, main[n].at = "free", NEW p \in Project,
         NEW c \in Controller, NEW busy \in {{}, BusyHere(n, p)}, Restores(n, p, c, busy),
         ~IsActive(queues[n][p].run), c.run = queues[n][p].run,
         c.number = queues[n][p].number, c.repository = queues[n][p].repository,
         c.saved # None /\ IsRunning(c.saved) => c.runsElsewhere,
         UNCHANGED <<board, file, lock, up, count, lost, open>>
  PROVE  Files'
  <1> DEFINE s == file[p]
  <1>1. TypeOK /\ Threaded /\ SavedIsNow /\ ThreadRests /\ s \in SavedQueue \cup {None}
    BY DEF IInv, Files, TypeOK
  <1>2. Stays' => Stays
    BY DEF Stays, BoardsStay
  <1>3. ASSUME NEW t \in SavedQueue, ~IsRunning(t), Put(n, p, [c EXCEPT !.saved = t])
        PROVE  RunsOn /\ SavedIsNow'
    <2> DEFINE d == [c EXCEPT !.saved = t]
    <2>1. d \in Controller /\ d.run = c.run /\ d.number = c.number
          /\ d.repository = c.repository /\ Put(n, p, d) /\ d.saved = t
      BY <1>3, SavedExcept DEF Controller
    <2> HIDE DEF d
    <2>2. /\ RunsOn /\ queues'[n][p] = d
          /\ \A m \in Nirux, q \in Project : <<m, q>> # <<n, p>> => queues'[m][q] = queues[m][q]
      BY <1>1, <2>1, PutRests
    <2> QED BY <1>1, <1>3, <2>1, <2>2, PutSavedIsNow
  <1>4. ASSUME Put(n, p, c)
        PROVE  RunsOn /\ SavedIsNow' /\ queues'[n][p].run = queues[n][p].run
    <2>1. /\ RunsOn /\ queues'[n][p] = c
          /\ \A m \in Nirux, q \in Project : <<m, q>> # <<n, p>> => queues'[m][q] = queues[m][q]
      BY <1>1, <1>4, PutRests
    <2> QED BY <1>1, <2>1, PutSavedIsNow
  <1>5. ASSUME RunsOn, main' = main
        PROVE  ThreadRests'
    <2> SUFFICES ASSUME NEW m \in Nirux, main[m].at # "free"
                 PROVE  /\ ~IsActive(queues'[m][main[m].project].run)
                        /\ main[m].at = "start" => /\ queues'[m][main[m].project].made
                                               /\ ~queues'[m][main[m].project].runsElsewhere
                        /\ main[m].at \in {"lock", "read"} => file[main[m].project] # None
      BY <1>5 DEF ThreadRests
    <2>1. m # n /\ main[m].project \in Project
      BY <1>1 DEF Threaded
    <2>2. queues'[m] = queues[m]
      BY <1>1, <2>1 DEF Restores, Settles, Put, TypeOK
    <2> QED BY <1>1, <2>2 DEF ThreadRests
  <1>6. ASSUME main' = main, NEW m \in Nirux, main'[m].at # "free", Stays
        PROVE  main'[m].repository = board[main'[m].project]
    BY <1>6 DEF Files, OneBoard
  <1>7. CASE s # None /\ IsRunning(s) /\ ~DryRun /\ s.repository \notin busy
    <2>1. Put(n, p, c) /\ Goes(n, "lock", p, s.repository, s) /\ UNCHANGED writes
      BY <1>7 DEF Restores
    <2>2. s \in SavedQueue /\ s.repository \in Repository
      BY <1>1, <1>7 DEF SavedQueue
    <2>3. /\ \A m \in Nirux \ {n} : main'[m] = main[m]
          /\ main'[n].at = "lock" /\ main'[n].project = p
          /\ main'[n].repository = s.repository
      BY <1>1, <2>1, <2>2, Going
    <2>4. RunsOn /\ SavedIsNow' /\ ~IsActive(queues'[n][p].run)
      BY <1>4, <2>1
    <2>5. ThreadRests'
      <3>1. \A m \in Nirux \ {n} : queues'[m] = queues[m]
        BY <1>1, <2>1 DEF Put, TypeOK
      <3> QED BY <1>1, <1>7, <2>3, <2>4, <3>1 DEF ThreadRests
    <2>6. \A m \in Nirux : main'[m].at # "free" /\ Stays
            => main'[m].repository = board[main'[m].project]
      BY <1>7, <2>3 DEF Files, OneBoard
    <2> HIDE DEF s
    <2>7. \A m \in Nirux : main[m].at = "flush" => main'[m] = main[m]
      BY <2>3
    <2> QED BY <1>1, <1>2, <2>1, <2>4, <2>5, <2>6, <2>7, QuietFiles
  <1>8. CASE ~(s # None /\ IsRunning(s) /\ ~DryRun /\ s.repository \notin busy)
    <2>1. /\ main' = main
          /\ IF s = None THEN Put(n, p, c) /\ UNCHANGED writes ELSE Settles(n, p, c, s)
      BY <1>8 DEF Restores
    <2>2. CASE s = None
      <3>1. Put(n, p, c) /\ UNCHANGED writes
        BY <2>1, <2>2
      <3>2. RunsOn /\ SavedIsNow'
        BY <1>4, <3>1
      <3> QED BY <1>1, <1>2, <1>5, <1>6, <2>1, <3>1, <3>2, QuietFiles
    <2>3. CASE s # None /\ ~IsRunning(s)
      <3>1. Put(n, p, [c EXCEPT !.saved = s]) /\ UNCHANGED writes /\ s \in SavedQueue
        BY <1>1, <2>1, <2>3 DEF Settles
      <3> HIDE DEF s
      <3>2. RunsOn /\ SavedIsNow'
        BY <1>3, <2>3, <3>1
      <3> QED BY <1>1, <1>2, <1>5, <1>6, <2>1, <3>1, <3>2, QuietFiles
    <2>4. CASE s # None /\ IsRunning(s)
      <3> DEFINE t == Interrupted(s)
      <3>1. Put(n, p, [c EXCEPT !.saved = t]) /\ Asks(n, <<Saves(p, t)>>) /\ s \in SavedQueue
        BY <1>1, <2>1, <2>4 DEF Settles
      <3>2. /\ t \in SavedQueue /\ t.status = "interrupted" /\ t.number = s.number
            /\ t.repository = s.repository /\ ~IsRunning(t)
        BY <3>1 DEF Interrupted, SavedQueue, Status, IsRunning
      <3>3. ASSUME Stays
            PROVE  /\ t.repository = board[p] /\ t.number \in lost /\ lock[board[p]] = n
                   /\ \E q \in Project : On(n, q, board[p])
        <4>1. s.repository = board[p]
          BY <2>4, <3>3 DEF Files, OneBoard
        <4>2. s.repository \in BusyHere(n, p) /\ board[p] \in Repository
          BY <1>1, <1>8, <2>4, <3>3 DEF Stays, TypeOK
        <4>3. PICK q \in Project \ {p} : On(n, q, board[p])
          BY <4>1, <4>2 DEF BusyHere, On
        <4>4. /\ lock[board[p]] = n /\ ~On(n, p, board[p])
              /\ \A i \in Nat : ~LetsAt(n, i, board[p])
          BY <3>3, <4>2, <4>3 DEF IInv, Held, RunsAlone, LetsAlone, Stays
        <4>5. s.number \in lost
          BY <2>4, <3>3, <4>4, Lost
        <4> QED BY <3>2, <4>1, <4>3, <4>4, <4>5
      <3> HIDE DEF s, t
      <3>4. RunsOn /\ SavedIsNow'
        BY <1>3, <3>1, <3>2
      <3> QED BY <1>1, <1>2, <1>5, <1>6, <2>1, <3>1, <3>2, <3>3, <3>4, MarkFiles
    <2> QED BY <2>2, <2>3, <2>4
  <1> QED BY <1>7, <1>8

\* init reads the saved queue: a controller that was not made ran nothing.
LEMMA MakeFiles ==
  ASSUME IInv, Files, NEW n \in Nirux, NEW p \in Project, Make(n, p)
  PROVE  Files'
  <1> DEFINE c == [queues[n][p] EXCEPT !.made = TRUE]
  <1>1. queues[n][p] \in Controller /\ ~queues[n][p].made /\ main[n].at = "free"
    BY DEF IInv, TypeOK, Make, IsFree
  <1>2. /\ c \in Controller /\ c.run = queues[n][p].run
        /\ c.number = queues[n][p].number /\ c.repository = queues[n][p].repository
        /\ c.saved = queues[n][p].saved /\ c.runsElsewhere = queues[n][p].runsElsewhere
    BY <1>1, SavedExcept DEF Controller
  <1>3. Restores(n, p, c, {}) /\ UNCHANGED <<board, file, lock, up, count, lost, open>>
    BY DEF Make
  <1> HIDE DEF c
  <1>4. /\ ~IsActive(queues[n][p].run)
        /\ c.saved # None /\ IsRunning(c.saved) => c.runsElsewhere
    BY <1>1, <1>2 DEF Files, SavedIsNow
  <1> QED BY <1>1, <1>2, <1>3, <1>4, RestoresFiles

\* A shown queue is read again only by a controller that runs nothing.
LEMMA ReloadFiles ==
  ASSUME IInv, Files, NEW n \in Nirux, NEW p \in Project, Reload(n, p)
  PROVE  Files'
  <1> DEFINE c == Forgets(queues[n][p])
  <1>1. /\ queues[n][p] \in Controller /\ ~IsActive(queues[n][p].run) /\ main[n].at = "free"
    BY DEF IInv, TypeOK, Reload, IsFree
  <1>2. /\ c \in Controller /\ c.run = queues[n][p].run /\ c.saved = None
        /\ c.number = queues[n][p].number /\ c.repository = queues[n][p].repository
    BY <1>1, SavedExcept DEF Controller, Forgets
  <1>3. Restores(n, p, c, BusyHere(n, p))
        /\ UNCHANGED <<board, file, lock, up, count, lost, open>>
    BY DEF Reload
  <1> HIDE DEF c
  <1> QED BY <1>1, <1>2, <1>3, RestoresFiles

\* The threads of the others stay where they were; this one goes on.
LEMMA ThreadsRest ==
  ASSUME ThreadRests, NEW n \in Nirux, file' = file,
         \A m \in Nirux \ {n} : main'[m] = main[m] /\ queues'[m] = queues[m],
         main'[n].at = "free" \/
            /\ ~IsActive(queues'[n][main'[n].project].run)
            /\ main'[n].at = "start" => /\ queues'[n][main'[n].project].made
                                            /\ ~queues'[n][main'[n].project].runsElsewhere
            /\ main'[n].at \in {"lock", "read"} => file[main'[n].project] # None
  PROVE  ThreadRests'
  BY DEF ThreadRests

\* restore(): the lock of a saved queue's repository is free, or its queue runs.
LEMMA RestoreLocksFiles ==
  ASSUME IInv, Files, NEW n \in Nirux, RestoreLocks(n)
  PROVE  Files'
  <1> DEFINE t == main[n]
             p == t.project
  <1>1. /\ p \in Project /\ t.repository \in Repository /\ t.saved \in SavedQueue
        /\ t.at = "lock" /\ TypeOK
    BY DEF IInv, Threaded, RestoreLocks
  <1>2. UNCHANGED <<board, file, up, writes, count, lost, open>>
    BY DEF RestoreLocks
  <1>3. Stays' => Stays
    BY <1>2 DEF Stays, BoardsStay
  <1>4. ~IsActive(queues[n][p].run) /\ file[p] # None /\ SavedIsNow /\ ThreadRests
    BY <1>1 DEF Files, ThreadRests
  <1>5. CASE MayTake(t.repository)
    <2>1. /\ lock[t.repository] = None
          /\ lock' = [lock EXCEPT ![t.repository] = n]
          /\ Goes(n, "read", p, t.repository, t.saved) /\ queues' = queues
      BY <1>5 DEF RestoreLocks, MayTake
    <2>2. /\ \A m \in Nirux \ {n} : main'[m] = main[m]
          /\ main'[n].at = "read" /\ main'[n].project = p
          /\ main'[n].repository = t.repository
      BY <1>1, <2>1, Going
    <2>3. RunsOn /\ SavedIsNow'
      BY <1>4, <2>1 DEF RunsOn, SavedIsNow, SavedNow
    <2>4. ThreadRests'
      BY <1>2, <1>4, <2>1, <2>2, <2>3, ThreadsRest
    <2>5. \A m \in Nirux : main'[m].at # "free" /\ Stays
            => main'[m].repository = board[main'[m].project]
      BY <1>1, <2>2 DEF Files, OneBoard
    <2>6. ASSUME NEW m \in Nirux, NEW i \in Nat, NEW q \in Project, Saving(m, i, q), Stays
          PROVE  /\ lock'[board[q]] = lock[board[q]]
                 /\ main[m].at = "flush" => main'[m] = main[m]
      <3>1. lock[board[q]] = m /\ board[q] \in Repository
        BY <1>1, <2>6 DEF Files, SavesLocked, TypeOK
      <3> QED BY <1>1, <2>1, <2>2, <3>1, NoneAssumption DEF TypeOK
    <2> QED BY <1>1, <1>2, <1>3, <2>3, <2>4, <2>5, <2>6, QuietFiles
  <1>6. CASE ~MayTake(t.repository)
    <2> DEFINE d == [queues[n][p] EXCEPT !.saved = t.saved, !.runsElsewhere = TRUE]
    <2>1. Put(n, p, d) /\ Returns(n) /\ lock' = lock
      BY <1>6 DEF RestoreLocks
    <2>2. /\ d \in Controller /\ d.run = queues[n][p].run
          /\ d.number = queues[n][p].number /\ d.repository = queues[n][p].repository
          /\ d.runsElsewhere = TRUE
      <3>1. queues[n][p] \in Controller
        BY <1>1 DEF TypeOK
      <3> QED BY <1>1, <3>1, SavedExcept DEF Controller
    <2> HIDE DEF d
    <2>3. /\ RunsOn /\ queues'[n][p] = d
          /\ \A m \in Nirux, q \in Project : <<m, q>> # <<n, p>> => queues'[m][q] = queues[m][q]
      BY <1>1, <1>4, <2>1, <2>2, PutRests
    <2>4. SavedIsNow'
      BY <1>1, <1>4, <2>2, <2>3, PutSavedIsNow
    <2>5. /\ main'[n].at = "free" /\ \A m \in Nirux \ {n} : main'[m] = main[m]
      BY <1>1, <2>1, Returning
    <2>6. \A m \in Nirux \ {n} : queues'[m] = queues[m]
      BY <1>1, <2>1 DEF Put, TypeOK
    <2>7. ThreadRests'
      BY <1>2, <1>4, <2>3, <2>5, <2>6, ThreadsRest
    <2>8. \A m \in Nirux : /\ main'[m].at # "free" /\ Stays
                               => main'[m].repository = board[main'[m].project]
                           /\ main[m].at = "flush" => main'[m] = main[m]
      BY <1>1, <2>5 DEF Files, OneBoard
    <2> QED BY <1>1, <1>2, <1>3, <2>1, <2>3, <2>4, <2>7, <2>8, QuietFiles
  <1> QED BY <1>5, <1>6

\* restore(): under the lock, a queue the file calls running is lost.
LEMMA RestoreReadsFiles ==
  ASSUME IInv, Files, NEW n \in Nirux, RestoreReads(n)
  PROVE  Files'
  <1> DEFINE p == main[n].project
             r == main[n].repository
             s == file[p]
  <1>1. /\ p \in Project /\ r \in Repository /\ main[n].at = "read" /\ TypeOK
    BY DEF IInv, Threaded, RestoreReads
  <1>2. /\ ~IsActive(queues[n][p].run) /\ s # None /\ SavedIsNow /\ ThreadRests
        /\ Stays => r = board[p]
    BY <1>1 DEF Files, ThreadRests, OneBoard
  <1>3. /\ s \in SavedQueue /\ ReadAgain(main[n]) = s
    BY <1>1, <1>2 DEF ReadAgain, TypeOK
  <1>4. /\ Settles(n, p, queues[n][p], s)
        /\ Goes(n, "flush", p, r, None)
        /\ UNCHANGED <<board, file, lock, up, count, lost, open>>
    BY <1>3 DEF RestoreReads
  <1>5. /\ \A m \in Nirux \ {n} : main'[m] = main[m]
        /\ main'[n].at = "flush" /\ main'[n].project = p /\ main'[n].repository = r
    BY <1>1, <1>4, Going
  <1>6. Stays' => Stays
    BY <1>4 DEF Stays, BoardsStay
  <1>7. \A m \in Nirux : /\ main'[m].at # "free" /\ Stays
                             => main'[m].repository = board[main'[m].project]
                         /\ main[m].at = "flush" => main'[m] = main[m]
    BY <1>1, <1>2, <1>5 DEF Files, OneBoard
  <1>8. ASSUME NEW t \in SavedQueue, ~IsRunning(t),
               Put(n, p, [queues[n][p] EXCEPT !.saved = t])
        PROVE  RunsOn /\ SavedIsNow' /\ ThreadRests'
    <2> DEFINE d == [queues[n][p] EXCEPT !.saved = t]
    <2>1. /\ d \in Controller /\ d.run = queues[n][p].run /\ d.saved = t
          /\ d.number = queues[n][p].number /\ d.repository = queues[n][p].repository
          /\ Put(n, p, d)
      <3>1. queues[n][p] \in Controller
        BY <1>1 DEF TypeOK
      <3> QED BY <1>8, <3>1, SavedExcept DEF Controller
    <2> HIDE DEF d
    <2>2. /\ RunsOn /\ queues'[n][p] = d
          /\ \A m \in Nirux, q \in Project : <<m, q>> # <<n, p>> => queues'[m][q] = queues[m][q]
      BY <1>1, <1>2, <2>1, PutRests
    <2>3. SavedIsNow'
      BY <1>1, <1>2, <1>8, <2>1, <2>2, PutSavedIsNow
    <2>4. \A m \in Nirux \ {n} : queues'[m] = queues[m]
      BY <1>1, <2>1 DEF Put, TypeOK
    <2>5. ThreadRests'
      BY <1>2, <1>4, <1>5, <2>1, <2>2, <2>4, ThreadsRest
    <2> QED BY <2>2, <2>3, <2>5
  <1>9. CASE ~IsRunning(s)
    <2>1. Put(n, p, [queues[n][p] EXCEPT !.saved = s]) /\ UNCHANGED writes
      BY <1>4, <1>9 DEF Settles
    <2> HIDE DEF s
    <2>2. RunsOn /\ SavedIsNow' /\ ThreadRests'
      BY <1>3, <1>8, <1>9, <2>1
    <2> HIDE DEF p, r
    <2> QED BY <1>1, <1>4, <1>6, <1>7, <2>1, <2>2, QuietFiles
  <1>10. CASE IsRunning(s)
    <2> DEFINE t == Interrupted(s)
    <2>1. Put(n, p, [queues[n][p] EXCEPT !.saved = t]) /\ Asks(n, <<Saves(p, t)>>)
      BY <1>4, <1>10 DEF Settles
    <2>2. /\ t \in SavedQueue /\ t.status = "interrupted" /\ t.number = s.number
          /\ t.repository = s.repository /\ ~IsRunning(t)
      BY <1>3 DEF Interrupted, SavedQueue, Status, IsRunning
    <2>3. ASSUME Stays
          PROVE  /\ t.repository = board[p] /\ t.number \in lost /\ lock[board[p]] = n
                 /\ main'[n].at = "flush" /\ main'[n].repository = board[p]
      <3>1. s.repository = board[p]
        BY <1>1, <1>2, <2>3 DEF Files, OneBoard
      <3>2. Marks(n, board[p]) /\ board[p] \in Repository
        BY <1>1, <1>2, <2>3 DEF Marks
      <3>3. /\ lock[board[p]] = n /\ ~On(n, p, board[p])
            /\ \A i \in Nat : ~LetsAt(n, i, board[p])
        BY <1>1, <2>3, <3>2 DEF IInv, Held, MarksAlone, Stays
      <3>4. s.number \in lost
        BY <1>1, <1>2, <1>10, <2>3, <3>3, Lost
      <3> QED BY <1>2, <1>5, <2>2, <2>3, <3>1, <3>3, <3>4
    <2> HIDE DEF s, t
    <2>4. RunsOn /\ SavedIsNow' /\ ThreadRests'
      BY <1>8, <2>1, <2>2
    <2> HIDE DEF p, r
    <2> QED BY <1>1, <1>2, <1>4, <1>6, <1>7, <2>1, <2>2, <2>3, <2>4, MarkFiles
  <1> QED BY <1>9, <1>10

\* restore(): the lock goes with nothing left to write.
LEMMA RestoreEndsFiles ==
  ASSUME IInv, Files, NEW n \in Nirux, RestoreEnds(n)
  PROVE  Files'
  <1> DEFINE r == main[n].repository
  <1>1. /\ r \in Repository /\ TypeOK /\ writes[n] = <<>> /\ main[n].at = "flush"
        /\ lock' = [lock EXCEPT ![r] = None] /\ Returns(n)
        /\ UNCHANGED <<board, file, up, writes, queues, count, lost, open>>
    BY DEF IInv, Threaded, RestoreEnds, FilesWritten
  <1>2. /\ main'[n].at = "free" /\ \A m \in Nirux \ {n} : main'[m] = main[m]
    BY <1>1, Returning
  <1>3. RunsOn /\ SavedIsNow' /\ (Stays' => Stays)
    BY <1>1 DEF RunsOn, SavedIsNow, SavedNow, Files, Stays, BoardsStay
  <1>4. ThreadRests'
    BY <1>1, <1>2, <1>3, ThreadsRest DEF Files
  <1>5. \A m \in Nirux : main'[m].at # "free" /\ Stays
          => main'[m].repository = board[main'[m].project]
    BY <1>2 DEF Files, OneBoard
  <1>6. ASSUME NEW m \in Nirux, NEW i \in Nat, NEW q \in Project, Saving(m, i, q), Stays
        PROVE  /\ lock'[board[q]] = lock[board[q]]
               /\ main[m].at = "flush" => main'[m] = main[m]
    <2>1. m # n
      BY <1>1, <1>6 DEF Saving
    <2>2. lock[board[q]] = m /\ board[q] \in Repository
      BY <1>1, <1>6 DEF Files, SavesLocked, TypeOK
    <2>3. lock[r] = n
      <3>1. Marks(n, r)
        BY <1>1 DEF Marks
      <3> QED BY <1>1, <1>6, <3>1 DEF IInv, Held, MarksAlone, Stays
    <2> QED BY <1>1, <1>2, <2>1, <2>2, <2>3 DEF TypeOK
  <1> QED BY <1>1, <1>3, <1>4, <1>5, <1>6, QuietFiles

-----------------------------------------------------------------------------
(* Steps of a queue *)

\* update(_:notes:), and what it asks for.
LEMMA UpdatesTo ==
  ASSUME TypeOK, NEW n \in Nirux, NEW p \in Project, NEW c \in Controller,
         c.run.phase # "idle", c.number \in Number, c.repository \in Repository,
         Updates(n, p, c)
  PROVE  /\ \A m \in Nirux, q \in Project : <<m, q>> # <<n, p>> => queues'[m][q] = queues[m][q]
         /\ \A m \in Nirux \ {n} : queues'[m] = queues[m]
         /\ LET d == queues'[n][p]
            IN /\ d.run = c.run /\ d.number = c.number /\ d.repository = c.repository
               /\ d.made = c.made /\ d.runsElsewhere = c.runsElsewhere
               /\ d.saved = SavedNow(c) /\ SavedNow(d) = SavedNow(c)
         /\ \/ SavedNow(c) = c.saved /\ writes' = writes
            \/ /\ SavedNow(c) # c.saved /\ (IsActive(c.run) \/ DryRun)
               /\ Asks(n, <<Saves(p, SavedNow(c))>>)
            \/ /\ SavedNow(c) # c.saved /\ ~IsActive(c.run) /\ ~DryRun
               /\ Asks(n, LastWrites(p, SavedNow(c), c.repository))
  <1> DEFINE s == SavedNow(c)
             d == [c EXCEPT !.saved = s]
  <1>1. s \in SavedQueue
    BY SavedNowIsSaved
  <1>2. /\ d \in Controller /\ d.run = c.run /\ d.number = c.number
        /\ d.repository = c.repository /\ d.made = c.made /\ d.saved = s
        /\ d.runsElsewhere = c.runsElsewhere
    BY <1>1 DEF Controller
  <1>3. /\ queues' = [queues EXCEPT ![n] = [queues[n] EXCEPT ![p] = d]]
        /\ Asks(n, IF s = c.saved THEN <<>>
                   ELSE IF IsActive(c.run) \/ DryRun THEN <<Saves(p, s)>>
                   ELSE LastWrites(p, s, c.repository))
    BY DEF Updates, Put
  <1> HIDE DEF d
  <1>4. /\ \A m \in Nirux, q \in Project : <<m, q>> # <<n, p>> => queues'[m][q] = queues[m][q]
        /\ \A m \in Nirux \ {n} : queues'[m] = queues[m]
        /\ queues'[n][p] = d
    BY <1>2, <1>3 DEF TypeOK
  <1>5. SavedNow(d) = s
    BY <1>2 DEF SavedNow
  <1> HIDE DEF s
  <1>6. CASE s = c.saved
    <2>1. writes[n] \o <<>> = writes[n]
      BY ConcatEmptySeq DEF TypeOK
    <2>2. writes' = writes
      BY <1>3, <1>6, <2>1 DEF Asks, TypeOK
    <2> QED BY <1>2, <1>4, <1>5, <1>6, <2>2 DEF s
  <1>7. CASE s # c.saved
    BY <1>2, <1>3, <1>4, <1>5, <1>7 DEF s
  <1> QED BY <1>6, <1>7

LEMMA ActiveSaved ==
  ASSUME NEW c \in Controller
  PROVE  /\ IsRunning(SavedNow(c)) <=> IsActive(c.run)
         /\ SavedNow(c).status # "interrupted"
         /\ SavedNow(c).number = c.number /\ SavedNow(c).repository = c.repository
  BY DEF SavedNow, IsRunning, IsActive, Controller, Run, RunPhase

\* A queue that runs after the step saved what it is.
LEMMA RunSaves ==
  ASSUME TypeOK, Files, SavedIsNow', ThreadRests', Stays' => Stays,
         UNCHANGED <<board, file, lost>>, NEW n \in Nirux, NEW p \in Project,
         NEW s \in SavedQueue, Asks(n, <<Saves(p, s)>>), s.status # "interrupted",
         s.repository = queues'[n][p].repository, s.number = queues'[n][p].number,
         IsActive(queues'[n][p].run), queues'[n][p].saved = s,
         \A m \in Nirux, q \in Project : <<m, q>> # <<n, p>> => queues'[m][q] = queues[m][q],
         IsActive(queues[n][p].run) => /\ queues'[n][p].number = queues[n][p].number
                                       /\ queues'[n][p].repository = queues[n][p].repository,
         Stays => s.repository = board[p] /\ lock'[board[p]] = n,
         \A m \in Nirux, i \in Nat, q \in Project :
            Saving(m, i, q) /\ Stays => lock'[board[q]] = lock[board[q]],
         \A m \in Nirux : /\ main'[m].at # "free" /\ Stays
                              => main'[m].repository = board[main'[m].project]
                          /\ main[m].at = "flush" => main'[m] = main[m]
  PROVE  Files'
  <1> SUFFICES ASSUME Stays'
               PROVE  /\ OneBoard' /\ SavesLocked' /\ RunningRuns' /\ SavingRuns'
                      /\ MarkedLost' /\ LastSaveStands'
    BY DEF Files
  <1>1. /\ OneBoard /\ SavesLocked /\ RunningRuns /\ SavingRuns /\ MarkedLost /\ LastSaveStands
        /\ Stays
    BY DEF Files
  <1>2. PICK len \in Nat :
        /\ \A m \in Nirux, i \in Nat, q \in Project :
             /\ Saving(m, i, q)' <=> Saving(m, i, q) \/ (m = n /\ i = len + 1 /\ q = p)
             /\ Saving(m, i, q) => writes'[m][i] = writes[m][i]
             /\ Saving(n, i, q) => i <= len
        /\ writes'[n][len + 1].saved = s
        /\ \A m \in Nirux, i \in Nat, r \in Repository : LetsAt(m, i, r)' <=> LetsAt(m, i, r)
    <2>1. Len(writes[n]) \in Nat
      BY AddsSave
    <2> WITNESS Len(writes[n]) \in Nat
    <2> QED BY AddsSave
  <1>3. \A q \in Project : board[q] \in Repository /\ board'[q] = board[q]
    BY DEF TypeOK
  <1>4. \A m \in Nirux, i \in Nat, q \in Project : \A k : EndsAt(m, i, q, k) => EndsAt(m, i, q, k)'
    BY <1>2, <1>3 DEF EndsAt
  <1>5. /\ \A m \in Nirux, q \in Project, r \in Repository : On(m, q, r) => On(m, q, r)'
        /\ \A m \in Nirux, q \in Project : \A k : RunsHere(m, q, k) => RunsHere(m, q, k)'
    BY DEF On, RunsHere
  <1>6. On(n, p, board[p])' /\ RunsHere(n, p, s.number)'
    BY <1>1 DEF On, RunsHere
  <1>7. OneBoard'
    BY <1>1, <1>2, <1>3 DEF OneBoard
  <1>8. SavesLocked'
    <2> SUFFICES ASSUME NEW m \in Nirux, NEW i \in Nat, NEW q \in Project, Saving(m, i, q)'
                 PROVE  /\ lock'[board[q]] = m
                        /\ \/ \E o \in Project : On(m, o, board[q])'
                           \/ \E j \in Nat : j > i /\ LetsAt(m, j, board[q])
                           \/ main'[m].at = "flush" /\ main'[m].repository = board[q]
      BY <1>2, <1>3 DEF SavesLocked, On, LetsAt
    <2>1. CASE Saving(m, i, q)
      BY <1>1, <1>3, <1>5, <2>1 DEF SavesLocked
    <2>2. CASE m = n /\ q = p
      BY <1>1, <1>6, <2>2
    <2> QED BY <1>2, <2>1, <2>2
  <1>9. RunningRuns'
    BY <1>1, <1>4, <1>5 DEF RunningRuns
  <1>10. SavingRuns'
    BY <1>1, <1>2, <1>4, <1>5, <1>6 DEF SavingRuns
  <1>11. MarkedLost'
    BY <1>1, <1>2 DEF MarkedLost, OnlyKilledInterrupted
  <1>12. LastSaveStands'
    <2> SUFFICES ASSUME NEW m \in Nirux, NEW q \in Project, IsActive(queues'[m][q].run),
                        queues'[m][q].number \notin lost
                 PROVE  /\ (\A i \in Nat : ~Saving(m, i, q)') => file[q] = queues'[m][q].saved
                        /\ \A i \in Nat : LastSaving(m, i, q)' =>
                             writes'[m][i].saved = queues'[m][q].saved
      BY DEF LastSaveStands
    <2>1. CASE <<m, q>> = <<n, p>>
      <3>1. Saving(n, len + 1, p)' /\ len + 1 \in Nat
        BY <1>2
      <3>2. \A i \in Nat : LastSaving(n, i, p)' => i = len + 1
        BY <1>2, <3>1 DEF LastSaving
      <3> QED BY <1>2, <2>1, <3>1, <3>2
    <2>2. CASE <<m, q>> # <<n, p>>
      <3>1. \A i \in Nat : /\ Saving(m, i, q)' <=> Saving(m, i, q)
                           /\ Saving(m, i, q) => writes'[m][i] = writes[m][i]
        BY <1>2, <2>2
      <3>2. queues'[m][q] = queues[m][q]
        BY <2>2
      <3> QED BY <1>1, <3>1, <3>2 DEF LastSaveStands, LastSaving
    <2> QED BY <2>1, <2>2
  <1> QED BY <1>7, <1>8, <1>9, <1>10, <1>11, <1>12

LEMMA PutRunSaved ==
  ASSUME SavedIsNow, NEW n \in Nirux, NEW p \in Project,
         \A m \in Nirux, q \in Project : <<m, q>> # <<n, p>> => queues'[m][q] = queues[m][q],
         queues'[n][p].made, queues'[n][p].saved = SavedNow(queues'[n][p]),
         IsRunning(queues'[n][p].saved) => IsActive(queues'[n][p].run)
  PROVE  SavedIsNow'
  <1> SUFFICES ASSUME NEW m \in Nirux, NEW q \in Project
               PROVE  LET c == queues'[m][q]
                      IN /\ IsActive(c.run) => c.made /\ c.saved = SavedNow(c)
                         /\ ~IsActive(c.run) /\ c.saved # None /\ IsRunning(c.saved)
                              => c.runsElsewhere
    BY DEF SavedIsNow, SavedNow, IsActive, IsRunning
  <1>1. CASE <<m, q>> = <<n, p>>
    BY <1>1
  <1>2. CASE <<m, q>> # <<n, p>>
    BY <1>2 DEF SavedIsNow
  <1> QED BY <1>1, <1>2

\* A step saves a queue that goes on, and asks for the release of one that ended.
LEMMA StepFiles ==
  ASSUME IInv, Files, NEW n \in Nirux, NEW p \in Project, Step(n, p)
  PROVE  Files'
  <1> DEFINE old == queues[n][p]
             new == queues'[n][p]
  <1>1. /\ TypeOK /\ old \in Controller /\ old.run \in Run /\ main[n].at = "free"
        /\ UNCHANGED <<board, file, lock, up, main, count, lost, open>>
    BY DEF IInv, TypeOK, Step, Controller, IsFree
  <1>2. PICK run \in After(old.run) : Updates(n, p, [old EXCEPT !.run = run])
    BY DEF Step
  <1>3. run \in Run /\ run.phase # "idle" /\ IsActive(old.run)
    BY <1>1, AfterIsRun
  <1>4. old.number \in Number /\ old.repository \in Repository
    BY <1>3 DEF IInv, Numbered
  <1> DEFINE c == [old EXCEPT !.run = run]
             s == SavedNow(c)
  <1>5. /\ c \in Controller /\ c.run = run /\ c.number = old.number
        /\ c.repository = old.repository /\ c.saved = old.saved /\ c.made = old.made
    BY <1>1, <1>3 DEF Controller
  <1>6. Updates(n, p, c)
    BY <1>2
  <1>7. old.made /\ old.saved = SavedNow(old) /\ SavedIsNow /\ ThreadRests
    BY <1>3 DEF Files, SavedIsNow
  <1> HIDE DEF c, old, new
  <1>8. s \in SavedQueue /\ s.number = old.number /\ s.repository = old.repository
        /\ s.status # "interrupted" /\ (IsRunning(s) <=> IsActive(run))
    BY <1>3, <1>4, <1>5, SavedNowIsSaved, ActiveSaved
  <1>9. IsRunning(old.saved)
    BY <1>1, <1>3, <1>7, ActiveSaved
  <1>10. /\ \A m \in Nirux, q \in Project : <<m, q>> # <<n, p>> => queues'[m][q] = queues[m][q]
         /\ \A m \in Nirux \ {n} : queues'[m] = queues[m]
         /\ new.run = run /\ new.number = old.number /\ new.repository = old.repository
         /\ new.made = old.made /\ new.saved = s /\ SavedNow(new) = s
         /\ \/ s = old.saved /\ writes' = writes
            \/ s # old.saved /\ (IsActive(run) \/ DryRun) /\ Asks(n, <<Saves(p, s)>>)
            \/ /\ s # old.saved /\ ~IsActive(run) /\ ~DryRun
               /\ Asks(n, LastWrites(p, s, old.repository))
    <2>1. c.run.phase # "idle" /\ c.number \in Number /\ c.repository \in Repository
      BY <1>3, <1>4, <1>5
    <2> QED BY <1>1, <1>5, <1>6, <2>1, UpdatesTo DEF new
  <1> HIDE DEF s
  <1>11. SavedIsNow'
    BY <1>7, <1>8, <1>10, PutRunSaved DEF new
  <1>12. ThreadRests'
    BY <1>1, <1>7, <1>10, ThreadsRest
  <1>13. Stays' => Stays
    BY <1>1 DEF Stays, BoardsStay
  <1> SUFFICES ASSUME Stays'
               PROVE  Files'
    BY <1>11, <1>12 DEF Files
  <1>14. /\ OneBoard /\ SavesLocked /\ RunningRuns /\ SavingRuns /\ MarkedLost
         /\ LastSaveStands /\ Stays
    BY <1>13 DEF Files
  <1>15. /\ old.repository = board[p] /\ board[p] \in Repository /\ lock[board[p]] = n
         /\ \A q \in Project : board[q] \in Repository /\ board'[q] = board[q]
         /\ RunsAlone
    <2>1. old.repository = board[p] /\ RunsAlone
      BY <1>3, <1>14 DEF OneBoard, old, IInv, Held, Stays
    <2>2. On(n, p, board[p])
      BY <1>3, <2>1 DEF On, old
    <2> QED BY <1>1, <2>1, <2>2 DEF RunsAlone, TypeOK
  <1>16. \A m \in Nirux : /\ main'[m].at # "free" => main'[m].repository = board[main'[m].project]
                          /\ main[m].at = "flush" => main'[m] = main[m]
    BY <1>1, <1>14 DEF OneBoard
  <1>17. CASE s # old.saved /\ IsActive(run)
    <2>1. Asks(n, <<Saves(p, s)>>)
      BY <1>10, <1>17
    <2> QED BY <1>1, <1>8, <1>10, <1>11, <1>12, <1>13, <1>14, <1>15, <1>16, <1>17, <2>1,
               RunSaves DEF new, old
  <1>18. CASE s = old.saved
    <2>1. IsActive(run) /\ writes' = writes
      BY <1>8, <1>9, <1>10, <1>18
    <2>2. /\ \A m \in Nirux, i \in Nat, q \in Project : Saving(m, i, q)' <=> Saving(m, i, q)
          /\ \A m \in Nirux, i \in Nat, r \in Repository : LetsAt(m, i, r)' <=> LetsAt(m, i, r)
          /\ \A m \in Nirux, i \in Nat, q \in Project : \A k :
               EndsAt(m, i, q, k)' <=> EndsAt(m, i, q, k)
      BY <1>1, <2>1 DEF Saving, LetsAt, EndsAt
    <2>3. /\ \A m \in Nirux, q \in Project, r \in Repository : On(m, q, r)' <=> On(m, q, r)
          /\ \A m \in Nirux, q \in Project : \A k : RunsHere(m, q, k)' <=> RunsHere(m, q, k)
      BY <1>3, <1>10, <2>1 DEF On, RunsHere, old, new
    <2>4. OneBoard'
      BY <1>1, <1>3, <1>10, <1>14, <2>1, <2>2 DEF OneBoard, old, new
    <2>5. SavesLocked'
      BY <1>1, <1>14, <1>15, <2>2, <2>3 DEF SavesLocked, On, LetsAt
    <2>6. RunningRuns' /\ SavingRuns'
      BY <1>1, <1>14, <2>1, <2>2, <2>3 DEF RunningRuns, SavingRuns
    <2>7. MarkedLost'
      BY <1>1, <1>14, <2>1, <2>2 DEF MarkedLost, OnlyKilledInterrupted
    <2>8. LastSaveStands'
      <3>1. \A m \in Nirux, q \in Project :
              /\ IsActive(queues'[m][q].run) <=> IsActive(queues[m][q].run)
              /\ queues'[m][q].number = queues[m][q].number
              /\ queues'[m][q].saved = queues[m][q].saved
        BY <1>3, <1>10, <1>18, <2>1 DEF old, new
      <3> QED BY <1>1, <1>14, <2>1, <2>2, <3>1 DEF LastSaveStands, LastSaving
    <2> QED BY <1>11, <1>12, <2>4, <2>5, <2>6, <2>7, <2>8 DEF Files
  <1>19. CASE s # old.saved /\ ~IsActive(run)
    <2>1. Asks(n, LastWrites(p, s, board[p]))
      BY <1>10, <1>14, <1>15, <1>19 DEF Stays
    <2>2. PICK len \in Nat :
          /\ \A m \in Nirux, i \in Nat, q \in Project :
               /\ Saving(m, i, q)' <=> Saving(m, i, q) \/ (m = n /\ i = len + 1 /\ q = p)
               /\ Saving(m, i, q) => writes'[m][i] = writes[m][i]
               /\ Saving(n, i, q) => i <= len
          /\ writes'[n][len + 1].saved = s
          /\ \A m \in Nirux, i \in Nat, r \in Repository :
               LetsAt(m, i, r)' <=> LetsAt(m, i, r) \/ (m = n /\ i = len + 2 /\ r = board[p])
      <3>1. Len(writes[n]) \in Nat
        BY <1>1, <1>8, <1>15, <2>1, AddsLast
      <3> WITNESS Len(writes[n]) \in Nat
      <3> QED BY <1>1, <1>8, <1>15, <2>1, AddsLast
    <2>3. \A m \in Nirux, i \in Nat, q \in Project : \A k : EndsAt(m, i, q, k) => EndsAt(m, i, q, k)'
      BY <1>15, <2>2 DEF EndsAt
    <2>0. PICK k0 \in Number, r0 \in Repository : k0 = old.number /\ r0 = board[p]
      BY <1>4, <1>15 DEF old
    <2>4. EndsAt(n, len + 1, p, k0)' /\ len + 1 \in Nat /\ len + 2 \in Nat
      <3>1. Saving(n, len + 1, p)' /\ writes'[n][len + 1].saved = s /\ LetsAt(n, len + 2, r0)'
        BY <2>0, <2>2
      <3>2. (len + 1) + 1 = len + 2
        OBVIOUS
      <3> QED BY <1>8, <1>15, <1>19, <2>0, <3>1, <3>2 DEF EndsAt, LetsAt, IsRunning
    <2>5. /\ \A m \in Nirux, q \in Project, r \in Repository :
               On(m, q, r) => On(m, q, r)' \/ (m = n /\ q = p /\ r = board[p])
          /\ \A m \in Nirux, q \in Project : \A k :
               RunsHere(m, q, k) => RunsHere(m, q, k)' \/ (m = n /\ q = p /\ k = k0)
      BY <1>10, <1>15, <2>0 DEF On, RunsHere, old, new
    <2>6. OneBoard'
      BY <1>1, <1>8, <1>10, <1>14, <1>15, <1>19, <2>2 DEF OneBoard, old, new
    <2>7. SavesLocked'
      <3> DEFINE Reason(m, i, r) ==
                   \/ \E o \in Project : On(m, o, r)
                   \/ \E j \in Nat : j > i /\ LetsAt(m, j, r)
                   \/ main[m].at = "flush" /\ main[m].repository = r
                 Later(m, i, r) ==
                   \/ \E o \in Project : On(m, o, r)'
                   \/ \E j \in Nat : j > i /\ LetsAt(m, j, r)'
                   \/ main[m].at = "flush" /\ main[m].repository = r
      <3>1. \A m \in Nirux, i \in Nat, q \in Project :
              Saving(m, i, q) => lock[board[q]] = m /\ Reason(m, i, board[q])
        BY <1>14 DEF SavesLocked
      <3>2. ASSUME NEW m \in Nirux, NEW i \in Nat, NEW r \in Repository, Reason(m, i, r),
                   m = n => i <= len
            PROVE  Later(m, i, r)
        <4>1. CASE \E o \in Project : On(m, o, r)
          <5>1. CASE \E o \in Project : On(m, o, r)'
            BY <5>1
          <5>2. CASE m = n /\ r = board[p]
            <6>1. i <= len /\ LetsAt(n, len + 2, r)' /\ len + 2 > i /\ len + 2 \in Nat
              BY <2>0, <2>2, <3>2, <5>2
            <6> QED BY <5>2, <6>1
          <5> QED BY <2>5, <4>1, <5>1, <5>2
        <4>2. CASE \E j \in Nat : j > i /\ LetsAt(m, j, r)
          <5>1. PICK j \in Nat : j > i /\ LetsAt(m, j, r)
            BY <4>2
          <5>2. LetsAt(m, j, r)'
            BY <2>2, <5>1
          <5> QED BY <5>1, <5>2
        <4>3. CASE main[m].at = "flush" /\ main[m].repository = r
          BY <4>3
        <4> QED BY <3>2, <4>1, <4>2, <4>3
      <3>3. ASSUME NEW m \in Nirux, NEW i \in Nat, NEW q \in Project, Saving(m, i, q)'
            PROVE  lock[board[q]] = m /\ Later(m, i, board[q])
        <4>1. board[q] \in Repository
          BY <1>15
        <4>2. CASE Saving(m, i, q)
          <5>1. m = n => i <= len
            BY <2>2, <4>2
          <5> HIDE DEF Reason, Later
          <5> QED BY <3>1, <3>2, <4>1, <4>2, <5>1
        <4>3. CASE m = n /\ i = len + 1 /\ q = p
          <5>1. LetsAt(n, len + 2, board[p])' /\ len + 2 > i /\ len + 2 \in Nat
            BY <1>15, <2>2, <4>3
          <5> QED BY <1>15, <4>3, <5>1
        <4> QED BY <2>2, <3>3, <4>2, <4>3
      <3>4. lock' = lock /\ main' = main /\ \A q \in Project : board'[q] = board[q]
        BY <1>1, <1>15
      <3> QED BY <3>3, <3>4 DEF SavesLocked, On, LetsAt
    <2>8. RunningRuns'
      <3> SUFFICES ASSUME NEW q \in Project, NEW k, file[q] # None, IsRunning(file[q]),
                          k = file[q].number, k \notin lost
                   PROVE  \E m \in Nirux : \/ RunsHere(m, q, k)'
                                           \/ \E i \in Nat : EndsAt(m, i, q, k)'
        BY <1>1 DEF RunningRuns, RunsHere, EndsAt, Saving, LetsAt
      <3>1. PICK m \in Nirux : RunsHere(m, q, k) \/ \E i \in Nat : EndsAt(m, i, q, k)
        BY <1>14 DEF RunningRuns
      <3> QED BY <2>3, <2>4, <2>5, <3>1
    <2>9. SavingRuns'
      <3> SUFFICES ASSUME NEW m \in Nirux, NEW i \in Nat, NEW q \in Project, NEW k,
                          Saving(m, i, q)', IsRunning(writes'[m][i].saved),
                          k = writes'[m][i].saved.number, k \notin lost
                   PROVE  \/ RunsHere(m, q, k)'
                          \/ \E j \in Nat : j > i /\ EndsAt(m, j, q, k)'
        BY <1>1 DEF SavingRuns, RunsHere, EndsAt, Saving, LetsAt
      <3>1. Saving(m, i, q) /\ writes'[m][i] = writes[m][i]
        BY <1>8, <1>19, <2>2
      <3>2. \/ RunsHere(m, q, k)
            \/ \E j \in Nat : j > i /\ EndsAt(m, j, q, k)
        BY <1>14, <3>1 DEF SavingRuns
      <3>3. m = n => i <= len /\ len + 1 > i
        BY <2>2, <3>1
      <3> QED BY <2>3, <2>4, <2>5, <3>2, <3>3
    <2>10. MarkedLost'
      BY <1>1, <1>8, <1>14, <2>2 DEF MarkedLost, OnlyKilledInterrupted
    <2>11. LastSaveStands'
      <3> SUFFICES ASSUME NEW m \in Nirux, NEW q \in Project, IsActive(queues'[m][q].run),
                          queues'[m][q].number \notin lost
                   PROVE  /\ (\A i \in Nat : ~Saving(m, i, q)') => file[q] = queues'[m][q].saved
                          /\ \A i \in Nat : LastSaving(m, i, q)' =>
                               writes'[m][i].saved = queues'[m][q].saved
        BY <1>1 DEF LastSaveStands
      <3>1. <<m, q>> # <<n, p>> /\ queues'[m][q] = queues[m][q]
        BY <1>10, <1>19 DEF new
      <3>2. \A i \in Nat : /\ Saving(m, i, q)' <=> Saving(m, i, q)
                           /\ Saving(m, i, q) => writes'[m][i] = writes[m][i]
        BY <2>2, <3>1
      <3> QED BY <1>14, <3>1, <3>2 DEF LastSaveStands, LastSaving
    <2> QED BY <1>11, <1>12, <2>6, <2>7, <2>8, <2>9, <2>10, <2>11 DEF Files
  <1> QED BY <1>17, <1>18, <1>19

\* What a start saves, with the number nobody has.
LEMMA BeginsSaves ==
  ASSUME IInv, Files, NEW n \in Nirux, NEW p \in Project, NEW r \in Repository,
         Begins(n, p, r), queues[n][p].made, ~queues[n][p].runsElsewhere,
         ~IsActive(queues[n][p].run)
  PROVE  /\ \A m \in Nirux, q \in Project : <<m, q>> # <<n, p>> => queues'[m][q] = queues[m][q]
         /\ \A m \in Nirux \ {n} : queues'[m] = queues[m]
         /\ LET d == queues'[n][p]
            IN /\ IsActive(d.run) /\ d.made /\ d.repository = r
               /\ d.saved \in SavedQueue /\ d.saved.status # "interrupted"
               /\ d.saved.number = d.number /\ d.saved.repository = r
               /\ Asks(n, <<Saves(p, d.saved)>>)
         /\ SavedIsNow'
         /\ count'["moves"] = count["moves"]
  <1>1. TypeOK /\ queues[n][p] \in Controller /\ SavedIsNow
    BY DEF IInv, TypeOK, Files
  <1>2. /\ count["starts"] \in Nat /\ count["starts"] < MaxStarts
        /\ count' = [count EXCEPT !["starts"] = count["starts"] + 1]
    BY <1>1 DEF Begins, Happens, TypeOK, Bounded
  <1> DEFINE k == count["starts"] + 1
  <1>3. PICK run \in Starts(Idle) :
          Updates(n, p, [queues[n][p] EXCEPT
                          !.run = run, !.number = k,
                          !.repository = r, !.runsElsewhere = FALSE])
    BY DEF Begins
  <1>4. k \in Number
    BY <1>2, BoundsAssumption DEF Number
  <1>5. run \in Run /\ run.phase # "idle" /\ IsActive(run)
    BY StartsRun
  <1> DEFINE c == [queues[n][p] EXCEPT !.run = run, !.number = k,
                                       !.repository = r, !.runsElsewhere = FALSE]
             s == SavedNow(c)
  <1> HIDE DEF k
  <1>6. /\ c \in Controller /\ c.run = run /\ c.number = k /\ c.repository = r
        /\ c.made = queues[n][p].made /\ c.saved = queues[n][p].saved
    BY <1>1, <1>4, <1>5 DEF Controller
  <1>7. Updates(n, p, c)
    BY <1>3
  <1> HIDE DEF c
  <1>8. /\ s \in SavedQueue /\ s.number = k /\ s.repository = r
        /\ s.status # "interrupted" /\ IsRunning(s)
    BY <1>4, <1>5, <1>6, SavedNowIsSaved, ActiveSaved
  <1>9. s # c.saved
    BY <1>1, <1>6, <1>8, NoneAssumption DEF SavedIsNow
  <1>10. /\ \A m \in Nirux, q \in Project : <<m, q>> # <<n, p>> => queues'[m][q] = queues[m][q]
         /\ \A m \in Nirux \ {n} : queues'[m] = queues[m]
         /\ queues'[n][p].run = run /\ queues'[n][p].number = k
         /\ queues'[n][p].repository = r /\ queues'[n][p].made
         /\ queues'[n][p].saved = s /\ SavedNow(queues'[n][p]) = s
         /\ Asks(n, <<Saves(p, s)>>)
    <2>1. c.run.phase # "idle" /\ c.number \in Number /\ c.repository \in Repository
      BY <1>4, <1>5, <1>6
    <2> QED BY <1>1, <1>5, <1>6, <1>7, <1>9, <2>1, UpdatesTo
  <1> HIDE DEF s
  <1>11. SavedIsNow'
    BY <1>1, <1>5, <1>10, PutRunSaved
  <1>12. count'["moves"] = count["moves"]
    BY <1>1, <1>2 DEF TypeOK, Bounded
  <1> QED BY <1>5, <1>8, <1>10, <1>11, <1>12

\* start(settings:entries:): a live one waits first, and saves nothing.
LEMMA StartFiles ==
  ASSUME IInv, Files, NEW n \in Nirux, NEW p \in Project, Start(n, p)
  PROVE  Files'
  <1>1. /\ board[p] \in Repository /\ main[n].at = "free" /\ TypeOK
        /\ SavedIsNow /\ ThreadRests
        /\ queues[n][p].made /\ ~queues[n][p].runsElsewhere /\ ~IsActive(queues[n][p].run)
        /\ UNCHANGED <<board, file, lock, up, lost, open>>
    BY DEF Start, IsFree, IInv, TypeOK, Files
  <1>2. CASE DryRun
    <2>1. Begins(n, p, board[p]) /\ main' = main
      BY <1>2 DEF Start
    <2>2. SavedIsNow' /\ \A m \in Nirux \ {n} : queues'[m] = queues[m]
      BY <1>1, <2>1, BeginsSaves
    <2>3. ThreadRests'
      BY <1>1, <2>1, <2>2, ThreadsRest
    <2> QED BY <1>2, <2>2, <2>3 DEF Files, Stays
  <1>3. CASE ~DryRun
    <2>1. Goes(n, "start", p, board[p], None) /\ UNCHANGED <<queues, writes, count>>
      BY <1>3 DEF Start
    <2>2. /\ main'[n].at = "start" /\ \A m \in Nirux \ {n} : main'[m] = main[m]
          /\ main'[n].project = p /\ main'[n].repository = board[p]
      BY <1>1, <2>1, Going
    <2>3. RunsOn /\ SavedIsNow' /\ (Stays' => Stays)
      BY <1>1, <2>1 DEF RunsOn, SavedIsNow, SavedNow, Stays, BoardsStay
    <2>4. ThreadRests'
      BY <1>1, <2>1, <2>2, ThreadsRest
    <2>5. \A m \in Nirux : /\ main'[m].at # "free" /\ Stays
                               => main'[m].repository = board[main'[m].project]
                           /\ main[m].at = "flush" => main'[m] = main[m]
      BY <1>1, <2>2 DEF Files, OneBoard
    <2> QED BY <1>1, <2>1, <2>3, <2>4, <2>5, QuietFiles
  <1> QED BY <1>2, <1>3

\* A live start: it saves under the lock it just took.
LEMMA StartLocksFiles ==
  ASSUME IInv, Files, NEW n \in Nirux, StartLocks(n)
  PROVE  Files'
  <1> DEFINE p == main[n].project
             r0 == main[n].repository
  <1>1. /\ p \in Project /\ r0 \in Repository /\ main[n].at = "start" /\ Returns(n) /\ TypeOK
        /\ SavedIsNow /\ ThreadRests
        /\ UNCHANGED <<board, file, up, lost, open>>
    BY DEF StartLocks, IInv, Threaded, Files
  <1>2. /\ main'[n].at = "free" /\ \A m \in Nirux \ {n} : main'[m] = main[m]
    BY <1>1, Returning
  <1>3. ~IsActive(queues[n][p].run) /\ ~queues[n][p].runsElsewhere
    BY <1>1 DEF ThreadRests
  <1>4. \A m \in Nirux : /\ main'[m].at # "free" /\ Stays
                               => main'[m].repository = board[main'[m].project]
                         /\ main[m].at = "flush" => main'[m] = main[m]
    BY <1>1, <1>2 DEF Files, OneBoard
  <1>5. CASE MayTake(r0) /\ count["starts"] < MaxStarts
    <2>1. /\ lock[r0] = None /\ lock' = [lock EXCEPT ![r0] = n] /\ Begins(n, p, r0)
      BY <1>5 DEF StartLocks, MayTake
    <2>2. /\ \A m \in Nirux, q \in Project : <<m, q>> # <<n, p>> => queues'[m][q] = queues[m][q]
          /\ \A m \in Nirux \ {n} : queues'[m] = queues[m]
          /\ LET d == queues'[n][p]
             IN /\ IsActive(d.run) /\ d.made /\ d.repository = r0
                /\ d.saved \in SavedQueue /\ d.saved.status # "interrupted"
                /\ d.saved.number = d.number /\ d.saved.repository = r0
                /\ Asks(n, <<Saves(p, d.saved)>>)
          /\ SavedIsNow'
          /\ count'["moves"] = count["moves"]
      <3>1. queues[n][p].made
        BY <1>1 DEF ThreadRests
      <3> HIDE DEF p, r0
      <3> QED BY <1>1, <1>3, <2>1, <3>1, BeginsSaves
    <2>3. ThreadRests'
      BY <1>1, <1>2, <2>2, ThreadsRest
    <2>4. Stays' => Stays
      BY <2>2 DEF Stays, BoardsStay
    <2>5. Stays => r0 = board[p] /\ lock'[board[p]] = n
      BY <1>1, <2>1 DEF Files, OneBoard, TypeOK
    <2>6. ASSUME NEW m \in Nirux, NEW i \in Nat, NEW q \in Project, Saving(m, i, q), Stays
          PROVE  lock'[board[q]] = lock[board[q]]
      <3>1. lock[board[q]] = m /\ board[q] \in Repository
        BY <1>1, <2>6 DEF Files, SavesLocked, TypeOK
      <3> QED BY <1>1, <2>1, <3>1, NoneAssumption DEF TypeOK
    <2> DEFINE s == queues'[n][p].saved
    <2>7. PICK t \in SavedQueue : t = s
      BY <2>2
    <2> HIDE DEF p, r0
    <2> QED BY <1>1, <1>3, <1>4, <2>2, <2>3, <2>4, <2>5, <2>6, <2>7, RunSaves
  <1>6. CASE ~(MayTake(r0) /\ count["starts"] < MaxStarts)
    <2>1. UNCHANGED <<lock, queues, writes, count>>
      BY <1>6 DEF StartLocks
    <2>2. RunsOn /\ SavedIsNow' /\ (Stays' => Stays)
      BY <1>1, <2>1 DEF RunsOn, SavedIsNow, SavedNow, Stays, BoardsStay
    <2>3. ThreadRests'
      BY <1>1, <1>2, <2>1, ThreadsRest
    <2> QED BY <1>1, <1>4, <2>1, <2>2, <2>3, QuietFiles
  <1> QED BY <1>5, <1>6

-----------------------------------------------------------------------------
(* The file queue, the board and the end of a process *)

\* A write that was done, or failed: what waits has moved up by one.
LEMMA FileQueueFiles ==
  ASSUME IInv, Files, NEW n \in Nirux, FileQueue(n)
  PROVE  Files'
  <1> DEFINE w == Head(writes[n])
  <1>1. /\ TypeOK /\ writes[n] # <<>> /\ writes' = [writes EXCEPT ![n] = Tail(@)]
        /\ SavedIsNow /\ ThreadRests
        /\ board' = board /\ main' = main /\ queues' = queues
    BY DEF FileQueue, IInv, TypeOK, Files
  <1>2. /\ \A i \in Nat, q \in Project :
              /\ Saving(n, i, q)' <=> i >= 1 /\ Saving(n, i + 1, q)
              /\ Saving(n, i, q)' => writes'[n][i] = writes[n][i + 1]
              /\ Saving(n, i, q) => i >= 1
        /\ \A i \in Nat, r \in Repository : LetsAt(n, i, r)' <=> i >= 1 /\ LetsAt(n, i + 1, r)
        /\ \A m \in Nirux \ {n} : writes'[m] = writes[m]
        /\ w = writes[n][1] /\ 1 \in DOMAIN writes[n] /\ w \in Write
    BY <1>1, TakesFirst
  <1>3. IF w.saved = None
        THEN lock' = [lock EXCEPT ![w.lets] = None] /\ UNCHANGED <<file, count, lost>>
        ELSE /\ \/ /\ file' = [file EXCEPT ![w.project] = w.saved]
                   /\ UNCHANGED <<count, lost>>
                \/ /\ Happens("fails", MaxFails)
                   /\ lost' = lost \cup {w.saved.number}
                   /\ UNCHANGED file
             /\ UNCHANGED lock
    BY DEF FileQueue
  <1>4. /\ w.project \in Project
        /\ w.saved = None => w.lets \in Repository
        /\ w.saved # None => w.saved \in SavedQueue
    BY <1>2, NoneAssumption DEF Write
  <1> HIDE DEF w
  <1>5. SavedIsNow'
    BY <1>1 DEF SavedIsNow, SavedNow
  <1>6. \A q \in Project : file[q] # None => file'[q] # None
    BY <1>1, <1>3, <1>4, NoneAssumption DEF TypeOK
  <1>7. ThreadRests'
    BY <1>1, <1>6 DEF ThreadRests, IInv, Threaded
  <1>8. Stays' => Stays
    BY <1>1, <1>3 DEF Stays, BoardsStay, Happens, TypeOK, Bounded
  <1> SUFFICES ASSUME Stays'
               PROVE  Files'
    BY <1>5, <1>7 DEF Files
  <1>9. /\ OneBoard /\ SavesLocked /\ RunningRuns /\ SavingRuns /\ MarkedLost
        /\ LastSaveStands /\ Stays
    BY <1>8 DEF Files
  <1>10. /\ \A q \in Project : board[q] \in Repository /\ board'[q] = board[q]
         /\ lost \subseteq lost'
         /\ RunsAlone /\ LetsAlone /\ MarksAlone
    BY <1>1, <1>3, <1>9 DEF TypeOK, IInv, Held, Stays
  <1>11. /\ \A m \in Nirux \ {n}, i \in Nat, q \in Project : Saving(m, i, q)' <=> Saving(m, i, q)
         /\ \A m \in Nirux \ {n}, i \in Nat, r \in Repository : LetsAt(m, i, r)' <=> LetsAt(m, i, r)
         /\ \A m \in Nirux, q \in Project, r \in Repository : On(m, q, r)' <=> On(m, q, r)
         /\ \A m \in Nirux, q \in Project : \A k : RunsHere(m, q, k)' <=> RunsHere(m, q, k)
    BY <1>1, <1>2 DEF Saving, LetsAt, On, RunsHere
  \* The save done was p's, or none was.
  <1>12. /\ \A q \in Project : Saving(n, 1, q) <=> w.saved # None /\ w.project = q
         /\ \A r \in Repository : w.saved = None /\ w.lets = r => LetsAt(n, 1, r)
    BY <1>2 DEF Saving, LetsAt
  <1>13. ASSUME NEW m \in Nirux, NEW i \in Nat, NEW q \in Project, NEW k, EndsAt(m, i, q, k)
         PROVE  /\ m # n => EndsAt(m, i, q, k)'
                /\ m = n => \/ i > 1 /\ i - 1 \in Nat /\ EndsAt(n, i - 1, q, k)'
                            \/ i = 1 /\ w.saved # None /\ w.project = q /\ w.saved.number = k
                               /\ ~IsRunning(w.saved)
    <2>1. CASE m # n
      BY <1>2, <1>10, <1>11, <1>13, <2>1 DEF EndsAt
    <2>2. CASE m = n /\ i = 1
      BY <1>2, <1>12, <1>13, <2>2 DEF EndsAt
    <2>3. CASE m = n /\ i > 1
      <3> DEFINE j == i - 1
      <3>1. j \in Nat /\ j >= 1 /\ j + 1 = i
        BY <2>3
      <3>2. Saving(n, j + 1, q) /\ LetsAt(n, (j + 1) + 1, board[q])
            /\ writes[n][j + 1].saved.number = k /\ ~IsRunning(writes[n][j + 1].saved)
        BY <1>13, <2>3, <3>1 DEF EndsAt
      <3> HIDE DEF j
      <3>3. Saving(n, j, q)' /\ writes'[n][j] = writes[n][j + 1]
        BY <1>2, <3>1, <3>2
      <3>4. PICK r \in Repository : r = board[q]
        BY <1>10
      <3>5. LetsAt(n, j + 1, r)'
        BY <1>2, <3>1, <3>2, <3>4
      <3>6. EndsAt(n, j, q, k)'
        BY <1>10, <3>2, <3>3, <3>4, <3>5 DEF EndsAt, LetsAt, IsRunning
      <3> QED BY <2>3, <3>1, <3>6 DEF j
    <2>4. i = 0 \/ i = 1 \/ i > 1
      OBVIOUS
    <2>5. ~(m = n /\ i = 0)
      BY <1>2, <1>13 DEF EndsAt
    <2> QED BY <2>1, <2>2, <2>3, <2>4, <2>5
  <1>14. \A q \in Project : w.saved # None /\ w.project = q => w.saved.repository = board[q]
    BY <1>2, <1>9, <1>12 DEF OneBoard
  <1>15. OneBoard'
    <2>1. \A q \in Project : file'[q] # None => file'[q].repository = board[q]
      BY <1>1, <1>3, <1>4, <1>9, <1>14 DEF OneBoard, TypeOK
    <2>2. \A m \in Nirux, i \in Nat, q \in Project :
            Saving(m, i, q)' => writes'[m][i].saved.repository = board[q]
      <3> SUFFICES ASSUME NEW m \in Nirux, NEW i \in Nat, NEW q \in Project, Saving(m, i, q)'
                   PROVE  writes'[m][i].saved.repository = board[q]
        OBVIOUS
      <3>1. CASE m = n
        BY <1>2, <1>9, <3>1 DEF OneBoard
      <3>2. CASE m # n
        BY <1>2, <1>9, <1>11, <3>2 DEF OneBoard
      <3> QED BY <3>1, <3>2
    <2>3. /\ \A m \in Nirux, q \in Project :
               IsActive(queues'[m][q].run) => queues'[m][q].repository = board'[q]
          /\ \A m \in Nirux : main'[m].at # "free" => main'[m].repository = board'[main'[m].project]
      BY <1>1, <1>9 DEF OneBoard
    <2>4. \A q \in Project : board'[q] = board[q]
      BY <1>10
    <2> QED BY <2>1, <2>2, <2>3, <2>4 DEF OneBoard, IsActive
  <1>16. SavesLocked'
    <2> SUFFICES ASSUME NEW m \in Nirux, NEW i \in Nat, NEW q \in Project, Saving(m, i, q)'
                 PROVE  /\ (lock[board[q]] = m)'
                        /\ \/ \E o \in Project : On(m, o, board[q])'
                           \/ \E j \in Nat : j > i /\ LetsAt(m, j, board[q])'
                           \/ (main[m].at = "flush" /\ main[m].repository = board[q])'
      BY DEF SavesLocked
    <2>0. PICK r \in Repository : r = board[q]
      BY <1>10
    <2> DEFINE old == IF m = n THEN i + 1 ELSE i
    <2>1. old \in Nat /\ Saving(m, old, q) /\ (m = n => i >= 1)
      BY <1>2, <1>11
    <2>2. /\ lock[r] = m
          /\ \/ \E o \in Project : On(m, o, r)
             \/ \E j \in Nat : j > old /\ LetsAt(m, j, r)
             \/ main[m].at = "flush" /\ main[m].repository = r
      BY <1>9, <2>0, <2>1 DEF SavesLocked
    <2>3. ASSUME NEW j \in Nat, j > old, LetsAt(m, j, r)
          PROVE  \E l \in Nat : l > i /\ LetsAt(m, l, r)'
      <3>1. CASE m # n
        BY <1>11, <2>3, <3>1
      <3>2. CASE m = n
        <4>1. j - 1 \in Nat /\ j - 1 >= 1 /\ (j - 1) + 1 = j /\ j - 1 > i
          BY <2>1, <2>3, <3>2
        <4>2. LetsAt(n, j - 1, r)'
          BY <1>2, <2>3, <3>2, <4>1
        <4> QED BY <3>2, <4>1, <4>2
      <3> QED BY <3>1, <3>2
    <2>4. lock'[r] = m
      <3>1. CASE w.saved # None
        BY <1>3, <2>2, <3>1
      <3>2. CASE w.saved = None /\ w.lets # r
        BY <1>1, <1>3, <1>4, <2>2, <3>2 DEF TypeOK
      <3>3. CASE w.saved = None /\ w.lets = r
        <4>1. LetsAt(n, 1, r) /\ lock[r] = n
          BY <1>10, <1>12, <3>3 DEF LetsAlone
        <4>2. m = n /\ old > 1
          BY <2>1, <2>2, <4>1
        <4>3. \A j \in Nat : j > old => ~LetsAt(n, j, r)
          BY <1>10, <4>1, <4>2 DEF LetsAlone
        <4>4. /\ \A o \in Project : ~On(n, o, r)
              /\ ~Marks(n, r)
          BY <1>10, <4>1 DEF LetsAlone, MarksAlone
        <4> QED BY <2>2, <4>2, <4>3, <4>4 DEF Marks
      <3> QED BY <3>1, <3>2, <3>3
    <2>5. \/ \E o \in Project : On(m, o, r)
          \/ \E j \in Nat : j > i /\ LetsAt(m, j, r)'
          \/ main[m].at = "flush" /\ main[m].repository = r
      BY <2>2, <2>3
    <2>6. board'[q] = r
      BY <1>10, <2>0
    <2> QED BY <1>1, <2>4, <2>5, <2>6 DEF LetsAt, On
  <1>17. RunningRuns'
    <2> SUFFICES ASSUME NEW q \in Project, NEW k, file'[q] # None, IsRunning(file'[q]),
                        k = file'[q].number, k \notin lost'
                 PROVE  \E m \in Nirux : RunsHere(m, q, k)' \/ \E i \in Nat : EndsAt(m, i, q, k)'
      BY DEF RunningRuns, IsRunning
    <2>1. CASE file'[q] = file[q] /\ ~(w.saved # None /\ w.project = q)
      <3>1. PICK m \in Nirux : RunsHere(m, q, k) \/ \E i \in Nat : EndsAt(m, i, q, k)
        BY <1>9, <1>10, <2>1 DEF RunningRuns
      <3> QED BY <1>11, <1>13, <2>1, <3>1
    <2>2. CASE w.saved # None /\ w.project = q /\ file' = [file EXCEPT ![w.project] = w.saved]
      <3>1. file'[q] = w.saved /\ Saving(n, 1, q) /\ writes[n][1].saved = w.saved
        BY <1>1, <1>2, <1>12, <2>2 DEF TypeOK
      <3>2. RunsHere(n, q, k) \/ \E j \in Nat : j > 1 /\ EndsAt(n, j, q, k)
        BY <1>9, <1>10, <3>1 DEF SavingRuns
      <3> QED BY <1>11, <1>13, <3>2
    <2>3. CASE w.saved # None /\ w.project = q /\ lost' = lost \cup {w.saved.number} /\ file' = file
      <3>1. k # w.saved.number
        BY <2>3
      <3>2. PICK m \in Nirux : RunsHere(m, q, k) \/ \E i \in Nat : EndsAt(m, i, q, k)
        BY <1>9, <1>10, <2>3 DEF RunningRuns
      <3> QED BY <1>11, <1>13, <3>1, <3>2
    <2> QED BY <1>1, <1>3, <1>4, <2>1, <2>2, <2>3 DEF TypeOK
  <1>18. SavingRuns'
    <2> SUFFICES ASSUME NEW m \in Nirux, NEW i \in Nat, NEW q \in Project, NEW k,
                        Saving(m, i, q)', IsRunning(writes'[m][i].saved),
                        k = writes'[m][i].saved.number, k \notin lost'
                 PROVE  RunsHere(m, q, k)' \/ \E j \in Nat : j > i /\ EndsAt(m, j, q, k)'
      BY DEF SavingRuns, IsRunning
    <2> DEFINE old == IF m = n THEN i + 1 ELSE i
    <2>1. /\ old \in Nat /\ Saving(m, old, q) /\ (m = n => i >= 1)
          /\ writes'[m][i] = writes[m][old]
      BY <1>2, <1>11
    <2>2. RunsHere(m, q, k) \/ \E j \in Nat : j > old /\ EndsAt(m, j, q, k)
      BY <1>9, <1>10, <2>1 DEF SavingRuns
    <2>3. ASSUME NEW j \in Nat, j > old, EndsAt(m, j, q, k)
          PROVE  \E l \in Nat : l > i /\ EndsAt(m, l, q, k)'
      <3>1. CASE m # n
        BY <1>13, <2>3, <3>1
      <3>2. CASE m = n
        <4>1. j # 1 /\ j - 1 > i
          BY <2>1, <2>3, <3>2
        <4> QED BY <1>13, <2>3, <3>2, <4>1
      <3> QED BY <3>1, <3>2
    <2> QED BY <1>11, <2>2, <2>3
  <1>19. MarkedLost'
    <2>1. \A q \in Project : file'[q] # None /\ file'[q].status = "interrupted"
            => file'[q].number \in lost'
      <3>1. \A q \in Project : w.saved # None /\ w.project = q /\ w.saved.status = "interrupted"
              => w.saved.number \in lost
        BY <1>2, <1>9, <1>12 DEF MarkedLost
      <3> QED BY <1>1, <1>3, <1>4, <1>9, <1>10, <3>1 DEF MarkedLost, OnlyKilledInterrupted, TypeOK
    <2>2. ASSUME NEW m \in Nirux, NEW i \in Nat, NEW q \in Project, Saving(m, i, q)',
                 writes'[m][i].saved.status = "interrupted"
          PROVE  writes'[m][i].saved.number \in lost'
      <3>1. CASE m = n
        BY <1>2, <1>9, <1>10, <2>2, <3>1 DEF MarkedLost
      <3>2. CASE m # n
        BY <1>2, <1>9, <1>10, <1>11, <2>2, <3>2 DEF MarkedLost
      <3> QED BY <3>1, <3>2
    <2> QED BY <2>1, <2>2 DEF MarkedLost, OnlyKilledInterrupted
  <1>20. LastSaveStands'
    <2> SUFFICES ASSUME NEW m \in Nirux, NEW q \in Project, IsActive(queues[m][q].run),
                        queues'[m][q].number \notin lost'
                 PROVE  /\ (\A i \in Nat : ~Saving(m, i, q)') => file'[q] = queues[m][q].saved
                        /\ \A i \in Nat : LastSaving(m, i, q)' =>
                             writes'[m][i].saved = queues[m][q].saved
      <3>1. ASSUME NEW m \in Nirux, NEW q \in Project
            PROVE  queues'[m][q] = queues[m][q]
        BY <1>1
      <3> QED BY <3>1 DEF LastSaveStands, IsActive
    <2>0. queues'[m][q] = queues[m][q]
      BY <1>1
    <2>1. /\ (\A i \in Nat : ~Saving(m, i, q)) => file[q] = queues[m][q].saved
          /\ \A i \in Nat : LastSaving(m, i, q) => writes[m][i].saved = queues[m][q].saved
      BY <1>9, <1>10, <2>0 DEF LastSaveStands
    <2>2. PICK r \in Repository : r = board[q] /\ On(m, q, r) /\ lock[r] = m
      BY <1>9, <1>10 DEF OneBoard, On, RunsAlone
    <2>3. CASE m # n
      <3>1. ~(w.saved # None /\ w.project = q)
        BY <1>9, <1>12, <2>2, <2>3 DEF SavesLocked
      <3>2. file'[q] = file[q]
        BY <1>1, <1>3, <1>4, <3>1 DEF TypeOK
      <3>3. \A i \in Nat : Saving(m, i, q)' <=> Saving(m, i, q)
        BY <1>11, <2>3
      <3>4. writes'[m] = writes[m]
        BY <1>2, <2>3
      <3> QED BY <2>1, <3>2, <3>3, <3>4 DEF LastSaving
    <2>4. CASE m = n
      <3>1. ASSUME NEW i \in Nat, LastSaving(n, i, q)'
            PROVE  writes'[n][i].saved = queues[n][q].saved
        <4>1. Saving(n, i + 1, q) /\ writes'[n][i] = writes[n][i + 1] /\ i + 1 \in Nat
          BY <1>2, <3>1 DEF LastSaving
        <4>2. ASSUME NEW j \in Nat, Saving(n, j, q)
              PROVE  j <= i + 1
          <5>1. CASE j <= 1
            BY <5>1
          <5>2. CASE j > 1
            <6>1. j - 1 \in Nat /\ j - 1 >= 1 /\ (j - 1) + 1 = j
              BY <5>2
            <6>2. Saving(n, j - 1, q)'
              BY <1>2, <4>2, <6>1
            <6>3. j - 1 <= i
              BY <3>1, <6>1, <6>2 DEF LastSaving
            <6> QED BY <6>3
          <5> QED BY <5>1, <5>2
        <4> QED BY <2>1, <2>4, <4>1, <4>2 DEF LastSaving
      <3>2. ASSUME \A i \in Nat : ~Saving(n, i, q)'
            PROVE  file'[q] = queues[n][q].saved
        <4>1. ASSUME NEW j \in Nat, Saving(n, j, q)
              PROVE  j = 1
          <5>1. j >= 1
            BY <1>2, <4>1
          <5>2. CASE j > 1
            <6>1. j - 1 \in Nat /\ j - 1 >= 1 /\ (j - 1) + 1 = j
              BY <5>2
            <6> QED BY <1>2, <3>2, <4>1, <6>1
          <5> QED BY <5>1, <5>2
        <4>2. CASE Saving(n, 1, q)
          <5>1. LastSaving(n, 1, q)
            BY <4>1, <4>2 DEF LastSaving
          <5>2. w.saved = queues[n][q].saved /\ w.saved # None /\ w.project = q
            BY <1>2, <1>12, <2>1, <2>4, <4>2, <5>1
          <5>3. w.saved.number = queues[n][q].number
            <6>1. queues[n][q].saved = SavedNow(queues[n][q])
              BY <1>1, <2>4 DEF SavedIsNow
            <6> QED BY <5>2, <6>1 DEF SavedNow
          <5>4. ~(lost' = lost \cup {w.saved.number})
            BY <2>0, <2>4, <5>3
          <5> QED BY <1>1, <1>3, <5>2, <5>4 DEF TypeOK
        <4>3. CASE ~Saving(n, 1, q)
          <5>1. \A i \in Nat : ~Saving(n, i, q)
            BY <4>1, <4>3
          <5>2. file'[q] = file[q]
            BY <1>1, <1>3, <1>4, <1>12, <4>3 DEF TypeOK
          <5> QED BY <2>1, <2>4, <5>1, <5>2
        <4> QED BY <4>2, <4>3
      <3> QED BY <2>4, <3>1, <3>2
    <2> QED BY <2>3, <2>4
  <1> QED BY <1>5, <1>7, <1>15, <1>16, <1>17, <1>18, <1>19, <1>20 DEF Files

\* A board that moves ends what was said of boards that stay.
LEMMA MoveBoardFiles ==
  ASSUME IInv, Files, NEW p \in Project, MoveBoard(p)
  PROVE  Files'
  <1>1. /\ TypeOK /\ Happens("moves", MaxMoves) /\ SavedIsNow /\ ThreadRests
        /\ UNCHANGED <<file, lock, up, main, writes, queues, lost, open>>
    BY DEF MoveBoard, IInv, Files
  <1>2. ~Stays'
    BY <1>1 DEF Stays, BoardsStay, Happens, TypeOK, Bounded
  <1>3. SavedIsNow'
    BY <1>1 DEF SavedIsNow, SavedNow
  <1>4. ThreadRests'
    BY <1>1 DEF ThreadRests
  <1> QED BY <1>2, <1>3, <1>4 DEF Files

\* A process that ends loses the queues it ran and the saves that waited.
LEMMA DiesFiles ==
  ASSUME IInv, Files, NEW n \in Nirux, NEW b \in Bounded, NEW max, Happens(b, max), Dies(n)
  PROVE  Files'
  <1>1. /\ TypeOK /\ SavedIsNow /\ ThreadRests
        /\ board' = board /\ file' = file
    BY DEF IInv, Files, Dies
  <1>2. /\ ~IsActive(NoController.run) /\ NoController.saved = None /\ Free.at = "free"
    BY DEF NoController, Idle, IsActive, Free
  <1>3. /\ main'[n].at = "free" /\ writes'[n] = <<>>
        /\ \A p \in Project : queues'[n][p] = NoController
        /\ \A m \in Nirux \ {n} :
             main'[m] = main[m] /\ writes'[m] = writes[m] /\ queues'[m] = queues[m]
        /\ \A r \in Repository, m \in Nirux \ {n} : lock[r] = m => lock'[r] = m
    BY <1>1, <1>2 DEF Dies, TypeOK
  <1>4. /\ lost \subseteq lost'
        /\ \A p \in Project : IsActive(queues[n][p].run) => queues[n][p].number \in lost'
        /\ \A i \in Nat, p \in Project : Saving(n, i, p) => writes[n][i].saved.number \in lost'
    BY DEF Dies, ActiveIn, Saving
  <1>5. SavedIsNow'
    <2> SUFFICES ASSUME NEW m \in Nirux, NEW p \in Project
                 PROVE  /\ IsActive(queues'[m][p].run) => /\ queues'[m][p].made
                                                         /\ queues'[m][p].saved = SavedNow(queues'[m][p])
                        /\ ~IsActive(queues'[m][p].run) /\ queues'[m][p].saved # None
                             /\ IsRunning(queues'[m][p].saved) => queues'[m][p].runsElsewhere
      BY DEF SavedIsNow, SavedNow, IsRunning, IsActive
    <2>1. CASE m = n
      BY <1>2, <1>3, <2>1
    <2>2. CASE m # n
      BY <1>1, <1>3, <2>2 DEF SavedIsNow
    <2> QED BY <2>1, <2>2
  <1>6. ThreadRests'
    BY <1>1, <1>3 DEF ThreadRests
  <1>7. Stays' => Stays
    BY <1>1 DEF Stays, BoardsStay, Happens, TypeOK, Bounded
  <1> SUFFICES ASSUME Stays'
               PROVE  Files'
    BY <1>5, <1>6 DEF Files
  <1>8. /\ OneBoard /\ SavesLocked /\ RunningRuns /\ SavingRuns /\ MarkedLost
        /\ LastSaveStands
    BY <1>7 DEF Files
  <1>9. \A q \in Project : board[q] \in Repository /\ board'[q] = board[q]
    BY <1>1 DEF TypeOK
  <1>10. /\ \A i \in Nat, q \in Project : ~Saving(n, i, q)'
         /\ \A m \in Nirux \ {n}, i \in Nat, q \in Project : Saving(m, i, q)' <=> Saving(m, i, q)
         /\ \A m \in Nirux \ {n}, i \in Nat : \A r : LetsAt(m, i, r)' <=> LetsAt(m, i, r)
         /\ \A m \in Nirux \ {n}, q \in Project : \A r : On(m, q, r)' <=> On(m, q, r)
         /\ \A m \in Nirux \ {n}, q \in Project : \A k : RunsHere(m, q, k)' <=> RunsHere(m, q, k)
    BY <1>3 DEF Saving, LetsAt, On, RunsHere
  <1>11. \A m \in Nirux \ {n}, i \in Nat, q \in Project : \A k : EndsAt(m, i, q, k) => EndsAt(m, i, q, k)'
    <2> SUFFICES ASSUME NEW m \in Nirux \ {n}, NEW i \in Nat, NEW q \in Project, NEW k,
                        EndsAt(m, i, q, k)
                 PROVE  EndsAt(m, i, q, k)'
      OBVIOUS
    <2>1. Saving(m, i, q)' /\ writes'[m] = writes[m] /\ board'[q] = board[q]
      BY <1>3, <1>9, <1>10 DEF EndsAt
    <2> QED BY <2>1 DEF EndsAt, LetsAt, IsRunning
  <1>12. OneBoard'
    <2>1. \A q \in Project : file'[q] # None => file'[q].repository = board'[q]
      BY <1>1, <1>8 DEF OneBoard
    <2>2. \A m \in Nirux, q \in Project :
            IsActive(queues'[m][q].run) => queues'[m][q].repository = board'[q]
      BY <1>1, <1>2, <1>3, <1>8 DEF OneBoard
    <2>3. \A m \in Nirux : main'[m].at # "free" => main'[m].repository = board'[main'[m].project]
      BY <1>1, <1>3, <1>8 DEF OneBoard
    <2>4. \A m \in Nirux, i \in Nat, q \in Project :
            Saving(m, i, q)' => writes'[m][i].saved.repository = board'[q]
      BY <1>1, <1>3, <1>8, <1>10 DEF OneBoard
    <2> QED BY <2>1, <2>2, <2>3, <2>4 DEF OneBoard, IsActive
  <1>13. SavesLocked'
    <2> SUFFICES ASSUME NEW m \in Nirux, NEW i \in Nat, NEW q \in Project, Saving(m, i, q)'
                 PROVE  /\ (lock[board[q]] = m)'
                        /\ \/ \E o \in Project : On(m, o, board[q])'
                           \/ \E j \in Nat : j > i /\ LetsAt(m, j, board[q])'
                           \/ (main[m].at = "flush" /\ main[m].repository = board[q])'
      BY DEF SavesLocked
    <2>1. m # n /\ Saving(m, i, q)
      BY <1>10
    <2>2. /\ lock[board[q]] = m
          /\ \/ \E o \in Project : On(m, o, board[q])
             \/ \E j \in Nat : j > i /\ LetsAt(m, j, board[q])
             \/ main[m].at = "flush" /\ main[m].repository = board[q]
      BY <1>8, <2>1 DEF SavesLocked
    <2>3. board'[q] = board[q] /\ lock'[board[q]] = m
      BY <1>3, <1>9, <2>1, <2>2
    <2>4. main'[m] = main[m] /\ writes'[m] = writes[m] /\ queues'[m] = queues[m]
      BY <1>3, <2>1
    <2> QED BY <2>2, <2>3, <2>4 DEF On, LetsAt
  <1>14. RunningRuns'
    <2> SUFFICES ASSUME NEW q \in Project, NEW k, file'[q] # None, IsRunning(file'[q]),
                        k = file'[q].number, k \notin lost'
                 PROVE  \E m \in Nirux : RunsHere(m, q, k)' \/ \E i \in Nat : EndsAt(m, i, q, k)'
      BY DEF RunningRuns, IsRunning
    <2>1. PICK m \in Nirux : RunsHere(m, q, k) \/ \E i \in Nat : EndsAt(m, i, q, k)
      BY <1>1, <1>4, <1>8 DEF RunningRuns
    <2>2. m # n
      BY <1>4, <2>1 DEF RunsHere, EndsAt
    <2> QED BY <1>10, <1>11, <2>1, <2>2
  <1>15. SavingRuns'
    <2> SUFFICES ASSUME NEW m \in Nirux, NEW i \in Nat, NEW q \in Project, NEW k,
                        Saving(m, i, q)', IsRunning(writes'[m][i].saved),
                        k = writes'[m][i].saved.number, k \notin lost'
                 PROVE  RunsHere(m, q, k)' \/ \E j \in Nat : j > i /\ EndsAt(m, j, q, k)'
      BY DEF SavingRuns, IsRunning
    <2>1. m # n /\ Saving(m, i, q) /\ writes'[m] = writes[m]
      BY <1>3, <1>10
    <2>2. RunsHere(m, q, k) \/ \E j \in Nat : j > i /\ EndsAt(m, j, q, k)
      BY <1>4, <1>8, <2>1 DEF SavingRuns
    <2> QED BY <1>10, <1>11, <2>1, <2>2
  <1>16. MarkedLost'
    <2>1. \A q \in Project : file'[q] # None /\ file'[q].status = "interrupted"
            => file'[q].number \in lost'
      BY <1>1, <1>4, <1>8 DEF MarkedLost, OnlyKilledInterrupted
    <2>2. ASSUME NEW m \in Nirux, NEW i \in Nat, NEW q \in Project, Saving(m, i, q)',
                 writes'[m][i].saved.status = "interrupted"
          PROVE  writes'[m][i].saved.number \in lost'
      <3>1. m # n /\ Saving(m, i, q) /\ writes'[m] = writes[m]
        BY <1>3, <1>10, <2>2
      <3> QED BY <1>4, <1>8, <2>2, <3>1 DEF MarkedLost
    <2> QED BY <2>1, <2>2 DEF MarkedLost, OnlyKilledInterrupted
  <1>17. LastSaveStands'
    <2> SUFFICES ASSUME NEW m \in Nirux, NEW q \in Project, IsActive(queues'[m][q].run),
                        queues'[m][q].number \notin lost'
                 PROVE  /\ (\A i \in Nat : ~Saving(m, i, q)') => file'[q] = queues'[m][q].saved
                        /\ \A i \in Nat : LastSaving(m, i, q)' =>
                             writes'[m][i].saved = queues'[m][q].saved
      BY DEF LastSaveStands, IsActive
    <2>1. m # n
      BY <1>2, <1>3
    <2>2. writes'[m] = writes[m] /\ queues'[m] = queues[m]
          /\ \A i \in Nat : Saving(m, i, q)' <=> Saving(m, i, q)
      BY <1>3, <1>10, <2>1
    <2>3. /\ (\A i \in Nat : ~Saving(m, i, q)) => file[q] = queues[m][q].saved
          /\ \A i \in Nat : LastSaving(m, i, q) => writes[m][i].saved = queues[m][q].saved
      BY <1>4, <1>8, <2>2 DEF LastSaveStands
    <2> QED BY <1>1, <2>2, <2>3 DEF LastSaving
  <1> QED BY <1>5, <1>6, <1>12, <1>13, <1>14, <1>15, <1>16, <1>17 DEF Files

\* A launch, or a step of something else, leaves all of this alone.
LEMMA StillFiles ==
  ASSUME IInv, Files, UNCHANGED <<board, file, lock, main, writes, queues, count, lost>>
  PROVE  Files'
  <1>1. TypeOK /\ SavedIsNow /\ ThreadRests
    BY DEF IInv, Files
  <1>2. SavedIsNow' /\ ThreadRests'
    BY <1>1 DEF SavedIsNow, SavedNow, ThreadRests
  <1>3. RunsOn
    BY DEF RunsOn
  <1>4. Stays' => Stays
    BY DEF Stays, BoardsStay
  <1>5. Stays => \A m \in Nirux : main[m].at # "free" => main[m].repository = board[main[m].project]
    BY DEF Files, OneBoard
  <1> QED BY <1>1, <1>2, <1>3, <1>4, <1>5, QuietFiles

\* Nothing is saved, and nothing waits.
LEMMA InitFiles == Init => Files
  <1> SUFFICES ASSUME Init PROVE Files
    OBVIOUS
  <1>1. ~IsActive(NoController.run) /\ NoController.saved = None /\ Free.at = "free"
    BY DEF NoController, Idle, IsActive, Free
  <1>2. /\ \A n \in Nirux : main[n].at = "free" /\ writes[n] = <<>>
        /\ \A n \in Nirux, p \in Project : queues[n][p] = NoController
        /\ \A p \in Project : file[p] = None
    BY <1>1 DEF Init
  <1>3. \A n \in Nirux, i \in Nat, p \in Project : ~Saving(n, i, p)
    BY <1>2 DEF Saving
  <1>4. SavedIsNow /\ ThreadRests
    BY <1>1, <1>2 DEF SavedIsNow, ThreadRests
  <1>5. OneBoard /\ SavesLocked /\ RunningRuns /\ SavingRuns
    BY <1>1, <1>2, <1>3 DEF OneBoard, SavesLocked, RunningRuns, SavingRuns
  <1>6. MarkedLost /\ LastSaveStands
    BY <1>1, <1>2, <1>3 DEF MarkedLost, OnlyKilledInterrupted, LastSaveStands, LastSaving
  <1> QED BY <1>4, <1>5, <1>6 DEF Files

\* Each step of the specification keeps it.
LEMMA NextFiles == IInv /\ Files /\ [Next]_vars => Files'
  <1> SUFFICES ASSUME IInv, Files, [Next]_vars PROVE Files'
    OBVIOUS
  <1>1. CASE UNCHANGED vars
    BY <1>1, StillFiles DEF vars
  <1>2. ASSUME NEW n \in Nirux, NEW p \in Project,
               Make(n, p) \/ Reload(n, p) \/ Start(n, p) \/ Step(n, p)
        PROVE  Files'
    BY <1>2, MakeFiles, ReloadFiles, StartFiles, StepFiles
  <1>3. ASSUME NEW n \in Nirux, Restoring(n) \/ StartLocks(n) \/ FileQueue(n)
        PROVE  Files'
    BY <1>3, RestoreLocksFiles, RestoreReadsFiles, RestoreEndsFiles, StartLocksFiles,
       FileQueueFiles DEF Restoring
  <1>4. ASSUME NEW n \in Nirux, Crash(n) \/ Quit(n)
        PROVE  Files'
    BY <1>4, DiesFiles DEF Crash, Quit, Bounded
  <1>5. ASSUME NEW n \in Nirux, Launch(n)
        PROVE  Files'
    BY <1>5, StillFiles DEF Launch
  <1>6. ASSUME NEW p \in Project, MoveBoard(p)
        PROVE  Files'
    BY <1>6, MoveBoardFiles
  <1> QED BY <1>1, <1>2, <1>3, <1>4, <1>5, <1>6 DEF Next

\* What the files say: with the locks, an inductive invariant too.
THEOREM FilesInvariant == Spec => [](IInv /\ Files)
  <1>1. Init => IInv /\ Files
    BY InitInvariant, InitFiles
  <1>2. IInv /\ Files /\ [Next]_vars => (IInv /\ Files)'
    BY NextInvariant, NextFiles
  <1> QED BY <1>1, <1>2, PTL DEF Spec

\* While boards keep their repository, a live build marks only a killed queue
\* as interrupted, or one whose last state could not be written
\* (MergeQueueController.restore and settle, against start and finish).
THEOREM KilledInterrupted == ~DryRun => (Spec => []InterruptedWasKilled)
  <1> SUFFICES ASSUME ~DryRun
               PROVE  Spec => []InterruptedWasKilled
    OBVIOUS
  <1>1. IInv /\ Files => InterruptedWasKilled
    BY DEF Files, Stays, MarkedLost, InterruptedWasKilled
  <1> QED BY <1>1, FilesInvariant, PTL

\* Then nobody writes over the state of a queue that runs: once its saves are
\* done, the file is what its controller saved last (update and the file queue).
THEOREM OwnStateStands == ~DryRun => (Spec => []StateStands)
  <1> SUFFICES ASSUME ~DryRun
               PROVE  Spec => []StateStands
    OBVIOUS
  <1>1. IInv /\ Files => StateStands
    BY DEF Files, Stays, LastSaveStands, Saving, StateStands
  <1> QED BY <1>1, FilesInvariant, PTL

=============================================================================
