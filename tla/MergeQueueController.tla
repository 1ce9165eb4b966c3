------------------------ MODULE MergeQueueController ------------------------
(***************************************************************************)
(* Who may run a merge queue, and what is left of one that was killed:     *)
(* Views/MergeQueueController.swift with Model/MergeQueueStore.swift.      *)
(*                                                                         *)
(* Several Nirux processes share one state directory.  Each has a          *)
(* controller per project, made when its board first shows.  A live queue  *)
(* holds an exclusive flock of its repository; the queue is saved after    *)
(* each step, on a serial file queue off the main thread; and a queue that *)
(* reads as running with nobody to run it is marked interrupted.           *)
(*                                                                         *)
(* Abstractions.  A queue is a run (MergeQueueRun) and its number: the     *)
(* list of pull requests, the journal's lines and the board's selection    *)
(* are left out.  A step is one block of a main thread, up to where it     *)
(* waits for files or another process may come between.  The builds of a   *)
(* model are all live or all dry-run ones: their files are apart.          *)
(***************************************************************************)
EXTENDS MergeQueueRun, Integers, Sequences, FiniteSets

CONSTANTS
    Nirux,       \* processes
    Project,
    Repository,
    Boards,      \* what the projects' board.json may name when the model begins
    None,        \* Swift's nil
    DryRun,      \* client.isDryRun
    MaxStarts,   \* bound: queues started
    MaxCrashes,  \* bound: processes killed
    MaxQuits,    \* bound: processes quit
    MaxFails,    \* bound: writes that fail
    MaxMoves,    \* bound: changes of a board's repository
    MaxTrouble,  \* bound: of these four, all together
    MaxBehind    \* bound: what the file queue is behind by when a queue steps

ASSUME BoardsAssumption == Boards \subseteq [Project -> Repository]
ASSUME DryRunAssumption == DryRun \in BOOLEAN
ASSUME BoundsAssumption ==
    {MaxStarts, MaxCrashes, MaxQuits, MaxFails, MaxMoves, MaxTrouble, MaxBehind} \subseteq Nat

VARIABLES
    board,    \* the repository board.json names, for each project
    file,     \* queue-state.json of each project
    lock,     \* the process that holds each repository's flock
    up,       \* processes that run
    main,     \* what a main thread is in the middle of
    writes,   \* the file queue of each process
    queues,   \* the controllers of each process
    count,    \* how often each bounded thing happened
    lost,     \* history: queues killed, or whose last state wasn't written
    open      \* history: queues whose process quit while a call was out

vars == <<board, file, lock, up, main, writes, queues, count, lost, open>>

Number == 1..MaxStarts
Bounded == {"starts", "crashes", "quits", "fails", "moves"}

\* SavedQueue, as far as a reader tells them apart; `sent' is inFlight.
Status == {"running", "stopping", "stopped", "finished", "interrupted"}
SavedQueue == [number: Number, repository: Repository, status: Status,
               sent: BOOLEAN]
Controller == [made: BOOLEAN, run: Run, number: Number \cup {0},
               repository: Repository \cup {None},
               saved: SavedQueue \cup {None}, runsElsewhere: BOOLEAN]
Thread == [at: {"free", "lock", "read", "flush", "start"},
           project: Project \cup {None}, repository: Repository \cup {None},
           saved: SavedQueue \cup {None}]
Write == [project: Project, saved: SavedQueue, lets: {None}]
             \cup [project: Project, saved: {None}, lets: Repository]

ASSUME NoneAssumption ==
    None \notin Nirux /\ None \notin Repository /\ None \notin SavedQueue

NoController == [made |-> FALSE, run |-> Idle, number |-> 0, repository |-> None,
                 saved |-> None, runsElsewhere |-> FALSE]
Free == [at |-> "free", project |-> None, repository |-> None, saved |-> None]

TypeOK ==
    /\ board \in [Project -> Repository]
    /\ file \in [Project -> SavedQueue \cup {None}]
    /\ lock \in [Repository -> Nirux \cup {None}]
    /\ up \in [Nirux -> BOOLEAN]
    /\ main \in [Nirux -> Thread]
    /\ writes \in [Nirux -> Seq(Write)]
    /\ queues \in [Nirux -> [Project -> Controller]]
    /\ count \in [Bounded -> Nat]
    /\ lost \subseteq Number /\ open \subseteq Number

Init ==
    /\ board \in Boards
    /\ file = [p \in Project |-> None]
    /\ lock = [r \in Repository |-> None]
    /\ up = [n \in Nirux |-> TRUE]
    /\ main = [n \in Nirux |-> Free]
    /\ writes = [n \in Nirux |-> <<>>]
    /\ queues = [n \in Nirux |-> [p \in Project |-> NoController]]
    /\ count = [b \in Bounded |-> 0]
    /\ lost = {} /\ open = {}

-----------------------------------------------------------------------------
(* Helpers *)

\* A moved board counts for three.
Trouble == count["crashes"] + count["quits"] + count["fails"] + 3 * count["moves"]

Happens(b, max) ==
    /\ count[b] < max
    /\ count' = [count EXCEPT ![b] = @ + 1]
    /\ b = "starts" \/ Trouble' <= MaxTrouble

IsFree(n) == up[n] /\ main[n].at = "free"
IsRunning(s) == s.status \in {"running", "stopping"}

Put(n, p, c) == queues' = [queues EXCEPT ![n][p] = c]
Goes(n, at, p, r, s) ==
    main' = [main EXCEPT ![n] = [at |-> at, project |-> p, repository |-> r,
                                 saved |-> s]]
Returns(n) == main' = [main EXCEPT ![n] = Free]

\* write(lines:saved:) and finish(): what the file queue is asked to do.
Saves(p, s) == [project |-> p, saved |-> s, lets |-> None]
Lets(p, r) == [project |-> p, saved |-> None, lets |-> r]
Asks(n, ws) == writes' = [writes EXCEPT ![n] = @ \o ws]

\* isRepositoryBusy, as the shell sets it: another project's queue here.
BusyHere(n, p) ==
    {r \in Repository : \E q \in Project \ {p} :
        IsActive(queues[n][q].run) /\ queues[n][q].repository = r}

\* MergeQueueLock.acquire: none holds it, this process included.
\* Bug: the lock is shared.
MayShare(r) == TRUE

MayTake(r) == lock[r] = None

-----------------------------------------------------------------------------
(* Reading a saved queue *)

\* SavedQueue.interrupted(): the call that was out is still told.
Interrupted(s) == [s EXCEPT !.status = "interrupted"]

\* settle(_:)
Settles(n, p, c, s) ==
    IF IsRunning(s)
    THEN /\ Put(n, p, [c EXCEPT !.saved = Interrupted(s)])
         /\ Asks(n, <<Saves(p, Interrupted(s))>>)
    ELSE /\ Put(n, p, [c EXCEPT !.saved = s])
         /\ UNCHANGED writes

\* restore(), up to where it takes the lock.
Restores(n, p, c, busy) ==
    LET s == file[p]
    IN IF s # None /\ IsRunning(s) /\ ~DryRun /\ s.repository \notin busy
       THEN /\ Put(n, p, c)
            /\ Goes(n, "lock", p, s.repository, s)
            /\ UNCHANGED writes
       ELSE /\ IF s = None THEN Put(n, p, c) /\ UNCHANGED writes
                           ELSE Settles(n, p, c, s)
            /\ UNCHANGED main

\* init: isRepositoryBusy is set after it, so nothing is busy to it.
Make(n, p) ==
    /\ IsFree(n)
    /\ ~queues[n][p].made
    /\ Restores(n, p, [queues[n][p] EXCEPT !.made = TRUE], {})
    /\ UNCHANGED <<board, file, lock, up, count, lost, open>>

\* reloadSavedIfStale(interval:): the saved queue is read again, now and then.
\* Bug: a queue that ran elsewhere once always does.
Forgotten(c) == [c EXCEPT !.saved = None]

Forgets(c) == [c EXCEPT !.saved = None, !.runsElsewhere = FALSE]

Reload(n, p) ==
    /\ IsFree(n)
    /\ queues[n][p].runsElsewhere
    /\ ~IsActive(queues[n][p].run)
    /\ Restores(n, p, Forgets(queues[n][p]), BusyHere(n, p))
    /\ UNCHANGED <<board, file, lock, up, count, lost, open>>

\* restore(): without the lock, the saved queue runs elsewhere.
RestoreLocks(n) ==
    LET t == main[n]
    IN /\ t.at = "lock"
       /\ IF MayTake(t.repository)
          THEN /\ lock' = [lock EXCEPT ![t.repository] = n]
               /\ Goes(n, "read", t.project, t.repository, t.saved)
               /\ UNCHANGED queues
          ELSE /\ Put(n, t.project, [queues[n][t.project] EXCEPT
                                       !.saved = t.saved, !.runsElsewhere = TRUE])
               /\ Returns(n)
               /\ UNCHANGED lock
       /\ UNCHANGED <<board, file, up, writes, count, lost, open>>

\* restore(): under the lock, the file is read again and settled.
\* Bug: what was read before the lock is settled.
ReadBefore(t) == t.saved

ReadAgain(t) == IF file[t.project] = None THEN t.saved ELSE file[t.project]

RestoreReads(n) ==
    LET t == main[n]
    IN /\ t.at = "read"
       /\ Settles(n, t.project, queues[n][t.project], ReadAgain(t))
       /\ Goes(n, "flush", t.project, t.repository, None)
       /\ UNCHANGED <<board, file, lock, up, count, lost, open>>

\* restore(): the lock goes once the file queue is empty.
\* Bug: the lock goes before the file is written.
WaitsForNothing(n) == TRUE

FilesWritten(n) == writes[n] = <<>>

RestoreEnds(n) ==
    /\ main[n].at = "flush"
    /\ FilesWritten(n)
    /\ lock' = [lock EXCEPT ![main[n].repository] = None]
    /\ Returns(n)
    /\ UNCHANGED <<board, file, up, writes, queues, count, lost, open>>

-----------------------------------------------------------------------------
(* Running a queue *)

SavedNow(c) == [number |-> c.number, repository |-> c.repository,
                status |-> c.run.phase, sent |-> c.run.call # "none"]

\* finish(): the lock goes on the file queue, after the last write.
LastWrites(p, s, r) == <<Saves(p, s), Lets(p, r)>>

\* update(_:notes:): after each step of the engine.
Updates(n, p, c) ==
    LET s == SavedNow(c)
    IN /\ Put(n, p, [c EXCEPT !.saved = s])
       /\ Asks(n, IF s = c.saved THEN <<>>
                  ELSE IF IsActive(c.run) \/ DryRun THEN <<Saves(p, s)>>
                  ELSE LastWrites(p, s, c.repository))

\* start(settings:entries:), past its first refusals, and past the shell's: a
\* queue that runs elsewhere opens no confirmation sheet.  A live one first
\* waits for the files.
Begins(n, p, r) ==
    /\ Happens("starts", MaxStarts)
    /\ \E run \in Starts(Idle) :
         Updates(n, p, [queues[n][p] EXCEPT
                          !.run = run, !.number = count["starts"] + 1,
                          !.repository = r, !.runsElsewhere = FALSE])

Start(n, p) ==
    /\ IsFree(n)
    /\ queues[n][p].made /\ ~queues[n][p].runsElsewhere
    /\ ~IsActive(queues[n][p].run)
    /\ board[p] \notin BusyHere(n, p)
    /\ IF DryRun
       THEN Begins(n, p, board[p]) /\ UNCHANGED main
       ELSE /\ count["starts"] < MaxStarts
            /\ Goes(n, "start", p, board[p], None)
            /\ UNCHANGED <<queues, writes, count>>
    /\ UNCHANGED <<board, file, lock, up, lost, open>>

StartLocks(n) ==
    LET t == main[n]
    IN /\ t.at = "start"
       /\ FilesWritten(n)
       /\ Returns(n)
       /\ IF MayTake(t.repository) /\ count["starts"] < MaxStarts
          THEN /\ lock' = [lock EXCEPT ![t.repository] = n]
               /\ Begins(n, t.project, t.repository)
          ELSE UNCHANGED <<lock, queues, writes, count>>
       /\ UNCHANGED <<board, file, up, lost, open>>

\* A step of the engine: an answer, or the user's Stop.
Step(n, p) ==
    /\ IsFree(n)
    /\ Len(writes[n]) <= MaxBehind
    /\ \E run \in After(queues[n][p].run) :
         Updates(n, p, [queues[n][p] EXCEPT !.run = run])
    /\ UNCHANGED <<board, file, lock, up, main, count, lost, open>>

\* The file queue: one save (logged and forgotten when it fails) or release.
FileQueue(n) ==
    /\ writes[n] # <<>>
    /\ writes' = [writes EXCEPT ![n] = Tail(@)]
    /\ LET w == Head(writes[n])
       IN IF w.saved = None
          THEN /\ lock' = [lock EXCEPT ![w.lets] = None]
               /\ UNCHANGED <<file, count, lost>>
          ELSE /\ \/ /\ file' = [file EXCEPT ![w.project] = w.saved]
                     /\ UNCHANGED <<count, lost>>
                  \/ /\ Happens("fails", MaxFails)
                     /\ lost' = lost \cup {w.saved.number}
                     /\ UNCHANGED file
               /\ UNCHANGED lock
    /\ UNCHANGED <<board, up, main, queues, open>>

\* Board Settings, in any Nirux.
MoveBoard(p) ==
    /\ Happens("moves", MaxMoves)
    /\ \E r \in Repository \ {board[p]} : board' = [board EXCEPT ![p] = r]
    /\ UNCHANGED <<file, lock, up, main, writes, queues, lost, open>>

-----------------------------------------------------------------------------
(* Processes *)

ActiveIn(n) == {p \in Project : IsActive(queues[n][p].run)}

CallsOut(n) ==
    {queues[n][p].number : p \in {q \in ActiveIn(n) : queues[n][q].run.call # "none"}}

\* The end of a process: the kernel lets its locks go.
Dies(n) ==
    /\ up' = [up EXCEPT ![n] = FALSE]
    /\ main' = [main EXCEPT ![n] = Free]
    /\ writes' = [writes EXCEPT ![n] = <<>>]
    /\ queues' = [queues EXCEPT ![n] = [p \in Project |-> NoController]]
    /\ lock' = [r \in Repository |-> IF lock[r] = n THEN None ELSE lock[r]]
    /\ lost' = lost \cup {queues[n][p].number : p \in ActiveIn(n)}
                    \cup {writes[n][i].saved.number :
                            i \in {j \in DOMAIN writes[n] : writes[n][j].saved # None}}
    /\ UNCHANGED <<board, file>>

Crash(n) == up[n] /\ Happens("crashes", MaxCrashes) /\ Dies(n) /\ UNCHANGED open

\* A quit stops the queues; one whose call has not answered is waited for, up
\* to mergeQueueQuitTimeout.  applicationWillTerminate waits for the files.
\* Bug: the app quits over files still to be written.
QuitsOver(n) == TRUE

QuitWaits(n) == writes[n] = <<>>

Quit(n) ==
    /\ IsFree(n)
    /\ \A p \in Project : queues[n][p].run.phase # "running"
    /\ QuitWaits(n)
    /\ Happens("quits", MaxQuits)
    /\ Dies(n)
    /\ open' = open \cup CallsOut(n)

Launch(n) ==
    /\ ~up[n]
    /\ up' = [up EXCEPT ![n] = TRUE]
    /\ UNCHANGED <<board, file, lock, main, writes, queues, count, lost, open>>

Restoring(n) == RestoreLocks(n) \/ RestoreReads(n) \/ RestoreEnds(n)

Next ==
    \/ \E n \in Nirux :
        \/ \E p \in Project : Make(n, p) \/ Reload(n, p) \/ Start(n, p) \/ Step(n, p)
        \/ Restoring(n)
        \/ StartLocks(n)
        \/ FileQueue(n)
        \/ Crash(n) \/ Quit(n) \/ Launch(n)
    \/ \E p \in Project : MoveBoard(p)

Spec == Init /\ [][Next]_vars

\* A main thread goes on, the file queue writes, and the shell looks again at
\* a queue that runs elsewhere, at each refresh of the status bar.
FairSpec ==
    /\ Spec
    /\ \A n \in Nirux :
        /\ WF_vars(Restoring(n)) /\ WF_vars(StartLocks(n))
        /\ WF_vars(FileQueue(n))
        /\ \A p \in Project : WF_vars(Reload(n, p))

-----------------------------------------------------------------------------
(* What is promised *)

Queues == {<<n, p>> : n \in Nirux, p \in Project}
RunOf(q) == queues[q[1]][q[2]].run
RepositoryOf(q) == queues[q[1]][q[2]].repository

\* At any time one live queue runs on a repository, whatever the projects and
\* the processes that ask for one, and whoever crashes (docs/project-board.md,
\* section 3.4, "One queue per repository").
OneQueuePerRepository ==
    ~DryRun => \A q1, q2 \in Queues :
        /\ IsActive(RunOf(q1)) /\ IsActive(RunOf(q2))
        /\ RepositoryOf(q1) = RepositoryOf(q2)
        => q1 = q2

BoardsStay == count["moves"] = 0

\* A queue reads as interrupted only if its process ended under it, or its
\* last state could not be written: never one that goes on in another Nirux,
\* nor one that ended there (restore(): "unless another Nirux still runs it").
OnlyKilledInterrupted ==
    \A p \in Project : file[p] # None /\ file[p].status = "interrupted"
        => file[p].number \in lost

\* That holds while boards keep their repository: OnlyKilledInterrupted fails
\* once restore() reads the queue of another one (restore, settle).
InterruptedWasKilled == BoardsStay => OnlyKilledInterrupted

\* Nobody else writes over the state of a queue that runs: once the writes it
\* asked for are done, the file is what its controller saved last, while boards keep
\* their repository: a queue of another one would be saved in the same file.
StateStands ==
    BoardsStay => \A n \in Nirux, p \in Project :
        /\ IsActive(queues[n][p].run)
        /\ queues[n][p].number \notin lost
        /\ \A i \in DOMAIN writes[n] : writes[n][i].project # p
        => file[p] = queues[n][p].saved

\* An interrupted queue whose process quit with a call out says so: the user
\* is told to look at the pull request on GitHub (docs/project-board.md,
\* section 3.7, "Files").  A crash may come before that was written.
QuitSaysSent ==
    \A p \in Project :
        /\ file[p] # None /\ file[p].status = "interrupted"
        /\ file[p].number \in open
        => file[p].sent

\* A queue shown as running elsewhere is not shown so for ever once no queue
\* runs: its lock goes, and every Nirux hears of it.
ElsewhereEnds ==
    <>[](\A q \in Queues : ~IsActive(RunOf(q)))
        => <>[](\A n \in Nirux, p \in Project : ~queues[n][p].runsElsewhere)

=============================================================================
