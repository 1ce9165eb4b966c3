---------------------------- MODULE ExplainQueue ----------------------------
(***************************************************************************)
(* Explain's line: one run of claude at a time in the whole app.           *)
(*                                                                         *)
(* Model/ExplainQueue.swift, with everything that calls it: the review     *)
(* column that asks for a run (Views/BranchReviewController.swift), Clean  *)
(* Up, which stops a worktree's runs before it deletes the worktree's      *)
(* review file (Views/NiruxShellView+WorktreeCleanup.swift), and quitting  *)
(* (NiruxApp.swift). The queue is on the main actor and calls its          *)
(* callbacks inside its own operations, so one action below is one         *)
(* main-actor block: an operation with every callback it makes. What       *)
(* happens off the main thread (a run's work, a clean-up's git, the check  *)
(* of claude) ends in an action of its own.                                *)
(*                                                                         *)
(* A run is its place in the order of submission, 1, 2, 3...; 0 is none.   *)
(* The line is the set of those waiting, its first the smallest.           *)
(*                                                                         *)
(* Left out: what a run sends and reports, the bar's message and progress, *)
(* and `isStopped', which only words a message.                            *)
(***************************************************************************)
EXTENDS Naturals, FiniteSets, Sequences

CONSTANTS
    Column,      \* the review columns
    Worktree,    \* worktrees, as worktreeKey names them
    Of,          \* the worktree a column reviews
    MaxRuns      \* bound: runs that join the line

ASSUME MaxRunsAssumption == MaxRuns \in Nat
ASSUME OfAssumption == Of \in [Column -> Worktree]

Run == 1..MaxRuns

VARIABLES
    waiting,     \* the line
    running,     \* the run under way until its completion returned, or 0
    working,     \* runs whose work is under way, off the main thread
    returned,    \* runs whose completion is posted to the main actor
    cancelled,   \* runs whose cancellation is set
    stopped,     \* how many stops hold each worktree
    owner,       \* the column that submitted each run, in their order
    column,      \* what each column's controller keeps
    job,         \* each worktree's clean-up
    rows,        \* the clean-up panel: its rows to come,
    row,         \*   the one under way (an element of {w} or {}),
    held,        \*   and the worktrees it stopped for all of them
    quit         \* the app ends: its main thread takes no more blocks

queue == <<waiting, running, working, returned, cancelled, owner>>
panel == <<rows, row, held>>
vars == <<queue, stopped, column, job, panel, quit>>

-----------------------------------------------------------------------------
\* The bar's states: ready stands for unavailable too, as neither is a run's.
Bar == {"ready", "checking", "queued", "running", "stopping"}

ColumnState == [open: BOOLEAN,             \* in a window
                checking: BOOLEAN,         \* isCheckingExplain
                after: BOOLEAN,            \* explainAfterCheck is set
                asking: BOOLEAN,           \* isAskingToExplain
                active: Run \cup {0},      \* activeExplain
                ticket: Run \cup {0},      \* explainTicket
                cancelled: BOOLEAN,        \* explainCancelled
                bar: Bar]

\* A clean-up: the user is asked (worktreeCleanupsInFlight holds the folder
\* from here on), it waits for the run under way, it deletes.
Job == {"none", "asked", "waits", "cleans"}

TypeOK ==
    /\ waiting \subseteq Run /\ running \in Run \cup {0}
    /\ working \subseteq Run /\ returned \subseteq Run /\ cancelled \subseteq Run
    /\ stopped \in [Worktree -> Nat]
    /\ owner \in Seq(Column) /\ Len(owner) <= MaxRuns
    /\ column \in [Column -> ColumnState]
    /\ job \in [Worktree -> Job]
    /\ rows \in Seq(Worktree) /\ row \subseteq Worktree /\ held \subseteq Worktree
    /\ quit \in BOOLEAN

TreeOf(n) == Of[owner[n]]

-----------------------------------------------------------------------------
\* Bug: an end tells every column that has a run.
EndedForAll(columns, gone) ==
    [c \in Column |->
        IF gone # {} /\ columns[c].active # 0
        THEN [columns[c] EXCEPT !.active = 0, !.ticket = 0, !.bar = "ready"]
        ELSE columns[c]]

\* explainEnded for each run of gone: the column's own, not a later one.
Ended(columns, gone) ==
    [c \in Column |->
        IF columns[c].active \in gone
        THEN [columns[c] EXCEPT !.active = 0, !.ticket = 0, !.bar = "ready"]
        ELSE columns[c]]

\* explainStarted for the run that starts, if one does.
Started(columns, n) ==
    [c \in Column |->
        IF n # 0 /\ columns[c].active = n
        THEN [columns[c] EXCEPT !.bar = IF columns[c].cancelled THEN "stopping" ELSE "running"]
        ELSE columns[c]]

\* Bug: the last that came goes first.
Latest(line) ==
    IF line = {} THEN {0} ELSE {n \in line : \A m \in line : m <= n}

\* The run startNext takes from a line: the first, or none.
First(line) ==
    IF line = {} THEN {0} ELSE {n \in line : \A m \in line : n <= m}

\* startNext, on a line, once nothing is under way.
StartNext(line) ==
    /\ running' \in First(line)
    /\ waiting' = line \ {running'}
    /\ working' = working \cup ({running'} \ {0})

\* A run of w is under way: until its completion returned.
UnderWay(w) == running # 0 /\ TreeOf(running) = w

\* Bug: a run told to stop is taken for one that ended.
ThenAtOnce(w) == "cleans"

\* What stop(worktree:then:) makes of a clean-up: then runs at once, or after
\* the run under way.
Then(w) == IF UnderWay(w) THEN "waits" ELSE "cleans"

\* Bug: a stop ends the run under way, and forgets those in line.
NoneDropped(trees) == {}

\* The runs of trees that leave the line without having started.
Dropped(trees) == {n \in waiting : TreeOf(n) \in trees}

\* stop(worktree:), for each worktree of trees, but for its count.
StopRuns(trees) ==
    /\ waiting' = waiting \ Dropped(trees)
    /\ cancelled' = IF running # 0 /\ TreeOf(running) \in trees
                    THEN cancelled \cup {running} ELSE cancelled
    /\ column' = Ended(column, Dropped(trees))
    /\ UNCHANGED <<running, working, returned, owner>>

\* Bug: a resume lets go whatever else stops the worktree.
ResumedForAll(holds) == 0

\* resume(worktree:): one hold less.
Resumed(holds) == IF holds > 1 THEN holds - 1 ELSE 0

\* A run for a stopped worktree never runs.
Refuses(w) == stopped[w] > 0

-----------------------------------------------------------------------------
\* The column's controller. A check of claude comes before each run, and the
\* user is asked after it.

\* checkExplain(), on Refresh: nothing waits on it.
CheckExplain(c) ==
    /\ column[c].open
    /\ ~column[c].checking /\ ~column[c].asking /\ column[c].active = 0
    /\ column' = [column EXCEPT ![c].checking = TRUE, ![c].bar = "checking"]
    /\ UNCHANGED <<queue, stopped, job, panel, quit>>

\* explain(fresh:): a check under way is enough.
Explain(c) ==
    /\ column[c].open
    /\ column[c].active = 0 /\ ~column[c].after /\ ~column[c].asking
    /\ column' = [column EXCEPT ![c].after = TRUE, ![c].checking = TRUE,
                                ![c].bar = "checking"]
    /\ UNCHANGED <<queue, stopped, job, panel, quit>>

\* checked(_:): claude can run, or it can't.
Checked(c, ready) ==
    /\ column[c].checking
    /\ LET k == [column[c] EXCEPT !.checking = FALSE, !.after = FALSE] IN
       column' = [column EXCEPT ![c] =
                    IF k.active # 0 THEN k
                    ELSE [k EXCEPT !.bar = "ready",
                                   !.asking = @ \/ (ready /\ column[c].after)]]
    /\ UNCHANGED <<queue, stopped, job, panel, quit>>

\* start(fresh:cli:account:): the user says no, or the branch changed.
Declined(c) ==
    /\ column[c].asking
    /\ column' = [column EXCEPT ![c].asking = FALSE]
    /\ UNCHANGED <<queue, stopped, job, panel, quit>>

\* The user says yes, but the worktree takes no run: submit calls the
\* completion before it returns a ticket, which the column then ignores.
Refused(c) ==
    /\ column[c].asking /\ Refuses(Of[c])
    /\ column' = [column EXCEPT ![c].asking = FALSE, ![c].cancelled = FALSE,
                                ![c].active = 0, ![c].ticket = 0, ![c].bar = "ready"]
    /\ UNCHANGED <<queue, stopped, job, panel, quit>>

\* The user says yes: the run joins the line, and starts if nothing runs.
Submitted(c) ==
    /\ column[c].asking /\ ~Refuses(Of[c])
    /\ Len(owner) < MaxRuns
    /\ owner' = Append(owner, c)
    /\ LET n == Len(owner')
           asked == [column EXCEPT ![c].asking = FALSE, ![c].cancelled = FALSE,
                        ![c].active = n, ![c].ticket = n, ![c].bar = "queued"]
       IN  IF running = 0
           THEN StartNext(waiting \cup {n}) /\ column' = Started(asked, running')
           ELSE /\ waiting' = waiting \cup {n}
                /\ column' = asked
                /\ UNCHANGED <<running, working>>
    /\ UNCHANGED <<returned, cancelled, stopped, job, panel, quit>>

\* Bug: a run that is cancelled gives its place up before it returned.
CancelExplainAtOnce(c, k) ==
    LET told == [k EXCEPT !.after = FALSE, !.cancelled = @ \/ k.ticket # 0]
        left == {k.ticket} \cap (waiting \cup {running})
    IN  /\ cancelled' = cancelled \cup ((left \cap {running}) \ {0})
        /\ IF k.ticket # 0 /\ k.ticket = running
           THEN StartNext(waiting \ left)
           ELSE waiting' = waiting \ left /\ UNCHANGED <<running, working>>
        /\ column' = Started(Ended([column EXCEPT ![c] = told], left),
                             IF running' # running THEN running' ELSE 0)
        /\ UNCHANGED <<returned, owner, stopped, job, panel, quit>>

\* cancelExplain(), on a column in state k: it forgets the Explain that waits
\* on a check; a run waiting leaves the line, one under way is told to stop.
CancelExplain(c, k) ==
    LET told == [k EXCEPT !.after = FALSE,
                          !.cancelled = @ \/ k.ticket # 0,
                          !.bar = IF k.ticket # 0 /\ @ = "running" THEN "stopping" ELSE @]
        columns == [column EXCEPT ![c] = told]
        left == {k.ticket} \cap waiting
    IN  /\ waiting' = waiting \ left
        /\ column' = Ended(columns, left)
        /\ cancelled' = cancelled \cup (({k.ticket} \cap {running}) \ {0})
        /\ UNCHANGED <<running, working, returned, owner>>
        /\ UNCHANGED <<stopped, job, panel, quit>>

\* The page's Cancel.
Cancel(c) ==
    /\ column[c].open
    /\ CancelExplain(c, column[c])

\* onWindowChange: the column closes, and its Explain with it.
Close(c) ==
    /\ column[c].open
    /\ CancelExplain(c, [column[c] EXCEPT !.open = FALSE])

\* onWindowChange: the column is back.
Reopen(c) ==
    /\ ~column[c].open
    /\ column' = [column EXCEPT ![c].open = TRUE]
    /\ UNCHANGED <<queue, stopped, job, panel, quit>>

-----------------------------------------------------------------------------
\* The run under way.

\* Its work returns, off the main thread: this goes on while the app quits.
WorkReturns(n) ==
    /\ n \in working
    /\ working' = working \ {n}
    /\ returned' = returned \cup {n}
    /\ UNCHANGED <<waiting, running, cancelled, owner>>
    /\ UNCHANGED <<stopped, column, job, panel, quit>>

\* Bug: what waits on a run is forgotten with it.
AfterRunForgotten(jobs) == jobs

\* finishedRun() calls what waits on the run.
AfterRun(jobs) == [w \in Worktree |-> IF jobs[w] = "waits" THEN "cleans" ELSE jobs[w]]

\* Bug: the line moves on only for a run that nobody cancelled.
RunEndsCancelled(n) ==
    /\ n \in returned
    /\ returned' = returned \ {n}
    /\ job' = AfterRun(job)
    /\ IF n \in cancelled
       THEN running' = 0 /\ UNCHANGED <<waiting, working>>
       ELSE StartNext(waiting)
    /\ column' = Started(Ended(column, {n}), running')
    /\ cancelled' = cancelled \ {n}
    /\ UNCHANGED <<owner, stopped, panel, quit>>

\* Its completion: the column's explainEnded, then what waits for the run to
\* end, then the next run.
RunEnds(n) ==
    /\ n \in returned
    /\ returned' = returned \ {n}
    /\ job' = AfterRun(job)
    /\ StartNext(waiting)
    /\ column' = Started(Ended(column, {n}), running')
    /\ cancelled' = cancelled \ {n}
    /\ UNCHANGED <<owner, stopped, panel, quit>>

-----------------------------------------------------------------------------
\* Clean Up of one worktree.

\* requestWorktreeCleanup(path:): at most one of a worktree.
RequestCleanup(w) ==
    /\ job[w] = "none"
    /\ job' = [job EXCEPT ![w] = "asked"]
    /\ UNCHANGED <<queue, stopped, column, panel, quit>>

\* It can't be cleaned up, or the user says no.
CleanupDeclined(w) ==
    /\ job[w] = "asked"
    /\ job' = [job EXCEPT ![w] = "none"]
    /\ UNCHANGED <<queue, stopped, column, panel, quit>>

\* stoppingExplains(in:): the deletion waits for the worktree's run.
CleanupConfirmed(w) ==
    /\ job[w] = "asked"
    /\ StopRuns({w})
    /\ stopped' = [stopped EXCEPT ![w] = @ + 1]
    /\ job' = [job EXCEPT ![w] = Then(w)]
    /\ UNCHANGED <<panel, quit>>

\* The deletion is over, and it wasn't a row's.
CleanupEnds(w) ==
    /\ job[w] = "cleans" /\ w \notin row
    /\ stopped' = [stopped EXCEPT ![w] = Resumed(@)]
    /\ job' = [job EXCEPT ![w] = "none"]
    /\ UNCHANGED <<queue, column, panel, quit>>

-----------------------------------------------------------------------------
\* The panel: its worktrees one after the other, every one stopped first.

PanelLists == {s \in UNION {[1..k -> Worktree] : k \in 1..Cardinality(Worktree)} :
                  \A i, j \in DOMAIN s : s[i] = s[j] => i = j}

\* The place of the first of some rows whose clean-up isn't in flight: those
\* before it are skipped.
NextRow(list, jobs) ==
    {i \in 1..Len(list) : /\ jobs[list[i]] = "none"
                          /\ \A k \in 1..(i - 1) : jobs[list[k]] # "none"}

\* runWorktreeCleanups(_:in:finished:), once the worktrees of all are stopped
\* with counts: a row starts, or none is left and all are resumed.
RunRows(list, all, counts, jobs) ==
    \/ \E i \in NextRow(list, jobs) :
        /\ rows' = SubSeq(list, i + 1, Len(list))
        /\ row' = {list[i]} /\ held' = all
        /\ stopped' = [counts EXCEPT ![list[i]] = @ + 1]
        /\ job' = [jobs EXCEPT ![list[i]] = Then(list[i])]
    \/ /\ NextRow(list, jobs) = {}
       /\ rows' = <<>> /\ row' = {} /\ held' = {}
       /\ stopped' = [w \in Worktree |-> IF w \in all THEN Resumed(counts[w]) ELSE counts[w]]
       /\ job' = jobs

\* confirmBulkWorktreeCleanup: every worktree's runs stop now, and the first
\* row starts.
PanelConfirmed(list) ==
    /\ held = {}
    /\ LET all == {list[i] : i \in DOMAIN list} IN
       /\ StopRuns(all)
       /\ RunRows(list, all, [w \in Worktree |-> stopped[w] + IF w \in all THEN 1 ELSE 0], job)
    /\ UNCHANGED quit

\* A row's deletion is over: the next row, or none after Stop or once the
\* panel is gone. A row's own stop finds the line without runs of its tree.
RowEnds(w, stop) ==
    /\ job[w] = "cleans" /\ w \in row
    /\ RunRows(IF stop THEN <<>> ELSE rows, held,
               [stopped EXCEPT ![w] = Resumed(@)], [job EXCEPT ![w] = "none"])
    /\ UNCHANGED <<queue, column, quit>>

-----------------------------------------------------------------------------
\* cancelAll(waitingUpTo:): the line is emptied, the run told to stop, and
\* the main thread waits, then ends.
Quit ==
    /\ quit' = TRUE
    /\ waiting' = {}
    /\ column' = Ended(column, waiting)
    /\ cancelled' = cancelled \cup ({running} \ {0})
    /\ UNCHANGED <<running, working, returned, owner, stopped, job, panel>>

Init ==
    /\ waiting = {} /\ running = 0 /\ working = {} /\ returned = {} /\ cancelled = {}
    /\ stopped = [w \in Worktree |-> 0]
    /\ owner = <<>>
    /\ column = [c \in Column |->
         [open |-> TRUE, checking |-> FALSE, after |-> FALSE, asking |-> FALSE,
          active |-> 0, ticket |-> 0, cancelled |-> FALSE, bar |-> "ready"]]
    /\ job = [w \in Worktree |-> "none"]
    /\ rows = <<>> /\ row = {} /\ held = {}
    /\ quit = FALSE

ColumnActs(c) ==
    \/ CheckExplain(c) \/ Explain(c) \/ \E ready \in BOOLEAN : Checked(c, ready)
    \/ Declined(c) \/ Refused(c) \/ Submitted(c)
    \/ Cancel(c) \/ Close(c) \/ Reopen(c)

CleanupActs(w) ==
    \/ RequestCleanup(w) \/ CleanupDeclined(w) \/ CleanupConfirmed(w) \/ CleanupEnds(w)
    \/ \E stop \in BOOLEAN : RowEnds(w, stop)

OnMain ==
    \/ \E c \in Column : ColumnActs(c)
    \/ \E n \in Run : RunEnds(n)
    \/ \E w \in Worktree : CleanupActs(w)
    \/ \E list \in PanelLists : PanelConfirmed(list)
    \/ Quit

Next ==
    \/ ~quit /\ OnMain
    \/ \E n \in Run : WorkReturns(n)

Spec == Init /\ [][Next]_vars

\* What runs off the main thread ends: claude has a time limit, git too, and
\* the main actor takes its blocks. Nothing is assumed of the user.
Fairness ==
    /\ \A n \in Run : WF_vars(WorkReturns(n)) /\ WF_vars(~quit /\ RunEnds(n))
    /\ \A w \in Worktree :
        /\ WF_vars(~quit /\ CleanupEnds(w))
        /\ WF_vars(~quit /\ \E stop \in BOOLEAN : RowEnds(w, stop))

FairSpec == Spec /\ Fairness

-----------------------------------------------------------------------------
(***************************************************************************)
(* What the queue promises.                                                *)
(***************************************************************************)

\* One run at a time in the whole app (ExplainQueue.swift:3): what works, or
\* has returned and not been told, is the run the queue holds.
OneRun == (working \cup returned) = {running} \ {0} /\ working \cap returned = {}

\* A worktree's review file is deleted only while no run of it can write it
\* again: stop(worktree:then:) waits for the run, and refuses new ones
\* (:40-42, :117-119).
CleansAlone ==
    \A w \in Worktree : job[w] = "cleans" => \A n \in working \cup returned : TreeOf(n) # w

\* While a worktree is stopped no run of it waits, and the one under way has
\* been told to stop, whoever resumes another stop of it meanwhile.
StoppedForGood ==
    \A w \in Worktree : stopped[w] > 0 =>
        /\ \A n \in waiting : TreeOf(n) # w
        /\ UnderWay(w) => running \in cancelled

\* A worktree is stopped by its clean-up, and by the panel that lists it, and
\* by nothing else: each stop is resumed once (:134-138).
HoldsCounted ==
    \A w \in Worktree :
        stopped[w] = (IF job[w] \in {"waits", "cleans"} THEN 1 ELSE 0)
                   + (IF w \in held THEN 1 ELSE 0)

\* A column has a run in the queue exactly while it believes so: every run's
\* completion reaches it once, and no other run's does. Its bar says where
\* the run is, and "stopping" only if it was asked to.
BarTellsTruth ==
    \A c \in Column :
        LET k == column[c]
            mine == {n \in waiting \cup ({running} \ {0}) : owner[n] = c}
        IN  /\ mine = {k.active} \ {0}
            /\ k.ticket = k.active
            /\ k.bar = "queued" <=> k.active \in waiting
            /\ k.bar \in {"running", "stopping"} <=> k.active # 0 /\ k.active = running
            /\ k.bar = "stopping" => running \in cancelled

\* Nobody waits while nothing runs.
NeverIdle == running = 0 => waiting = {}

\* A clean-up that waits has a run to wait for: its then isn't left behind.
ThenIsDue == \A w \in Worktree : job[w] = "waits" => UnderWay(w)

\* Runs start in the order they came: one that starts passes nobody who
\* stays in line (:57-58).
InTurn == [][running' \notin {running, 0} => \A n \in waiting' : running' < n]_vars

\* A run in line or under way ends, or the app does: none is starved by those
\* that come after, nor left behind by one that is cancelled or stopped.
RunsEnd ==
    \A n \in Run : n \in waiting \cup {running} ~> n \notin waiting \cup {running} \/ quit

\* A clean-up that was confirmed is done, and the panel comes to its end,
\* whatever Explain does meanwhile.
CleanupsEnd ==
    /\ \A w \in Worktree : job[w] = "waits" ~> job[w] = "none" \/ quit
    /\ held # {} ~> held = {} \/ quit

\* "Closed: the watcher goes with it, and Explain stops." (onWindowChange's
\* comment, BranchReviewController.swift:316): the run of a closed column has
\* been told to stop.
ClosedStops ==
    \A c \in Column : ~column[c].open /\ column[c].active # 0 => column[c].active \in cancelled
=============================================================================
