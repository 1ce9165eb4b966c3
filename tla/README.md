# A verification project for Nirux

Nirux is a macOS workspace for terminal coding agents (Swift/AppKit, in
`src/Sources/Nirux`). Its window shows terminals, editors and pages; what is hard in
it happens beside the window and between its two languages: a queue that merges pull
requests for an hour, agents that send each other messages through files, runs of
`claude` that must not outlive the folder they work in, several copies of the app that
share one state directory, and pages whose JavaScript (`EditorAssets/*.js`,
`src/Web/pierre-diff`) and Swift tell each other by messages what the user typed, saved,
marked and closed.
This directory models those parts in TLA+, checks them with TLC on small instances,
and proves the most important facts about them with TLAPS for every instance.

Paths below are relative to `src/Sources/Nirux`.

## Contents

1. The system's parts
2. What is modelled, and how it corresponds to the code
3. What each run checks, its bounds and fairness
4. Where the code and its own words differ
5. What is proved
6. What is only model-checked, and what is not modelled
7. The plan

## 1. The system's parts

| Part | State it keeps | Operations | Hard part | Status |
|---|---|---|---|---|
| Merge queue engine (`Model/MergeQueue+Engine.swift`) | phase, entries, one request, clocks | start, stop, an answer, a failed read | what changes between two reads; answers that say nothing; when every wait ends | modelled, proved |
| Merge queue driver and clients (`Views/MergeQueueDriver.swift`, `Model/MergeQueue+GitHub.swift`, `+Checks`, `+Local`) | the batch of reads, the call | run a request, answer it | late answers; one read at a time | modelled |
| Merge queue controller and store (`Views/MergeQueueController.swift`, `Model/MergeQueueStore.swift`, `Views/NiruxShellView+MergeQueue.swift`) | a queue per project, `queue-state.json`, a flock per repository, a file queue | make, restore, reload, start, step, quit | several processes, crashes, failed writes | modelled, partly proved |
| Explain queue (`Model/ExplainQueue.swift`), its bar (`Views/BranchReviewController.swift`) and Clean Up (`Views/NiruxShellView+WorktreeCleanup.swift`) | the line, stop counts, each column's bar, clean-ups | submit, cancel, stop, resume, close, quit | callbacks inside operations, modal questions, overlapping stops | modelled, proved |
| Missions (`Model/Mission*.swift`, `Views/NiruxShellView+MissionWorkspaces.swift`) | ledger, a queue file and its copy, Activity, what was typed | ask, completed, tell, receive, reply, answer, drain, type | commands killed anywhere, app crashes, failed saves, two writers of a file | modelled |
| Branch Review page (`EditorAssets/review.js`, `review-page.js`) with its column (`Views/BranchReviewController*.swift`, `Views/BranchReviewView.swift`) and record (`Model/BranchReview+Comments.swift`) | editors, drafts, rows, diffs, marks; snapshots, reads and writes under way; the review file | type, save, submit, close, delete, open a row, mark, refresh, take an answer | answers about several clicks at once, other columns, the agent, pages read again or dead | modelled (layout left out) |
| Pierre wrapper (`src/Web/pierre-diff/pierre-diff-entry.js`) | each file's annotations, elements, heights, selection | render, set annotations, select, click the gutter | lists that change off screen, a library that reports twice | the review's half modelled, one fact proved |
| Editor bridge (`EditorAssets/bridge.js`) and column (`Views/EditorColumn.swift`) | models, clean texts, saves under way; tabs, dirty flags, diffs, requests | open, type, save, close, reload, diff, hand a selection | messages that cross, files others write, git reads that come late, a page that dies | modelled |
| Agent hooks (`Model/AgentHookCenter.swift`) | an events file and its copy, held approvals | drain, dispatch, release | a crash between rename and read; a writer that opened before the rename | planned |
| Permission approvals (`Model/PermissionApproval.swift`) | a marker, one file per decision | hold, decide, claim, expire, sweep | a decision that races its deadline; two Nirux on one marker | planned |
| Git refreshes (`Model/GitRefreshCoordinator.swift`) | per workspace: pending change, watcher, reads in flight | tick, change, refresh, reconcile | watchers that start late, reads older than a change | planned |
| Keep awake (`Util/KeepAwakeController.swift`) | an assertion, two generations | update, release, poll, shutdown | late timers | planned |
| Bounded processes (`Util/BoundedProcess.swift`) | a child, its pipes, a deadline | execute, drain, terminate | exit, output and deadline in any order | planned |
| Remote access (`RemoteAccess/`) | last update, pairing, confirmations | poll, pair, handle | crash between saving and handling | planned |
| Review store, project history, session ledger, saved app state | files that more than one process writes | update, append, compact, rotate | crashes and writers between two steps | planned |
| Agent status, terminals, board, memory, activity, searches, usage, local servers, MCP, sidebar, panels | data of the main thread, text, views | | | see section 6 |

How they interact: the engine is a value that its driver and controller own. The driver
runs one request at a time off the main thread and hands the answer back on it. The
controller saves the engine after each step, on a serial file queue, where a lock is
released too; other processes read those files and try those locks. Clean Up calls the
Explain queue before it deletes a worktree's review file, and the queue calls back, at
once or when a run has ended. Agents' commands append to a Mission's queue file and read
its ledger; the app renames the queue aside, applies it to the ledger, shows it in
Activity and types instructions into prompts. A page and its column are two processes: each
posts messages that the other takes in order, at any later time, and neither waits for the
other. The column reads git and writes files on queues of its own, whose answers come back
to its main thread in order. The review page draws its diffs through the wrapper of pierre,
in the same process. `PROJECT.json` lists every component and, under `hazards`, the lines
where each of these can go wrong.

What makes each correct: the merge queue merges only what was confirmed and tested, in
order, once, and always ends; one queue runs on a repository, and a saved queue says
what happened to it; no run of Explain outlives a clean-up, none is forgotten, and the
bar tells the truth; no Mission event is lost, doubled, answered twice or typed twice; no
text typed into a comment is lost or becomes two, and a comment that was closed stays
closed; a diff on screen is of the file and of the version it stands for, and a mark is of
what was seen; an editor that shows clean holds what is on disk, and the tab in front is the
file that is typed into.

## 2. What is modelled, and how it corresponds to the code

`PROJECT.json` maps each definition to its lines. The modules:

**MergeQueueEngine** is `MergeQueue.Engine`, as an open system. Each handler is an action
with the answer as its parameter (`Preflight(pr)` is `preflight(_:index:)`), and `Next`
lets anything be answered. One action is one call of `handle`, with the request it
returns: `Ask` is `read`, `Send` is `mutate`, `Stop` is `stop`. A wait's `now - since` is an
age in ticks; `Tick` makes every age one older, up to `AgeCap`, which is no smaller than
any limit. Messages, notes, commit texts and URLs are left out; a stop keeps its kind.

**MergeQueueGitHub** extends it with the driver (`Fetch`: one read of a batch, in order;
`FinishReads`: the batch is handed over; `GhRuns` and `GhAnswers`: a call goes out, and
comes back) and with the repository: commits, heads, checks, post-merge runs. GitHub,
its workflows and people are external. They may do, between any two reads, what the
code's own handling shows they can do: push, merge, close, edit, turn a check red, start
a workflow, answer an error to a call that took effect, now or later. Each departure
from a smooth course counts as trouble, up to `MaxTrouble`. `live` is false in a dry-run
build, whose client sends nothing.

**MergeQueueRun** and **MergeQueuePromise** are the abstract specification: a queue as its
owner sees it, a phase and whether a call is out. The engine implements it
(`ImplementsRun`: INSTANCE with `run <- RunNow`), and the controller is built on it, so its
model need not contain the engine's.

**MergeQueueController** is several processes, each with a main thread, a file queue and a
controller per project. `Make`, `Reload` and the three `Restore...` actions are `init`,
`reloadSavedIfStale` and `restore()` cut where another process may come between: before
the lock, before the second read of the file, before the lock goes. `Start` and
`StartLocks` are `start(settings:entries:)` before and after it waits for files. `Step` is
`update(_:notes:)` after any step a run may take. `FileQueue` writes one state, or fails,
or releases the lock. `Crash`, `Quit` and `Launch` end and begin processes; the kernel lets
the locks of a dead one go.

**ExplainQueue** has one action for each block of the main actor, callbacks included
(`finishedRun` with the clean-ups that waited and the next start is `RunEnds`), and one for
each end of work off it. A run is its number in the order of submission.

**Missions** has the app's drain step by step (rename, read, each line, each delivery, the
file's removal), its typing of instructions, and the commands of a child and a parent,
each cut at every file operation, since a command can be killed anywhere. A command that
opened a file before the app moved it writes to the file it opened (`file` is `queue`,
`aside` or `gone`).

**ReviewComments** is the page's editors and cards, the column that takes their requests, and
the review file. A handler of the page is an operator of its state: `TakeReview` is
`takeComments` with its adoptions, conversions and repeated requests in the code's order.
`Write` is one turn of the column's queue, which takes every change that waits and answers
all of them; `TakeResult` is the main thread's end of it, where `acknowledge` answers clicks
only once no write is under way. Other columns and the agent change the same file. A text
is a number, new each time one is typed, so that a text names the typing it comes from.

**ReviewDiffs** is the page's rows, diffs, Reviewed checkboxes and the mark of a note, with
the column's reads, its banner, what it holds back while the page has a selection, and its
review queue. A file's version stands for its lines. `Reopened`, `Asks`, `IsForPage` and
`ShowDiff` are the parts of `toggleFile` and `showDiff` that decide whether a diff may show.

**DiffRows**, **LineDiff** and **Markdown** are functions: a file's hunks as a patch and as rows
(`patchText`, `diffLines`, `commentRows`, `commentRange`), the editor's line diff
(`lineDiffOps`, `mergeLineOps`) and markdown's blocks (`parseLines`, `parseList`,
`splitDecisions`). **PageFunctions** grows every small input of them, a line at a time, and
compares them with reference definitions. Pierre's parser is external: it groups the lines
of a patch. A line of text is its kind, and of its content what the functions tell apart.

**PierreReview** is `createReview`: per file, the annotations given, the elements drawn in
order, the heights measured with them, the lines selected, and what the page hears. Pierre
is external: it draws a file that is on screen, measures what it drew, and reports lines.

**EditorBridge** has a record for the page and one for the column; each handler takes its
side's state and returns the next, with what it posts or sends in `out`. `HandleMessage` and
the cases of `handleBridgeMessage` (`TakeDirty`, `HandleSave`, `TakeSelection`, `MonacoReady`) take
one message. What is sent before `monacoReady` waits in `pendingOps`. `moved` holds the open
files whose time on disk is later than the one the column knows: the reads of files and of
their times are apart in the code, and another program may write in between. A text is a
number; of the diff that shows, its file, its original and the text it was drawn of.

The `MC...` modules give constants to these, and `MCMergeQueueAgentWait` adds a history
variable that measures how long an agent was busy.

## 3. What each run checks, its bounds and fairness

| Run | Instance | Question |
|---|---|---|
| `mq_two` | 2 pull requests, a post-merge workflow, 1 trouble, live or dry | Is an answer always awaited (`NeverStranded`), each merge tested on its base (`DoneWasTested`), does only what was confirmed land (`QueueLandsConfirmed`), is nothing sent after Stop (`StopEndsSending`), does each queue end (`Settles`), and does the engine implement its promise (`ImplementsRun`)? |
| `controller_shared` | 2 processes, 2 projects, 2 repositories, 2 starts; a crash, a quit and a failed write, or one board moved to the other repository | One queue per repository, boards moved or not; while boards stay, a queue marked interrupted was killed (`InterruptedWasKilled`) and nobody writes over a running queue's state (`StateStands`). |
| `explain_lives` | 2 columns, 2 worktrees, 2 runs, single and panel clean-ups | No run while its file is deleted (`CleansAlone`), nothing slips past a stop (`StoppedForGood`), bars tell the truth (`BarTellsTruth`), and runs end (`RunsEnd`). |
| `mission_talk` | 1 child, 1 parent, 1 text, 4 events, a switch of the setting, a clock moved back | One answer per question (`AnsweredOnce`), no answer of an old question for a new one (`NeverReopened`). |
| `mission_up` | 1 child, 1 parent, a question or an instruction, 2 events, 2 turns, a crash and a failure | No text typed twice (`NotTwice`), and in the end Activity shows the ledger (`ComesUp`). |
| `review_comments` | 3 comments or drafts, 3 events of any kind: texts, clicks, failed writes and reads, new pages, other columns, the agent, a death | Does an answer ever lose what the user has in hand (`NothingInHandIsLost`), double a text (`NoTwin`), bring back what was closed (`ClosedStaysClosed`), or call done what was not written (`DoneWasWritten`)? |
| `review_refused` | the same | Violated: see section 4. |
| `review_diffs` | 2 files, one long and one with a note, both open at first, 2 versions, 3 events | Is an undimmed diff the row's own (`NeverAnothersLines`), a Reviewed mark of what was seen (`MarksWhatWasSeen`); once all is quiet, do the open rows (`OpenRowsCurrent`), the note (`MarkSettles`) and the clicks (`ClicksAnswered`) stand as the worktree and the file do? |
| `page_functions` | texts of 4 lines over 2, up to 2 hunks with 4 lines of the 4 kinds, markdown of 4 lines of 17 kinds | Is the line diff one and the smallest (`DiffIsRight`), do patches keep git's markers (`MarkersAreGits`), are the rows counted the lines shown (`RowsAreShown`), is a range the same either way (`RangesEitherWay`), is each markdown line read once (`ReadsEachLineOnce`)? |
| `pierre_review` | 1 file of 2 lines, 3 keys (one without an element), 3 ranges, lists of 3 | Are annotations in the list's order (`ListedInOrder`), heights those of what shows (`HeightsAreCurrent`), what the page hears what the user selected (`HearsTheUser`), and is the focus kept (`FocusStays`)? |
| `editor_bridge` | 2 files and 1 collection of diffs, restored at launch, 2 texts, 4 events | Once all was delivered, do both sides show the same tab (`SameTab`) and diff (`DiffIsOfItsFile`), is no unsaved text unknown (`UnsavedIsKnown`), is what shows clean on disk (`CleanIsOnDisk`); is a selection handed over the active tab's (`HandedIsActive`)? |
| `editor_unsaved` | the same, 2 events | Violated: see section 4. |

Further instances are kept as `.cfg` files to run by hand: `MergeQueueOne.cfg` (one pull request,
two disturbances: `SentAtMost`, `InOrder`, `NightlyFirst`, `DryRunStopsFirst`, `MergesOwnHead` and the
types), `ExplainQueueLine.cfg` (three columns: `OneRun`, `NeverIdle`, `InTurn`), the `...More.cfg`
files (each model's type invariant and its remaining properties on the run's own instance),
`ControllerElsewhere.cfg` (`ElsewhereEnds`), and five that find a violation, told in section 4.

**Bounds.** Every bound is a constant of its module. Two pull requests are the least with an
order and a previous merge; their entries are otherwise handled alike. One disturbance in a
place of TLC's choosing is what a bug between two reads needs; two are tried on one pull
request, where a second can hide the first. Two processes are the least that race; a third
would only wait for the same lock. `MaxTrouble` bounds crashes, quits, failed writes and moves
together: a move, which counts for three, is tried without them (`ControllerElsewhere.cfg`
tries it with a crash). Boards begin on one repository (`Boards`), as projects on two
repositories share nothing; the proofs let them begin anywhere. Three columns are the least with a line of two behind
a run. Four Mission events let a question, its answer, the same question again and its
answer exist at once. Ages stop at `AgeCap` because nothing compares them with more than a
limit. On the pages an event is anything a user, a file, another column or a failure does,
and messages, answers and timers are free: three or four events in any order, with
every crossing of what they set off, are what the hazards of section 1 need (a change, a
refusal and the answer to an earlier click). Two files are the least where a row, a tab or a
diff can be taken for another's; three markdown lines open a list, nest in it and end it, and
a fourth follows. `MaxVersion` and `MaxText` let a text differ from the one before and come
back to it. `MaxBehind` lets a file queue fall behind the main thread by one write when a queue
steps. Deadlock is not checked anywhere: in each instance the bounds let everything stop,
a queue that ended, and a process that was quit and is not launched again.

**Fairness.** `AllSpec` asks weak fairness of the driver (its dispatches and gh's processes end:
gh is run with a timeout) and of the clock, and nothing of GitHub, its workflows, agents or
people; `Settles` holds because each wait has a limit. `FairSpec` of the controller asks it
of main threads, file queues and the look at queues that run elsewhere, which each
refresh of the status bar makes; not of any queue's end, nor that a process is launched
again. ExplainQueue's asks that what runs off the main actor ends and is told (claude and git
have time limits, and the main actor takes its blocks), and nothing of the user. Missions'
asks that the app's main thread goes on and that the user starts it again; `IdleIsTold` is
about saves that go through, since an instruction that could not be marked is not typed and
waits for the next turn to end. The pages' modules state no liveness: what a save, a click or a
read must come to is said of quiet states, those with nothing under way, which are reached
whatever the scheduling, and `Quiet` names exactly what is under way.

**Mutants.** Each property has one plausible bug, written next to the definition it would be
in and commented `Bug:` (a merge sent again after an unclear answer, a lock shared, a file
removed though a line failed). With the bug in place, the run finds the property violated.

## 4. Where the code and its own words differ

Two runs expect a violation; `PROJECT.json` quotes the lines.

- `review_refused`: with two writes under way of which the first fails and the second goes, the
  page sees the problem come and go before it is told which click was refused. That save
  stays unsaved, or that draft undeleted, until another trouble ends
  (`EditorAssets/review.js:966`, `Views/BranchReviewController.swift:1119`).
- `editor_unsaved`: a file changed on disk and reloaded behind another tab is listed as unsaved,
  since the bridge compares the new text with the old clean one (`EditorAssets/bridge.js:130`).
  A clean-up of its worktree then waits for a save of nothing.

Instances run by hand find these:

- `MergeQueueAgentWait.cfg`: the clock of a busy agent is not cleared when the queue updates a
  branch, so an agent seen busy before and after it stops the queue though it was busy for
  less than the limit each time (`Model/MergeQueue+Engine.swift:543`).
- `ExplainQueueClosed.cfg`: a column that closes while its notice asks the user cancels nothing,
  and its run is submitted when the notice returns (`Views/BranchReviewController.swift:653`).
- `MissionsLost.cfg`: a command that opened the queue before the app renamed it may write after
  the app read it; `reply` then says the answer is queued, and it is gone
  (`Model/MissionEventCLI.swift:510`).
- `ControllerMovedAway.cfg`: `restore()` locks the repository it read first and settles the file
  it read second, which may name another repository, whose queue runs (`OnlyKilledInterrupted`,
  which `InterruptedWasKilled` therefore states while boards stay)
  (`Views/MergeQueueController.swift:185`).
- `ReviewDiffsUnmarked.cfg`: a note's mark clicked before a Refresh that fails, and written while
  no page shows, is left to a read that may have begun before: the page then shows the note
  unmarked (`Views/BranchReviewController.swift:781`). `MarkSettles` excludes it.

Met while modelling, and kept out of the runs:

- `typeMissionInstructions` goes on though its drain failed, so a completion left for a retry
  closes a Mission that the typed instruction reopened (`Views/NiruxShellView+MissionWorkspaces.swift:162-166`).
- With the clock moved back (`MaxBack = 1`), an expired instruction and its second telling are
  both typed: `NotTwice` fails (`Model/Mission.swift:379`; `questionID` guards questions against it).
- An instruction whose mark failed to save waits for a turn to end, even at a free prompt:
  `IdleIsTold` fails without its condition on saves.
- `init` of a controller restores before the shell tells it which repositories are busy in its own
  process, and may show its own Nirux as another one until the next look
  (`Views/MergeQueueController.swift:96`).
- A crash after gh was given a call and before the state that says so was written leaves an
  interrupted queue that tells nothing of it: `QuitSaysSent` is about quits
  (`Views/MergeQueueDriver.swift:66-67`).
- Dry runs take no lock, so a second dry-run build marks one that goes on as interrupted: with
  `DryRun = TRUE`, `InterruptedWasKilled` fails (`Views/MergeQueueController.swift:173`).
- Edit, clicked while the removal of a cancelled edit's draft is under way, reopens the draft that
  is then deleted; text typed while nothing can be written is not marked unsaved, so
  that the recovery does not save it (`EditorAssets/review.js:961-976`).
- `markSaved` adopts the last content posted on the first acknowledgement, so with two saves under
  way a buffer may show clean a moment early (`EditorAssets/bridge.js:225-237`); `checkDisk`
  decides on dirty flags that are as old as the last message; a file is read before its time
  is, so a write in between is not seen (`apart` in `CleanIsOnDisk`).
- A save under way when its tab is closed and opened again leaves the new model with the old
  text, and a page that died comes back without the models of its tabs
  (`Views/EditorColumn.swift:995`).
- A tab left by the opening of another file stays noted as the one whose diff shows (`openBuffer`
  sets `activePath` and not `diffActivePath`, though "Resets on tab switch" is said of it at `:30`).
  With file a open: show a collection, show a's diff, open b, close b, which brings the collection
  to the front, and close a. `close` then sends `exitDiff`, and the page leaves the collection
  whose tab is in front (`Views/EditorColumn.swift:426,747`). It takes five events, one more than the
  run's bound: the proof found it. `SameTab` and `HandedIsActive` leave out the page from
  such a step on (`StrayExit`).
- A page that died and came back while its diff loads may be told to show the diff, then to close
  its file: it shows a diff over no file, and `DiffIsOfItsFile` allows that of a page that died.
- A reload of the active file ends the diff over it on the page while the column goes on listing
  it as shown; a collection whose loading a newer diff's read replaced says "Preparing diffs…"
  until it is opened again (`Views/EditorColumn.swift:585-640`).
- A gutter click that opens no editor leaves the page's own selection as it was, so its button
  offers other lines than the ones highlighted (`EditorAssets/review.js:1676`).

## 5. What is proved

All proofs are in the `..._proofs` modules, checked by `tlapm` to their leaves, from the ASSUMEs
of the modules about their constants and nothing else. Each is `Spec => []P` by an inductive
invariant: `InitInvariant`, `NextInvariant` with a lemma per action, and the invariant `=> P`. The
invariants were checked by TLC on the runs' instances before they were proved. MergeQueue_proofs holds those
of MergeQueueEngine and MergeQueueGitHub.

**MergeQueueEngine**, for any number of pull requests, any commits, checks, answers and limits:
`TypeCorrect`, `NothingSentTwice`, `WorksInOrder`, `AlwaysAwaken`, `MergesConfirmed`, `StopIsFinal`
and `EngineRuns` (it implements MergeQueuePromise). No property is inductive alone. That a
merge is sent once needs to know which requests can still lead to one, which needs each
request to match its purpose (`Matched`), entries before the current one to be done and
those after it to wait (`Order`), what was sent to be what entries count (`Counted`), each
head asked about to be the entry's own (`Owned`), and waits to have no negative age outside a
pause (`Aged`). Handlers are alike, so the proof first says which of four moves each makes,
to ask, to send, to stop or to advance, and then that each move keeps the invariant.

**MergeQueueGitHub**, for any pull requests, commits, checks and edits of others between any two
reads: `OnlyTestedIsDone`, `OnlyConfirmedLands` and `NightlyGoesFirst`, which relate what the engine
believes to the repository, and `DriverImplementsEngine`: each step of the whole is a step of
MergeQueueEngine or leaves it alone, since the driver's answers are of the kinds the engine
takes. `DriverKeepsPromise` follows, and so does every theorem of the engine. The invariant
(`Whole`) adds to the engine's what its knowledge rests on (`Joint`). A read is true when it is made
(`ReadTold`); what the engine takes from it stays true whatever happens next, since commits,
heads and merges are only added (`Grows`): a request's purpose rests on facts of the repository
(`Grounded`), an entry past its merge on how it was merged (`Through`), the heads an entry calls
its own on how they were made (`Chain`), and what GitHub put off names such heads (`PutOff`).

**MergeQueueController**, for any number of processes, projects and repositories, any boards and any bounds:
`TypeCorrect` and `OneQueue`. A lock is held for one of three reasons: a queue, its release on
the file queue, or a restore. `Held` says a process has at most one of them for a repository,
and then its lock; without the second a Start right after a queue's end would get a lock
that is about to go. `KilledInterrupted` and `OwnStateStands` are about what the files say, in a
live build (`~DryRun`: dry runs take no lock, see section 4) while boards keep their repository.
They need `Files`: a save waits only where the lock is held (`SavesLocked`), a queue that a file or
a waiting save calls running runs, or its end is among the saves to come (`RunningRuns`,
`SavingRuns`), only a lost queue is marked (`MarkedLost`), and the last save waiting for a
project, or its file, is what its queue is (`LastSaveStands`).

**ExplainQueue**, for any columns, worktrees and runs: `TypeCorrect`, `OneAtATime`, `DeletesAlone`,
`StopHolds`, `StopsResumed`, `ThenRuns`, `StartsInTurn` and `BarIsTrue`. `Alone` (a deletion has no run
under way) and `PanelHolds` (the panel holds a stop for each of its rows) are what the stated
properties lack to be inductive. What a column shows takes an invariant of its own (`Tells`),
which also says that its ticket is its run's, that a column that asks has no run, and that
one whose run was told to stop has it under way: so a run that starts is shown as running.

**Missions**, for any commands, texts and bounds, crashes and failed saves: `TypeCorrect`, `OneAnswer`,
`NoEarlierQuestion`, `CompletionCloses`, `ReceivedWasPrinted`, `NeverTypedAgain`, `NothingSkipped`, and
`NewestIsTyped` as long as the clock is not moved back (`MaxBack = 0`: `NotTwice` fails otherwise, see
section 4). An event is `Sound` wherever it is, in a file, in a command's hands or in the ledger:
the generations of its text before its own are recorded, and those of an instruction
outlived, and a receipt is of what was printed. `Log` says that the ledger has each event once and
only questions are answered; `Pass`, that what a typing pass has before it is neither typed nor
marked, but for the one between its mark and the typing, and that each line applied of a file
is in the ledger, was rejected or failed. The proofs need two assumptions more than the runs
do: that no event is the value for none, and that a terminal is not both the child's and the parent's.

**PierreReview**, for any containers, hunks, annotations and ranges: `UserIsHeard`, the page hears of
the lines the user selected by their numbers and of no others. `HearsTheUser` is not inductive
alone: a gutter click sets a flag that silences pierre's second report, and a flag left set
would silence the user's next selection. `NoClickWaits` says no view keeps one between
steps, and the lemmas say that drawing, measuring and setting annotations leave it alone.

**ReviewDiffs**, for any files, versions and bounds: `TypeCorrect`, `DiffIsItsFiles`, `MarkedAsSeen` and
`ClicksGetAnswers`.
Page and column name a file by its place in a snapshot and the snapshot's generation, and each
may have moved on when the other's message arrives. The argument is that a generation has one
set of files wherever it is named, on the page, in the column or in a page on its way, and
none is above the column's count (`OneShot`). So a diff on its way is of its generation's lines
(`DiffsTrue`), a row asks for a file of its generation and a click says what its generation
showed (`RequestsTrue`), and a step keeps both, since it never changes the files of a
generation there was (`Past`); what the review file is asked to take is then of what was
seen (`ChangesTrue`). A long file's lines are in no snapshot: both properties leave those files out.
`ClicksGetAnswers` says what holds once all is quiet, so its invariant, `Answering`, says where what is
under way leads. `Leads` says that a list of messages, taken one after another, brings the page from
one view of a generation's marks to another, and `PageLeads` that those on their way bring it to the
column's review; `MarksLead`, that the last answer waiting that the column will take, or the review
it has, holds the review file's marks; `ClicksLead`, that for each click the page counts as waiting an
answer is still to come: the click itself, its change asked or written, a write that the column
waits for, or a review on its way that answers as much. It needs that a write is queued for what is
asked (`Queued`), that a page that died counts no click (`Gone`), and that no status hides a branch (`Real`).

**EditorBridge**, for any files, texts and bounds: `TypeCorrect`, `TabsAgree`, `DiffsAgree`, `UnsavedKnown`,
`HandsActive` and `CleanMeansOnDisk`. The two sides only send each other messages, and four of the five
properties of the run say what holds once none is under way, so the invariant says where those that are will lead. A `View` is what
of the page matters there: the files it has, the one in front, the diff over it or the
collection, and the requests for the selection it has yet to answer. `Sees` is what a message makes of
a view, and `Follows` says that the messages of a list, taken one after another and each in
its time (`Timely`: a diff comes when its file is in front, a request when the tab it asks about
is), lead from one view to another. `ShowsInv` says that what waits for the page, in the channel or
in `pendingOps`, leads from what the page shows to what the column takes it to show (`Agrees`),
and that the selections on their way to the column answer the first of its requests, the page owing
the rest (`Answers`). `UnsavedInv` says of each unsaved text that the last report of it on its way says
so, or none is and the column knows, or the page is about to drop it. Messages are appended at one end
and taken at the other, so a step changes a run of views only at its ends: the lemmas on `Leads` and
`Follows` say what one message more, one less, or two lists joined do. A page that died comes back
without its models, and one that left a collection by itself shows none: `Alive` and `Fresh` say what is
still asked of them. What one step posts many times (a page's saves, a look at the disk, the tabs
restored) is a fold, followed by its partial results. The proof found the two falsities of section 4
that the run's bound hides. `CleanMeansOnDisk`, in EditorBridgeClean_proofs, takes an invariant of its own
on top of these, file by file (`FileInv`). The text a page takes for saved comes with the file, or with
the answer to a save, and then is the text the page kept of the last save it posted, for as long as it
counts answers to come. So the count is of the saves and answers under way (`Owed`), the last save
under way is of the kept text, and without one what is sent last to the page makes the file's text
the clean one (`EndsClean`), or the column is still to look at the file.

## 6. What is only model-checked, and what is not modelled

Only TLC:

- liveness under fairness (`Settles`, `RunsEnd`, `CleanupsEnd`, `ComesUp`, `IdleIsTold`,
  `ElsewhereEnds`), which is beyond this prover, as is ENABLED;
- `QuitSaysSent` of the controller and `NeverIdle` of Explain's queue, checked by instances run by hand;
- the comments of the review page (ReviewComments), whose properties need an invariant over every
  message in flight;
- `OpenRowsCurrent` and `MarkSettles` of ReviewDiffs, which say what holds once all is quiet, and rest on
  each read, row and note under way leading there;
- `ListedInOrder`, `HeightsAreCurrent` and `FocusStays` of PierreReview, which fold a list into another;
- what the page functions compute for every input, an induction over data, beyond this
  prover; Markdown is written with RECURSIVE operators, which no module with a theorem uses.

Left out of modelled parts: the parsing of gh's JSON and git's output, the confirmation sheet,
the journal, App Nap, wording, a Mission's creation and identities, half-written lines,
equal timestamps and Codex children; of the review page its layout (header, commits, risks, the
filter, groups and the steps they show rows by), focus, scroll positions, labels and times;
several branches; placing comments whose anchors are too old; of the editor its fonts, view
options, caret and hunk navigation, and of Pierre's wrapper the editor's own drawing of
diffs (`render`, `renderMany`), which EditorBridge takes as done or failed.

Not modelled at all, with reasons in `PROJECT.json`: views, layout and key handling
(no protocol); parsing, grouping and matching of text in Swift (pure, and unit-tested); Monaco
and the diff bundle, which are vendored and minified, and modelled by what the scripts ask of
them; one-shot I/O such as cookies, installers and crash reports. The parts of section 1 marked planned are not modelled yet.

## 7. The plan

Done: MergeQueueEngine, MergeQueueGitHub, ExplainQueue and Missions with their proofs,
MergeQueueRun/Promise, MergeQueueController and its proofs; ReviewComments, ReviewDiffs
with its proofs, DiffRows, LineDiff, Markdown, PageFunctions, PierreReview and EditorBridge with their proofs.

Next modules, in this order; each with an MC module, one run, and its hazards' properties:

1. **AgentHooks** (`AgentHookCenter`, the receiver that appends): no event applied twice, none lost
   but by the losses the code accepts, held approvals released. Abstract specification: a
   bag of events, each applied at most once.
2. **Approvals** (`PermissionApproval` with the marker and the sidebar): a decision is taken once or
   not at all, never after its request was released; two Nirux on one marker; composed with
   AgentHooks, whose events release requests.
3. **GitRefresh**: a change is followed by a read that began after it (liveness), a forgotten
   workspace's watcher stays stopped, `diffStatsInFlight` counts reads.
4. **SharedFiles**: the review store's lock file, the session ledger's compaction and the history
   worker's journal, as writers of one file that may crash: no write lost, none doubled.
5. **Remote access** and **BoundedProcess**: updates handled at most once; a process reaped once
   and never signalled after; **KeepAwake** and the board's refresh schedule with them.

Proofs to come: `DoneWasWritten` of ReviewComments, from an invariant that follows a click through
the messages, the queue and its results, and `NoTwin` with it.
