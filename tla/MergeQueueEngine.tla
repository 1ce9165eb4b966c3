-------------------------- MODULE MergeQueueEngine --------------------------
(***************************************************************************)
(* The state machine of the Project Board's merge queue:                   *)
(* MergeQueue.Engine in Model/MergeQueue+Engine.swift.  It merges a        *)
(* confirmed list of pull requests one at a time, waits for the required   *)
(* checks before each merge and for the post-merge workflow after it, and  *)
(* stops at the first problem.                                             *)
(*                                                                         *)
(* The engine is modelled here as an open system: each handler takes the   *)
(* answer it handles as a parameter, and Next lets GitHub, gh and the Mac  *)
(* answer anything they can answer.  MergeQueueGitHub closes the system.   *)
(*                                                                         *)
(* Abstractions.  A commit is a member of Commit.  `now - since' of each   *)
(* wait is an age in ticks, None while the wait has not begun; a tick      *)
(* stands for a poll interval, and every delay of a read is one tick.      *)
(* Request ids are left out: a request that Stop took back is never        *)
(* followed by another, so an answer matches iff a request is outstanding. *)
(***************************************************************************)
EXTENDS Integers, Sequences, FiniteSets

CONSTANTS
    N,            \* the number of confirmed pull requests, in queue order
    Commit,       \* commit SHAs
    Confirmed,    \* the head the user confirmed for each pull request
    None,         \* Swift's nil
    HasWorkflow,  \* settings.postMergeWorkflow != nil
    MaxUpdates,   \* Limits.maxUpdates
    Limit,        \* the time limits, in ticks
    AgeCap,       \* bound on every age: no limit is above it
    CheckRun,     \* ids of check runs
    BaseRun       \* ids of the post-merge workflow's runs on the base

LimitName == {"update", "agent", "unknown", "confirm", "appears", "checks",
              "postMerge", "retry"}

ASSUME NAssumption == N \in Nat \ {0}
ASSUME CommitAssumption == None \notin Commit /\ Confirmed \in [1..N -> Commit]
ASSUME SettingsAssumption == HasWorkflow \in BOOLEAN /\ MaxUpdates \in Nat \ {0}
ASSUME LimitAssumption ==
    /\ AgeCap \in Nat
    /\ Limit \in [LimitName -> 1..AgeCap]

VARIABLES
    phase,          \* engine.phase
    reason,         \* the kind of the StopReason, once stopped
    current,        \* the entry being worked on; 0 is nil
    entries,        \* engine.entries
    request,        \* the request whose answer the engine waits for
    purpose,        \* why that request was sent
    clocks,         \* the waits of the current pull request
    failing,        \* clocks.readFailingSince, which outlives an entry
    failedAtStart,  \* baseRunsFailedAtStart: <<run, attempt>> pairs
    sent            \* history: the mutations sent for each entry

vars == <<phase, reason, current, entries, request, purpose, clocks, failing,
          failedAtStart, sent>>

-----------------------------------------------------------------------------
(* The types *)

StepName == {"waiting", "preflight", "updating", "waitingForChecks",
             "rerunning", "merging", "waitingForPostMerge", "done", "stopped"}
Phase == {"idle", "running", "paused", "stopping", "stopped", "finished"}
Active == {"running", "paused", "stopping"}
StopKind == {"user", "dryRun", "setup", "github", "notMergeable", "changed",
             "conflict", "agentBusy", "local", "update", "checks", "merge",
             "postMerge"}
PurposeKind == {"start", "preflight", "preflightLocal", "behind", "update",
                "updatePoll", "updateCommit", "updateBase", "update422",
                "updateFailed", "checks", "rerun", "rerunCheck", "mergeChecks",
                "baseRunWait", "merge", "mergeConfirm", "postMerge",
                "postMergeOutcome"}
Mutation == {"updateBranch", "rerun", "merge"}
ReadName == {"setup", "pullRequest", "local", "compare", "commit", "baseOf",
             "checks", "baseRuns", "pushRuns", "moved"}
MutationResult == {"sent", "refused", "refused422", "notBehind422",
                   "rateLimited", "uncertain", "dryRun"}
ReadFailure == {"ghMissing", "notSignedIn", "refused", "rateLimited",
                "secondaryRateLimit", "transient"}

Nullable(S) == S \cup {None}
Age == -1..AgeCap

Entry == [step: StepName, heads: SUBSET Commit, updates: Nat,
          hasRerun: BOOLEAN, mergeCommit: Nullable(Commit)]
Purpose == [kind: PurposeKind, head: Nullable(Commit), other: Nullable(Commit),
            replaced: SUBSET CheckRun, result: Nullable(MutationResult)]
ReadRequest == [action: {"read"}, reads: Seq(ReadName), after: {0, 1}]
MutateRequest == [action: Mutation, reads: {<<>>}, after: {0}]
Clocks == [step: Age, agentBusy: Nullable(Age), unknown: Nullable(Age),
           baseRuns: Nullable(Age), awaited: SUBSET BaseRun,
           replaced: SUBSET CheckRun]

ASSUME NoneAssumption == /\ None \notin Age
                         /\ None \notin ReadRequest
                         /\ None \notin MutateRequest
                         /\ None \notin Purpose

\* What GitHub and the Mac answer, as far as the engine tells answers apart.
\* A snapshot's flag is why an open pull request can't go on: "ineligible" is
\* a draft, another base or a fork.  Only a merged one has a merge commit.
Snapshot ==
    [state: {"OPEN", "CLOSED"},
     flag: {"none", "ineligible", "autoMerge", "mergeQueue"}, head: Commit,
     mergeable: {"MERGEABLE", "CONFLICTING", "UNKNOWN"},
     mergeCommit: {None}, parent: {None}]
    \cup
    [state: {"MERGED"}, flag: {"none"}, head: Commit, mergeable: {"UNKNOWN"},
     mergeCommit: Nullable(Commit), parent: Nullable(Commit)]
Setup == {"ready", "lowRateLimit", "baseMergeQueue"}
Local == {"clean", "busy", "unreadable", "trackedChanges", "unpushed"}
Comparison == [behindBy: 0..1, baseCommit: Commit]
CommitInfo == [webFlow: BOOLEAN, from: Commit, merged: Commit]
\* The verdict of MergeQueue.judge before `replaced' is taken into account:
\* the run decides it; "mixed" failures aren't those of one workflow run.
Checks == [state: {"green", "pending", "notGreen", "failed", "mixed",
                   "otherFailed"},
           run: CheckRun, complete: BOOLEAN]
RunState == {"unfinished", "success", "failed", "cancelled"}
BaseRuns == [BaseRun -> Nullable([state: RunState, attempt: 1..2])]

TypeOK ==
    /\ phase \in Phase
    /\ reason \in Nullable(StopKind)
    /\ current \in 0..N
    /\ entries \in [1..N -> Entry]
    /\ request \in Nullable(ReadRequest \cup MutateRequest)
    /\ purpose \in Nullable(Purpose)
    /\ clocks \in Clocks
    /\ failing \in Nullable(Age)
    /\ failedAtStart \subseteq BaseRun \X (1..2)
    /\ sent \in [1..N -> [Mutation -> Nat]]

-----------------------------------------------------------------------------
(* Requests, stops and waits *)

\* Bug: the step's clock is left unset with the others.
ClocksUnset == [step |-> None, agentBusy |-> None, unknown |-> None,
                baseRuns |-> None, awaited |-> {}, replaced |-> {}]

FreshClocks == [step |-> 0, agentBusy |-> None, unknown |-> None,
                baseRuns |-> None, awaited |-> {}, replaced |-> {}]

For(kind, head, other) ==
    [kind |-> kind, head |-> head, other |-> other, replaced |-> {},
     result |-> None]

\* read(_:after:for:): the queue goes on with a read.  An answered read ends
\* a pause.
Ask(reads, after, p) ==
    /\ request' = [action |-> "read", reads |-> reads, after |-> after]
    /\ purpose' = p
    /\ phase' = "running"
    /\ UNCHANGED <<reason, current, sent>>

\* mutate(_:for:): the queue goes on with a call that changes GitHub.
Send(mutation, p) ==
    /\ request' = [action |-> mutation, reads |-> <<>>, after |-> 0]
    /\ purpose' = p
    /\ phase' = "running"
    /\ sent' = [sent EXCEPT ![current][mutation] = @ + 1]
    /\ UNCHANGED <<reason, current>>

\* stop(_:): the queue, and the pull request it was working on, stop.
StopWith(kind, es) ==
    /\ phase' = "stopped"
    /\ reason' = kind
    /\ request' = None
    /\ purpose' = None
    /\ entries' = IF current # 0 /\ es[current].step # "done"
                  THEN [es EXCEPT ![current].step = "stopped"]
                  ELSE es
    /\ UNCHANGED <<current, clocks, sent>>

Stop(kind) == StopWith(kind, entries)

\* `since ?? now', as an age, and whether its limit has passed.
Begun(age) == IF age = None THEN 0 ELSE age
Expired(age, name) == Begun(age) >= Limit[name]

Entries(step) == [entries EXCEPT ![current].step = step]

Init ==
    /\ phase = "idle"
    /\ reason = None
    /\ current = 0
    /\ entries = [i \in 1..N |->
                    [step |-> "waiting", heads |-> {Confirmed[i]},
                     updates |-> 0, hasRerun |-> FALSE, mergeCommit |-> None]]
    /\ request = None
    /\ purpose = None
    /\ clocks = FreshClocks
    /\ failing = None
    /\ failedAtStart = {}
    /\ sent = [i \in 1..N |-> [m \in Mutation |-> 0]]

\* start(): only once, and with entries (N > 0).
Start ==
    /\ phase = "idle"
    /\ Ask(IF HasWorkflow THEN <<"setup", "baseRuns">> ELSE <<"setup">>, 0,
           For("start", None, None))
    /\ UNCHANGED <<entries, clocks, failing, failedAtStart>>

\* userStop(): at once, unless a call that changes GitHub runs: its answer is
\* awaited, since a merge can't be taken back.
\* Bug: a Stop that forgets the call already sent.
UserStopForgetsCall ==
    /\ phase \in {"running", "paused"}
    /\ IF request.action \in Mutation
       THEN /\ phase' = "stopping"
            /\ request' = None
            /\ UNCHANGED <<reason, current, entries, purpose, clocks, sent>>
       ELSE Stop("user")
    /\ UNCHANGED <<failing, failedAtStart>>

UserStop ==
    /\ phase \in {"running", "paused"}
    /\ IF request.action \in Mutation
       THEN /\ phase' = "stopping"
            /\ UNCHANGED <<reason, current, entries, request, purpose, clocks,
                           sent>>
       ELSE Stop("user")
    /\ UNCHANGED <<failing, failedAtStart>>

\* advance(): the next waiting entry, or the end.
Advance(es) ==
    LET waiting == {i \in 1..N : es[i].step = "waiting"}
    IN IF waiting = {}
       THEN /\ phase' = "finished"
            /\ current' = 0
            /\ entries' = es
            /\ request' = None
            /\ UNCHANGED <<reason, purpose, clocks, sent>>
       ELSE \E next \in waiting :
            /\ \A i \in waiting : next <= i
            /\ phase' = "running"
            /\ current' = next
            /\ entries' = [es EXCEPT ![next].step = "preflight"]
            /\ clocks' = FreshClocks
            /\ request' = [action |-> "read", reads |-> <<"pullRequest">>,
                           after |-> 0]
            /\ purpose' = For("preflight", None, None)
            /\ UNCHANGED <<reason, sent>>

-----------------------------------------------------------------------------
(* Answers to reads *)

\* handle(.read): the answer to the outstanding read, made for this purpose.
\* The read retries start over.
Answered(kind) ==
    /\ request # None
    /\ request.action = "read"
    /\ request.after = 0
    /\ purpose.kind = kind
    /\ failing' = None

RunFailed(run) == run # None /\ run.state = "failed"

\* startChecked(_:)
StartChecked(setup, runs) ==
    /\ Answered("start")
    /\ failedAtStart' =
         IF HasWorkflow /\ setup # "lowRateLimit"
         THEN {<<r, runs[r].attempt>> : r \in {x \in BaseRun : RunFailed(runs[x])}}
         ELSE failedAtStart
    /\ IF setup = "ready" THEN Advance(entries) ELSE Stop("setup")

\* problem(with:): why a pull request can't go on, at any step.
Problem(pr) == pr.state # "OPEN" \/ pr.flag # "none"

\* preflight(_:index:): the head must be the confirmed one, or made by the
\* queue's own updates on top of it.
\* Bug: any head is taken for a confirmed one.
AnyHeadConfirmed(pr) == TRUE

IsConfirmed(pr) == pr.head \in entries[current].heads

Preflight(pr) ==
    /\ Answered("preflight")
    /\ IF Problem(pr) THEN Stop("notMergeable")
       ELSE IF ~IsConfirmed(pr) THEN Stop("changed")
       ELSE IF pr.mergeable = "CONFLICTING" THEN Stop("conflict")
       ELSE /\ Ask(<<"local">>, 0, For("preflightLocal", pr.head, None))
            /\ UNCHANGED <<entries, clocks>>
    /\ UNCHANGED failedAtStart

\* holdForLocal(_:index:now:retry:): a busy agent is waited for, up to the
\* limit; anything else that isn't clean stops.
AgentWaits(local) == local = "busy" /\ ~Expired(clocks.agentBusy, "agent")
AgentWait == [clocks EXCEPT !.agentBusy = Begun(@)]
HoldForLocal(local) == Stop(IF local = "busy" THEN "agentBusy" ELSE "local")

\* preflightLocal(_:head:index:now:): after a wait, everything again.
PreflightLocal(local) ==
    /\ Answered("preflightLocal")
    /\ IF AgentWaits(local)
       THEN /\ Ask(<<"pullRequest">>, 1, For("preflight", None, None))
            /\ clocks' = AgentWait
            /\ UNCHANGED entries
       ELSE IF local # "clean" THEN HoldForLocal(local)
       ELSE /\ Ask(<<"compare">>, 0, For("behind", purpose.head, None))
            /\ clocks' = [clocks EXCEPT !.agentBusy = None]
            /\ UNCHANGED entries
    /\ UNCHANGED failedAtStart

\* waitForChecks(head:index:now:)
WaitForChecks(head) ==
    /\ Ask(<<"pullRequest", "checks">>, 0, For("checks", head, None))
    /\ entries' = Entries("waitingForChecks")
    /\ clocks' = [clocks EXCEPT !.step = 0, !.unknown = None]

PollChecks(head, cs) ==
    /\ Ask(<<"pullRequest", "checks">>, 1, For("checks", head, None))
    /\ clocks' = cs
    /\ UNCHANGED entries

\* behind(by:head:index:now:): up to date, or one more update of the branch.
BehindBy(count, head) ==
    IF count = 0 THEN WaitForChecks(head)
    ELSE IF entries[current].updates >= MaxUpdates THEN Stop("update")
    ELSE /\ Send("updateBranch", For("update", head, None))
         /\ entries' = [entries EXCEPT ![current].updates = @ + 1,
                                       ![current].step = "updating"]
         /\ clocks' = [clocks EXCEPT !.step = 0, !.unknown = None,
                                     !.baseRuns = None]

Behind(comparison) ==
    /\ Answered("behind")
    /\ IF comparison = None THEN Stop("github")
       ELSE BehindBy(comparison.behindBy, purpose.head)
    /\ UNCHANGED failedAtStart

\* Bug: an update whose head never shows is waited for all the same.
NeverLate == FALSE

UpdateIsLate == Expired(clocks.step, "update")

\* updatePolled(_:from:index:now:): the new head of an update, once it shows.
UpdatePolled(pr) ==
    /\ Answered("updatePoll")
    /\ IF Problem(pr) THEN Stop("notMergeable")
       ELSE IF pr.head # purpose.head
       THEN /\ Ask(<<"commit">>, 0, For("updateCommit", purpose.head, pr.head))
            /\ UNCHANGED <<entries, clocks>>
       ELSE IF UpdateIsLate THEN Stop("update")
       ELSE /\ Ask(<<"pullRequest">>, 1, purpose)
            /\ UNCHANGED <<entries, clocks>>
    /\ UNCHANGED failedAtStart

\* updateCommitRead(_:from:head:index:): GitHub's own merge commit on top of
\* the previous head.
\* Bug: anyone's commit on top of the previous head passes.
MadeByAnyone(commit) == commit.from = purpose.head

MadeByGitHub(commit) == commit.webFlow /\ commit.from = purpose.head

UpdateCommitRead(commit) ==
    /\ Answered("updateCommit")
    /\ IF MadeByGitHub(commit)
       THEN /\ Ask(<<"baseOf">>, 0,
                   For("updateBase", purpose.other, commit.merged))
            /\ UNCHANGED <<entries, clocks>>
       ELSE Stop("changed")
    /\ UNCHANGED failedAtStart

\* The commit it merges is one of the base branch: the new head is the
\* queue's own.
UpdateBaseRead(comparison) ==
    /\ Answered("updateBase")
    /\ IF comparison # None /\ comparison.behindBy = 0
       THEN /\ entries' = [entries EXCEPT ![current].heads =
                                              @ \cup {purpose.head}]
            /\ Ask(<<"compare">>, 0, For("behind", purpose.head, None))
            /\ UNCHANGED clocks
       ELSE Stop("changed")
    /\ UNCHANGED failedAtStart

\* .updateFailed: the update that GitHub refused may have gone through.
UpdateFailedRead(pr) ==
    /\ Answered("updateFailed")
    /\ IF Problem(pr) THEN Stop("notMergeable")
       ELSE IF pr.head = purpose.head THEN Stop("update")
       ELSE /\ Ask(<<"commit">>, 0, For("updateCommit", purpose.head, pr.head))
            /\ UNCHANGED <<entries, clocks>>
    /\ UNCHANGED failedAtStart

\* unknownDelay(now:): `mergeable: UNKNOWN' is read again, up to its limit.
UnknownWaits == ~Expired(clocks.unknown, "unknown")
UnknownWait == [clocks EXCEPT !.unknown = Begun(@)]

\* updateRefused(_:from:message:index:now:): what the 422 means.
UpdateRefused(pr) ==
    /\ Answered("update422")
    /\ IF Problem(pr) THEN Stop("notMergeable")
       ELSE IF pr.head # purpose.head THEN Stop("changed")
       ELSE IF purpose.result = "notBehind422" THEN WaitForChecks(purpose.head)
       ELSE IF pr.mergeable = "CONFLICTING" THEN Stop("conflict")
       ELSE IF pr.mergeable = "UNKNOWN" /\ UnknownWaits
       THEN /\ Ask(<<"pullRequest">>, 1, purpose)
            /\ clocks' = UnknownWait
            /\ UNCHANGED entries
       ELSE Stop("update")
    /\ UNCHANGED failedAtStart

\* A check run that a rerun replaces is pending until its new run shows.
Verdict(checks) ==
    IF checks.run \in clocks.replaced /\ checks.state \in {"failed", "notGreen"}
    THEN "pending" ELSE checks.state

\* mergeChecks(head:index:after:): everything again, just before the merge.
MergeChecks(head, after, cs) ==
    /\ Ask(<<"pullRequest", "checks", "compare", "local">>
             \o IF HasWorkflow THEN <<"baseRuns">> ELSE <<>>,
           after, For("mergeChecks", head, None))
    /\ entries' = Entries("merging")
    /\ clocks' = cs

\* checksFailed(_:checks:head:index:now:): one rerun, of one workflow run
\* whose jobs are all done.
ChecksFailed(checks, head) ==
    IF entries[current].hasRerun \/ checks.state = "mixed" THEN Stop("checks")
    ELSE IF ~checks.complete
    THEN IF Expired(clocks.step, "checks") THEN Stop("checks")
         ELSE PollChecks(head, clocks)
    ELSE /\ Send("rerun", [For("rerun", head, None) EXCEPT
                              !.replaced = {checks.run}])
         /\ entries' = [entries EXCEPT ![current].hasRerun = TRUE,
                                       ![current].step = "rerunning"]
         /\ UNCHANGED clocks

\* decide(on:head:index:now:)
Decide(checks, head) ==
    LET verdict == Verdict(checks)
    IN IF verdict \in {"failed", "mixed"} THEN ChecksFailed(checks, head)
       ELSE IF verdict = "notGreen" THEN Stop("checks")
       ELSE IF verdict = "pending"
       THEN IF Expired(clocks.step, "checks") THEN Stop("checks")
            ELSE PollChecks(head, clocks)
       ELSE MergeChecks(head, 0, clocks)

ChecksRead(pr, checks) ==
    /\ Answered("checks")
    /\ IF Problem(pr) THEN Stop("notMergeable")
       ELSE IF pr.head # purpose.head THEN Stop("changed")
       ELSE Decide(checks, purpose.head)
    /\ UNCHANGED failedAtStart

\* rerunStarted(head:replaced:now:): the checks' whole time again.
RerunStarted(head, replaced) ==
    PollChecks(head, [clocks EXCEPT !.step = 0, !.replaced = @ \cup replaced])

\* .rerunCheck: whether the rerun that got an error started after all.
RerunChecked(checks) ==
    /\ Answered("rerunCheck")
    /\ IF checks.run \in purpose.replaced THEN Stop("checks")
       ELSE RerunStarted(purpose.head, purpose.replaced)
    /\ UNCHANGED failedAtStart

\* waitForBaseRuns(_:head:index:now:): what the base's runs ask for: "stop",
\* "wait", "again" once the awaited ones end, or "go".
BaseRunsSay(runs) ==
    LET known == {r \in BaseRun : runs[r] # None}
        unfinished == {r \in known : runs[r].state = "unfinished"}
    IN IF \E r \in known : /\ RunFailed(runs[r])
                           /\ \/ <<r, runs[r].attempt>> \notin failedAtStart
                              \/ r \in clocks.awaited
       THEN "stop"
       ELSE IF unfinished # {}
       THEN IF Expired(clocks.baseRuns, "postMerge") THEN "stop" ELSE "wait"
       ELSE IF clocks.awaited = {} THEN "go"
       ELSE IF clocks.awaited \subseteq known THEN "again" ELSE "stop"

\* The reads that follow, when the merge waits; `cs' are the clocks so far.
WaitForBaseRuns(runs, head, cs) ==
    CASE BaseRunsSay(runs) = "stop" -> Stop("postMerge")
      [] BaseRunsSay(runs) = "wait" ->
           /\ Ask(<<"baseRuns">>, 1, For("baseRunWait", head, None))
           /\ clocks' = [cs EXCEPT
                !.baseRuns = Begun(@),
                !.awaited = @ \cup {r \in BaseRun : runs[r] # None
                                        /\ runs[r].state = "unfinished"}]
           /\ UNCHANGED entries
      [] BaseRunsSay(runs) = "again" ->
           MergeChecks(head, 0, [cs EXCEPT !.awaited = {}, !.baseRuns = None])

BaseRunsRead(runs) ==
    /\ Answered("baseRunWait")
    /\ IF BaseRunsSay(runs) = "go"
       THEN MergeChecks(purpose.head, 0, clocks)
       ELSE WaitForBaseRuns(runs, purpose.head, clocks)
    /\ UNCHANGED failedAtStart

\* mergeChecksRead(_:head:index:now:): everything checked again, from one
\* batch of reads; only a head that passes it all is merged.
MergeChecksRead(pr, checks, comparison, local, runs) ==
    LET head == purpose.head
        verdict == Verdict(checks)
        cs == [clocks EXCEPT !.agentBusy = None]
        ready == [cs EXCEPT !.unknown = None]
    IN /\ Answered("mergeChecks")
       /\ IF Problem(pr) THEN Stop("notMergeable")
          ELSE IF pr.head # head THEN Stop("changed")
          ELSE IF pr.mergeable = "CONFLICTING" THEN Stop("conflict")
          ELSE IF comparison = None THEN Stop("github")
          ELSE IF comparison.behindBy > 0
          THEN BehindBy(comparison.behindBy, head)
          ELSE IF verdict = "pending" THEN WaitForChecks(head)
          ELSE IF verdict \notin {"green", "otherFailed"}
          THEN Decide(checks, head)
          ELSE IF verdict = "otherFailed" THEN Stop("checks")
          ELSE IF AgentWaits(local) THEN MergeChecks(head, 1, AgentWait)
          ELSE IF local # "clean" THEN HoldForLocal(local)
          ELSE IF pr.mergeable = "UNKNOWN"
          THEN IF UnknownWaits
               THEN MergeChecks(head, 1, [UnknownWait EXCEPT !.agentBusy = None])
               ELSE Stop("merge")
          ELSE IF HasWorkflow /\ BaseRunsSay(runs) # "go"
          THEN WaitForBaseRuns(runs, head, ready)
          ELSE /\ Send("merge", For("merge", head, comparison.baseCommit))
               /\ clocks' = ready
               /\ UNCHANGED entries
       /\ UNCHANGED failedAtStart

\* finishEntry(_:)
FinishEntry == Advance(Entries("done"))

\* merged(_:index:now:)
\* Bug: the next pull request starts before the post-merge workflow ends.
MergedAndOn(mergeCommit) ==
    Advance([entries EXCEPT ![current].mergeCommit = mergeCommit,
                            ![current].step = "waitingForPostMerge"])

Merged(mergeCommit) ==
    LET es == [entries EXCEPT ![current].mergeCommit = mergeCommit]
    IN IF HasWorkflow
       THEN /\ Ask(<<"pushRuns">>, 1, For("postMerge", mergeCommit, None))
            /\ entries' = [es EXCEPT ![current].step = "waitingForPostMerge"]
            /\ clocks' = [clocks EXCEPT !.step = 0]
       ELSE Advance([es EXCEPT ![current].step = "done"])

\* mergeConfirmRead(_:head:baseTip:result:index:now:): whatever gh said, the
\* pull request must read MERGED at the head asked for, on the base tip that
\* was checked.
\* Bug: a merge onto any base goes on.
OnAnyBase(pr) == TRUE

OnCheckedBase(pr) == pr.parent = purpose.other

MergeConfirmRead(pr) ==
    LET merged == [entries EXCEPT ![current].mergeCommit = pr.mergeCommit]
        inTime == ~Expired(clocks.step, "confirm")
        Again(es) == /\ Ask(<<"pullRequest">>, 1, purpose)
                     /\ entries' = es
                     /\ UNCHANGED clocks
    IN /\ Answered("mergeConfirm")
       /\ IF pr.state = "MERGED"
          THEN IF pr.head # purpose.head THEN StopWith("merge", merged)
               ELSE IF pr.mergeCommit = None
               THEN IF inTime THEN Again(merged) ELSE StopWith("merge", merged)
               ELSE IF ~OnCheckedBase(pr) THEN StopWith("merge", merged)
               ELSE Merged(pr.mergeCommit)
          ELSE IF \/ pr.state = "CLOSED"
                  \/ pr.flag \in {"autoMerge", "mergeQueue"}
                  \/ purpose.result \notin {"sent", "uncertain"}
                  \/ ~inTime
          THEN Stop("merge")
          ELSE Again(entries)
       /\ UNCHANGED failedAtStart

\* postMergeRead(_:commit:index:now:): the push run of the merge commit; None
\* until it shows.
PostMergeRead(run) ==
    LET Again == /\ Ask(<<"pushRuns">>, 1, purpose)
                 /\ UNCHANGED <<entries, clocks>>
    IN /\ Answered("postMerge")
       /\ IF run = None
          THEN IF Expired(clocks.step, "appears") THEN Stop("postMerge") ELSE Again
          ELSE IF run = "unfinished"
          THEN IF Expired(clocks.step, "postMerge") THEN Stop("postMerge") ELSE Again
          ELSE IF run = "success" THEN FinishEntry
          ELSE /\ Ask(<<"baseRuns", "moved">>, 0,
                      For("postMergeOutcome", purpose.head, None))
               /\ UNCHANGED <<entries, clocks>>
       /\ UNCHANGED failedAtStart

\* postMergeFailed(_:commit:baseRuns:comparison:index:): the answers only
\* word the reason.
PostMergeFailed ==
    /\ Answered("postMergeOutcome")
    /\ Stop("postMerge")
    /\ UNCHANGED failedAtStart

\* A rate limit: the read is made again after it, and the pause counts toward
\* no limit (Clocks.shift).
ReadAgain == [request EXCEPT !.after = 1]
Shift(age) == IF age = None THEN None ELSE age - 1

\* Bug: a read that met a rate limit is made again at once.
PauseWithoutWaiting ==
    /\ phase' = "paused"
    /\ clocks' = [clocks EXCEPT !.step = @ - 1, !.agentBusy = Shift(@),
                                !.unknown = Shift(@), !.baseRuns = Shift(@)]
    /\ failing' = Shift(failing)
    /\ UNCHANGED <<reason, current, entries, request, purpose, sent>>

Pause ==
    /\ phase' = "paused"
    /\ request' = ReadAgain
    /\ clocks' = [clocks EXCEPT !.step = @ - 1, !.agentBusy = Shift(@),
                                !.unknown = Shift(@), !.baseRuns = Shift(@)]
    /\ failing' = Shift(failing)
    /\ UNCHANGED <<reason, current, entries, purpose, sent>>

\* readFailed(_:reads:purpose:now:)
ReadFailed(failure) ==
    /\ request # None
    /\ request.action = "read"
    /\ request.after = 0
    /\ IF failure \in {"rateLimited", "secondaryRateLimit"} THEN Pause
       ELSE IF failure = "transient" /\ ~Expired(failing, "retry")
       THEN /\ phase' = "running"
            /\ request' = ReadAgain
            /\ failing' = Begun(failing)
            /\ UNCHANGED <<reason, current, entries, purpose, clocks, sent>>
       ELSE /\ Stop(IF failure \in {"ghMissing", "notSignedIn"}
                    THEN "setup" ELSE "github")
            /\ UNCHANGED failing
    /\ UNCHANGED failedAtStart

-----------------------------------------------------------------------------
(* Answers to calls that change GitHub *)

\* mutated(_:purpose:now:), for each call.  Whatever gh says of a merge, GitHub
\* says what happened.
With(kind, result) == [purpose EXCEPT !.kind = kind, !.result = result]

UpdateAnswered(result) ==
    IF result = "rateLimited" THEN Stop("update")
    ELSE /\ CASE result \in {"sent", "uncertain"} ->
                   Ask(<<"pullRequest">>, 1, With("updatePoll", result))
              [] result = "refused" ->
                   Ask(<<"pullRequest">>, 0, With("updateFailed", result))
              [] OTHER -> Ask(<<"pullRequest">>, 0, With("update422", result))
         /\ UNCHANGED <<entries, clocks>>

RerunAnswered(result) ==
    IF result = "sent" THEN RerunStarted(purpose.head, purpose.replaced)
    ELSE IF result = "rateLimited" THEN Stop("checks")
    ELSE /\ Ask(<<"checks">>, IF result = "uncertain" THEN 1 ELSE 0,
                With("rerunCheck", result))
         /\ UNCHANGED <<entries, clocks>>

\* Bug: a merge with no clear answer is tried again.
MergeAnsweredByRetrying(result) ==
    IF result = "uncertain" THEN MergeChecks(purpose.head, 0, clocks)
    ELSE /\ Ask(<<"pullRequest">>, 0, With("mergeConfirm", result))
         /\ clocks' = [clocks EXCEPT !.step = 0]
         /\ UNCHANGED entries

MergeAnswered(result) ==
    /\ Ask(<<"pullRequest">>, 0, With("mergeConfirm", result))
    /\ clocks' = [clocks EXCEPT !.step = 0]
    /\ UNCHANGED entries

\* Bug: a dry run's answer is taken for GitHub's.
NeverDryRun(result) == FALSE

IsDryRun(result) == result = "dryRun"

\* Bug: the answer of the call wins over the Stop pressed meanwhile.
NeverEndsNow == FALSE

EndsNow == phase = "stopping"

\* handle(.mutated): a queue that is stopping stops, whatever the answer.
Mutated(result) ==
    /\ request # None
    /\ request.action \in Mutation
    /\ IF EndsNow THEN Stop("user")
       ELSE IF IsDryRun(result) THEN Stop("dryRun")
       ELSE CASE request.action = "updateBranch" -> UpdateAnswered(result)
              [] request.action = "rerun" -> RerunAnswered(result)
              [] request.action = "merge" -> MergeAnswered(result)
    /\ UNCHANGED <<failing, failedAtStart>>

-----------------------------------------------------------------------------
(* What the queue promises, whatever GitHub answers *)

\* A call that changes GitHub is never sent again in the hope of a better
\* answer: one merge, one rerun and at most MaxUpdates branch updates for each
\* pull request (Request.Action.mutate: "Never sent twice").
SentAtMost ==
    \A i \in 1..N : /\ sent[i]["merge"] <= 1
                    /\ sent[i]["rerun"] <= 1
                    /\ sent[i]["updateBranch"] <= MaxUpdates

\* Nothing is sent for a pull request before every earlier one is done: merged
\* and through its post-merge workflow.
InOrder ==
    \A i, j \in 1..N :
        i < j /\ (\E m \in Mutation : sent[j][m] > 0) => entries[i].step = "done"

\* The head a merge names was confirmed by the user, or made by one of the
\* queue's own updates whose commit was checked.
MergesOwnHead ==
    request # None /\ request.action = "merge"
        => purpose.head \in entries[current].heads

\* An active queue always waits for an answer: it is never left holding the
\* repository's lock with nothing to wake it up.
NeverStranded ==
    /\ phase \in Active <=> request # None
    /\ phase = "stopping" => request.action \in Mutation

\* Once Stop is pressed, or the queue has ended, nothing more is sent and the
\* queue never runs again.
StopEndsSending ==
    [][/\ phase = "stopping" => phase' \in {"stopping", "stopped"}
       /\ phase \in {"stopped", "finished"} => phase' = phase
       /\ phase \in {"stopping", "stopped", "finished"} => sent' = sent]_vars

-----------------------------------------------------------------------------
(* Time, and the whole machine *)

\* One tick: every wait grows older, and a delayed read comes due.
Older(age) == IF age = None \/ age = AgeCap THEN age ELSE age + 1
Tick ==
    /\ phase \in Active
    /\ clocks' = [clocks EXCEPT !.step = Older(@), !.agentBusy = Older(@),
                                !.unknown = Older(@), !.baseRuns = Older(@)]
    /\ failing' = Older(failing)
    /\ request' = [request EXCEPT !.after = 0]
    /\ UNCHANGED <<phase, reason, current, entries, purpose, failedAtStart, sent>>

ReadAnswered ==
    \/ \E setup \in Setup, runs \in BaseRuns : StartChecked(setup, runs)
    \/ \E pr \in Snapshot : \/ Preflight(pr)
                            \/ UpdatePolled(pr)
                            \/ UpdateFailedRead(pr)
                            \/ UpdateRefused(pr)
                            \/ MergeConfirmRead(pr)
    \/ \E local \in Local : PreflightLocal(local)
    \/ \E comparison \in Nullable(Comparison) : \/ Behind(comparison)
                                                \/ UpdateBaseRead(comparison)
    \/ \E commit \in CommitInfo : UpdateCommitRead(commit)
    \/ \E checks \in Checks : RerunChecked(checks)
    \/ \E pr \in Snapshot, checks \in Checks : ChecksRead(pr, checks)
    \/ \E pr \in Snapshot, checks \in Checks, local \in Local,
          comparison \in Nullable(Comparison), runs \in BaseRuns :
            MergeChecksRead(pr, checks, comparison, local, runs)
    \/ \E runs \in BaseRuns : BaseRunsRead(runs)
    \/ \E run \in Nullable(RunState) : PostMergeRead(run)
    \/ PostMergeFailed
    \/ \E failure \in ReadFailure : ReadFailed(failure)

Next ==
    \/ Start
    \/ UserStop
    \/ ReadAnswered
    \/ \E result \in MutationResult : Mutated(result)
    \/ Tick

Spec == Init /\ [][Next]_vars

-----------------------------------------------------------------------------
(* The queue as its controller sees it *)

\* unconfirmedMutation: the call in flight, or the one whose effect GitHub has
\* not shown yet.
Unconfirmed ==
    IF request # None /\ request.action \in Mutation THEN "sent"
    ELSE IF /\ current # 0 /\ purpose # None
            /\ purpose.kind \in {"updatePoll", "updateFailed", "mergeConfirm"}
    THEN "unconfirmed" ELSE "none"

RunNow == [phase |-> IF phase = "paused" THEN "running" ELSE phase,
           call |-> Unconfirmed]

Promise == INSTANCE MergeQueuePromise WITH run <- RunNow

\* The engine keeps what its controller relies on: a call goes out only when
\* none is left unconfirmed, and only its answer ends a queue that was stopped
\* while it was out.
ImplementsRun == Promise!Spec

=============================================================================
