-------------------------- MODULE MergeQueueGitHub --------------------------
(***************************************************************************)
(* The merge queue at work: the engine, the driver that runs its requests  *)
(* one read at a time (Views/MergeQueueDriver.swift), and the repository   *)
(* they are made to.  GitHub, its workflows and the people and agents that *)
(* push, merge, close and edit are external: they do what the code's own   *)
(* handling shows they can do, at any moment, between any two reads.       *)
(*                                                                         *)
(* A commit is a pair: <<0, i>> is the base branch's i-th commit (<<0, 0>> *)
(* one that is on no branch here), <<p, k>> the k-th head of pull request  *)
(* p.  Trouble counts every departure from a smooth run, up to MaxTrouble. *)
(***************************************************************************)
EXTENDS MergeQueueEngine

CONSTANTS
    MaxBase,     \* bound: commits on the base branch
    MaxHeads,    \* bound: heads of a pull request
    MaxTrouble   \* bound: disturbances in one behaviour

Commits == (0..N) \X (0..(MaxBase + MaxHeads))

ASSUME EnvironmentAssumption ==
    /\ MaxTrouble \in Nat
    /\ MaxBase \in Nat /\ MaxBase > N + MaxTrouble
    /\ MaxHeads \in Nat /\ MaxHeads > MaxUpdates + MaxTrouble
    /\ Commit = Commits
    /\ \A p \in 1..N : Confirmed[p] = <<p, 1>>
    /\ CheckRun = (1..MaxHeads) \X (1..3)
    /\ BaseRun = 1..MaxBase

VARIABLES
    base,     \* the base branch's commits, with their post-merge runs
    pulls,    \* the pull requests, and their branches on this Mac
    late,     \* calls GitHub accepted whose effect is still to come
    call,     \* gh's exit, once the running call has ended
    batch,    \* the reads under way: those still to do, and their answers
    trouble,  \* the disturbances so far
    live,     \* this build's client changes GitHub: it is not a dry run
    greens,   \* history: the heads whose required checks were green
    passed    \* history: the base commits whose post-merge run succeeded

envVars == <<base, pulls, late, live, greens, passed>>
driverVars == <<call, batch>>
allVars == <<vars, envVars, driverVars, trouble>>

-----------------------------------------------------------------------------
(* The repository *)

Tip == Len(base)
LastHead(p) == Len(pulls[p].heads)
HeadOf(p) == pulls[p].heads[LastHead(p)]

\* A head: who made it, the head it is on top of, the base commits it holds
\* (1..upTo), the commit it merged, and its required checks.
NewHead(webFlow, from, upTo, merged) ==
    [webFlow |-> webFlow, from |-> from, upTo |-> upTo, merged |-> merged,
     checks |-> "pending", run |-> 1]

CheckState == {"pending", "failing", "failed", "green", "notGreen", "mixed",
               "otherFailed"}
PullHead == [webFlow: BOOLEAN, from: 0..MaxHeads, upTo: 0..MaxBase,
         merged: 0..MaxBase, checks: CheckState, run: 1..3]
Pull == [state: {"OPEN", "MERGED", "CLOSED"},
         flag: {"none", "ineligible", "autoMerge", "mergeQueue"},
         heads: Seq(PullHead), conflict: BOOLEAN, at: 0..MaxBase,
         tree: {"clean", "trackedChanges", "unpushed"}, busy: BOOLEAN]
BaseCommit == [pull: 0..N, head: 0..MaxHeads, byQueue: BOOLEAN,
               run: Nullable([state: RunState, attempt: 1..2])]

EnvTypeOK ==
    /\ base \in Seq(BaseCommit) /\ Tip \in 1..MaxBase
    /\ pulls \in [1..N -> Pull]
    /\ \A p \in 1..N : LastHead(p) \in 1..MaxHeads
    /\ late \subseteq [mutation: Mutation, pull: 1..N, head: 1..MaxHeads]
    /\ call \in Nullable(MutationResult)
    /\ batch = None \/ batch.todo \in Seq(ReadName)
    /\ trouble \in 0..MaxTrouble /\ live \in BOOLEAN
    /\ greens \subseteq (1..N) \X (1..MaxHeads)
    /\ passed \subseteq 1..MaxBase

EnvInit ==
    /\ \E first \in {None} \cup {[state |-> s, attempt |-> 1] : s \in RunState} :
         base = <<[pull |-> 0, head |-> 0, byQueue |-> FALSE, run |-> first]>>
    /\ pulls \in [1..N ->
         {[state |-> "OPEN", flag |-> "none", conflict |-> FALSE, at |-> 0,
           tree |-> "clean", busy |-> FALSE,
           heads |-> <<[NewHead(FALSE, 0, 1, 0) EXCEPT !.checks = c]>>] :
             c \in {"pending", "green"}}]
    /\ late = {}
    /\ call = None
    /\ batch = None
    /\ trouble = 0
    /\ live \in BOOLEAN
    /\ greens = {<<p, 1>> : p \in {q \in 1..N : pulls[q].heads[1].checks = "green"}}
    /\ passed = {}

\* The post-merge workflow has one concurrency group: a run that starts
\* cancels the one still going.
Started(b, i, attempt) ==
    [j \in DOMAIN b |->
        IF j = i THEN [b[j] EXCEPT !.run = [state |-> "unfinished",
                                            attempt |-> attempt]]
        ELSE IF b[j].run # None /\ b[j].run.state = "unfinished"
        THEN [b[j] EXCEPT !.run.state = "cancelled"]
        ELSE b[j]]

\* Pull request p is merged at its head k, by the queue or by someone.
Land(p, k, byQueue) ==
    /\ Tip < MaxBase
    /\ base' = Append(base, [pull |-> p, head |-> k, byQueue |-> byQueue,
                             run |-> None])
    /\ pulls' = [pulls EXCEPT ![p].state = "MERGED", ![p].at = Tip + 1,
                              ![p].flag = "none"]

\* GitHub merges the base branch into p's branch.
UpdateBranch(p) ==
    /\ LastHead(p) < MaxHeads
    /\ pulls' = [pulls EXCEPT ![p].heads =
                    Append(@, NewHead(TRUE, LastHead(p), Tip, Tip))]

\* The failed jobs of p's head run again: a new check run.
Rerun(p, k) ==
    pulls' = [pulls EXCEPT ![p].heads[k].checks = "pending",
                           ![p].heads[k].run = @ + 1]
-----------------------------------------------------------------------------
(* What happens without anyone's doing: CI, and what GitHub put off *)

\* A required check of p's latest head ends well.
CheckPasses(p) ==
    /\ HeadOf(p).checks = "pending"
    /\ pulls' = [pulls EXCEPT ![p].heads[LastHead(p)].checks = "green"]
    /\ greens' = greens \cup {<<p, LastHead(p)>>}
    /\ UNCHANGED <<base, late, passed, trouble, live>>

\* The workflow run of a failed check ends: its jobs are all done.
CheckRunEnds(p) ==
    /\ HeadOf(p).checks = "failing"
    /\ pulls' = [pulls EXCEPT ![p].heads[LastHead(p)].checks = "failed"]
    /\ UNCHANGED <<base, late, greens, passed, trouble, live>>

\* The post-merge workflow starts on the tip.
BaseRunStarts ==
    /\ base[Tip].run = None
    /\ base' = Started(base, Tip, 1)
    /\ UNCHANGED <<pulls, late, greens, passed, trouble, live>>

BaseRunPasses(i) ==
    /\ base[i].run # None /\ base[i].run.state = "unfinished"
    /\ base' = [base EXCEPT ![i].run.state = "success"]
    /\ passed' = passed \cup {i}
    /\ UNCHANGED <<pulls, late, greens, trouble, live>>

\* An effect GitHub had accepted shows, or never will.
LateEffect(e) ==
    /\ late' = late \ {e}
    /\ \/ /\ e.mutation = "merge"
          /\ pulls[e.pull].state = "OPEN" /\ LastHead(e.pull) = e.head
          /\ Land(e.pull, e.head, TRUE)
       \/ /\ e.mutation = "updateBranch"
          /\ pulls[e.pull].state = "OPEN" /\ LastHead(e.pull) = e.head
          /\ UpdateBranch(e.pull)
          /\ UNCHANGED base
       \/ /\ e.mutation = "rerun"
          /\ pulls[e.pull].heads[e.head].checks = "failed"
          /\ pulls[e.pull].heads[e.head].run < 3
          /\ Rerun(e.pull, e.head)
          /\ UNCHANGED base
       \/ UNCHANGED <<base, pulls>>
    /\ UNCHANGED <<greens, passed, trouble, live>>

Smooth ==
    /\ \/ \E p \in 1..N : CheckPasses(p) \/ CheckRunEnds(p)
       \/ BaseRunStarts
       \/ \E i \in 1..Tip : BaseRunPasses(i)
       \/ \E e \in late : LateEffect(e)
    /\ UNCHANGED <<vars, driverVars>>

-----------------------------------------------------------------------------
(* What people, agents and CI do to the queue's work *)

\* Someone pushes to the base branch; open pull requests may conflict with it.
PushToBase ==
    /\ Tip < MaxBase
    /\ base' = Append(base, [pull |-> 0, head |-> 0, byQueue |-> FALSE,
                             run |-> None])
    /\ \/ UNCHANGED pulls
       \/ \E p \in 1..N : pulls' = [pulls EXCEPT ![p].conflict = TRUE]
    /\ UNCHANGED <<late, greens, passed>>

\* Someone pushes to p's branch: their own commits, GitHub's merge of another
\* branch into it, or GitHub's merge of the base ("Update branch").
PushToPull(p) ==
    /\ pulls[p].state = "OPEN" /\ LastHead(p) < MaxHeads
    /\ \E head \in {NewHead(FALSE, LastHead(p), Tip, Tip),
                    NewHead(TRUE, LastHead(p), HeadOf(p).upTo, 0),
                    NewHead(TRUE, LastHead(p), Tip, Tip)} :
         pulls' = [pulls EXCEPT ![p].heads = Append(@, head)]
    /\ UNCHANGED <<base, late, greens, passed>>

\* Someone merges, closes, retargets or drafts p, or sets it to auto-merge.
MergedOutside(p) ==
    /\ pulls[p].state = "OPEN"
    /\ Land(p, LastHead(p), FALSE)
    /\ UNCHANGED <<late, greens, passed>>

EditPull(p) ==
    /\ pulls[p].state = "OPEN"
    /\ \/ pulls' = [pulls EXCEPT ![p].state = "CLOSED"]
       \/ \E flag \in {"ineligible", "autoMerge"} :
            pulls' = [pulls EXCEPT ![p].flag = flag]
    /\ UNCHANGED <<base, late, greens, passed>>

\* A required check ends badly, or runs again.
CheckTurns(p) ==
    /\ \/ /\ HeadOf(p).checks = "pending"
          /\ \E c \in {"failing", "notGreen", "mixed", "otherFailed"} :
               pulls' = [pulls EXCEPT ![p].heads[LastHead(p)].checks = c]
       \/ /\ HeadOf(p).checks = "green" /\ HeadOf(p).run < 3
          /\ Rerun(p, LastHead(p))
    /\ UNCHANGED <<base, late, greens, passed>>

\* A post-merge run fails, or is rerun by hand.
BaseRunTurns(i) ==
    /\ base[i].run # None
    /\ \/ /\ base[i].run.state = "unfinished"
          /\ base' = [base EXCEPT ![i].run.state = "failed"]
       \/ /\ base[i].run.state # "unfinished" /\ base[i].run.attempt = 1
          /\ base' = Started(base, i, 2)
    /\ UNCHANGED <<pulls, late, greens, passed>>

\* An agent starts working in p's worktree, or p's files change.
LocalWork(p) ==
    /\ \/ ~pulls[p].busy /\ pulls' = [pulls EXCEPT ![p].busy = TRUE]
       \/ \E tree \in {"trackedChanges", "unpushed"} :
            pulls' = [pulls EXCEPT ![p].tree = tree]
    /\ UNCHANGED <<base, late, greens, passed>>

Disturb ==
    /\ trouble < MaxTrouble
    /\ trouble' = trouble + 1
    /\ \/ PushToBase
       \/ \E p \in 1..N : \/ PushToPull(p) \/ MergedOutside(p) \/ EditPull(p)
                          \/ CheckTurns(p) \/ LocalWork(p)
       \/ \E i \in 1..Tip : BaseRunTurns(i)
    /\ UNCHANGED <<vars, driverVars, live>>

\* The agent goes idle.
AgentIdles ==
    /\ \E p \in 1..N : /\ pulls[p].busy
                       /\ pulls' = [pulls EXCEPT ![p].busy = FALSE]
    /\ UNCHANGED <<vars, driverVars, trouble, base, late, greens, passed, live>>

-----------------------------------------------------------------------------
(* The driver's reads *)

\* What a read answers now, of the current pull request and for the
\* engine's purpose.
Snap(p) ==
    [state |-> pulls[p].state, flag |-> pulls[p].flag,
     head |-> <<p, LastHead(p)>>,
     mergeable |-> IF pulls[p].state # "OPEN" THEN "UNKNOWN"
                   ELSE IF pulls[p].conflict THEN "CONFLICTING" ELSE "MERGEABLE",
     mergeCommit |-> IF pulls[p].state = "MERGED" THEN <<0, pulls[p].at>> ELSE None,
     parent |-> IF pulls[p].state = "MERGED" THEN <<0, pulls[p].at - 1>> ELSE None]

ChecksOf(p, k) ==
    LET head == pulls[p].heads[k]
    IN [state |-> IF head.checks = "failing" THEN "failed" ELSE head.checks,
        run |-> <<k, head.run>>, complete |-> head.checks # "failing"]

\* compare/{base}...{head}, where the head holds the base's first commits.
Compared(upTo) ==
    [behindBy |-> IF Tip > upTo THEN 1 ELSE 0, baseCommit |-> <<0, Tip>>]

ReadNow(read) ==
    LET p == current
        k == IF purpose.head = None THEN 0 ELSE purpose.head[2]
    IN CASE read = "setup" -> "ready"
         [] read = "pullRequest" -> Snap(p)
         [] read = "local" -> pulls[p].tree
         [] read = "compare" -> Compared(pulls[p].heads[k].upTo)
         [] read = "commit" ->
              LET new == purpose.other[2]
                  made == pulls[p].heads[new]
              IN [webFlow |-> made.webFlow, from |-> <<p, made.from>>,
                  merged |-> <<0, made.merged>>]
         [] read = "baseOf" ->
              [behindBy |-> IF purpose.other[2] \in 1..Tip THEN 0 ELSE 1,
               baseCommit |-> purpose.other]
         [] read = "checks" -> ChecksOf(p, k)
         [] read = "baseRuns" ->
              [i \in BaseRun |-> IF i <= Tip THEN base[i].run ELSE None]
         [] read = "pushRuns" -> IF base[k].run = None THEN None
                                 ELSE base[k].run.state
         [] read = "moved" -> Tip > k

\* The answers that cost trouble: refused at Start, `mergeable: UNKNOWN', a
\* merge commit GitHub doesn't give yet, a 404, an unreadable worktree.
ReadOddly(read) ==
    CASE read = "setup" -> {"lowRateLimit", "baseMergeQueue"}
      [] read = "pullRequest" ->
           {[Snap(current) EXCEPT !.mergeable = "UNKNOWN", !.mergeCommit = None,
                                  !.parent = None]}
      [] read = "local" -> {"unreadable"}
      [] read \in {"compare", "baseOf"} -> {None}
      [] OTHER -> {}

Due == request # None /\ request.action = "read" /\ request.after = 0
ToDo == IF batch = None THEN request.reads ELSE batch.todo
Got == IF batch = None THEN [r \in ReadName |-> None] ELSE batch.got

\* fetch(_:client:settings:folders:inspect:): reads in order, each at its own
\* moment, off the main thread.
Fetch ==
    /\ Due
    /\ ToDo # <<>>
    /\ \/ /\ batch' = [todo |-> Tail(ToDo),
                       got |-> [Got EXCEPT ![Head(ToDo)] = ReadNow(Head(ToDo))]]
          /\ UNCHANGED trouble
       \/ /\ trouble < MaxTrouble
          /\ trouble' = trouble + 1
          /\ \E answer \in ReadOddly(Head(ToDo)) :
               batch' = [todo |-> Tail(ToDo),
                         got |-> [Got EXCEPT ![Head(ToDo)] = answer]]
    /\ UNCHANGED <<vars, envVars, call>>

\* The first read that fails ends the batch.
FetchFails ==
    /\ Due
    /\ ToDo # <<>>
    /\ trouble < MaxTrouble
    /\ trouble' = trouble + 1
    /\ \E failure \in ReadFailure : ReadFailed(failure)
    /\ batch' = None
    /\ UNCHANGED <<envVars, call>>

\* finishReads(_:id:): the batch answers the engine, with the agents that are
\* busy now, on the main thread.
LocalNow == IF Got["local"] # "unreadable" /\ pulls[current].busy
            THEN "busy" ELSE Got["local"]

FinishReads ==
    /\ Due
    /\ batch # None /\ batch.todo = <<>>
    /\ \/ StartChecked(Got["setup"], Got["baseRuns"])
       \/ Preflight(Got["pullRequest"])
       \/ PreflightLocal(LocalNow)
       \/ Behind(Got["compare"])
       \/ UpdatePolled(Got["pullRequest"])
       \/ UpdateCommitRead(Got["commit"])
       \/ UpdateBaseRead(Got["baseOf"])
       \/ UpdateFailedRead(Got["pullRequest"])
       \/ UpdateRefused(Got["pullRequest"])
       \/ ChecksRead(Got["pullRequest"], Got["checks"])
       \/ RerunChecked(Got["checks"])
       \/ MergeChecksRead(Got["pullRequest"], Got["checks"], Got["compare"],
                          LocalNow, Got["baseRuns"])
       \/ BaseRunsRead(Got["baseRuns"])
       \/ MergeConfirmRead(Got["pullRequest"])
       \/ PostMergeRead(Got["pushRuns"])
       \/ PostMergeFailed
    /\ batch' = None
    /\ UNCHANGED <<envVars, call, trouble>>

\* An answer still on its way when Stop was pressed is dropped.
DropReads ==
    /\ request = None
    /\ batch # None
    /\ batch' = None
    /\ UNCHANGED <<vars, envVars, call, trouble>>

-----------------------------------------------------------------------------
(* The driver's calls *)

\* GitHub would do what the running call asks for.
Grants ==
    LET p == current
        k == purpose.head[2]
        open == pulls[p].state = "OPEN" /\ LastHead(p) = k
    IN CASE request.action = "updateBranch" ->
              open /\ ~pulls[p].conflict /\ pulls[p].heads[k].upTo < Tip
         [] request.action = "rerun" ->
              pulls[p].heads[k].checks = "failed" /\ pulls[p].heads[k].run < 3
         [] request.action = "merge" ->
              open /\ ~pulls[p].conflict /\ pulls[p].flag # "ineligible"

Effect == [mutation |-> request.action, pull |-> current, head |-> purpose.head[2]]

\* The call takes effect: a merge at once, the others in GitHub's time.
TakesEffect ==
    IF request.action = "merge"
    THEN Land(current, purpose.head[2], TRUE) /\ UNCHANGED late
    ELSE late' = late \cup {Effect} /\ UNCHANGED <<base, pulls>>

Refusal ==
    IF request.action # "updateBranch" THEN "refused"
    ELSE IF pulls[current].heads[purpose.head[2]].upTo = Tip THEN "notBehind422"
    ELSE "refused422"

\* GitHub took the call but gh has no clear answer, or none GitHub meant: it
\* may have taken effect, may still, or may not.
AnsweredOddly ==
    /\ \E result \in {"uncertain", "refused", "refused422", "rateLimited"} :
         /\ call' = result
         /\ \/ UNCHANGED <<base, pulls, late>>
            \/ result = "uncertain" /\ Grants /\ TakesEffect
            \/ /\ result \in {"uncertain", "refused"} /\ Grants
               /\ late' = late \cup {Effect}
               /\ UNCHANGED <<base, pulls>>

\* client.mutate(_:settings:), off the main thread.
GhRuns ==
    /\ request # None /\ request.action \in Mutation
    /\ call = None
    /\ \/ ~live /\ call' = "dryRun" /\ UNCHANGED <<base, pulls, late, trouble>>
       \/ live /\ Grants /\ TakesEffect /\ call' = "sent" /\ UNCHANGED trouble
       \/ /\ live /\ ~Grants /\ call' = Refusal
          /\ UNCHANGED <<base, pulls, late, trouble>>
       \/ /\ live /\ trouble < MaxTrouble /\ trouble' = trouble + 1
          /\ AnsweredOddly
    /\ UNCHANGED <<vars, live, greens, passed, batch>>

GhAnswers ==
    /\ call # None
    /\ Mutated(call)
    /\ call' = None
    /\ UNCHANGED <<envVars, batch, trouble>>

-----------------------------------------------------------------------------
(* The whole system *)

UserActs ==
    /\ Start \/ UserStop
    /\ UNCHANGED <<envVars, driverVars, trouble>>

Ticks == Tick /\ UNCHANGED <<envVars, driverVars, trouble>>

AllInit == Init /\ EnvInit
AllTypeOK == TypeOK /\ EnvTypeOK

Driver == Fetch \/ FinishReads \/ GhRuns \/ GhAnswers

AllNext == Driver \/ FetchFails \/ DropReads \/ UserActs \/ Ticks
           \/ Smooth \/ Disturb \/ AgentIdles

\* The driver's dispatches run and gh's processes end; the clock runs.
\* Nothing is asked of GitHub, its workflows or the people around them.
AllSpec == /\ AllInit /\ [][AllNext]_allVars
           /\ WF_allVars(Driver) /\ WF_allVars(Ticks)

-----------------------------------------------------------------------------
(* What the queue promises of the repository *)

\* A pull request that goes on past its merge was merged with required checks
\* that were green, on the very base its head holds, and is done only once the
\* post-merge workflow of its merge commit succeeded.
DoneWasTested ==
    \A p \in 1..N :
        entries[p].step \in {"waitingForPostMerge", "done"} =>
            LET m == pulls[p].at
                k == base[m].head
            IN /\ entries[p].mergeCommit = <<0, m>>
               /\ base[m].pull = p
               /\ pulls[p].heads[k].upTo = m - 1
               /\ <<p, k>> \in greens
               /\ HasWorkflow /\ entries[p].step = "done" => m \in passed

\* The queue never merges while the post-merge workflow of its own previous
\* merge runs: the new merge's run would cancel it (one concurrency group).
NightlyFirst ==
    \A i, j \in 1..Tip :
        i < j /\ base[i].byQueue /\ base[j].byQueue /\ HasWorkflow => i \in passed

\* What the queue merges is what the user confirmed: on top of the confirmed
\* head there is nothing but GitHub's merges of commits of the base branch.
QueueLandsConfirmed ==
    \A i \in 1..Tip : base[i].byQueue =>
        \A k \in 2..base[i].head :
            LET head == pulls[base[i].pull].heads[k]
            IN head.webFlow /\ head.merged # 0 /\ head.from = k - 1

\* A dry run asks for one call in all, and takes no merge for its own.
DryRunStopsFirst ==
    ~live => /\ \A p, q \in 1..N, m, n \in Mutation :
                  sent[p][m] > 0 /\ sent[q][n] > 0 =>
                      p = q /\ m = n /\ sent[p][m] = 1
             /\ \A p \in 1..N :
                  entries[p].step \notin {"waitingForPostMerge", "done"}

\* A running queue ends or stops, whatever GitHub, its workflows and the
\* people around it do or fail to do: every wait has its limit.
Settles == phase # "idle" ~> phase \in {"stopped", "finished"}

=============================================================================
