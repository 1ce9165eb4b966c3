----------------------- MODULE MCMergeQueueAgentWait -----------------------
(***************************************************************************)
(* How long a busy agent is waited for, against what the limit says        *)
(* (Limits.agentWait: "A busy agent may keep a pull request waiting this   *)
(* long").  The wait the queue measures is compared with the agent's own.  *)
(***************************************************************************)
EXTENDS MCMergeQueueGitHub

VARIABLE busyFor  \* history: ticks since the agent's spell of work began

\* The agent's limit is two ticks; the others one.
MCAgentLimit == [name \in LimitName |-> IF name = "agent" THEN 2 ELSE 1]

\* An idle moment counts only if the queue was not polling the agent then: the
\* queue can't see one between two polls of the same wait.
Polling == purpose # None /\ purpose.kind \in {"preflight", "preflightLocal",
                                               "mergeChecks"}

Measure ==
    busyFor' = IF phase' \notin Active THEN busyFor
               ELSE IF ~pulls'[1].busy /\ ~Polling THEN 0
               ELSE IF Ticks /\ (Polling \/ pulls[1].busy) /\ busyFor < Limit["agent"]
               THEN busyFor + 1
               ELSE busyFor

\* Only pushes to the base branch and the agent disturb the queue.
OnlyAgentAndBase ==
    trouble' # trouble => \/ Len(base') > Len(base) /\ pulls' = pulls
                          \/ pulls'[1].busy # pulls[1].busy

AgentInit == AllInit /\ live /\ busyFor = 0
AgentNext == AllNext /\ OnlyAgentAndBase /\ Measure
AgentSpec == AgentInit /\ [][AgentNext]_<<allVars, busyFor>>

\* "An agent of #1 is still busy after 10 minutes": the queue stops for it
\* only once that spell of work has lasted the limit.
StillBusyAfterLimit == reason = "agentBusy" => busyFor >= Limit["agent"]
=============================================================================
