------------------------- MODULE MCMergeQueueGitHub -------------------------
(***************************************************************************)
(* Small instances of MergeQueueGitHub for TLC.                            *)
(***************************************************************************)
EXTENDS MergeQueueGitHub

MCCommit == Commits
MCConfirmed == [p \in 1..N |-> <<p, 1>>]
MCCheckRun == (1..MaxHeads) \X (1..3)
MCBaseRun == 1..MaxBase

\* A limit of one tick is reached at the second poll.
MCLimit == [name \in LimitName |-> 1]
=============================================================================
