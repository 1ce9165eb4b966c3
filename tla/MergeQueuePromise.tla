-------------------------- MODULE MergeQueuePromise --------------------------
(***************************************************************************)
(* The abstract specification of a merge queue: a run that only ever goes  *)
(* where MergeQueueRun says.                                               *)
(***************************************************************************)
EXTENDS MergeQueueRun

VARIABLE run

Init == run = Idle
Next == run' \in Starts(run) \cup After(run)
Spec == Init /\ [][Next]_run

=============================================================================
