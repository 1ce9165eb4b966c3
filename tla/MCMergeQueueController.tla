----------------------- MODULE MCMergeQueueController -----------------------
(* MergeQueueController on two processes; each process may stand for the    *)
(* other, and so may the projects, and the repositories.                    *)
EXTENDS MergeQueueController, TLC

\* Boards that name one repository, as two worktrees of it do.
BoardsTogether == {[p \in Project |-> r] : r \in Repository}

SameProcesses == Permutations(Nirux) \cup Permutations(Project) \cup Permutations(Repository)

=============================================================================
