---------------------------- MODULE MCExplainQueue ----------------------------
(***************************************************************************)
(* Small instances of ExplainQueue for TLC: two worktrees, each under      *)
(* review in a column, and three columns on one worktree.                  *)
(***************************************************************************)
EXTENDS ExplainQueue, TLC

CONSTANTS w1, w2, c1, c2, c3

MCTwo == {c1, c2}
MCTwoOf == c1 :> w1 @@ c2 :> w2
MCThree == {c1, c2, c3}
MCSameOf == c1 :> w1 @@ c2 :> w1 @@ c3 :> w1
MCColumns == Permutations(MCThree)
=============================================================================
