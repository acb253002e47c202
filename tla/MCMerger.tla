------------------------------ MODULE MCMerger ------------------------------
(* Model-checking instance of Merger with two port loops.                  *)
EXTENDS Merger, TLC

CONSTANTS p1, p2

MCPushers == {p1, p2}

\* The port loops are interchangeable.
PusherSymmetry == Permutations(MCPushers)
=============================================================================
