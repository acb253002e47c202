----------------------------- MODULE MCMergerV2 -----------------------------
(* Model-checking instance of MergerV2 with two port loops.                *)
EXTENDS MergerV2, TLC

CONSTANTS p1, p2

MCPushers == {p1, p2}

\* The port loops are interchangeable.
PusherSymmetry == Permutations(MCPushers)
=============================================================================
