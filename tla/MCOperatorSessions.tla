------------------------- MODULE MCOperatorSessions -------------------------
(* Instances of OperatorSessions small enough for TLC.                     *)
EXTENDS OperatorSessions, TLC

CONSTANTS b1, r1, r2

Browsers1 == {b1}
Requests2 == {r1, r2}
Symmetric == Permutations(Request)
=============================================================================
