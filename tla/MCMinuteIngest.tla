--------------------------- MODULE MCMinuteIngest ---------------------------
(* Instances of MinuteIngest small enough for TLC.                         *)
EXTENDS MinuteIngest, TLC

CONSTANTS s1, s2, r1, r2

Servers2 == {s1, s2}
Requests2 == {r1, r2}
Symmetric == Permutations(Server) \cup Permutations(Request)
=============================================================================
