--------------------------- MODULE MCAlertWorker ---------------------------
(* Instances of AlertWorker small enough for TLC.                          *)
EXTENDS AlertWorker, TLC

CONSTANTS s1, s2, u1, u2

MCRetryDelay == [n \in 1..MaxAttempts |-> n]
Servers1 == {s1}
Servers2 == {s1, s2}
Admins1 == {u1}
Admins2 == {u1, u2}
Symmetric == Permutations(Server) \cup Permutations(Admin)
=============================================================================
