----------------------------- MODULE MCDnsZone ------------------------------
(* Instances of DnsZone small enough for TLC.                              *)
EXTENDS DnsZone, TLC

CONSTANTS a1, a2

Admins2 == {a1, a2}
Symmetric == Permutations(Admin)
=============================================================================
