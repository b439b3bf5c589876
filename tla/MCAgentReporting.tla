-------------------------- MODULE MCAgentReporting --------------------------
(* Instances of AgentReporting small enough for TLC.                       *)
EXTENDS AgentReporting

CONSTANTS eth0, eth1, r1, r2

Interfaces2 == {eth0, eth1}
Requests2 == {r1, r2}
=============================================================================
