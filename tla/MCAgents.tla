------------------------------ MODULE MCAgents ------------------------------
(* Instances of AgentStore for TLC: an agent on the server's host and one  *)
(* elsewhere, with repositories of their own.                              *)
EXTENDS AgentStore
CONSTANTS here, there, c, d
MCKeyOf == [a \in {here, there} |-> a]
MCSources == {<<c>>, <<c, d>>}
=============================================================================
