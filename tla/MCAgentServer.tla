---------------------------- MODULE MCAgentServer ----------------------------
(* Instances of AgentServer for TLC. *)
EXTENDS AgentServer, TLC

\* Calls are interchangeable: none is named by a constant or a property.
CallSymmetry == Permutations(Calls)
=============================================================================
