--------------------------- MODULE MCAgentRunner ---------------------------
(* Instances of AgentRunner for TLC: see the Runner*.cfg files. *)
EXTENDS AgentRunner, TLC

InvocationSymmetry == Permutations(Invocations)
=============================================================================
