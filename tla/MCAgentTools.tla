----------------------------- MODULE MCAgentTools -----------------------------
(* AgentTools on small instances.                                          *)
EXTENDS AgentTools, TLC

Symmetry == Permutations(People) \cup Permutations(Kinds)
=============================================================================
