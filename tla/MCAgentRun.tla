---------------------------- MODULE MCAgentRun ----------------------------
(* AgentRun on small instances.                                            *)
EXTENDS AgentRunInv, TLC

\* Workers are interchangeable; sound for invariants and action properties.
WorkerSymmetry == Permutations(Workers)
=============================================================================
