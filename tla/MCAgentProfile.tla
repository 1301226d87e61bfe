---------------------------- MODULE MCAgentProfile ----------------------------
(* AgentProfile on small instances.                                        *)
EXTENDS AgentProfile, TLC

CONSTANTS old, new, other

\* "old" is a document from before the fields of "new" were introduced.
MCConfigs == {old, new, other}
MCNormal == (old :> new) @@ (new :> new) @@ (other :> other)

AdminSymmetry == Permutations(Admins)
=============================================================================
