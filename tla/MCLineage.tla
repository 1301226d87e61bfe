------------------------------ MODULE MCLineage ------------------------------
(* Lineage on a small instance.                                            *)
EXTENDS Lineage
=============================================================================
