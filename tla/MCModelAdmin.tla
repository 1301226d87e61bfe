---------------------------- MODULE MCModelAdmin ----------------------------
(* ModelAdmin on a small instance.                                         *)
EXTENDS ModelAdmin
=============================================================================
