---------------------------- MODULE MCCaseAndRun ----------------------------
(* CaseAndRun on a small instance.                                         *)
EXTENDS CaseAndRun
=============================================================================
