----------------------------- MODULE MCRequests -----------------------------
(* Requests on a small instance: every write endpoint.                     *)
EXTENDS Requests

AllEndpoints == DOMAIN Plan
=============================================================================
