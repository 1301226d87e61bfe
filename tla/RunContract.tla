---------------------------- MODULE RunContract ----------------------------
(***************************************************************************)
(* What the runtime promises whoever submits a Run (ADR-004): the Run ends  *)
(* once and for good; Hermes is given it again only when nothing of an      *)
(* earlier execution can stand; a Run is called accepted, failed or         *)
(* cancelled only when Hermes is through with it; and when that cannot be   *)
(* known the Run is unknown and people are called in, once.  It says        *)
(* nothing of an execution it has lost track of: one whose Worker was still *)
(* at the database when its lease ended.                                    *)
(***************************************************************************)
EXTENDS Naturals

CONSTANT Runs

VARIABLES
    outcome,   \* "none", "pending", or how the Run ended
    live,      \* executions Hermes has been given and has not ended
    standing,  \* executions Hermes has ended whose effect may stand
    astray,    \* executions the runtime has lost track of
    calls      \* requests for manual reconciliation

vars == <<outcome, live, standing, astray, calls>>

Ends == {"evidence_accepted", "failed", "cancelled", "unknown"}

Init ==
    /\ outcome = [r \in Runs |-> "none"]
    /\ live = [r \in Runs |-> 0]
    /\ standing = [r \in Runs |-> 0]
    /\ astray = [r \in Runs |-> 0]
    /\ calls = [r \in Runs |-> 0]

Submit(r) ==
    /\ outcome[r] = "none"
    /\ outcome' = [outcome EXCEPT ![r] = "pending"]
    /\ UNCHANGED <<live, standing, astray, calls>>

\* The request of a Worker that has lost the Run may still leave, but only
\* for a Run that is already called unknown.
Dispatch(r) ==
    /\ outcome[r] \in {"pending", "unknown"}
    /\ live[r] = 0 /\ standing[r] = 0
    /\ live' = [live EXCEPT ![r] = 1]
    /\ UNCHANGED <<outcome, standing, astray, calls>>

ExecutionEnds(r, effect) ==
    /\ live[r] > 0
    /\ live' = [live EXCEPT ![r] = @ - 1]
    /\ standing' = [standing EXCEPT ![r] = @ + IF effect THEN 1 ELSE 0]
    /\ UNCHANGED <<outcome, astray, calls>>

End(r, o) ==
    /\ outcome[r] = "pending"
    /\ o # "unknown" => live[r] = 0
    /\ outcome' = [outcome EXCEPT ![r] = o]
    /\ calls' = [calls EXCEPT ![r] = @ + IF o = "unknown" THEN 1 ELSE 0]
    /\ UNCHANGED <<live, standing, astray>>

\* The lease of a pending Run's execution ends under a transaction of its
\* Worker: whatever is, or will be, live or standing of it is on nobody's
\* account any more.
LoseTrack(r) ==
    /\ outcome[r] = "pending"
    /\ astray' = [astray EXCEPT ![r] = @ + 1]
    /\ live' = [live EXCEPT ![r] = 0]
    /\ standing' = [standing EXCEPT ![r] = 0]
    /\ UNCHANGED <<outcome, calls>>

Next ==
    \E r \in Runs :
        \/ Submit(r)
        \/ Dispatch(r)
        \/ LoseTrack(r)
        \/ \E effect \in BOOLEAN : ExecutionEnds(r, effect)
        \/ \E o \in Ends : End(r, o)

Spec == Init /\ [][Next]_vars
=============================================================================
