---------------------------- MODULE CaseContract ----------------------------
(***************************************************************************)
(* The end of a Run and the commands of its case as if each were one        *)
(* indivisible step: what the module MarketingCase takes for granted, for   *)
(* one stage of a case whose Agent has been started.                        *)
(***************************************************************************)

VARIABLES
    work,  \* the Run: "queued", "active", or how it ended
    asked, \* the Run was asked to cancel
    step,  \* the step of the stage: "running", "blocked", "awaiting_human"
    case   \* the status of the case

vars == <<work, asked, step, case>>

Ends == {"evidence_accepted", "failed", "cancelled", "unknown"}

Init ==
    /\ work = "queued"
    /\ asked = FALSE
    /\ step = "running"
    /\ case = "running"

\* A Worker takes the Run, or it is put back into the queue.
Take == work = "queued" /\ work' = "active" /\ UNCHANGED <<asked, step, case>>
PutBack == work = "active" /\ work' = "queued" /\ UNCHANGED <<asked, step, case>>

\* Only work that has succeeded can go on to people.
Told(to) ==
    /\ step' \in IF to = "evidence_accepted" THEN {"awaiting_human", "blocked"} ELSE {"blocked"}
    /\ case' = step'

End(to) == work = "active" /\ work' = to /\ Told(to) /\ UNCHANGED asked

\* The Run is cancelled: at once if nobody has taken it, else on request.
Cancel ==
    /\ asked' = TRUE
    /\ \/ work = "queued" /\ work' = "cancelled" /\ Told("cancelled")
       \/ work = "active" /\ UNCHANGED <<work, step, case>>

\* cancel_case while the Run is active, and once it is over.
CancelActiveCase ==
    /\ work = "active"
    /\ asked' = TRUE /\ step' = "blocked" /\ case' = "blocked"
    /\ UNCHANGED work
CancelCase == work \in Ends /\ case' = "cancelled" /\ UNCHANGED <<work, asked, step>>

Next ==
    \/ Take \/ PutBack \/ Cancel \/ CancelActiveCase \/ CancelCase
    \/ \E to \in Ends : End(to)

Spec == Init /\ [][Next]_vars
=============================================================================
