------------------------------ MODULE OnceOnly ------------------------------
(***************************************************************************)
(* What an idempotency key promises: the request it names takes effect at   *)
(* most once, the effect is on record with it, and a client is told of      *)
(* success only when its own request has taken effect.                      *)
(***************************************************************************)
EXTENDS Sequences

CONSTANT Bodies  \* payloads the key may be sent with

VARIABLES
    effects, \* the payloads that have taken effect
    trail,   \* the payloads the audit log has a line for
    told     \* what clients were told: a payload's success, with its resource

vars == <<effects, trail, told>>

Init == effects = <<>> /\ trail = <<>> /\ told = {}

Happen(b) ==
    /\ effects = <<>>
    /\ effects' = <<b>>
    /\ trail' = <<b>>
    /\ UNCHANGED told

Tell(b) ==
    /\ effects = <<b>>
    /\ told' = told \cup {<<b, 1>>}
    /\ UNCHANGED <<effects, trail>>

Next == \E b \in Bodies : Happen(b) \/ Tell(b)

Spec == Init /\ [][Next]_vars
=============================================================================
