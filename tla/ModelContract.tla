---------------------------- MODULE ModelContract ----------------------------
(***************************************************************************)
(* What the configuration of the model promises: the key changes only       *)
(* together with the provider's word that it is good, and execution is      *)
(* switched on only for such a key (ADR-005).  A configuration that fails   *)
(* has not happened.                                                        *)
(***************************************************************************)
CONSTANTS Keys, Valid, None

VARIABLES key, enabled

vars == <<key, enabled>>

Init == key \in Keys \cup {None} /\ enabled \in BOOLEAN /\ (enabled => key \in Valid)

Configure(k) == key' = k /\ enabled' = TRUE
\* A test may replace the key too.
Test(k) == enabled /\ key' = k /\ UNCHANGED enabled

Next == \E k \in Valid : Configure(k) \/ Test(k)

Spec == Init /\ [][Next]_vars
=============================================================================
