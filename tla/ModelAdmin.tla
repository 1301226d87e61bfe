------------------------------ MODULE ModelAdmin ------------------------------
(***************************************************************************)
(* The key of the model provider and the switch for real execution, two     *)
(* files that the Runtime API (model_admin.py) and the console command      *)
(* "1cat auth deepseek" both write.  The API holds a lock of its process    *)
(* and puts the previous key back when anything fails; the console switches *)
(* execution off first and on last, and takes no lock.  Either asks the     *)
(* Model Gateway to verify, which reads the key from the file anew for      *)
(* every call (apps/model-gateway/app.py).                                  *)
(***************************************************************************)
CONSTANTS
    Keys,     \* keys people enter
    Valid,    \* those the provider accepts
    None,     \* no key, no request
    Requests, \* requests to the API that may overlap
    Consoles  \* console commands that may overlap with them

ASSUME KeysAssumption == Valid \subseteq Keys /\ None \notin Keys \cup Requests

VARIABLES
    secret,  \* the file with the key
    enabled, \* execution_enabled()
    lock,    \* holder of _operation_lock
    request, \* what each request does
    console, \* what each console command does
    trouble  \* what has gone wrong so far (history)

vars == <<secret, enabled, lock, request, console, trouble>>

-----------------------------------------------------------------------------
Idle == [at |-> "idle"]
Actions == {"configure", "test"}
\* "key" is the one in the payload, if any; "sent" the one the gateway has read.
Request ==
    [at : {"entered", "read", "stored", "asking", "sent", "verified", "failed"},
     action : Actions, key : Keys \cup {None}, previous : Keys \cup {None},
     sent : Keys \cup {None}]
\* The API died, a key could not be read or put back, the console was at work.
Troubles == {"crash", "unreadable", "unrestored", "console"}
Console == {Idle} \cup [at : {"off", "stored", "verified"}, key : Keys]

Goto(r, at) == request' = [request EXCEPT ![r].at = at]
Fail(r) == Goto(r, "failed")
\* The request returns or raises; "finally" releases the lock.
Leave(r) ==
    /\ request' = [request EXCEPT ![r] = Idle]
    /\ lock' = None

Init ==
    /\ secret \in Keys \cup {None}
    /\ enabled \in BOOLEAN
    /\ enabled => secret \in Valid
    /\ lock = None
    /\ request = [r \in Requests |-> Idle]
    /\ console = [c \in Consoles |-> Idle]
    /\ trouble = {}

-----------------------------------------------------------------------------
(* configure_model.                                                        *)

\* A request that does not get the lock at once is refused with 409.
Enter(r, action, key) ==
    /\ request[r] = Idle /\ lock = None
    /\ lock' = r
    /\ request' = [request EXCEPT ![r] =
           [at |-> "entered", action |-> action, key |-> key, previous |-> None, sent |-> None]]
    /\ UNCHANGED <<secret, enabled, console, trouble>>

\* The previous key is read before the try block.
ReadPrevious(r) ==
    /\ request[r].at = "entered"
    /\ request' = [request EXCEPT ![r].at = "read", ![r].previous = secret]
    /\ UNCHANGED <<secret, enabled, lock, console, trouble>>
ReadFails(r) ==
    /\ request[r].at = "entered"
    /\ request' = [request EXCEPT ![r] = Idle]
    /\ trouble' = trouble \cup {"unreadable"}
    /\ UNCHANGED <<secret, enabled, lock, console>>

\* The new key is written, then a key has to be there.
StoreKey(r) ==
    LET key == request[r].key IN
    /\ request[r].at = "read"
    /\ secret' = IF key = None THEN secret ELSE key
    /\ IF secret' = None THEN Fail(r) ELSE Goto(r, "stored")
    /\ UNCHANGED <<enabled, lock, console, trouble>>
\* A malformed key is refused; the disk is full.
StoreFails(r) ==
    /\ request[r].at = "read" /\ request[r].key # None
    /\ Fail(r)
    /\ UNCHANGED <<secret, enabled, lock, console, trouble>>

\* "test" asks for execution to be enabled already.
Ask(r) ==
    /\ request[r].at = "stored"
    /\ IF request[r].action = "test" /\ ~enabled THEN Fail(r) ELSE Goto(r, "asking")
    /\ UNCHANGED <<secret, enabled, lock, console, trouble>>

\* The gateway reads the key when the call arrives, and passes it on.
GatewayReads(r) ==
    /\ request[r].at = "asking"
    /\ request' = [request EXCEPT ![r].at = "sent", ![r].sent = secret]
    /\ UNCHANGED <<secret, enabled, lock, console, trouble>>

\* Mutant of Verified: the answer of the gateway is not looked at.
AnyAnswer(r) ==
    /\ request[r].at = "sent"
    /\ Goto(r, "verified")
    /\ UNCHANGED <<secret, enabled, lock, console, trouble>>
\* _gateway_request: the provider accepts the key, or refuses it, or cannot be
\* reached.
Verified(r) ==
    /\ request[r].at = "sent" /\ request[r].sent \in Valid
    /\ Goto(r, "verified")
    /\ UNCHANGED <<secret, enabled, lock, console, trouble>>
NotVerified(r) ==
    /\ request[r].at = "sent"
    /\ Fail(r)
    /\ UNCHANGED <<secret, enabled, lock, console, trouble>>

\* _write_execution_state, and the answer.
Enable(r) ==
    /\ request[r].at = "verified" /\ request[r].action = "configure"
    /\ enabled' = TRUE
    /\ Leave(r)
    /\ UNCHANGED <<secret, console, trouble>>
EnableFails(r) ==
    /\ request[r].at = "verified" /\ request[r].action = "configure"
    /\ Fail(r)
    /\ UNCHANGED <<secret, enabled, lock, console, trouble>>
Tested(r) ==
    /\ request[r].at = "verified" /\ request[r].action = "test"
    /\ Leave(r)
    /\ UNCHANGED <<secret, enabled, console, trouble>>

\* Mutant of Restore: a key is only put back when there was one.
RestoreSome(r) ==
    LET t == request[r] IN
    /\ t.at = "failed"
    /\ secret' = IF t.key = None \/ t.previous = None THEN secret ELSE t.previous
    /\ Leave(r)
    /\ UNCHANGED <<enabled, console, trouble>>
\* The except branch: a key that was replaced is put back.
Restore(r) ==
    LET t == request[r] IN
    /\ t.at = "failed"
    /\ secret' = IF t.key = None THEN secret ELSE t.previous
    /\ Leave(r)
    /\ UNCHANGED <<enabled, console, trouble>>
\* Mutant of RestoreFails: the lock is released by the last statement.
RestoreKeepsLock(r) ==
    /\ request[r].at = "failed" /\ request[r].key # None
    /\ request' = [request EXCEPT ![r] = Idle]
    /\ trouble' = trouble \cup {"unrestored"}
    /\ UNCHANGED <<secret, enabled, lock, console>>
RestoreFails(r) ==
    /\ request[r].at = "failed" /\ request[r].key # None
    /\ Leave(r)
    /\ trouble' = trouble \cup {"unrestored"}
    /\ UNCHANGED <<secret, enabled, console>>

\* The API process dies and starts again.
Crash ==
    /\ lock # None
    /\ lock' = None
    /\ request' = [r \in Requests |-> Idle]
    /\ trouble' = trouble \cup {"crash"}
    /\ UNCHANGED <<secret, enabled, console>>

-----------------------------------------------------------------------------
(* 1cat auth deepseek.                                                     *)

\* set_execution_control false
SwitchOff(c, key) ==
    /\ console[c] = Idle
    /\ enabled' = FALSE
    /\ console' = [console EXCEPT ![c] = [at |-> "off", key |-> key]]
    /\ trouble' = trouble \cup {"console"}
    /\ UNCHANGED <<secret, lock, request>>
\* configure_model_key.py
ConsoleStores(c) ==
    /\ console[c].at = "off"
    /\ secret' = console[c].key
    /\ console' = [console EXCEPT ![c].at = "stored"]
    /\ UNCHANGED <<enabled, lock, request, trouble>>
ConsoleVerifies(c) ==
    /\ console[c].at = "stored" /\ secret \in Valid
    /\ console' = [console EXCEPT ![c].at = "verified"]
    /\ UNCHANGED <<secret, enabled, lock, request, trouble>>
\* set_execution_control true
SwitchOn(c) ==
    /\ console[c].at = "verified"
    /\ enabled' = TRUE
    /\ console' = [console EXCEPT ![c] = Idle]
    /\ UNCHANGED <<secret, lock, request, trouble>>
\* A step fails (set -e), or the command is interrupted.
ConsoleStops(c) ==
    /\ console[c] # Idle
    /\ console' = [console EXCEPT ![c] = Idle]
    /\ UNCHANGED <<secret, enabled, lock, request, trouble>>

-----------------------------------------------------------------------------
Serve(r) ==
    \/ ReadPrevious(r) \/ ReadFails(r) \/ StoreKey(r) \/ StoreFails(r) \/ Ask(r)
    \/ GatewayReads(r) \/ Verified(r) \/ NotVerified(r)
    \/ Enable(r) \/ EnableFails(r) \/ Tested(r) \/ Restore(r) \/ RestoreFails(r)

Next ==
    \/ \E r \in Requests :
           \/ \E action \in Actions, key \in Keys \cup {None} : Enter(r, action, key)
           \/ Serve(r)
    \/ Crash
    \/ \E c \in Consoles :
           \/ \E key \in Keys : SwitchOff(c, key)
           \/ ConsoleStores(c) \/ ConsoleVerifies(c) \/ SwitchOn(c) \/ ConsoleStops(c)

\* Calls to the gateway and the provider have timeouts.
Fairness == \A r \in Requests : WF_vars(Serve(r))

Spec == Init /\ [][Next]_vars
FairSpec == Spec /\ Fairness

-----------------------------------------------------------------------------
(* Properties.                                                             *)

TypeOK ==
    /\ secret \in Keys \cup {None}
    /\ enabled \in BOOLEAN
    /\ lock \in Requests \cup {None}
    /\ request \in [Requests -> {Idle} \cup Request]
    /\ console \in [Consoles -> Console]
    /\ trouble \subseteq Troubles

\* Nothing has happened that the roll-back cannot see to: what can go wrong
\* inside an operation may have gone wrong, any number of times.
Undisturbed == trouble \subseteq {"unreadable"}

\* Outside an operation of the API, and whatever failed in earlier ones,
\* execution is enabled only with a key the provider has accepted (ADR-005: the
\* switch is set only after verification).
EnabledVerified == (Undisturbed /\ lock = None /\ enabled) => secret \in Valid

\* A configuration that fails has not happened: seen from outside of it, the
\* key changes only when it is verified, together with the switch
\* (model_admin.py:125-172).
Settled ==
    IF lock # None /\ request[lock].at \notin {"idle", "entered"}
    THEN IF request[lock].key = None THEN secret ELSE request[lock].previous
    ELSE secret
Promise == INSTANCE ModelContract WITH key <- Settled
KeepsModelConfig ==
    Promise!Init /\ [][Undisturbed' => Promise!Next \/ UNCHANGED Promise!vars]_vars

\* The lock is always given back, whatever else fails, unless the previous key
\* could not be read: that happens before the "try" (model_admin.py:129, 171).
BusyEnds == lock # None ~> (lock = None \/ "unreadable" \in trouble)
=============================================================================
