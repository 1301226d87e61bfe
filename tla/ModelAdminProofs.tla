-------------------------- MODULE ModelAdminProofs --------------------------
(***************************************************************************)
(* Proofs about ModelAdmin for any keys, requests and console commands.     *)
(***************************************************************************)
EXTENDS ModelAdmin, TLAPS

-----------------------------------------------------------------------------
(* The inductive invariant.                                                *)

\* Whoever is at work holds the lock.
OneAtATime == \A r \in Requests : request[r] # Idle => lock = r

\* What a request knows of the two files while it works on them.
Knows(r) ==
    LET t == request[r] IN
    /\ t.at = "read" => secret = t.previous
    /\ t.at \in {"stored", "asking", "sent", "verified"} =>
           secret = (IF t.key = None THEN t.previous ELSE t.key)
    /\ t.at \in {"sent", "verified"} => t.sent = secret
    /\ t.at = "verified" => secret \in Valid
    /\ t.at = "failed" /\ t.key = None => secret = t.previous
    /\ t.at \in {"asking", "sent", "verified"} /\ t.action = "test" => enabled

AdminInv ==
    /\ TypeOK
    /\ OneAtATime
    /\ Undisturbed =>
           /\ \A c \in Consoles : console[c] = Idle
           /\ \A r \in Requests : Knows(r)
           /\ enabled => Settled \in Valid

-----------------------------------------------------------------------------
LEMMA AdminInit == Init => AdminInv
<1> SUFFICES ASSUME Init PROVE AdminInv
  OBVIOUS
<1>1. TypeOK
  BY KeysAssumption DEF Init, TypeOK, Console, Troubles
<1>2. OneAtATime /\ \A c \in Consoles : console[c] = Idle
  BY DEF Init, OneAtATime
<1>3. \A r \in Requests : Knows(r)
  BY DEF Init, Knows, Idle
<1>4. enabled => Settled \in Valid
  BY DEF Init, Settled
<1> QED
  BY <1>1, <1>2, <1>3, <1>4 DEF AdminInv

\* A request that works is the one that holds the lock, and has the fields of
\* one.
LEMMA Working ==
    ASSUME AdminInv, NEW r \in Requests, request[r].at # "idle"
    PROVE  /\ request[r] \in Request
           /\ lock = r
           /\ \A q \in Requests : q # r => request[q] = Idle
BY KeysAssumption DEF AdminInv, TypeOK, OneAtATime, Idle

\* The operations of a request, on the three parts of the invariant.
LEMMA EnterStep ==
    ASSUME AdminInv, NEW r \in Requests, NEW action \in Actions,
           NEW key \in Keys \cup {None}, Enter(r, action, key)
    PROVE  AdminInv'
<1>1. TypeOK'
  BY KeysAssumption DEF AdminInv, TypeOK, Enter, Request, Actions
<1>2. OneAtATime'
  BY KeysAssumption DEF AdminInv, TypeOK, OneAtATime, Enter
<1>3. Undisturbed' => (\A c \in Consoles : console[c] = Idle)' /\ (\A q \in Requests : Knows(q))'
  BY DEF AdminInv, TypeOK, Enter, Undisturbed, Knows
<1>4. Undisturbed' => (enabled => Settled \in Valid)'
  BY DEF AdminInv, TypeOK, Enter, Undisturbed, Settled
<1> QED
  BY <1>1, <1>2, <1>3, <1>4 DEF AdminInv

LEMMA ServeStep ==
    ASSUME AdminInv, NEW r \in Requests, Serve(r)
    PROVE  AdminInv'
<1> USE KeysAssumption
<1>a. request[r] \in Request /\ lock = r /\ \A q \in Requests : q # r => request[q] = Idle
  <2>1. request[r].at # "idle"
    BY DEF Serve, ReadPrevious, ReadFails, StoreKey, StoreFails, Ask, GatewayReads, Verified,
           NotVerified, Enable, EnableFails, Tested, Restore, RestoreFails
  <2> QED
    BY <2>1, Working
<1>1. CASE ReadPrevious(r)
  <2>1. TypeOK' /\ OneAtATime'
    BY <1>a, <1>1 DEF AdminInv, TypeOK, OneAtATime, ReadPrevious, Request, Idle
  <2>2. Undisturbed' => (\A q \in Requests : Knows(q))' /\ (enabled => Settled \in Valid)'
    BY <1>a, <1>1 DEF AdminInv, TypeOK, ReadPrevious, Request, Idle, Undisturbed, Knows, Settled
  <2> QED
    BY <1>1, <2>1, <2>2 DEF AdminInv, ReadPrevious, Undisturbed
<1>2. CASE ReadFails(r)
  <2>1. TypeOK' /\ OneAtATime'
    BY <1>a, <1>2 DEF AdminInv, TypeOK, OneAtATime, ReadFails, Request, Idle, Troubles
  <2>2. Undisturbed' => (\A q \in Requests : Knows(q))' /\ (enabled => Settled \in Valid)'
    BY <1>a, <1>2 DEF AdminInv, TypeOK, ReadFails, Request, Idle, Undisturbed, Knows, Settled
  <2> QED
    BY <1>2, <2>1, <2>2 DEF AdminInv, ReadFails, Undisturbed
<1>3. CASE StoreKey(r)
  <2>1. TypeOK' /\ OneAtATime'
    BY <1>a, <1>3 DEF AdminInv, TypeOK, OneAtATime, StoreKey, Goto, Fail, Request, Idle
  <2>2. Undisturbed' => (\A q \in Requests : Knows(q))' /\ (enabled => Settled \in Valid)'
    BY <1>a, <1>3 DEF AdminInv, TypeOK, StoreKey, Goto, Fail, Request, Idle, Undisturbed, Knows, Settled
  <2> QED
    BY <1>3, <2>1, <2>2 DEF AdminInv, StoreKey, Undisturbed
<1>4. CASE StoreFails(r)
  <2>1. TypeOK' /\ OneAtATime'
    BY <1>a, <1>4 DEF AdminInv, TypeOK, OneAtATime, StoreFails, Goto, Fail, Request, Idle
  <2>2. Undisturbed' => (\A q \in Requests : Knows(q))' /\ (enabled => Settled \in Valid)'
    BY <1>a, <1>4 DEF AdminInv, TypeOK, StoreFails, Goto, Fail, Request, Idle, Undisturbed, Knows, Settled
  <2> QED
    BY <1>4, <2>1, <2>2 DEF AdminInv, StoreFails, Undisturbed
<1>5. CASE Ask(r)
  <2>1. TypeOK' /\ OneAtATime'
    BY <1>a, <1>5 DEF AdminInv, TypeOK, OneAtATime, Ask, Goto, Fail, Request, Idle
  <2>2. Undisturbed' => (\A q \in Requests : Knows(q))' /\ (enabled => Settled \in Valid)'
    BY <1>a, <1>5 DEF AdminInv, TypeOK, Ask, Goto, Fail, Request, Idle, Undisturbed, Knows, Settled
  <2> QED
    BY <1>5, <2>1, <2>2 DEF AdminInv, Ask, Undisturbed
<1>6. CASE GatewayReads(r)
  <2>1. TypeOK' /\ OneAtATime'
    BY <1>a, <1>6 DEF AdminInv, TypeOK, OneAtATime, GatewayReads, Request, Idle
  <2>2. Undisturbed' => (\A q \in Requests : Knows(q))' /\ (enabled => Settled \in Valid)'
    BY <1>a, <1>6 DEF AdminInv, TypeOK, GatewayReads, Request, Idle, Undisturbed, Knows, Settled
  <2> QED
    BY <1>6, <2>1, <2>2 DEF AdminInv, GatewayReads, Undisturbed
<1>7. CASE Verified(r)
  <2>1. TypeOK' /\ OneAtATime'
    BY <1>a, <1>7 DEF AdminInv, TypeOK, OneAtATime, Verified, Goto, Request, Idle
  <2>2. Undisturbed' => (\A q \in Requests : Knows(q))' /\ (enabled => Settled \in Valid)'
    BY <1>a, <1>7 DEF AdminInv, TypeOK, Verified, Goto, Request, Idle, Undisturbed, Knows, Settled
  <2> QED
    BY <1>7, <2>1, <2>2 DEF AdminInv, Verified, Undisturbed
<1>8. CASE NotVerified(r)
  <2>1. TypeOK' /\ OneAtATime'
    BY <1>a, <1>8 DEF AdminInv, TypeOK, OneAtATime, NotVerified, Goto, Fail, Request, Idle
  <2>2. Undisturbed' => (\A q \in Requests : Knows(q))' /\ (enabled => Settled \in Valid)'
    BY <1>a, <1>8 DEF AdminInv, TypeOK, NotVerified, Goto, Fail, Request, Idle, Undisturbed, Knows, Settled
  <2> QED
    BY <1>8, <2>1, <2>2 DEF AdminInv, NotVerified, Undisturbed
<1>9. CASE Enable(r)
  <2>1. TypeOK' /\ OneAtATime'
    BY <1>a, <1>9 DEF AdminInv, TypeOK, OneAtATime, Enable, Leave, Request, Idle
  <2>2. Undisturbed' => (\A q \in Requests : Knows(q))' /\ (enabled => Settled \in Valid)'
    BY <1>a, <1>9 DEF AdminInv, TypeOK, Enable, Leave, Request, Idle, Undisturbed, Knows, Settled
  <2> QED
    BY <1>9, <2>1, <2>2 DEF AdminInv, Enable, Undisturbed
<1>10. CASE EnableFails(r)
  <2>1. TypeOK' /\ OneAtATime'
    BY <1>a, <1>10 DEF AdminInv, TypeOK, OneAtATime, EnableFails, Goto, Fail, Request, Idle
  <2>2. Undisturbed' => (\A q \in Requests : Knows(q))' /\ (enabled => Settled \in Valid)'
    BY <1>a, <1>10 DEF AdminInv, TypeOK, EnableFails, Goto, Fail, Request, Idle, Undisturbed, Knows, Settled
  <2> QED
    BY <1>10, <2>1, <2>2 DEF AdminInv, EnableFails, Undisturbed
<1>11. CASE Tested(r)
  <2>1. TypeOK' /\ OneAtATime'
    BY <1>a, <1>11 DEF AdminInv, TypeOK, OneAtATime, Tested, Leave, Request, Idle
  <2>2. Undisturbed' => (\A q \in Requests : Knows(q))' /\ (enabled => Settled \in Valid)'
    BY <1>a, <1>11 DEF AdminInv, TypeOK, Tested, Leave, Request, Idle, Undisturbed, Knows, Settled
  <2> QED
    BY <1>11, <2>1, <2>2 DEF AdminInv, Tested, Undisturbed
<1>12. CASE Restore(r)
  <2>1. TypeOK' /\ OneAtATime'
    BY <1>a, <1>12 DEF AdminInv, TypeOK, OneAtATime, Restore, Leave, Request, Idle
  <2>2. Undisturbed' => (\A q \in Requests : Knows(q))' /\ (enabled => Settled \in Valid)'
    BY <1>a, <1>12 DEF AdminInv, TypeOK, Restore, Leave, Request, Idle, Undisturbed, Knows, Settled
  <2> QED
    BY <1>12, <2>1, <2>2 DEF AdminInv, Restore, Undisturbed
<1>13. CASE RestoreFails(r)
  <2>1. TypeOK' /\ OneAtATime'
    BY <1>a, <1>13 DEF AdminInv, TypeOK, OneAtATime, RestoreFails, Leave, Request, Idle, Troubles
  <2>2. Undisturbed' => (\A q \in Requests : Knows(q))' /\ (enabled => Settled \in Valid)'
    BY <1>a, <1>13 DEF AdminInv, TypeOK, RestoreFails, Leave, Request, Idle, Undisturbed, Knows, Settled
  <2> QED
    BY <1>13, <2>1, <2>2 DEF AdminInv, RestoreFails, Undisturbed
<1> QED
  BY <1>1, <1>2, <1>3, <1>4, <1>5, <1>6, <1>7, <1>8, <1>9, <1>10, <1>11, <1>12, <1>13 DEF Serve

LEMMA CrashStep == ASSUME AdminInv, Crash PROVE AdminInv'
<1>1. TypeOK' /\ OneAtATime'
  BY KeysAssumption DEF AdminInv, TypeOK, OneAtATime, Crash, Troubles
<1>2. ~Undisturbed'
  BY DEF Crash, Undisturbed
<1> QED
  BY <1>1, <1>2 DEF AdminInv

\* The first step of the console command disturbs; the others follow it.
LEMMA ConsoleStep ==
    ASSUME AdminInv, NEW c \in Consoles,
           \/ \E key \in Keys : SwitchOff(c, key)
           \/ ConsoleStores(c) \/ ConsoleVerifies(c) \/ SwitchOn(c) \/ ConsoleStops(c)
    PROVE  AdminInv'
<1>1. OneAtATime'
  BY DEF AdminInv, OneAtATime, SwitchOff, ConsoleStores, ConsoleVerifies, SwitchOn, ConsoleStops
<1>2. console[c] = Idle \/ console[c] \in [at : {"off", "stored", "verified"}, key : Keys]
  BY DEF AdminInv, TypeOK, Console
<1>3. CASE \E key \in Keys : SwitchOff(c, key)
  <2>1. TypeOK'
    <3>1. PICK key \in Keys : SwitchOff(c, key)
      BY <1>3
    <3>2. [at |-> "off", key |-> key] \in Console
      BY DEF Console
    <3> QED
      BY <3>1, <3>2 DEF AdminInv, TypeOK, SwitchOff, Troubles
  <2>2. ~Undisturbed'
    BY <1>3 DEF SwitchOff, Undisturbed
  <2> QED
    BY <1>1, <2>1, <2>2 DEF AdminInv
<1>4. CASE ConsoleStores(c) \/ ConsoleVerifies(c) \/ SwitchOn(c) \/ ConsoleStops(c)
  <2>1. console[c] # Idle /\ trouble' = trouble
    BY <1>4 DEF ConsoleStores, ConsoleVerifies, SwitchOn, ConsoleStops, Idle
  <2>2. TypeOK'
    <3>1. Idle \in Console /\ \A at \in {"stored", "verified"} : [console[c] EXCEPT !.at = at] \in Console
      BY <1>2, <2>1 DEF Console
    <3>2. console[c].key \in Keys
      BY <1>2, <2>1
    <3>3. console' \in [Consoles -> Console]
      BY <1>4, <3>1 DEF AdminInv, TypeOK, ConsoleStores, ConsoleVerifies, SwitchOn, ConsoleStops
    <3> QED
      BY <1>4, <2>1, <3>2, <3>3
      DEF AdminInv, TypeOK, ConsoleStores, ConsoleVerifies, SwitchOn, ConsoleStops
  <2>3. ~Undisturbed'
    BY <2>1 DEF AdminInv, Undisturbed
  <2> QED
    BY <1>1, <2>2, <2>3 DEF AdminInv
<1> QED
  BY <1>3, <1>4

LEMMA AdminStep == AdminInv /\ [Next]_vars => AdminInv'
<1> SUFFICES ASSUME AdminInv, [Next]_vars PROVE AdminInv'
  OBVIOUS
<1>1. CASE UNCHANGED vars
  BY <1>1 DEF vars, AdminInv, TypeOK, OneAtATime, Undisturbed, Knows, Settled
<1>2. CASE Next
  BY <1>2, EnterStep, ServeStep, CrashStep, ConsoleStep DEF Next
<1> QED
  BY <1>1, <1>2

-----------------------------------------------------------------------------
(* Theorems.                                                               *)

THEOREM TypeCorrect == Spec => []TypeOK
<1>1. AdminInv => TypeOK
  BY DEF AdminInv
<1> QED
  BY <1>1, AdminInit, AdminStep, PTL DEF Spec

\* Whatever fails inside an operation, execution is enabled only with a key the
\* provider has accepted, for any number of keys, overlapping requests and
\* operations (model_admin.py:125-172).
THEOREM OnlyVerifiedEnabled == Spec => []EnabledVerified
<1>1. AdminInv => EnabledVerified
  BY DEF AdminInv, EnabledVerified, Settled
<1> QED
  BY <1>1, AdminInit, AdminStep, PTL DEF Spec

\* A step of the API or the console, seen from outside of the operations, is
\* one of the contract or none.
LEMMA StepPromised ==
    ASSUME AdminInv, [Next]_vars, Undisturbed'
    PROVE  Promise!Next \/ UNCHANGED Promise!vars
<1> USE KeysAssumption
<1>u. Undisturbed
  BY DEF Undisturbed, Next, vars, Enter, Serve, ReadPrevious, ReadFails, StoreKey, StoreFails, Ask,
         GatewayReads, Verified, NotVerified, Enable, EnableFails, Tested, Restore, RestoreFails,
         Crash, SwitchOff, ConsoleStores, ConsoleVerifies, SwitchOn, ConsoleStops
<1>1. CASE UNCHANGED vars
  BY <1>1 DEF vars, Promise!vars, Settled
<1>2. ASSUME NEW r \in Requests, NEW action \in Actions, NEW key \in Keys \cup {None},
             Enter(r, action, key)
      PROVE  UNCHANGED Promise!vars
  BY <1>2 DEF AdminInv, TypeOK, Enter, Promise!vars, Settled
<1>3. ASSUME NEW r \in Requests, Serve(r)
      PROVE  Promise!Next \/ UNCHANGED Promise!vars
  <2>a. request[r] \in Request /\ lock = r /\ Knows(r)
    <3>1. request[r].at # "idle"
      BY <1>3 DEF Serve, ReadPrevious, ReadFails, StoreKey, StoreFails, Ask, GatewayReads, Verified,
             NotVerified, Enable, EnableFails, Tested, Restore, RestoreFails
    <3> QED
      BY <1>u, <3>1, Working DEF AdminInv
  <2>1. CASE ReadPrevious(r)
    BY <2>a, <2>1 DEF AdminInv, TypeOK, ReadPrevious, Request, Idle, Knows, Settled, Promise!vars
  <2>2. CASE ReadFails(r)
    BY <2>a, <2>2 DEF AdminInv, TypeOK, ReadFails, Request, Idle, Knows, Settled, Promise!vars
  <2>3. CASE StoreKey(r)
    BY <2>a, <2>3 DEF AdminInv, TypeOK, StoreKey, Goto, Fail, Request, Idle, Knows, Settled, Promise!vars
  <2>4. CASE StoreFails(r)
    BY <2>a, <2>4 DEF AdminInv, TypeOK, StoreFails, Goto, Fail, Request, Idle, Knows, Settled, Promise!vars
  <2>5. CASE Ask(r)
    BY <2>a, <2>5 DEF AdminInv, TypeOK, Ask, Goto, Fail, Request, Idle, Knows, Settled, Promise!vars
  <2>6. CASE GatewayReads(r)
    BY <2>a, <2>6 DEF AdminInv, TypeOK, GatewayReads, Request, Idle, Knows, Settled, Promise!vars
  <2>7. CASE Verified(r)
    BY <2>a, <2>7 DEF AdminInv, TypeOK, Verified, Goto, Request, Idle, Knows, Settled, Promise!vars
  <2>8. CASE NotVerified(r)
    BY <2>a, <2>8 DEF AdminInv, TypeOK, NotVerified, Goto, Fail, Request, Idle, Knows, Settled, Promise!vars
  <2>9. CASE Enable(r)
    <3>1. secret \in Valid /\ Settled' = secret /\ enabled' = TRUE
      BY <2>a, <2>9 DEF Enable, Leave, Knows, Settled
    <3> QED
      BY <3>1 DEF Promise!Next, Promise!Configure
  <2>10. CASE EnableFails(r)
    BY <2>a, <2>10 DEF AdminInv, TypeOK, EnableFails, Goto, Fail, Request, Idle, Knows, Settled, Promise!vars
  <2>11. CASE Tested(r)
    <3>1. secret \in Valid /\ enabled /\ Settled' = secret /\ enabled' = enabled
      BY <2>a, <2>11 DEF Tested, Leave, Knows, Settled
    <3> QED
      BY <3>1 DEF Promise!Next, Promise!Test
  <2>12. CASE Restore(r)
    BY <2>a, <2>12 DEF AdminInv, TypeOK, Restore, Leave, Request, Idle, Knows, Settled, Promise!vars
  <2>13. CASE RestoreFails(r)
    BY <2>13 DEF RestoreFails, Undisturbed
  <2> QED
    BY <1>3, <2>1, <2>2, <2>3, <2>4, <2>5, <2>6, <2>7, <2>8, <2>9, <2>10, <2>11, <2>12, <2>13
    DEF Serve
<1>4. ~Crash
  BY DEF Crash, Undisturbed
<1>5. ASSUME NEW c \in Consoles,
             \/ \E key \in Keys : SwitchOff(c, key)
             \/ ConsoleStores(c) \/ ConsoleVerifies(c) \/ SwitchOn(c) \/ ConsoleStops(c)
      PROVE  FALSE
  <2>1. console[c] = Idle
    BY <1>u DEF AdminInv
  <2> QED
    BY <1>5, <2>1 DEF SwitchOff, ConsoleStores, ConsoleVerifies, SwitchOn, ConsoleStops, Idle, Undisturbed
<1> QED
  BY <1>1, <1>2, <1>3, <1>4, <1>5 DEF Next

\* A configuration that fails has not happened, and one that succeeds changes
\* the key and the switch together: the API keeps ModelContract while nothing
\* but errors inside its operations goes wrong.
THEOREM ContractKept == Spec => KeepsModelConfig
<1>1. Init => Promise!Init
  BY DEF Init, Promise!Init, Settled
<1>2. AdminInv /\ [Next]_vars =>
          [Undisturbed' => Promise!Next \/ UNCHANGED Promise!vars]_vars
  BY StepPromised
<1> QED
  BY <1>1, <1>2, AdminInit, AdminStep, PTL DEF Spec, KeepsModelConfig
=============================================================================
