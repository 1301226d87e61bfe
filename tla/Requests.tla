------------------------------ MODULE Requests ------------------------------
(***************************************************************************)
(* The write endpoints of main.py as the client of an idempotency key meets *)
(* them: copies of one request, handled at the same time and in any order,  *)
(* answers that are lost, processes that die.  What an endpoint does is     *)
(* reduced to the order of its steps: which checks it makes, whether it     *)
(* locks the row it works on, whether and when it looks for a record of the *)
(* key (find_idempotent), and the transaction that writes the effect, the   *)
(* record and the audit line together (record_write).                       *)
(*                                                                          *)
(* One key of one actor: records of different keys do not meet.             *)
(***************************************************************************)
EXTENDS Naturals, Sequences, FiniteSets

CONSTANTS
    Bodies,     \* payloads (hashes) the key is sent with; a well-behaved
                \* client sends one
    Handlers,   \* request handlers of the API that may run at once
    Endpoints,  \* names of the endpoints in question
    MaxVersion, \* bound: others write the row while its version is below it
    MaxLosses   \* bound: so many requests or answers are lost, over all

VARIABLES
    endpoint,  \* the endpoint the client calls
    open,      \* does the state the endpoint asks for still hold?
    version,   \* version of the row that If-Match names
    effects,   \* what was done for the key, by payload
    record,    \* the IdempotencyRecord of the key
    audit,     \* AuditLog rows of the key, by payload
    outbox,    \* Outbox events of the effects: "pending" or "delivered"
    handler,   \* the request each handler works on
    rowLock,   \* the handler that holds the row FOR UPDATE
    answers,   \* the answers clients have received
    losses     \* requests that died with their process and answers lost so far

vars == <<endpoint, open, version, effects, record, audit, outbox, handler, rowLock, answers,
          losses>>
rows == <<open, version, effects, record, audit, outbox>>

-----------------------------------------------------------------------------
(* The endpoints.  "gate": a state is asked for that others may end;        *)
(* "match": the version the client has read; "lock": SELECT FOR UPDATE;     *)
(* "look": find_idempotent; "write": the transaction commits.  "moves": the *)
(* effect changes the version that "match" compares; "event": it puts an    *)
(* event into the outbox.                                                   *)

Plain(event) == [steps |-> <<"look", "write">>, moves |-> FALSE, event |-> event]

CreateEvent == Plain(TRUE)
CreateCommitment == Plain(TRUE)
CreateHandoff == Plain(FALSE)
CreateApproval == Plain(FALSE)
CreateManualTask == Plain(FALSE)
CreateLead == Plain(FALSE)
CreateKnowledge == Plain(FALSE)
CreateMemory == Plain(FALSE)
\* The Commitment has to be accepted or active: asked before looking.
CreateRun == [steps |-> <<"gate", "look", "write">>, moves |-> FALSE, event |-> TRUE]
CancelRun == [steps |-> <<"lock", "look", "write">>, moves |-> FALSE, event |-> TRUE]
\* Neither looks; the status, or the version, has changed when a copy comes.
TransitionCommitment == [steps |-> <<"match", "write">>, moves |-> TRUE, event |-> FALSE]
RecordReceipt == [steps |-> <<"match", "write">>, moves |-> TRUE, event |-> FALSE]
\* The version of the lead, which no code changes.
SalesFeedback == [steps |-> <<"match", "look", "write">>, moves |-> FALSE, event |-> FALSE]
\* Real execution has to be enabled: asked before looking.
CreateCase == [steps |-> <<"gate", "look", "write">>, moves |-> FALSE, event |-> FALSE]
CreateMessage == Plain(FALSE)
CreateChatTurn ==
    [steps |-> <<"gate", "lock", "gate", "look", "match", "write">>, moves |-> TRUE, event |-> TRUE]
CreateChangeRequest ==
    [steps |-> <<"lock", "look", "match", "write">>, moves |-> TRUE, event |-> FALSE]
\* Mutant of CaseCommand: the row is not locked.
UnlockedCommand ==
    [steps |-> <<"look", "match", "gate", "write">>, moves |-> TRUE, event |-> FALSE]
\* A command also asks for a state of the case once the version has matched.
CaseCommand ==
    [steps |-> <<"lock", "look", "match", "gate", "write">>, moves |-> TRUE, event |-> FALSE]
UpdateAgentConfig ==
    [steps |-> <<"match", "look", "write">>, moves |-> TRUE, event |-> FALSE]
CommandAgentConfig ==
    [steps |-> <<"match", "look", "write">>, moves |-> TRUE, event |-> FALSE]

Plan ==
    [event |-> CreateEvent, commitment |-> CreateCommitment, handoff |-> CreateHandoff,
     approval |-> CreateApproval, manual_task |-> CreateManualTask, lead |-> CreateLead,
     knowledge |-> CreateKnowledge, memory |-> CreateMemory, run |-> CreateRun,
     cancel |-> CancelRun, transition |-> TransitionCommitment, receipt |-> RecordReceipt,
     feedback |-> SalesFeedback, case |-> CreateCase, message |-> CreateMessage,
     chat |-> CreateChatTurn, change_request |-> CreateChangeRequest, command |-> CaseCommand,
     agent_config |-> UpdateAgentConfig, agent_command |-> CommandAgentConfig]

ASSUME EndpointsAssumption == Endpoints \subseteq DOMAIN Plan
ASSUME HandlersAssumption == "nobody" \notin Handlers
ASSUME BoundsAssumption == MaxVersion \in Nat /\ MaxLosses \in Nat

Steps == Plan[endpoint].steps
Asks(s) == \E i \in DOMAIN Steps : Steps[i] = s

-----------------------------------------------------------------------------
None == [at |-> "none"]
Idle == [at |-> "idle"]
Nobody == "nobody"
Answer == [kind : {"ok", "refused", "mismatch", "error"}, body : Bodies, resource : Nat]
Reply(kind, body, resource) == [kind |-> kind, body |-> body, resource |-> resource]

Init ==
    /\ endpoint \in Endpoints
    /\ open = TRUE
    /\ version = 1
    /\ effects = <<>>
    /\ record = None
    /\ audit = <<>>
    /\ outbox = <<>>
    /\ handler = [h \in Handlers |-> Idle]
    /\ rowLock = Nobody
    /\ answers = {}
    /\ losses = 0

\* Only an error, or no answer at all, makes a client send its request again.
Settled(b) == \E a \in answers : a.body = b /\ a.kind # "error"

\* The client sends a copy of its request, written when the version was 1.
Send(h, b) ==
    /\ handler[h] = Idle /\ ~Settled(b)
    /\ handler' = [handler EXCEPT ![h] = [at |-> "working", body |-> b, next |-> 1]]
    /\ UNCHANGED <<endpoint, rows, rowLock, answers, losses>>

At(h, s) ==
    /\ handler[h].at = "working"
    /\ Steps[handler[h].next] = s

Continue(h) == handler' = [handler EXCEPT ![h].next = @ + 1]
\* The transaction is over and the answer on its way.
Finish(h, a) ==
    /\ handler' = [handler EXCEPT ![h] = [at |-> "answering", answer |-> a]]
    /\ rowLock' = IF rowLock = h THEN Nobody ELSE rowLock
Refuse(h) == Finish(h, Reply("refused", handler[h].body, 0))

CheckGate(h) ==
    /\ At(h, "gate")
    /\ IF open THEN Continue(h) /\ UNCHANGED rowLock ELSE Refuse(h)
    /\ UNCHANGED <<endpoint, rows, answers, losses>>

CheckMatch(h) ==
    /\ At(h, "match")
    /\ IF version = 1 THEN Continue(h) /\ UNCHANGED rowLock ELSE Refuse(h)
    /\ UNCHANGED <<endpoint, rows, answers, losses>>

LockRow(h) ==
    /\ At(h, "lock") /\ rowLock = Nobody
    /\ rowLock' = h
    /\ Continue(h)
    /\ UNCHANGED <<endpoint, rows, answers, losses>>

\* Mutant of FindIdempotent: a record is not an answer.
FindAndIgnore(h) ==
    /\ At(h, "look")
    /\ Continue(h)
    /\ UNCHANGED <<endpoint, rows, rowLock, answers, losses>>
\* find_idempotent: the record of the key answers for the same payload.
FindIdempotent(h) ==
    /\ At(h, "look")
    /\ IF record = None THEN Continue(h) /\ UNCHANGED rowLock
       ELSE IF record.body = handler[h].body
       THEN Finish(h, Reply("ok", handler[h].body, record.resource))
       ELSE Finish(h, Reply("mismatch", handler[h].body, 0))
    /\ UNCHANGED <<endpoint, rows, answers, losses>>

\* Mutant of RecordFits: (actor_id, idempotency_key) is not unique.
AnyRecordFits == TRUE
RecordFits == record = None

\* The effect, the record, the audit line and the event are one transaction;
\* the uniqueness of (actor_id, idempotency_key) fails the second of two.
RecordWrite(h) ==
    LET b == handler[h].body  n == Len(effects) + 1 IN
    /\ At(h, "write")
    /\ IF RecordFits
       THEN /\ effects' = Append(effects, b)
            /\ record' = [at |-> "stored", body |-> b, resource |-> n]
            /\ audit' = Append(audit, b)
            /\ outbox' = IF Plan[endpoint].event THEN Append(outbox, "pending") ELSE outbox
            /\ version' = IF Plan[endpoint].moves THEN version + 1 ELSE version
            /\ Finish(h, Reply("ok", b, n))
       ELSE /\ Finish(h, Reply("error", b, 0))
            /\ UNCHANGED <<effects, record, audit, outbox, version>>
    /\ UNCHANGED <<endpoint, open, answers, losses>>

\* The answer arrives, or is lost with the connection.
Deliver(h) ==
    /\ handler[h].at = "answering"
    /\ answers' = answers \cup {handler[h].answer}
    /\ handler' = [handler EXCEPT ![h] = Idle]
    /\ UNCHANGED <<endpoint, rows, rowLock, losses>>
Lose(h) ==
    /\ handler[h].at = "answering"
    /\ losses < MaxLosses /\ losses' = losses + 1
    /\ handler' = [handler EXCEPT ![h] = Idle]
    /\ UNCHANGED <<endpoint, rows, rowLock, answers>>
\* The process dies; what it has not committed is gone.
Crash(h) ==
    /\ handler[h].at = "working"
    /\ losses < MaxLosses /\ losses' = losses + 1
    /\ handler' = [handler EXCEPT ![h] = Idle]
    /\ rowLock' = IF rowLock = h THEN Nobody ELSE rowLock
    /\ UNCHANGED <<endpoint, rows, answers>>

\* Other clients, Workers and administrators.
OthersClose ==
    /\ open /\ Asks("gate")
    /\ endpoint = "command" => rowLock = Nobody
    /\ open' = FALSE
    /\ UNCHANGED <<endpoint, version, effects, record, audit, outbox, handler, rowLock, answers,
                   losses>>
OthersWrite ==
    /\ Asks("match") /\ Plan[endpoint].moves
    /\ version < MaxVersion /\ rowLock = Nobody
    /\ version' = version + 1
    /\ UNCHANGED <<endpoint, open, effects, record, audit, outbox, handler, rowLock, answers,
                   losses>>

\* process_outbox: a Worker takes what is pending and not locked by another.
ProcessOutbox ==
    /\ \E i \in DOMAIN outbox : outbox[i] = "pending"
    /\ outbox' = [i \in DOMAIN outbox |-> "delivered"]
    /\ UNCHANGED <<endpoint, open, version, effects, record, audit, handler, rowLock, answers,
                   losses>>

Handle(h) ==
    \/ CheckGate(h) \/ CheckMatch(h) \/ LockRow(h) \/ FindIdempotent(h) \/ RecordWrite(h)

Next ==
    \/ \E h \in Handlers :
           \/ \E b \in Bodies : Send(h, b)
           \/ Handle(h) \/ Deliver(h) \/ Lose(h) \/ Crash(h)
    \/ OthersClose \/ OthersWrite \/ ProcessOutbox

\* Handlers work, answers that are not lost arrive, and clients send again what
\* was not answered.
Fairness ==
    /\ \A h \in Handlers : WF_vars(Handle(h)) /\ WF_vars(Deliver(h))
    /\ \A b \in Bodies : WF_vars(\E h \in Handlers : Send(h, b))

Spec == Init /\ [][Next]_vars
FairSpec == Spec /\ Fairness

-----------------------------------------------------------------------------
(* Properties.                                                             *)

TypeOK ==
    /\ endpoint \in Endpoints
    /\ open \in BOOLEAN
    /\ version \in Nat
    /\ effects \in Seq(Bodies)
    /\ record \in {None} \cup [at : {"stored"}, body : Bodies, resource : Nat]
    /\ audit \in Seq(Bodies)
    /\ outbox \in Seq({"pending", "delivered"})
    /\ handler \in [Handlers -> {Idle} \cup [at : {"working"}, body : Bodies, next : Nat]
                                    \cup [at : {"answering"}, answer : Answer]]
    /\ rowLock \in Handlers \cup {Nobody}
    /\ answers \subseteq Answer
    /\ losses \in 0..MaxLosses

\* A key has one effect with one audit line, and clients are told of success
\* with that resource and of nothing else, however many copies are handled at
\* once (policy.py:46-75).
Once == INSTANCE OnceOnly WITH
    trail <- audit,
    told <- {<<a.body, a.resource>> : a \in {b \in answers : b.kind = "ok"}}
KeepsOnce == Once!Spec

\* Endpoints that look for the record before they compare anything that the
\* first copy, or others, may change.
LooksFirst ==
    \A i \in DOMAIN Steps :
        Steps[i] = "look" => \A j \in 1..(i - 1) : Steps[j] \notin {"gate", "match"}

\* A client that is refused has not had its way: a 409 or 412 to a copy never
\* hides that the first one was done.  Only where the endpoint looks first; the
\* other endpoints can refuse what they have done (main.py:932-942).
NoFalseRefusal ==
    (LooksFirst /\ Asks("look")) =>
        \A a \in answers : a.kind = "refused" => record = None \/ record.body # a.body

\* A client that sends its request until it is answered gets an answer, though
\* the key may be spent by a copy it never heard of (policy.py:46).
Answered == \A b \in Bodies : <>Settled(b)
=============================================================================
