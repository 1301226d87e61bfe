--------------------------- MODULE RequestsProofs ---------------------------
(***************************************************************************)
(* Proofs about Requests for any payloads, handlers and bounds, and every   *)
(* write endpoint: a key takes effect once and its client is told of that   *)
(* and nothing else; and where the endpoint looks for the record before it  *)
(* compares, a refusal never hides an effect.                               *)
(***************************************************************************)
EXTENDS Requests, SequenceTheorems, TLAPS

-----------------------------------------------------------------------------
(* The invariants.                                                         *)

\* A handler is at a step of its endpoint.
Placed(h) == handler[h].at = "working" => handler[h].next \in DOMAIN Steps

\* A success that is told, or on its way, is the one on record.
Successful(a) == a.kind = "ok" => record # None /\ a.body = record.body /\ a.resource = 1

\* The key has at most one effect, and the record and the audit line agree
\* with it.
OnceInv ==
    /\ TypeOK
    /\ \A h \in Handlers : Placed(h)
    /\ record = None => effects = <<>> /\ audit = <<>>
    /\ record # None => /\ effects = <<record.body>> /\ audit = <<record.body>>
                        /\ record.resource = 1
    /\ \A a \in answers : Successful(a)
    /\ \A h \in Handlers : handler[h].at = "answering" => Successful(handler[h].answer)

\* The endpoints that look under the lock before they compare.
Comparing == endpoint \in {"change_request", "command"}

\* What a handler of such an endpoint knows, for as long as it has the row.
Informed(h) ==
    handler[h].at = "working" =>
        /\ handler[h].next > 1 => rowLock = h
        /\ handler[h].next > 2 => record = None
        /\ handler[h].next > 3 => version = 1
        /\ endpoint = "command" /\ handler[h].next > 4 => open

\* Once a copy has been refused, no copy can pass any more.
Hopeless(a) ==
    a.kind = "refused" => record = None /\ (version # 1 \/ (endpoint = "command" /\ ~open))

\* An endpoint that asks for nothing refuses nothing.
RefusalInv ==
    /\ OnceInv
    /\ version > 0
    /\ Comparing =>
        /\ \A h \in Handlers : Informed(h)
        /\ \A a \in answers : Hopeless(a)
        /\ \A h \in Handlers : handler[h].at = "answering" => Hopeless(handler[h].answer)
    /\ ~Asks("gate") /\ ~Asks("match") =>
        /\ \A a \in answers : a.kind # "refused"
        /\ \A h \in Handlers : handler[h].at = "answering" => handler[h].answer.kind # "refused"

-----------------------------------------------------------------------------
(* The endpoints.                                                          *)

\* Every plan ends with its transaction, and with nothing after it.
LEMMA PlanEnds ==
    ASSUME endpoint \in DOMAIN Plan
    PROVE  \E k \in Nat \ {0} : DOMAIN Steps = 1 .. k /\ Steps[k] = "write"
<1> USE DEF Steps, Plan
<1>1. CASE endpoint \in {"event", "commitment", "handoff", "approval", "manual_task", "lead",
                         "knowledge", "memory", "message", "transition", "receipt"}
  <2>1. Steps = <<"look", "write">> \/ Steps = <<"match", "write">>
    BY <1>1 DEF CreateEvent, CreateCommitment, CreateHandoff, CreateApproval, CreateManualTask,
                CreateLead, CreateKnowledge, CreateMemory, CreateMessage, Plain,
                TransitionCommitment, RecordReceipt
  <2> HIDE DEF Steps
  <2>2. DOMAIN Steps = 1 .. 2 /\ Steps[2] = "write"
    BY <2>1
  <2> QED
    BY <2>2
<1>2. CASE endpoint \in {"run", "cancel", "feedback", "case", "agent_config", "agent_command"}
  <2>1. \/ Steps = <<"gate", "look", "write">>
        \/ Steps = <<"lock", "look", "write">>
        \/ Steps = <<"match", "look", "write">>
    BY <1>2 DEF CreateRun, CancelRun, SalesFeedback, CreateCase, UpdateAgentConfig,
                CommandAgentConfig
  <2> HIDE DEF Steps
  <2>2. DOMAIN Steps = 1 .. 3 /\ Steps[3] = "write"
    BY <2>1
  <2> QED
    BY <2>2
<1>3. CASE endpoint \in {"chat", "change_request", "command"}
  <2>1. \/ Steps = <<"gate", "lock", "gate", "look", "match", "write">>
        \/ Steps = <<"lock", "look", "match", "write">>
        \/ Steps = <<"lock", "look", "match", "gate", "write">>
    BY <1>3 DEF CreateChatTurn, CreateChangeRequest, CaseCommand
  <2> HIDE DEF Steps
  <2>2. \/ DOMAIN Steps = 1 .. 6 /\ Steps[6] = "write"
        \/ DOMAIN Steps = 1 .. 4 /\ Steps[4] = "write"
        \/ DOMAIN Steps = 1 .. 5 /\ Steps[5] = "write"
    BY <2>1
  <2>3. PICK k \in {4, 5, 6} : DOMAIN Steps = 1 .. k /\ Steps[k] = "write"
    BY <2>2
  <2> QED
    BY <2>3
<1> QED
  BY <1>1, <1>2, <1>3

\* The two endpoints that compare after they have looked, under the lock.
LEMMA ComparingPlans ==
    ASSUME Comparing
    PROVE  /\ Steps[1] = "lock" /\ Steps[2] = "look" /\ Steps[3] = "match"
           /\ endpoint = "command" => DOMAIN Steps = 1 .. 5 /\ Steps[4] = "gate"
                                      /\ Steps[5] = "write"
           /\ endpoint = "change_request" => DOMAIN Steps = 1 .. 4 /\ Steps[4] = "write"
BY DEF Comparing, Steps, Plan, CreateChangeRequest, CaseCommand

\* All others that look first ask for nothing.
LEMMA LookingPlans ==
    ASSUME endpoint \in DOMAIN Plan, LooksFirst, Asks("look")
    PROVE  Comparing \/ (~Asks("gate") /\ ~Asks("match"))
<1> USE DEF Steps, Plan, Asks
<1>1. CASE endpoint \in {"event", "commitment", "handoff", "approval", "manual_task", "lead",
                         "knowledge", "memory", "message"}
  BY <1>1 DEF CreateEvent, CreateCommitment, CreateHandoff, CreateApproval, CreateManualTask,
              CreateLead, CreateKnowledge, CreateMemory, CreateMessage, Plain
<1>2. CASE endpoint \in {"transition", "receipt"}
  BY <1>2 DEF TransitionCommitment, RecordReceipt
<1>3. CASE endpoint \in {"run", "case", "feedback", "agent_config", "agent_command"}
  <2>1. Steps[2] = "look" /\ Steps[1] \in {"gate", "match"} /\ DOMAIN Steps = 1 .. 3
    BY <1>3 DEF CreateRun, CreateCase, SalesFeedback, UpdateAgentConfig, CommandAgentConfig
  <2> QED
    BY <2>1 DEF LooksFirst
<1>4. CASE endpoint = "chat"
  <2>1. Steps[4] = "look" /\ Steps[1] = "gate" /\ DOMAIN Steps = 1 .. 6
    BY <1>4 DEF CreateChatTurn
  <2> QED
    BY <2>1 DEF LooksFirst
<1>5. CASE endpoint = "cancel"
  BY <1>5 DEF CancelRun
<1>6. CASE endpoint \in {"change_request", "command"}
  BY <1>6 DEF Comparing
<1> QED
  BY <1>1, <1>2, <1>3, <1>4, <1>5, <1>6

-----------------------------------------------------------------------------
(* The handlers.                                                           *)

HandlerType ==
    {Idle} \cup [at : {"working"}, body : Bodies, next : Nat]
           \cup [at : {"answering"}, answer : Answer]

\* A handler goes on to its next step, which there is unless it has written.
LEMMA ContinueEffect ==
    ASSUME OnceInv, NEW h \in Handlers, NEW s, At(h, s), s # "write", Continue(h)
    PROVE  /\ handler' \in [Handlers -> HandlerType]
           /\ handler'[h].at = "working" /\ handler'[h].body = handler[h].body
           /\ handler'[h].next = handler[h].next + 1
           /\ handler'[h].next \in DOMAIN Steps
           /\ \A g \in Handlers : g # h => handler'[g] = handler[g]
<1>1. handler \in [Handlers -> HandlerType] /\ endpoint \in DOMAIN Plan
  BY EndpointsAssumption DEF OnceInv, TypeOK, HandlerType
<1>2. handler[h] \in [at : {"working"}, body : Bodies, next : Nat]
  BY <1>1 DEF At, HandlerType, Idle
<1>3. PICK k \in Nat \ {0} : DOMAIN Steps = 1 .. k /\ Steps[k] = "write"
  BY <1>1, PlanEnds
<1>4. handler[h].next \in 1 .. k /\ handler[h].next # k
  BY <1>3 DEF OnceInv, Placed, At
<1> DEFINE there == [handler[h] EXCEPT !.next = @ + 1]
<1>5. /\ there \in HandlerType /\ there.at = "working" /\ there.body = handler[h].body
      /\ there.next = handler[h].next + 1
  BY <1>2 DEF HandlerType
<1>6. handler' = [handler EXCEPT ![h] = there]
  BY DEF Continue
<1> HIDE DEF there
<1> QED
  BY <1>1, <1>3, <1>4, <1>5, <1>6

\* A handler is done and gives up the row.
LEMMA FinishEffect ==
    ASSUME OnceInv, NEW h \in Handlers, NEW a \in Answer, Finish(h, a)
    PROVE  /\ handler' \in [Handlers -> HandlerType]
           /\ handler'[h].at = "answering" /\ handler'[h].answer = a
           /\ \A g \in Handlers : g # h => handler'[g] = handler[g]
           /\ rowLock' \in Handlers \cup {Nobody}
           /\ rowLock' = IF rowLock = h THEN Nobody ELSE rowLock
<1>1. handler \in [Handlers -> HandlerType] /\ rowLock \in Handlers \cup {Nobody}
  BY DEF OnceInv, TypeOK, HandlerType
<1> DEFINE there == [at |-> "answering", answer |-> a]
<1>2. there \in HandlerType /\ there.at = "answering" /\ there.answer = a
  BY DEF HandlerType
<1>3. handler' = [handler EXCEPT ![h] = there]
  BY DEF Finish
<1> HIDE DEF there
<1> QED
  BY <1>1, <1>2, <1>3 DEF Finish

\* What is left to show when one handler moves and the record stays.
LEMMA HandlerMoves ==
    ASSUME OnceInv, NEW h \in Handlers,
           handler' \in [Handlers -> HandlerType],
           \A g \in Handlers : g # h => handler'[g] = handler[g],
           rowLock' \in Handlers \cup {Nobody},
           answers' \subseteq Answer, losses' \in 0 .. MaxLosses,
           UNCHANGED <<endpoint, rows>>,
           handler'[h].at = "working" => handler'[h].next \in DOMAIN Steps,
           handler'[h].at = "answering" => Successful(handler'[h].answer),
           \A a \in answers' : Successful(a)
    PROVE  OnceInv'
<1>1. TypeOK'
  BY DEF OnceInv, TypeOK, HandlerType, rows
<1>2. \A g \in Handlers : Placed(g)'
  BY DEF OnceInv, Placed, Steps
<1>3. \A g \in Handlers : handler'[g].at = "answering" => Successful(handler[g].answer)'
  BY DEF OnceInv, Successful, rows
<1>4. \A a \in answers' : Successful(a)'
  BY DEF Successful, rows
<1>5. /\ (record = None => effects = <<>> /\ audit = <<>>)'
      /\ (record # None => /\ effects = <<record.body>> /\ audit = <<record.body>>
                           /\ record.resource = 1)'
  BY DEF OnceInv, rows
<1> QED
  BY <1>1, <1>2, <1>3, <1>4, <1>5 DEF OnceInv

\* The transaction writes effect, record and audit line, or none of them.
LEMMA RecordWriteEffect ==
    ASSUME OnceInv, NEW h \in Handlers, RecordWrite(h)
    PROVE  /\ OnceInv'
           /\ \/ /\ record = None /\ record' # None
                 /\ record'.body = handler[h].body
                 /\ effects = <<>>
                 /\ effects' = <<handler[h].body>> /\ audit' = <<handler[h].body>>
                 /\ handler[h].body \in Bodies
                 /\ \A a \in answers : a.kind # "ok"
              \/ /\ UNCHANGED <<effects, audit, record, version>>
           /\ version \in Nat /\ version' \in Nat /\ version' >= version
           /\ \A g \in Handlers : g # h => handler'[g] = handler[g]
           /\ handler'[h].at = "answering" /\ handler'[h].answer.kind # "refused"
           /\ rowLock' = IF rowLock = h THEN Nobody ELSE rowLock
           /\ UNCHANGED <<endpoint, open, answers>>
<1> DEFINE b == handler[h].body
<1>1. /\ handler \in [Handlers -> HandlerType] /\ version \in Nat /\ effects \in Seq(Bodies)
      /\ audit \in Seq(Bodies) /\ outbox \in Seq({"pending", "delivered"})
      /\ losses \in 0 .. MaxLosses /\ answers \subseteq Answer /\ endpoint \in Endpoints
      /\ open \in BOOLEAN /\ rowLock \in Handlers \cup {Nobody}
  BY DEF OnceInv, TypeOK, HandlerType
<1>2. b \in Bodies
  BY <1>1 DEF RecordWrite, At, HandlerType, Idle
<1>3. UNCHANGED <<endpoint, open, answers, losses>>
  BY DEF RecordWrite
<1>4. CASE record = None
  <2>1. effects = <<>> /\ audit = <<>>
    BY <1>4 DEF OnceInv
  <2>2. Len(effects) + 1 = 1 /\ Append(effects, b) = <<b>> /\ Append(audit, b) = <<b>>
    BY <2>1
  <2>3. /\ effects' = <<b>> /\ audit' = <<b>>
        /\ record' = [at |-> "stored", body |-> b, resource |-> 1]
        /\ outbox' = IF Plan[endpoint].event THEN Append(outbox, "pending") ELSE outbox
        /\ version' = IF Plan[endpoint].moves THEN version + 1 ELSE version
        /\ Finish(h, Reply("ok", b, 1))
    BY <1>4, <2>2 DEF RecordWrite, RecordFits
  <2>4. /\ record' # None /\ record'.body = b /\ record'.resource = 1
        /\ record' \in [at : {"stored"}, body : Bodies, resource : Nat]
    BY <1>2, <2>3 DEF None
  <2>5. Reply("ok", b, 1) \in Answer
    BY <1>2 DEF Reply, Answer
  <2>6. /\ handler' \in [Handlers -> HandlerType]
        /\ handler'[h].at = "answering" /\ handler'[h].answer = Reply("ok", b, 1)
        /\ \A g \in Handlers : g # h => handler'[g] = handler[g]
        /\ rowLock' \in Handlers \cup {Nobody}
        /\ rowLock' = IF rowLock = h THEN Nobody ELSE rowLock
    BY <2>3, <2>5, FinishEffect
  <2>7. version' \in Nat /\ version' >= version
    BY <1>1, <2>3
  <2>8. outbox' \in Seq({"pending", "delivered"})
    <3>1. Append(outbox, "pending") \in Seq({"pending", "delivered"})
      BY <1>1, AppendProperties
    <3> QED
      BY <1>1, <2>3, <3>1
  <2>9. effects' \in Seq(Bodies) /\ audit' \in Seq(Bodies)
    BY <1>2, <2>3
  <2>10. TypeOK'
    BY <1>1, <1>3, <2>4, <2>6, <2>7, <2>8, <2>9 DEF TypeOK, HandlerType
  <2>11. \A a \in answers : a.kind # "ok"
    BY <1>4 DEF OnceInv, Successful
  <2>12. \A g \in Handlers : Placed(g)'
    BY <1>3, <2>6 DEF OnceInv, Placed, Steps
  <2>13. \A g \in Handlers : g # h /\ handler[g].at = "answering" => handler[g].answer.kind # "ok"
    BY <1>4 DEF OnceInv, Successful
  <2>14. Successful(handler[h].answer)'
    BY <2>4, <2>6 DEF Successful, Reply
  <2>15. \A g \in Handlers : handler'[g].at = "answering" => Successful(handler[g].answer)'
    BY <2>6, <2>13, <2>14 DEF Successful
  <2>16. \A a \in answers' : Successful(a)'
    BY <1>3, <2>11 DEF Successful
  <2>17. OnceInv'
    BY <2>3, <2>4, <2>10, <2>12, <2>15, <2>16 DEF OnceInv
  <2> QED
    BY <1>1, <1>2, <1>3, <1>4, <2>1, <2>3, <2>4, <2>6, <2>7, <2>11, <2>17 DEF Reply
<1>5. CASE record # None
  <2>1. /\ Finish(h, Reply("error", b, 0))
        /\ UNCHANGED <<effects, record, audit, outbox, version>>
    BY <1>5 DEF RecordWrite, RecordFits
  <2>2. Reply("error", b, 0) \in Answer
    BY <1>2 DEF Reply, Answer
  <2>3. /\ handler' \in [Handlers -> HandlerType]
        /\ handler'[h].at = "answering" /\ handler'[h].answer = Reply("error", b, 0)
        /\ \A g \in Handlers : g # h => handler'[g] = handler[g]
        /\ rowLock' \in Handlers \cup {Nobody}
        /\ rowLock' = IF rowLock = h THEN Nobody ELSE rowLock
    BY <2>1, <2>2, FinishEffect
  <2>4. Successful(handler'[h].answer)
    BY <2>3 DEF Successful, Reply
  <2>5. OnceInv'
    BY <1>1, <1>3, <2>1, <2>3, <2>4, HandlerMoves DEF rows, OnceInv
  <2> QED
    BY <1>1, <1>3, <2>1, <2>3, <2>5 DEF Reply
<1> QED
  BY <1>4, <1>5

\* The answers of the checks are answers, and none of them a false success.
LEMMA RefuseEffect ==
    ASSUME OnceInv, NEW h \in Handlers, handler[h].at = "working", Refuse(h)
    PROVE  /\ Finish(h, Reply("refused", handler[h].body, 0))
           /\ Reply("refused", handler[h].body, 0) \in Answer
           /\ Reply("refused", handler[h].body, 0).kind = "refused"
<1>1. handler[h].body \in Bodies
  BY DEF OnceInv, TypeOK, HandlerType, Idle
<1> QED
  BY <1>1 DEF Refuse, Reply, Answer

\* Where a check leaves a handler: at the next step, or with an answer.
LEMMA CheckEffect ==
    ASSUME OnceInv, NEW h \in Handlers,
           CheckGate(h) \/ CheckMatch(h) \/ LockRow(h) \/ FindIdempotent(h)
    PROVE  /\ OnceInv'
           /\ \A g \in Handlers : g # h => handler'[g] = handler[g]
           /\ handler[h].at = "working"
           /\ UNCHANGED <<endpoint, rows, answers, losses>>
           /\ \/ /\ handler'[h].at = "working" /\ handler'[h].next = handler[h].next + 1
                 /\ rowLock' = IF LockRow(h) THEN h ELSE rowLock
                 /\ \/ CheckGate(h) /\ open
                    \/ CheckMatch(h) /\ version = 1
                    \/ LockRow(h) /\ rowLock = Nobody
                    \/ FindIdempotent(h) /\ record = None
              \/ /\ handler'[h].at = "answering"
                 /\ ~LockRow(h)
                 /\ rowLock' = IF rowLock = h THEN Nobody ELSE rowLock
                 /\ handler'[h].answer.kind = "refused" =>
                        (CheckGate(h) /\ ~open) \/ (CheckMatch(h) /\ version # 1)
<1> DEFINE b == handler[h].body
<1>1. /\ handler[h].at = "working"
      /\ UNCHANGED <<endpoint, rows, answers, losses>>
  BY DEF CheckGate, CheckMatch, LockRow, FindIdempotent, At
<1>2. /\ b \in Bodies /\ answers \subseteq Answer /\ losses \in 0 .. MaxLosses
      /\ rowLock \in Handlers \cup {Nobody}
      /\ \A a \in answers : Successful(a)
  BY <1>1 DEF OnceInv, TypeOK, HandlerType, Idle
<1>3. CASE /\ Continue(h)
           /\ \E s \in {"gate", "match", "lock", "look"} : At(h, s)
           /\ rowLock' = IF LockRow(h) THEN h ELSE rowLock
           /\ \/ CheckGate(h) /\ open
              \/ CheckMatch(h) /\ version = 1
              \/ LockRow(h) /\ rowLock = Nobody
              \/ FindIdempotent(h) /\ record = None
  <2>1. /\ handler' \in [Handlers -> HandlerType]
        /\ handler'[h].at = "working" /\ handler'[h].next = handler[h].next + 1
        /\ handler'[h].next \in DOMAIN Steps
        /\ \A g \in Handlers : g # h => handler'[g] = handler[g]
    BY <1>3, ContinueEffect
  <2>2. rowLock' \in Handlers \cup {Nobody}
    BY <1>2, <1>3
  <2>3. OnceInv'
    BY <1>1, <1>2, <2>1, <2>2, HandlerMoves
  <2> QED
    BY <1>1, <1>3, <2>1, <2>3
<1>4. ASSUME NEW a \in Answer, Finish(h, a), Successful(a), ~LockRow(h),
             a.kind = "refused" => (CheckGate(h) /\ ~open) \/ (CheckMatch(h) /\ version # 1)
      PROVE  /\ OnceInv'
             /\ \A g \in Handlers : g # h => handler'[g] = handler[g]
             /\ handler'[h].at = "answering"
             /\ rowLock' = IF rowLock = h THEN Nobody ELSE rowLock
             /\ handler'[h].answer.kind = "refused" =>
                        (CheckGate(h) /\ ~open) \/ (CheckMatch(h) /\ version # 1)
  <2>1. /\ handler' \in [Handlers -> HandlerType]
        /\ handler'[h].at = "answering" /\ handler'[h].answer = a
        /\ \A g \in Handlers : g # h => handler'[g] = handler[g]
        /\ rowLock' \in Handlers \cup {Nobody}
        /\ rowLock' = IF rowLock = h THEN Nobody ELSE rowLock
    BY <1>4, FinishEffect
  <2>2. OnceInv'
    BY <1>1, <1>2, <1>4, <2>1, HandlerMoves
  <2> QED
    BY <1>4, <2>1, <2>2
<1>5. At(h, "lock") => ~At(h, "gate") /\ ~At(h, "match") /\ ~At(h, "look")
  BY DEF At
<1>6. CASE CheckGate(h)
  <2>1. CASE open
    BY <1>3, <1>5, <1>6, <2>1 DEF CheckGate, LockRow
  <2>2. CASE ~open
    <3>1. Refuse(h)
      BY <1>6, <2>2 DEF CheckGate
    <3>2. ~LockRow(h) /\ Successful(Reply("refused", b, 0))
      BY <1>5, <1>6 DEF CheckGate, LockRow, Successful, Reply
    <3> QED
      BY <1>1, <1>4, <1>6, <2>2, <3>1, <3>2, RefuseEffect
  <2> QED
    BY <2>1, <2>2
<1>7. CASE CheckMatch(h)
  <2>1. CASE version = 1
    BY <1>3, <1>5, <1>7, <2>1 DEF CheckMatch, LockRow
  <2>2. CASE version # 1
    <3>1. Refuse(h)
      BY <1>7, <2>2 DEF CheckMatch
    <3>2. ~LockRow(h) /\ Successful(Reply("refused", b, 0))
      BY <1>5, <1>7 DEF CheckMatch, LockRow, Successful, Reply
    <3> QED
      BY <1>1, <1>4, <1>7, <2>2, <3>1, <3>2, RefuseEffect
  <2> QED
    BY <2>1, <2>2
<1>8. CASE LockRow(h)
  BY <1>3, <1>8 DEF LockRow
<1>9. CASE FindIdempotent(h)
  <2>1. CASE record = None
    BY <1>3, <1>5, <1>9, <2>1 DEF FindIdempotent, LockRow
  <2>2. CASE record # None /\ record.body = b
    <3>1. record.resource = 1
      BY <2>2 DEF OnceInv
    <3>2. /\ Finish(h, Reply("ok", b, 1)) /\ Reply("ok", b, 1) \in Answer
          /\ Successful(Reply("ok", b, 1)) /\ Reply("ok", b, 1).kind # "refused"
      BY <1>2, <1>9, <2>2, <3>1 DEF FindIdempotent, Reply, Answer, Successful
    <3>3. ~LockRow(h)
      BY <1>5, <1>9 DEF FindIdempotent, LockRow
    <3> QED
      BY <1>1, <1>4, <3>2, <3>3
  <2>3. CASE record # None /\ record.body # b
    <3>1. /\ Finish(h, Reply("mismatch", b, 0)) /\ Reply("mismatch", b, 0) \in Answer
          /\ Successful(Reply("mismatch", b, 0)) /\ Reply("mismatch", b, 0).kind # "refused"
      BY <1>2, <1>9, <2>3 DEF FindIdempotent, Reply, Answer, Successful
    <3>2. ~LockRow(h)
      BY <1>5, <1>9 DEF FindIdempotent, LockRow
    <3> QED
      BY <1>1, <1>4, <3>1, <3>2
  <2> QED
    BY <2>1, <2>2, <2>3
<1> QED
  BY <1>6, <1>7, <1>8, <1>9

-----------------------------------------------------------------------------
(* One effect for one key.                                                 *)

\* What is sent, delivered, lost or dies leaves the record as it is.
LEMMA TrafficEffect ==
    ASSUME OnceInv, NEW h \in Handlers,
           \/ \E b \in Bodies : Send(h, b)
           \/ Deliver(h) \/ Lose(h) \/ Crash(h)
    PROVE  /\ OnceInv'
           /\ \A g \in Handlers : g # h => handler'[g] = handler[g]
           /\ UNCHANGED <<endpoint, rows>>
           /\ handler'[h].at = "working" => handler'[h].next = 1
           /\ handler'[h].at # "answering"
           /\ rowLock' = IF rowLock = h /\ handler[h].at = "working" THEN Nobody ELSE rowLock
           /\ \/ answers' = answers
              \/ /\ handler[h].at = "answering"
                 /\ answers' = answers \cup {handler[h].answer}
<1>1. /\ handler \in [Handlers -> HandlerType] /\ endpoint \in DOMAIN Plan
      /\ rowLock \in Handlers \cup {Nobody} /\ answers \subseteq Answer
      /\ losses \in 0 .. MaxLosses
      /\ \A a \in answers : Successful(a)
  BY EndpointsAssumption DEF OnceInv, TypeOK, HandlerType
<1>2. 1 \in DOMAIN Steps
  BY <1>1, PlanEnds
<1>3. ASSUME NEW b \in Bodies, Send(h, b)
      PROVE  /\ OnceInv'
             /\ \A g \in Handlers : g # h => handler'[g] = handler[g]
             /\ handler'[h].at = "working" /\ handler'[h].next = 1
             /\ handler[h].at = "idle"
             /\ UNCHANGED <<endpoint, rows, rowLock, answers>>
  <2> DEFINE there == [at |-> "working", body |-> b, next |-> 1]
  <2>1. there \in HandlerType /\ there.at = "working" /\ there.next = 1
    BY DEF HandlerType
  <2>2. /\ handler' = [handler EXCEPT ![h] = there]
        /\ handler[h].at = "idle"
        /\ UNCHANGED <<endpoint, rows, rowLock, answers, losses>>
    BY <1>3 DEF Send, Idle
  <2> HIDE DEF there
  <2>3. /\ handler' \in [Handlers -> HandlerType]
        /\ handler'[h] = there
        /\ \A g \in Handlers : g # h => handler'[g] = handler[g]
    BY <1>1, <2>1, <2>2
  <2>4. OnceInv'
    BY <1>1, <1>2, <2>1, <2>2, <2>3, HandlerMoves
  <2> QED
    BY <2>1, <2>2, <2>3, <2>4
<1>4. CASE Deliver(h) \/ Lose(h) \/ Crash(h)
  <2>1. handler' = [handler EXCEPT ![h] = Idle] /\ UNCHANGED <<endpoint, rows>>
    BY <1>4 DEF Deliver, Lose, Crash
  <2>2. /\ handler' \in [Handlers -> HandlerType]
        /\ handler'[h].at = "idle"
        /\ \A g \in Handlers : g # h => handler'[g] = handler[g]
    BY <1>1, <2>1 DEF HandlerType, Idle
  <2>3. losses' \in 0 .. MaxLosses
    BY <1>1, <1>4, BoundsAssumption DEF Deliver, Lose, Crash
  <2>4. /\ rowLock' \in Handlers \cup {Nobody}
        /\ rowLock' = IF rowLock = h /\ handler[h].at = "working" THEN Nobody ELSE rowLock
    BY <1>1, <1>4 DEF Deliver, Lose, Crash
  <2>5. \/ answers' = answers
        \/ /\ handler[h].at = "answering"
           /\ answers' = answers \cup {handler[h].answer}
           /\ handler[h].answer \in Answer /\ Successful(handler[h].answer)
    BY <1>1, <1>4 DEF Deliver, Lose, Crash, OnceInv, HandlerType, Idle
  <2>6. answers' \subseteq Answer /\ \A a \in answers' : Successful(a)
    BY <1>1, <2>5
  <2>7. OnceInv'
    BY <2>1, <2>2, <2>3, <2>4, <2>6, HandlerMoves
  <2> QED
    BY <2>1, <2>2, <2>4, <2>5, <2>7
<1> QED
  BY <1>3, <1>4

\* What others do leaves handlers and the record as they are.
LEMMA OthersEffect ==
    ASSUME OnceInv, OthersClose \/ OthersWrite \/ ProcessOutbox \/ UNCHANGED vars
    PROVE  /\ OnceInv'
           /\ UNCHANGED <<endpoint, effects, record, audit, handler, rowLock, answers>>
           /\ version \in Nat /\ version' \in Nat /\ version' >= version
           /\ version' # version => rowLock = Nobody
           /\ open' # open => open /\ ~open' /\ (endpoint = "command" => rowLock = Nobody)
<1>1. /\ version \in Nat /\ open \in BOOLEAN /\ outbox \in Seq({"pending", "delivered"})
  BY DEF OnceInv, TypeOK
<1>2. UNCHANGED <<endpoint, effects, record, audit, handler, rowLock, answers, losses>>
  BY DEF OthersClose, OthersWrite, ProcessOutbox, vars, rows
<1>3. /\ version' \in Nat /\ version' >= version
      /\ version' # version => rowLock = Nobody
  BY <1>1 DEF OthersClose, OthersWrite, ProcessOutbox, vars, rows
<1>4. /\ open' \in BOOLEAN
      /\ open' # open => open /\ ~open' /\ (endpoint = "command" => rowLock = Nobody)
  BY <1>1 DEF OthersClose, OthersWrite, ProcessOutbox, vars, rows
<1>5. outbox' \in Seq({"pending", "delivered"})
  <2>1. CASE ProcessOutbox
    <3>1. DOMAIN outbox = 1 .. Len(outbox) /\ Len(outbox) \in Nat
      BY <1>1, LenProperties
    <3>2. outbox' = [i \in 1 .. Len(outbox) |-> "delivered"]
      BY <2>1, <3>1 DEF ProcessOutbox
    <3> QED
      BY <3>1, <3>2, SeqDef
  <2>2. CASE ~ProcessOutbox
    BY <1>1, <2>2 DEF OthersClose, OthersWrite, vars, rows
  <2> QED
    BY <2>1, <2>2
<1>6. TypeOK'
  BY <1>2, <1>3, <1>4, <1>5 DEF OnceInv, TypeOK
<1>7. OnceInv'
  BY <1>2, <1>6 DEF OnceInv, Placed, Steps, Successful
<1> QED
  BY <1>1, <1>2, <1>3, <1>4, <1>7

\* OnceInv is inductive.
LEMMA OnceStep == ASSUME OnceInv, [Next]_vars PROVE OnceInv'
BY CheckEffect, RecordWriteEffect, TrafficEffect, OthersEffect DEF Next, Handle

\* At first nothing has been sent.
LEMMA OnceInit == Init => OnceInv
<1> SUFFICES ASSUME Init PROVE OnceInv
  OBVIOUS
<1>1. TypeOK
  BY BoundsAssumption DEF Init, TypeOK, Answer
<1> QED
  BY <1>1 DEF Init, OnceInv, Placed, Idle, None

\* A step is an effect, a success that is told, or nothing of the kind.
LEMMA OncePromised ==
    ASSUME OnceInv, [Next]_vars
    PROVE  [Once!Next]_(Once!vars)
<1> DEFINE told == {<<a.body, a.resource>> : a \in {b \in answers : b.kind = "ok"}}
<1>1. ASSUME UNCHANGED <<effects, audit, answers>> PROVE UNCHANGED Once!vars
  BY <1>1 DEF Once!vars
<1>2. ASSUME NEW h \in Handlers, RecordWrite(h) PROVE [Once!Next]_(Once!vars)
  <2>1. CASE UNCHANGED <<effects, audit, record, version>>
    BY <1>1, <1>2, <2>1, RecordWriteEffect
  <2>2. CASE /\ effects = <<>> /\ handler[h].body \in Bodies
             /\ effects' = <<handler[h].body>> /\ audit' = <<handler[h].body>>
    <3>1. answers' = answers
      BY <1>2, RecordWriteEffect
    <3>2. PICK b \in Bodies : b = handler[h].body
      BY <2>2
    <3>3. Once!Happen(b)
      BY <2>2, <3>1, <3>2 DEF Once!Happen
    <3> QED
      BY <3>3 DEF Once!Next
  <2> QED
    BY <1>2, <2>1, <2>2, RecordWriteEffect
<1>3. ASSUME NEW h \in Handlers,
             \/ \E b \in Bodies : Send(h, b)
             \/ Deliver(h) \/ Lose(h) \/ Crash(h)
      PROVE  [Once!Next]_(Once!vars)
  <2>1. UNCHANGED <<effects, audit>>
    BY <1>3, TrafficEffect DEF rows
  <2>2. CASE answers' = answers
    BY <1>1, <2>1, <2>2
  <2>3. CASE /\ handler[h].at = "answering"
             /\ answers' = answers \cup {handler[h].answer}
    <3>1. PICK a : a = handler[h].answer
      OBVIOUS
    <3>2. a \in Answer /\ Successful(a)
      BY <2>3, <3>1 DEF OnceInv, TypeOK, Idle
    <3>3. CASE a.kind # "ok"
      <4>1. {b \in answers' : b.kind = "ok"} = {b \in answers : b.kind = "ok"}
        BY <2>3, <3>1, <3>3
      <4>2. told' = told
        BY <4>1
      <4> QED
        BY <2>1, <4>2 DEF Once!vars
    <3>4. CASE a.kind = "ok"
      <4>1. a.body \in Bodies /\ a.resource = 1 /\ effects = <<a.body>>
        BY <3>2, <3>4 DEF Answer, Successful, OnceInv
      <4>2. {b \in answers' : b.kind = "ok"} = {b \in answers : b.kind = "ok"} \cup {a}
        BY <2>3, <3>1, <3>4
      <4>3. told' = told \cup {<<a.body, 1>>}
        BY <4>1, <4>2
      <4>4. PICK b \in Bodies : b = a.body
        BY <4>1
      <4>5. Once!Tell(b)
        BY <2>1, <4>1, <4>3, <4>4 DEF Once!Tell
      <4> QED
        BY <4>5 DEF Once!Next
    <3> QED
      BY <3>3, <3>4
  <2> QED
    BY <1>3, <2>2, <2>3, TrafficEffect
<1>4. ASSUME NEW h \in Handlers,
             CheckGate(h) \/ CheckMatch(h) \/ LockRow(h) \/ FindIdempotent(h)
      PROVE  [Once!Next]_(Once!vars)
  BY <1>1, <1>4, CheckEffect DEF rows
<1>5. CASE OthersClose \/ OthersWrite \/ ProcessOutbox \/ UNCHANGED vars
  BY <1>1, <1>5, OthersEffect
<1> QED
  BY <1>2, <1>3, <1>4, <1>5 DEF Next, Handle

\* A key has one effect with one audit line, and clients are told of that
\* success only, for any number of copies handled at once, any payloads sent
\* with the key, and every write endpoint.
THEOREM EffectOnce == Spec => KeepsOnce
<1>1. Init => Once!Init
  BY DEF Init, Once!Init
<1>2. OnceInv /\ [Next]_vars => [Once!Next]_(Once!vars)
  BY OncePromised
<1>3. OnceInv /\ [Next]_vars => OnceInv'
  BY OnceStep
<1> QED
  BY <1>1, <1>2, <1>3, OnceInit, PTL DEF Spec, KeepsOnce, Once!Spec

-----------------------------------------------------------------------------
(* A refusal hides nothing.                                                *)

\* Only one handler works on the row: the others are still at their first step.
LEMMA OneInside ==
    ASSUME RefusalInv, Comparing, NEW h \in Handlers, rowLock = h \/ rowLock = Nobody,
           NEW g \in Handlers, g # h, handler[g].at = "working"
    PROVE  handler[g].next \in Nat /\ ~(handler[g].next > 1)
<1>1. g # Nobody
  BY HandlersAssumption DEF Nobody
<1>2. handler[g].next \in Nat
  BY DEF RefusalInv, OnceInv, TypeOK, Idle
<1> QED
  BY <1>1, <1>2 DEF RefusalInv, Informed

\* What a handler that works on such an endpoint does next.
LEMMA StepOfComparing ==
    ASSUME RefusalInv, Comparing, NEW h \in Handlers, handler[h].at = "working"
    PROVE  /\ handler[h].next \in Nat
           /\ At(h, "lock") => handler[h].next = 1
           /\ At(h, "look") => handler[h].next = 2
           /\ At(h, "match") => handler[h].next = 3
           /\ At(h, "gate") => handler[h].next = 4 /\ endpoint = "command"
           /\ At(h, "write") => \/ handler[h].next = 4 /\ endpoint = "change_request"
                                \/ handler[h].next = 5 /\ endpoint = "command"
<1>1. handler[h].next \in DOMAIN Steps
  BY DEF RefusalInv, OnceInv, Placed
<1>2. CASE endpoint = "command"
  <2>1. handler[h].next \in 1 .. 5 /\ Steps[1] = "lock" /\ Steps[2] = "look" /\ Steps[3] = "match"
        /\ Steps[4] = "gate" /\ Steps[5] = "write"
    BY <1>1, <1>2, ComparingPlans
  <2> QED
    BY <1>2, <2>1 DEF At
<1>3. CASE endpoint = "change_request"
  <2>1. handler[h].next \in 1 .. 4 /\ Steps[1] = "lock" /\ Steps[2] = "look" /\ Steps[3] = "match"
        /\ Steps[4] = "write"
    BY <1>1, <1>3, ComparingPlans
  <2> QED
    BY <1>3, <2>1 DEF At
<1> QED
  BY <1>2, <1>3 DEF Comparing

\* The checks: what passes is known from then on, what is refused is hopeless.
LEMMA RefusalCheck ==
    ASSUME RefusalInv, NEW h \in Handlers,
           CheckGate(h) \/ CheckMatch(h) \/ LockRow(h) \/ FindIdempotent(h)
    PROVE  RefusalInv'
<1>1. /\ OnceInv'
      /\ \A g \in Handlers : g # h => handler'[g] = handler[g]
      /\ handler[h].at = "working"
      /\ UNCHANGED <<endpoint, rows, answers, losses>>
      /\ \/ /\ handler'[h].at = "working" /\ handler'[h].next = handler[h].next + 1
            /\ rowLock' = IF LockRow(h) THEN h ELSE rowLock
            /\ \/ CheckGate(h) /\ open
               \/ CheckMatch(h) /\ version = 1
               \/ LockRow(h) /\ rowLock = Nobody
               \/ FindIdempotent(h) /\ record = None
         \/ /\ handler'[h].at = "answering"
            /\ ~LockRow(h)
            /\ rowLock' = IF rowLock = h THEN Nobody ELSE rowLock
            /\ handler'[h].answer.kind = "refused" =>
                   (CheckGate(h) /\ ~open) \/ (CheckMatch(h) /\ version # 1)
  BY CheckEffect DEF RefusalInv
<1>2. UNCHANGED <<open, version, record>>
  BY <1>1 DEF rows
<1>3. (version > 0)'
  BY <1>2 DEF RefusalInv
<1>4. ASSUME Comparing
      PROVE  /\ \A g \in Handlers : Informed(g)'
             /\ \A a \in answers' : Hopeless(a)'
             /\ \A g \in Handlers : handler'[g].at = "answering" => Hopeless(handler[g].answer)'
  <2>1. /\ handler[h].next \in Nat
        /\ LockRow(h) => handler[h].next = 1
        /\ FindIdempotent(h) => handler[h].next = 2
        /\ CheckMatch(h) => handler[h].next = 3
        /\ CheckGate(h) => handler[h].next = 4 /\ endpoint = "command"
    BY <1>1, <1>4, StepOfComparing DEF LockRow, FindIdempotent, CheckMatch, CheckGate
  <2>2. Informed(h)
    BY <1>4 DEF RefusalInv
  <2>3. Informed(h)'
    BY <1>1, <1>2, <2>1, <2>2 DEF Informed
  <2>4. \A g \in Handlers : Informed(g)'
    <3> SUFFICES ASSUME NEW g \in Handlers, g # h PROVE Informed(g)'
      BY <2>3
    <3>1. handler'[g] = handler[g]
      BY <1>1
    <3>2. Informed(g)
      BY <1>4 DEF RefusalInv
    <3>3. CASE rowLock' = rowLock
      BY <1>1, <1>2, <3>1, <3>2, <3>3 DEF Informed
    <3>4. CASE rowLock = h \/ rowLock = Nobody
      BY <1>4, <3>1, <3>4, OneInside DEF Informed
    <3> QED
      BY <1>1, <3>3, <3>4 DEF LockRow
  <2>5. \A a \in answers' : Hopeless(a)'
    BY <1>1, <1>2, <1>4 DEF RefusalInv, Hopeless
  <2>6. handler'[h].at = "answering" => Hopeless(handler[h].answer)'
    BY <1>1, <1>2, <2>1, <2>2 DEF Informed, Hopeless
  <2>7. ASSUME NEW g \in Handlers, g # h, handler'[g].at = "answering"
        PROVE  Hopeless(handler[g].answer)'
    BY <1>1, <1>2, <1>4, <2>7 DEF RefusalInv, Hopeless
  <2> QED
    BY <2>4, <2>5, <2>6, <2>7
<1>5. ASSUME ~Asks("gate"), ~Asks("match")
      PROVE  /\ \A a \in answers' : a.kind # "refused"
             /\ \A g \in Handlers :
                    handler'[g].at = "answering" => handler'[g].answer.kind # "refused"
  <2>1. handler[h].next \in DOMAIN Steps
    BY <1>1 DEF RefusalInv, OnceInv, Placed
  <2>2. ~CheckGate(h) /\ ~CheckMatch(h)
    BY <1>5, <2>1 DEF CheckGate, CheckMatch, At, Asks
  <2> QED
    BY <1>1, <1>5, <2>2 DEF RefusalInv
<1> QED
  BY <1>1, <1>3, <1>4, <1>5 DEF RefusalInv, Comparing, Asks, Steps

\* A transaction commits only if no copy has been refused.
LEMMA RefusalWrite ==
    ASSUME RefusalInv, NEW h \in Handlers, RecordWrite(h)
    PROVE  RefusalInv'
<1>1. /\ OnceInv'
      /\ \/ /\ record = None /\ record' # None
         \/ UNCHANGED <<effects, audit, record, version>>
      /\ version \in Nat /\ version' \in Nat /\ version' >= version
      /\ \A g \in Handlers : g # h => handler'[g] = handler[g]
      /\ handler'[h].at = "answering" /\ handler'[h].answer.kind # "refused"
      /\ rowLock' = IF rowLock = h THEN Nobody ELSE rowLock
      /\ UNCHANGED <<endpoint, open, answers>>
  BY RecordWriteEffect DEF RefusalInv
<1>2. (version > 0)'
  BY <1>1 DEF RefusalInv
<1>3. handler[h].at = "working" /\ At(h, "write")
  BY DEF RecordWrite, At
<1>4. ASSUME Comparing
      PROVE  /\ \A g \in Handlers : Informed(g)'
             /\ \A a \in answers' : Hopeless(a)'
             /\ \A g \in Handlers : handler'[g].at = "answering" => Hopeless(handler[g].answer)'
  <2>1. /\ handler[h].next \in Nat /\ handler[h].next > 3
        /\ endpoint = "command" => handler[h].next > 4
    BY <1>3, <1>4, StepOfComparing
  <2>2. /\ rowLock = h /\ record = None /\ version = 1
        /\ endpoint = "command" => open
    BY <1>3, <1>4, <2>1 DEF RefusalInv, Informed
  <2>3. \A g \in Handlers : Informed(g)'
    BY <1>1, <1>4, <2>2, OneInside DEF Informed
  <2>4. \A a \in answers : a.kind # "refused"
    BY <1>4, <2>2 DEF RefusalInv, Hopeless
  <2>5. \A g \in Handlers : handler[g].at = "answering" => handler[g].answer.kind # "refused"
    BY <1>4, <2>2 DEF RefusalInv, Hopeless
  <2> QED
    BY <1>1, <2>3, <2>4, <2>5 DEF Hopeless
<1>5. ASSUME ~Asks("gate"), ~Asks("match")
      PROVE  /\ \A a \in answers' : a.kind # "refused"
             /\ \A g \in Handlers :
                    handler'[g].at = "answering" => handler'[g].answer.kind # "refused"
  BY <1>1, <1>5 DEF RefusalInv
<1> QED
  BY <1>1, <1>2, <1>4, <1>5 DEF RefusalInv, Comparing, Asks, Steps

\* Requests and answers on their way change no row.
LEMMA RefusalTraffic ==
    ASSUME RefusalInv, NEW h \in Handlers,
           \/ \E b \in Bodies : Send(h, b)
           \/ Deliver(h) \/ Lose(h) \/ Crash(h)
    PROVE  RefusalInv'
<1>1. /\ OnceInv'
      /\ \A g \in Handlers : g # h => handler'[g] = handler[g]
      /\ UNCHANGED <<endpoint, rows>>
      /\ handler'[h].at = "working" => handler'[h].next = 1
      /\ handler'[h].at # "answering"
      /\ rowLock' = IF rowLock = h /\ handler[h].at = "working" THEN Nobody ELSE rowLock
      /\ \/ answers' = answers
         \/ /\ handler[h].at = "answering"
            /\ answers' = answers \cup {handler[h].answer}
  BY TrafficEffect DEF RefusalInv
<1>2. UNCHANGED <<open, version, record>>
  BY <1>1 DEF rows
<1>3. (version > 0)'
  BY <1>2 DEF RefusalInv
<1>4. ASSUME Comparing
      PROVE  /\ \A g \in Handlers : Informed(g)'
             /\ \A a \in answers' : Hopeless(a)'
             /\ \A g \in Handlers : handler'[g].at = "answering" => Hopeless(handler[g].answer)'
  <2>1. Informed(h)'
    BY <1>1 DEF Informed
  <2>2. ASSUME NEW g \in Handlers, g # h PROVE Informed(g)'
    BY <1>1, <1>2, <1>4, <2>2 DEF RefusalInv, Informed
  <2>3. \A a \in answers' : Hopeless(a)
    BY <1>1, <1>4 DEF RefusalInv
  <2>4. \A a \in answers' : Hopeless(a)'
    BY <1>1, <1>2, <2>3 DEF Hopeless
  <2>5. \A g \in Handlers : handler'[g].at = "answering" => Hopeless(handler[g].answer)'
    BY <1>1, <1>2, <1>4 DEF RefusalInv, Hopeless
  <2> QED
    BY <2>1, <2>2, <2>4, <2>5
<1>5. ASSUME ~Asks("gate"), ~Asks("match")
      PROVE  /\ \A a \in answers' : a.kind # "refused"
             /\ \A g \in Handlers :
                    handler'[g].at = "answering" => handler'[g].answer.kind # "refused"
  BY <1>1, <1>5 DEF RefusalInv
<1> QED
  BY <1>1, <1>3, <1>4, <1>5 DEF RefusalInv, Comparing, Asks, Steps

\* Others write no row that a handler has, and what they end stays ended.
LEMMA RefusalOthers ==
    ASSUME RefusalInv, OthersClose \/ OthersWrite \/ ProcessOutbox \/ UNCHANGED vars
    PROVE  RefusalInv'
<1>1. /\ OnceInv'
      /\ UNCHANGED <<endpoint, effects, record, audit, handler, rowLock, answers>>
      /\ version \in Nat /\ version' \in Nat /\ version' >= version
      /\ version' # version => rowLock = Nobody
      /\ open' # open => open /\ ~open' /\ (endpoint = "command" => rowLock = Nobody)
  BY OthersEffect DEF RefusalInv
<1>2. (version > 0)'
  BY <1>1 DEF RefusalInv
<1>3. ASSUME Comparing
      PROVE  /\ \A g \in Handlers : Informed(g)'
             /\ \A a \in answers' : Hopeless(a)'
             /\ \A g \in Handlers : handler'[g].at = "answering" => Hopeless(handler[g].answer)'
  <2>1. ASSUME NEW g \in Handlers PROVE Informed(g)'
    <3>1. g # Nobody
      BY HandlersAssumption DEF Nobody
    <3>2. Informed(g)
      BY <1>3 DEF RefusalInv
    <3>3. handler[g].at = "working" => handler[g].next \in Nat
      BY DEF RefusalInv, OnceInv, TypeOK, Idle
    <3> QED
      BY <1>1, <3>1, <3>2, <3>3 DEF Informed
  <2>2. \A a : Hopeless(a) => Hopeless(a)'
    BY <1>1 DEF Hopeless, RefusalInv
  <2> QED
    BY <1>1, <1>3, <2>1, <2>2 DEF RefusalInv, Hopeless
<1> QED
  BY <1>1, <1>2, <1>3 DEF RefusalInv, Comparing, Asks, Steps

\* RefusalInv is inductive.
LEMMA RefusalStep == ASSUME RefusalInv, [Next]_vars PROVE RefusalInv'
BY RefusalCheck, RefusalWrite, RefusalTraffic, RefusalOthers DEF Next, Handle

\* At first nobody has been refused.
LEMMA RefusalInit == Init => RefusalInv
<1> SUFFICES ASSUME Init PROVE RefusalInv
  OBVIOUS
<1>1. OnceInv
  BY OnceInit
<1> QED
  BY <1>1 DEF Init, RefusalInv, Informed, Idle

\* Where the endpoint looks for the record before it compares anything, a
\* client that is refused has not had its way, whatever the payloads, the
\* copies handled at once, and the writes of others.
THEOREM NoHiddenEffect == Spec => []NoFalseRefusal
<1>1. RefusalInv => NoFalseRefusal
  <2> SUFFICES ASSUME RefusalInv, LooksFirst, Asks("look"), NEW a \in answers,
                      a.kind = "refused"
               PROVE  record = None
    BY DEF NoFalseRefusal
  <2>1. endpoint \in DOMAIN Plan
    BY EndpointsAssumption DEF RefusalInv, OnceInv, TypeOK
  <2> QED
    BY <2>1, LookingPlans DEF RefusalInv, Hopeless
<1>2. RefusalInv /\ [Next]_vars => RefusalInv'
  BY RefusalStep
<1> QED
  BY <1>1, <1>2, RefusalInit, PTL DEF Spec

\* The types are kept.
THEOREM RequestsTyped == Spec => []TypeOK
<1>1. OnceInv => TypeOK
  BY DEF OnceInv
<1>2. OnceInv /\ [Next]_vars => OnceInv'
  BY OnceStep
<1> QED
  BY <1>1, <1>2, OnceInit, PTL DEF Spec
=============================================================================
