-------------------------- MODULE AgentToolsProofs --------------------------
(***************************************************************************)
(* Proofs about AgentTools for any kinds of objects, people, actions and    *)
(* bounds: what an Agent leaves behind becomes part of the case only when   *)
(* its Attempt has succeeded, and people judge a stage only on the evidence *)
(* it has to produce.                                                       *)
(***************************************************************************)
EXTENDS AgentTools, SequenceTheorems, TLAPS

-----------------------------------------------------------------------------
(* The invariant.                                                          *)

\* Statuses of an Attempt that is not over.
Open == {"claimed", "external_starting", "running"}

\* The Attempt a Run is at is the one that is not over.
CurrentInv ==
    /\ Len(attempts) <= MaxAttempts
    /\ run.status = "active" <=> run.current > 0 /\ attempts[run.current] \in Open

\* Candidates name an Attempt there is; while finish_success is at work the Run
\* stays with the Attempt whose candidates it has found.
FoundInv ==
    /\ \A x \in knowledge : x.attempt \in DOMAIN attempts
    /\ worker # Idle => /\ run.status = "active"
                        /\ worker.found \subseteq knowledge
                        /\ \A x \in worker.found : x.attempt = run.current

\* The evidence there was when somebody began to approve is still there.
JudgedInv == \A p \in People : person[p].at = "approving" => Kinds \subseteq KindsOf(linked)

IInv == TypeOK /\ CurrentInv /\ FoundInv /\ LinkedFromSuccess /\ GateWithEvidence /\ JudgedInv

-----------------------------------------------------------------------------
(* The Runtime.                                                            *)

\* An Attempt moves, and the Run with it: the Attempts that were there stay.
LEMMA AttemptMoves ==
    ASSUME TypeOK, CurrentInv, NEW a \in DOMAIN attempts, NEW s \in AttemptStatuses,
           attempts' = [attempts EXCEPT ![a] = s]
    PROVE  /\ attempts' \in Seq(AttemptStatuses)
           /\ Len(attempts') = Len(attempts) /\ DOMAIN attempts' = DOMAIN attempts
           /\ Len(attempts) \in Nat /\ DOMAIN attempts = 1 .. Len(attempts)
           /\ attempts'[a] = s
           /\ \A b \in DOMAIN attempts : b # a => attempts'[b] = attempts[b]
<1>1. attempts \in Seq(AttemptStatuses)
  BY DEF TypeOK
<1> QED
  BY <1>1, ExceptSeq, LenProperties

\* The tools and what Hermes does leave all this alone.
LEMMA RestKept ==
    ASSUME IInv, UNCHANGED <<run, attempts, knowledge, linked, worker, step, person>>
    PROVE  CurrentInv' /\ FoundInv' /\ LinkedFromSuccess' /\ GateWithEvidence' /\ JudgedInv'
BY DEF IInv, CurrentInv, FoundInv, LinkedFromSuccess, GateWithEvidence, JudgedInv

\* The status a stage is blocked with.
LEMMA BlockEffect ==
    ASSUME IInv, NEW why \in {"safe", "unknown"}, Block(why)
    PROVE  step' \in {"running", "safe", "unknown", "awaiting_human", "ready", "completed"}
           /\ (step' \in {"awaiting_human", "completed"} => step' = step)
BY DEF IInv, TypeOK, Block

\* Another Attempt is added.
LEMMA ClaimStep == ASSUME IInv, ClaimNextRun PROVE IInv'
<1>1. /\ run.status = "queued" /\ Len(attempts) < MaxAttempts
      /\ attempts' = Append(attempts, "claimed")
      /\ run' = [status |-> "active", current |-> Len(attempts) + 1]
      /\ UNCHANGED <<agent, commitment, knowledge, linked, step, worker, person, call, purpose>>
  BY DEF ClaimNextRun, work
<1>2. attempts \in Seq(AttemptStatuses) /\ "claimed" \in AttemptStatuses /\ Len(attempts) \in Nat
      /\ DOMAIN attempts = 1 .. Len(attempts)
  BY LenProperties DEF IInv, TypeOK, AttemptStatuses
<1>3. /\ attempts' \in Seq(AttemptStatuses) /\ Len(attempts') = Len(attempts) + 1
      /\ DOMAIN attempts' = 1 .. (Len(attempts) + 1)
      /\ attempts'[Len(attempts) + 1] = "claimed"
      /\ \A b \in DOMAIN attempts : attempts'[b] = attempts[b]
  BY <1>1, <1>2, AppendProperties
<1>4. TypeOK'
  BY <1>1, <1>2, <1>3 DEF IInv, TypeOK
<1>5. CurrentInv'
  BY <1>1, <1>2, <1>3, AttemptsAssumption DEF CurrentInv, Open
<1>6. worker = Idle
  BY <1>1 DEF IInv, FoundInv
<1>7. FoundInv'
  BY <1>1, <1>2, <1>3, <1>6 DEF IInv, FoundInv
<1>8. LinkedFromSuccess'
  BY <1>1, <1>2, <1>3 DEF IInv, LinkedFromSuccess, TypeOK, FoundInv
<1>9. GateWithEvidence' /\ JudgedInv'
  BY <1>1 DEF IInv, GateWithEvidence, JudgedInv
<1> QED
  BY <1>4, <1>5, <1>7, <1>8, <1>9 DEF IInv

\* The Attempt of the Run is dispatched, recorded, lost or fails.
LEMMA AttemptStep ==
    ASSUME IInv, NEW a \in DOMAIN attempts,
           Dispatch(a) \/ Recorded(a) \/ LoseLease(a) \/ RunFails(a)
    PROVE  IInv'
<1>1. /\ run.current = a /\ worker = Idle
      /\ UNCHANGED <<purpose, call, commitment, knowledge, linked, worker, person>>
  BY DEF Dispatch, Recorded, LoseLease, RunFails, RunFree, work
<1>2. /\ a \in 1 .. MaxAttempts /\ agent \in [1 .. MaxAttempts -> AgentStatuses]
      /\ Len(attempts) \in Nat /\ Len(attempts) <= MaxAttempts
      /\ DOMAIN attempts = 1 .. Len(attempts)
      /\ run.status = "active" <=> run.current > 0 /\ attempts[run.current] \in Open
      /\ run \in [status : {"queued", "active", "evidence_accepted", "failed", "unknown"},
                  current : 0 .. Len(attempts)]
    BY LenProperties, AttemptsAssumption DEF IInv, TypeOK, CurrentInv
<1>3. /\ run.status = "active" /\ attempts[a] \in Open
  BY <1>1, <1>2 DEF Dispatch, Recorded, LoseLease, RunFails, Open
<1>4. \E s \in {"external_starting", "running", "lost", "unknown", "failed"} :
          /\ attempts' = [attempts EXCEPT ![a] = s]
          /\ agent' \in [1 .. MaxAttempts -> AgentStatuses]
          /\ \/ s \in Open /\ run' = run /\ step' = step
             \/ s \notin Open /\ run' = [status |-> "queued", current |-> 0] /\ step' = step
             \/ s \notin Open /\ run' = [run EXCEPT !.status = "unknown"] /\ Block("unknown")
             \/ s \notin Open /\ run' = [run EXCEPT !.status = "failed"] /\ Block("safe")
  <2>1. CASE Dispatch(a)
    BY <1>2, <2>1 DEF Dispatch, work, Open, AgentStatuses
  <2>2. CASE Recorded(a)
    BY <1>2, <2>2 DEF Recorded, work, Open
  <2>3. CASE LoseLease(a)
    BY <1>2, <2>3 DEF LoseLease, Open
  <2>4. CASE RunFails(a)
    BY <1>2, <2>4 DEF RunFails, Open
  <2> QED
    BY <2>1, <2>2, <2>3, <2>4
<1>5. PICK s \in {"external_starting", "running", "lost", "unknown", "failed"} :
          /\ attempts' = [attempts EXCEPT ![a] = s]
          /\ agent' \in [1 .. MaxAttempts -> AgentStatuses]
          /\ \/ s \in Open /\ run' = run /\ step' = step
             \/ s \notin Open /\ run' = [status |-> "queued", current |-> 0] /\ step' = step
             \/ s \notin Open /\ run' = [run EXCEPT !.status = "unknown"] /\ Block("unknown")
             \/ s \notin Open /\ run' = [run EXCEPT !.status = "failed"] /\ Block("safe")
  BY <1>4
<1>6. s \in AttemptStatuses
  BY DEF AttemptStatuses
<1>7. /\ attempts' \in Seq(AttemptStatuses)
      /\ Len(attempts') = Len(attempts) /\ DOMAIN attempts' = DOMAIN attempts
      /\ attempts'[a] = s
      /\ \A b \in DOMAIN attempts : b # a => attempts'[b] = attempts[b]
  BY <1>5, <1>6, AttemptMoves DEF IInv
<1>8. /\ step' \in {"running", "safe", "unknown", "awaiting_human", "ready", "completed"}
      /\ step' \in {"awaiting_human", "completed"} => step' = step
  BY <1>5, BlockEffect DEF IInv, TypeOK
<1>9. /\ run' \in [status : {"queued", "active", "evidence_accepted", "failed", "unknown"},
                   current : 0 .. Len(attempts)]
      /\ \/ s \in Open /\ run' = run
         \/ s \notin Open /\ run'.status # "active" /\ run'.current = 0
         \/ s \notin Open /\ run'.status # "active" /\ run'.current = a
  BY <1>1, <1>2, <1>5
<1>10. TypeOK'
  BY <1>1, <1>5, <1>7, <1>8, <1>9 DEF IInv, TypeOK
<1>11. CurrentInv'
  BY <1>1, <1>2, <1>3, <1>7, <1>9 DEF CurrentInv
<1>12. FoundInv'
  BY <1>1, <1>7 DEF IInv, FoundInv
<1>13. LinkedFromSuccess'
  BY <1>1, <1>3, <1>7 DEF IInv, LinkedFromSuccess, TypeOK, FoundInv, Open
<1>14. GateWithEvidence' /\ JudgedInv'
  BY <1>1, <1>8 DEF IInv, GateWithEvidence, JudgedInv
<1> QED
  BY <1>10, <1>11, <1>12, <1>13, <1>14 DEF IInv

\* Hermes starts and ends; no row changes.
LEMMA HermesStep ==
    ASSUME IInv, NEW a \in DOMAIN attempts,
           HermesStarts(a) \/ HermesEnds(a, "completed") \/ HermesEnds(a, "failed")
    PROVE  IInv'
<1>1. UNCHANGED <<run, attempts, commitment, knowledge, linked, step, worker, person, call, purpose>>
  BY DEF HermesStarts, HermesEnds, work
<1>2. agent' \in [1 .. MaxAttempts -> AgentStatuses]
  BY DEF HermesStarts, HermesEnds, AgentStatuses, IInv, TypeOK
<1>3. TypeOK'
  BY <1>1, <1>2 DEF IInv, TypeOK
<1> QED
  BY <1>1, <1>3, RestKept DEF IInv

\* finish_success has the Run and reads.
LEMMA FinishReadStep ==
    ASSUME IInv, NEW a \in DOMAIN attempts, FinishRead(a)
    PROVE  IInv'
<1>1. /\ run.current = a /\ attempts[a] = "running"
      /\ UNCHANGED <<run, attempts, agent, purpose, call, commitment, knowledge, linked, step,
                     person>>
  BY DEF FinishRead, runtime
<1> DEFINE there == [at |-> "finishing", read |-> commitment,
                     found |-> {x \in knowledge : x.attempt = a}]
<1>2. worker' = there
  BY DEF FinishRead
<1>3. /\ there \in Finishing
      /\ there.found \subseteq knowledge
      /\ \A x \in there.found : x.attempt = a
  <2>1. commitment \in CommitmentRow /\ knowledge \subseteq Candidate
    BY DEF IInv, TypeOK
  <2> QED
    BY <2>1 DEF Finishing
<1> HIDE DEF there
<1>4. run.status = "active"
  <2>1. DOMAIN attempts = 1 .. Len(attempts) /\ Len(attempts) \in Nat
    BY LenProperties DEF IInv, TypeOK
  <2> QED
    BY <1>1, <2>1 DEF IInv, CurrentInv, Open
<1>5. TypeOK'
  BY <1>1, <1>2, <1>3 DEF IInv, TypeOK
<1>6. FoundInv'
  BY <1>1, <1>2, <1>3, <1>4 DEF IInv, FoundInv
<1>7. CurrentInv' /\ LinkedFromSuccess' /\ GateWithEvidence' /\ JudgedInv'
  BY <1>1 DEF IInv, CurrentInv, LinkedFromSuccess, GateWithEvidence, JudgedInv
<1> QED
  BY <1>5, <1>6, <1>7 DEF IInv

\* More objects are linked, and no kind is lost.
LEMMA KindsGrow ==
    ASSUME NEW S, NEW T, S \subseteq T, Kinds \subseteq KindsOf(S)
    PROVE  Kinds \subseteq KindsOf(T)
BY DEF KindsOf

\* The Attempt has succeeded; its candidates, and no others, are linked.
LEMMA FinishStep ==
    ASSUME IInv, NEW a \in DOMAIN attempts, FinishSuccess(a)
    PROVE  IInv'
<1>1. /\ worker # Idle /\ run.current = a
      /\ attempts' = [attempts EXCEPT ![a] = "succeeded"]
      /\ run' = [run EXCEPT !.status = "evidence_accepted"]
      /\ worker' = Idle
      /\ UNCHANGED <<agent, purpose, call, knowledge, person>>
  BY DEF FinishSuccess
<1>2. /\ worker \in Finishing /\ worker.found \subseteq knowledge
      /\ \A x \in worker.found : x.attempt = a
      /\ run.status = "active"
      /\ Len(attempts) \in Nat /\ DOMAIN attempts = 1 .. Len(attempts)
  BY <1>1, LenProperties DEF IInv, FoundInv, TypeOK
<1>3. /\ attempts' \in Seq(AttemptStatuses)
      /\ Len(attempts') = Len(attempts) /\ DOMAIN attempts' = DOMAIN attempts
      /\ attempts'[a] = "succeeded"
      /\ \A b \in DOMAIN attempts : b # a => attempts'[b] = attempts[b]
  <2>1. "succeeded" \in AttemptStatuses
    BY DEF AttemptStatuses
  <2> QED
    BY <1>1, <2>1, AttemptMoves DEF IInv
<1>4. /\ linked' \subseteq knowledge /\ linked \subseteq linked'
      /\ \A x \in linked' : x \in linked \/ x.attempt = a
      /\ step' \in {"running", "safe", "unknown", "awaiting_human", "ready", "completed"}
      /\ \/ step' = step
         \/ step' = "safe"
         \/ Kinds \subseteq KindsOf(worker.found) /\ worker.found \subseteq linked'
  BY <1>2 DEF FinishSuccess, IInv, TypeOK
<1>5. commitment' \in CommitmentRow
  <2>1. worker.read \in CommitmentRow /\ commitment \in CommitmentRow
    BY <1>2 DEF Finishing, IInv, TypeOK
  <2> QED
    BY <2>1 DEF FinishSuccess, CommitmentRow, CommitmentStatuses, Transitions
<1>6. /\ run' \in [status : {"queued", "active", "evidence_accepted", "failed", "unknown"},
                   current : 0 .. Len(attempts)]
      /\ run'.status # "active" /\ run'.current = a
  BY <1>1 DEF IInv, TypeOK
<1>7. TypeOK'
  BY <1>1, <1>3, <1>4, <1>5, <1>6 DEF IInv, TypeOK
<1>8. CurrentInv'
  BY <1>3, <1>6 DEF IInv, CurrentInv, Open
<1>9. FoundInv'
  BY <1>1, <1>3 DEF IInv, FoundInv
<1>10. LinkedFromSuccess'
  BY <1>2, <1>3, <1>4 DEF IInv, LinkedFromSuccess, FoundInv
<1>11. GateWithEvidence'
  BY <1>4, KindsGrow DEF IInv, GateWithEvidence
<1>12. JudgedInv'
  BY <1>1, <1>4, KindsGrow DEF IInv, JudgedInv
<1> QED
  BY <1>7, <1>8, <1>9, <1>10, <1>11, <1>12 DEF IInv

-----------------------------------------------------------------------------
(* Tools.                                                                  *)

\* A call that goes on is a call.
LEMMA CallWritten ==
    ASSUME IInv, NEW a \in DOMAIN attempts, NEW to \in {Idle} \cup Call, SetCall(a, to)
    PROVE  call' \in [1 .. MaxAttempts -> {Idle} \cup Call]
BY DEF SetCall, IInv, TypeOK

\* A status and a version computed from what was read make a row.
LEMMA CommitmentWritten ==
    ASSUME NEW t, t.to \in CommitmentStatuses, t.read \in CommitmentRow, WriteCommitment(t)
    PROVE  commitment' \in CommitmentRow
BY DEF WriteCommitment, CommitmentRow

\* A tool writes a candidate of its Attempt, or the Commitment, or nothing.
LEMMA ToolStep == ASSUME IInv, Tools PROVE IInv'
<1>1. PICK a \in DOMAIN attempts :
        \/ AssertContext(a) \/ ToolEnds(a)
        \/ \E kind \in Kinds : ObjectCreateCandidate(a, kind)
        \/ \E action \in Actions : CommitmentRespond(a, action)
        \/ AgentTransitionRead(a) \/ AgentTransitionWrite(a)
  BY DEF Tools
<1>2. UNCHANGED <<run, attempts, agent, purpose, linked, step, worker, person>>
  BY <1>1 DEF AssertContext, ToolEnds, ObjectCreateCandidate, CommitmentRespond,
              AgentTransitionRead, AgentTransitionWrite, tools, runtime
<1>3. /\ commitment \in CommitmentRow /\ call[a] \in {Idle} \cup Call
      /\ knowledge \subseteq Candidate /\ a \in Nat \ {0}
      /\ a \in 1 .. MaxAttempts
  <2>1. a \in 1 .. Len(attempts) /\ Len(attempts) \in Nat /\ Len(attempts) <= MaxAttempts
    BY LenProperties DEF IInv, TypeOK, CurrentInv
  <2>2. a \in 1 .. MaxAttempts /\ a \in Nat \ {0}
    BY <2>1, AttemptsAssumption
  <2> QED
    BY <2>2 DEF IInv, TypeOK
<1>4. ASSUME NEW to \in {Idle} \cup Call, SetCall(a, to), commitment' \in CommitmentRow,
             knowledge' = knowledge
      PROVE  IInv'
  <2>1. TypeOK'
    BY <1>2, <1>4, CallWritten DEF IInv, TypeOK
  <2> QED
    BY <1>2, <1>4, <2>1, RestKept DEF IInv
<1>5. Idle \in {Idle} \cup Call /\ [at |-> "checked"] \in {Idle} \cup Call
  BY DEF Call
<1>6. CASE AssertContext(a) \/ ToolEnds(a)
  BY <1>3, <1>4, <1>5, <1>6 DEF AssertContext, ToolEnds
<1>7. ASSUME NEW kind \in Kinds, ObjectCreateCandidate(a, kind) PROVE IInv'
  <2>1. PICK x : x = [attempt |-> a, kind |-> kind]
    OBVIOUS
  <2>2. /\ knowledge' = knowledge \cup {x} /\ x \in Candidate /\ x.attempt = a
        /\ commitment' = commitment /\ SetCall(a, Idle)
    BY <1>3, <1>7, <2>1 DEF ObjectCreateCandidate, Candidate
  <2>3. call' \in [1 .. MaxAttempts -> {Idle} \cup Call]
    BY <1>5, <2>2, CallWritten
  <2>4. TypeOK'
    BY <1>2, <2>2, <2>3 DEF IInv, TypeOK
  <2>5. FoundInv'
    BY <1>2, <2>2 DEF IInv, FoundInv
  <2> QED
    BY <1>2, <2>4, <2>5 DEF IInv, CurrentInv, LinkedFromSuccess, GateWithEvidence, JudgedInv
<1>8. ASSUME NEW action \in Actions, CommitmentRespond(a, action) PROVE IInv'
  <2>1. ActionTarget[action] \in CommitmentStatuses
    BY ActionsAssumption DEF ActionTarget, CommitmentStatuses, Transitions
  <2>2. [at |-> "asked", to |-> ActionTarget[action]] \in Call
    BY <2>1 DEF Call
  <2> QED
    BY <1>3, <1>4, <1>5, <1>8, <2>2 DEF CommitmentRespond
<1>9. CASE AgentTransitionRead(a)
  <2>1. call[a].to \in CommitmentStatuses
    BY <1>3, <1>9 DEF AgentTransitionRead, Call, Idle
  <2>2. [at |-> "writing", to |-> call[a].to, read |-> commitment] \in Call
    BY <1>3, <2>1 DEF Call
  <2> QED
    BY <1>3, <1>4, <1>5, <1>9, <2>2 DEF AgentTransitionRead
<1>10. CASE AgentTransitionWrite(a)
  <2>1. call[a].to \in CommitmentStatuses /\ call[a].read \in CommitmentRow
    BY <1>3, <1>10 DEF AgentTransitionWrite, Call, Idle
  <2>2. commitment' \in CommitmentRow
    BY <1>10, <2>1, CommitmentWritten DEF AgentTransitionWrite
  <2> QED
    BY <1>4, <1>5, <1>10, <2>2 DEF AgentTransitionWrite
<1> QED
  BY <1>1, <1>6, <1>7, <1>8, <1>9, <1>10

-----------------------------------------------------------------------------
(* People.                                                                 *)

\* What a person's request leaves alone.
LEMMA PersonMoves ==
    ASSUME IInv, NEW p \in People, NEW to \in {Idle} \cup Writing \cup Judging, SetPerson(p, to),
           UNCHANGED others, commitment' \in CommitmentRow,
           step' \in {"running", "safe", "unknown", "awaiting_human", "ready", "completed"},
           GateWithEvidence', to.at = "approving" => Kinds \subseteq KindsOf(linked)
    PROVE  IInv'
<1>1. UNCHANGED <<run, attempts, agent, purpose, call, knowledge, linked, worker>>
  BY DEF others, runtime
<1>2. /\ person' \in [People -> {Idle} \cup Writing \cup Judging]
      /\ person'[p] = to /\ \A q \in People : q # p => person'[q] = person[q]
  BY DEF IInv, TypeOK, SetPerson
<1>3. TypeOK'
  BY <1>1, <1>2 DEF IInv, TypeOK
<1>4. JudgedInv'
  BY <1>1, <1>2 DEF IInv, JudgedInv
<1> QED
  BY <1>1, <1>3, <1>4 DEF IInv, CurrentInv, FoundInv, LinkedFromSuccess

\* The Commitment is moved by a person.
LEMMA TransitionStep ==
    ASSUME IInv, NEW p \in People,
           (\E to \in Targets : TransitionRead(p, to)) \/ TransitionWrite(p)
    PROVE  IInv'
<1>1. /\ commitment \in CommitmentRow /\ person[p] \in {Idle} \cup Writing \cup Judging
      /\ step \in {"running", "safe", "unknown", "awaiting_human", "ready", "completed"}
      /\ GateWithEvidence
  BY DEF IInv, TypeOK
<1>2. ASSUME NEW to \in Targets, TransitionRead(p, to) PROVE IInv'
  <2>1. /\ SetPerson(p, [at |-> "writing", to |-> to, read |-> commitment])
        /\ UNCHANGED <<commitment, step>> /\ UNCHANGED others /\ linked' = linked
    BY <1>2 DEF TransitionRead, others
  <2>2. PICK t : t = [at |-> "writing", to |-> to, read |-> commitment]
    OBVIOUS
  <2>3. t \in Writing /\ t.at # "approving" /\ SetPerson(p, t)
    BY <1>1, <2>1, <2>2, TargetsAssumption DEF Writing
  <2>4. GateWithEvidence'
    BY <1>1, <2>1 DEF GateWithEvidence
  <2> QED
    BY <1>1, <2>1, <2>3, <2>4, PersonMoves
<1>3. CASE TransitionWrite(p)
  <2>1. /\ person[p].at = "writing" /\ WriteCommitment(person[p]) /\ SetPerson(p, Idle)
        /\ step' = step /\ UNCHANGED others /\ linked' = linked
    BY <1>3 DEF TransitionWrite, others
  <2>2. person[p].to \in CommitmentStatuses /\ person[p].read \in CommitmentRow
    BY <1>1, <2>1 DEF Writing, Judging, Idle
  <2>3. commitment' \in CommitmentRow
    BY <2>1, <2>2, CommitmentWritten
  <2>4. GateWithEvidence'
    BY <1>1, <2>1 DEF GateWithEvidence
  <2>5. Idle.at # "approving"
    BY DEF Idle
  <2> QED
    BY <1>1, <2>1, <2>3, <2>4, <2>5, PersonMoves
<1> QED
  BY <1>2, <1>3

\* The stage is approved or returned.
LEMMA JudgeStep ==
    ASSUME IInv, NEW p \in People,
           ApproveRead(p) \/ ApproveWrite(p) \/ ReturnRead(p) \/ ReturnWrite(p)
    PROVE  IInv'
<1>1. /\ commitment \in CommitmentRow /\ person[p] \in {Idle} \cup Writing \cup Judging
      /\ step \in {"running", "safe", "unknown", "awaiting_human", "ready", "completed"}
      /\ GateWithEvidence /\ JudgedInv
  BY DEF IInv, TypeOK
<1>2. Idle.at # "approving" /\ Idle \in {Idle} \cup Writing \cup Judging
  BY DEF Idle
<1>3. ASSUME NEW at \in {"approving", "returning"}, step = "awaiting_human",
             SetPerson(p, [at |-> at, read |-> commitment]),
             UNCHANGED others, UNCHANGED <<commitment, step>>
      PROVE  IInv'
  <2>1. PICK t : t = [at |-> at, read |-> commitment]
    OBVIOUS
  <2>2. t \in Judging /\ SetPerson(p, t)
    BY <1>1, <1>3, <2>1 DEF Judging
  <2>3. Kinds \subseteq KindsOf(linked)
    BY <1>1, <1>3 DEF GateWithEvidence
  <2>4. GateWithEvidence'
    BY <1>3, <2>3 DEF GateWithEvidence, others
  <2> QED
    BY <1>1, <1>3, <2>2, <2>3, <2>4, PersonMoves
<1>4. CASE ApproveRead(p)
  BY <1>3, <1>4 DEF ApproveRead
<1>5. CASE ReturnRead(p)
  BY <1>3, <1>5 DEF ReturnRead
<1>6. CASE ApproveWrite(p)
  <2>1. /\ person[p].at = "approving" /\ SetPerson(p, Idle) /\ step' = "completed"
        /\ UNCHANGED others /\ linked' = linked
    BY <1>6 DEF ApproveWrite, others
  <2>2. person[p].read \in CommitmentRow
    BY <1>1, <2>1 DEF Writing, Judging, Idle
  <2>3. commitment' \in CommitmentRow
    BY <1>1, <1>6, <2>2
       DEF ApproveWrite, WriteCommitment, CommitmentRow, CommitmentStatuses, Transitions
  <2>4. GateWithEvidence'
    BY <1>1, <2>1 DEF GateWithEvidence, JudgedInv
  <2> QED
    BY <1>2, <2>1, <2>3, <2>4, PersonMoves
<1>7. CASE ReturnWrite(p)
  <2>1. /\ person[p].at = "returning" /\ SetPerson(p, Idle) /\ step' = "ready"
        /\ UNCHANGED others /\ linked' = linked
    BY <1>7 DEF ReturnWrite, others
  <2>2. person[p].read \in CommitmentRow
    BY <1>1, <2>1 DEF Writing, Judging, Idle
  <2>3. commitment' \in CommitmentRow
    BY <1>1, <1>7, <2>2
       DEF ReturnWrite, WriteCommitment, CommitmentRow, CommitmentStatuses, Transitions
  <2>4. GateWithEvidence'
    BY <2>1 DEF GateWithEvidence
  <2> QED
    BY <1>2, <2>1, <2>3, <2>4, PersonMoves
<1> QED
  BY <1>4, <1>5, <1>6, <1>7

\* Another Run for the stage.
LEMMA RetryStep == ASSUME IInv, RetrySafeStep PROVE IInv'
<1>1. /\ worker = Idle /\ step' = "running"
      /\ run' = [status |-> "queued", current |-> 0]
      /\ UNCHANGED <<attempts, agent, purpose, call, commitment, knowledge, linked, worker, person>>
  BY DEF RetrySafeStep, RunFree
<1>2. Len(attempts) \in Nat
  BY LenProperties DEF IInv, TypeOK
<1>3. TypeOK'
  BY <1>1, <1>2 DEF IInv, TypeOK
<1> QED
  BY <1>1, <1>2, <1>3
     DEF IInv, CurrentInv, FoundInv, LinkedFromSuccess, GateWithEvidence, JudgedInv

\* An unknown outcome is decided by a person, and a success only on evidence.
LEMMA ResolveStep == ASSUME IInv, ResolveAsFailed \/ ResolveAsSucceeded PROVE IInv'
<1>1. UNCHANGED <<run, attempts, agent, purpose, call, commitment, knowledge, linked, worker, person>>
  BY DEF ResolveAsFailed, ResolveAsSucceeded, others, runtime
<1>2. /\ step' \in {"running", "safe", "unknown", "awaiting_human", "ready", "completed"}
      /\ step' \in {"awaiting_human", "completed"} => Kinds \subseteq KindsOf(linked)
  BY DEF ResolveAsFailed, ResolveAsSucceeded, CanConfirm
<1>3. TypeOK'
  BY <1>1, <1>2 DEF IInv, TypeOK
<1> QED
  BY <1>1, <1>2, <1>3
     DEF IInv, CurrentInv, FoundInv, LinkedFromSuccess, GateWithEvidence, JudgedInv

-----------------------------------------------------------------------------
(* The theorems.                                                           *)

\* IInv is inductive.
LEMMA IInvStep == ASSUME IInv, [Next]_vars PROVE IInv'
<1>1. CASE Runtime
  BY <1>1, ClaimStep, AttemptStep, HermesStep, FinishReadStep, FinishStep DEF Runtime
<1>2. CASE Tools
  BY <1>2, ToolStep
<1>3. CASE Human
  BY <1>3, TransitionStep, JudgeStep, RetryStep, ResolveStep DEF Human
<1>4. CASE UNCHANGED vars
  BY <1>4, RestKept DEF vars, IInv, TypeOK
<1> QED
  BY <1>1, <1>2, <1>3, <1>4 DEF Next

\* At first there is a Commitment and a queued Run.
LEMMA IInvInit == Init => IInv
<1> SUFFICES ASSUME Init PROVE IInv
  OBVIOUS
<1>1. attempts \in Seq(AttemptStatuses) /\ Len(attempts) = 0
  BY DEF Init
<1>2. commitment \in CommitmentRow
  BY DEF Init, CommitmentRow, CommitmentStatuses, Transitions
<1>3. TypeOK
  BY <1>1, <1>2 DEF Init, TypeOK, AgentStatuses
<1> QED
  BY <1>1, <1>3, AttemptsAssumption
     DEF Init, IInv, CurrentInv, FoundInv, LinkedFromSuccess, GateWithEvidence, JudgedInv, Idle

\* The types are kept, and with them that only candidates are linked and that
\* a Run is at an Attempt there is.
THEOREM AgentToolsTyped == Spec => []TypeOK
<1>1. IInv => TypeOK
  BY DEF IInv
<1>2. IInv /\ [Next]_vars => IInv'
  BY IInvStep
<1> QED
  BY <1>1, <1>2, IInvInit, PTL DEF Spec

\* What an Agent writes for an Attempt that fails, is lost, or is over when the
\* call arrives never becomes part of the case, however many Attempts there are
\* and however late the calls.
THEOREM OnlySuccessLinks == Spec => []LinkedFromSuccess
<1>1. IInv => LinkedFromSuccess
  BY DEF IInv
<1>2. IInv /\ [Next]_vars => IInv'
  BY IInvStep
<1> QED
  BY <1>1, <1>2, IInvInit, PTL DEF Spec

\* People judge a stage, and complete it, only with every kind of object linked
\* that it has to produce, whatever Workers, Agents and other people do meanwhile.
THEOREM JudgedOnEvidence == Spec => []GateWithEvidence
<1>1. IInv => GateWithEvidence
  BY DEF IInv
<1>2. IInv /\ [Next]_vars => IInv'
  BY IInvStep
<1> QED
  BY <1>1, <1>2, IInvInit, PTL DEF Spec
=============================================================================
