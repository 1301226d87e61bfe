------------------------ MODULE MarketingCaseProofs ------------------------
(***************************************************************************)
(* Proofs about MarketingCase, for any number of Runs.  Whatever clients    *)
(* send, stages keep their order and no Agent works on what was not         *)
(* approved; if "hold" is sent only where it is offered, one Run at most is *)
(* alive, no unknown Run is repeated unspoken, the accepted plan stays, the *)
(* Commitments are settled with the stages, and what is offered works.      *)
(***************************************************************************)
EXTENDS MarketingCase, TLAPS

-----------------------------------------------------------------------------
(* The inductive invariant.                                                *)

\* The types of what the invariant speaks of.
Typed ==
    /\ caseStatus \in CaseStatuses /\ stage \in Stages
    /\ step \in [Stages -> StepStatuses]
    /\ failure \in Failures
    /\ runs \in Seq(Run) /\ commitments \in Seq(CommitmentStatuses)
    /\ activeRun \in [Stages -> 0 .. Len(runs)]

\* Where the case stands on its way: StageShape.
Placed ==
    /\ \A s \in Stages : Before(s, stage) => step[s] = "completed"
    /\ \A s \in Stages : Before(stage, s) => step[s] = "pending"
\* What the case shows is what its current step is.
Shown ==
    /\ caseStatus = "active" => step[stage] = "ready"
    /\ caseStatus = "running" => stage \in AgentStages /\ step[stage] = "running"
    /\ caseStatus = "awaiting_human" =>
           step[stage] = IF stage \in AgentStages THEN "awaiting_human" ELSE "ready"
    /\ caseStatus = "blocked" => step[stage] = "blocked"
    /\ caseStatus = "completed" => step["mo_retrospective"] = "completed"
    /\ caseStatus = "cancelled" => step[stage] # "running"

\* The active Run of a stage is one of that stage.
Owned == \A s \in Stages : activeRun[s] # 0 => runs[activeRun[s]].stage = s
\* Only a blocked step has a failure; only Agents' stages await people, held or not.
Explained ==
    /\ step[stage] # "blocked" => failure = NoFailure
    /\ step[stage] = "awaiting_human" => stage \in AgentStages
    /\ failure.class = "human" /\ failure.previous = "awaiting_human" => stage \in AgentStages
\* A Run that is alive is the latest, and the case waits for it or for its stop.
Awaited ==
    \A n \in DOMAIN runs : Live(n) =>
        /\ n = Len(runs) /\ activeRun[stage] = n /\ runs[n].stage = stage
        /\ \/ caseStatus = "running"
           \/ caseStatus = "blocked" /\ failure.class = "cancel_asked" /\ failure.retry = "unsafe"
\* A case that is running waits for a Run.
Waiting == caseStatus = "running" => activeRun[stage] # 0 /\ Live(activeRun[stage])
\* An unknown Run nobody has spoken about blocks its stage.
Unresolved ==
    \A n \in DOMAIN runs : runs[n].status = "unknown" =>
        \/ n \in reconciled
        \/ /\ activeRun[stage] = n /\ step[stage] = "blocked"
           /\ failure.class = "run" /\ failure.retry = "unsafe"
\* The stage of an accepted plan is closed.
Closed == deliverable = "accepted" => step["mo_retrospective"] = "completed"

\* What holds whatever clients send.
ShapeInv == Typed /\ Placed /\ Shown /\ Owned /\ Explained /\ Waiting
\* What else holds when "hold" is sent only where it is offered.
RunsInv == Awaited /\ Unresolved /\ Closed /\ NoRerunOfUnknown
CaseInv == ShapeInv /\ RunsInv

\* What an Agent has made is of the kinds its stage asks for.
ItemsKnown ==
    \A i \in items : /\ i \in Item /\ i.run \in DOMAIN runs
                     /\ i.kind \in RequiredKinds[runs[i.run].stage]
\* An object of the kind, made at the stage, that stands; and one people have approved.
Stands(s, k) == \E i \in items : runs[i.run].stage = s /\ ~i.returned /\ i.kind = k
Cleared(s, k) ==
    \E i \in items : /\ runs[i.run].stage = s /\ ~i.returned /\ i.kind = k
                     /\ Subject(i) \in approved
\* What is behind a gate is approved, kind by kind.
Passed ==
    \A g \in Gates : Before(g, stage) =>
        \A k \in RequiredKinds[Producer[g]] : Cleared(Producer[g], k)
\* People judge the current step, or have interrupted that.
Judging ==
    \/ step[stage] = "awaiting_human"
    \/ failure.class = "human" /\ failure.previous = "awaiting_human"
\* The first gate, which does not count the kinds, is reached with all of them.
Complete ==
    stage = "mo_plan" /\ Judging => \A k \in RequiredKinds["mo_plan"] : Stands("mo_plan", k)
\* No Run belongs to a stage the case has not come to.
Reached == \A n \in DOMAIN runs : ~Before(stage, runs[n].stage)
\* A stage is entered with its handoff, and a Run made with an accepted one.
Handed ==
    /\ handoff \in [{"pma", "bga"} -> {"none", "pending", "accepted"}]
    /\ \A t \in {"pma", "bga"} : ~Before(stage, t) => handoff[t] \in {"pending", "accepted"}
    /\ \A n \in DOMAIN runs :
          runs[n].stage \in {"pma", "bga"} => handoff[runs[n].stage] = "accepted"
\* Feedback and retrospective come after the receipt of the publish task.
Published == Before("simulated_publish", stage) => task \in {"simulated", "filed"}

GatesInv == ItemsKnown /\ Passed /\ Complete /\ Reached /\ Handed /\ Published

\* What the records refer to is there.
Referring ==
    /\ commitmentOf \in [Stages -> 0 .. Len(commitments)]
    /\ \A n \in DOMAIN runs : runs[n].commitment \in DOMAIN commitments
    /\ approved \subseteq {Subject(i) : i \in items}
    /\ task \in {"none", "pending", "simulated", "filed"}
    /\ deliverable \in {"none", "draft", "unsound", "accepted"}
    /\ reconciled \subseteq DOMAIN runs

OpenStatuses == {"accepted", "submitted"}
WorkStatuses == OpenStatuses \cup {"moved"}
Of(c) == {n \in DOMAIN runs : runs[n].commitment = c}

\* A Commitment is one stage's, an Agent's one, and none is made ahead.
OneStage ==
    /\ \A s, t \in Stages : commitmentOf[s] = commitmentOf[t] /\ commitmentOf[s] # 0 => s = t
    /\ \A s \in Stages : Before(stage, s) \/ s \notin AgentStages => commitmentOf[s] = 0
\* The active Run of a stage works under the Commitment of the stage.
UnderCommitment ==
    \A s \in Stages : activeRun[s] # 0 =>
        commitmentOf[s] # 0 /\ runs[activeRun[s]].commitment = commitmentOf[s]
\* That is open until the stage is completed, unless it was moved, and closed
\* before it is started again, held or not.
Untaken == step[stage] = "ready" \/ (failure.class = "human" /\ failure.previous # "awaiting_human")
OpenWhileWorked ==
    /\ activeRun[stage] # 0 /\ step[stage] # "completed" =>
           commitments[commitmentOf[stage]] \in WorkStatuses
    /\ Untaken =>
           commitmentOf[stage] = 0 \/ commitments[commitmentOf[stage]] \notin OpenStatuses
\* Work was submitted by a Run that succeeded.
Earned ==
    \A c \in DOMAIN commitments : commitments[c] \in {"submitted", "fulfilled"} =>
        \E n \in Of(c) : runs[n].status = "evidence_accepted"
AnsweredFor ==
    \A c \in DOMAIN commitments : commitments[c] \in OpenStatuses =>
        \E s \in AgentStages : commitmentOf[s] = c
\* Somebody vouches for the work of a stage: its Agent, or a person.
VouchedBy(c) == \E n \in reconciled : runs[n].commitment = c
Vouched(s) ==
    /\ commitmentOf[s] # 0
    /\ \/ commitments[commitmentOf[s]] \in {"submitted", "fulfilled", "moved"}
       \/ VouchedBy(commitmentOf[s])
VouchedBehind ==
    /\ \A s \in AgentStages : Before(s, stage) => Vouched(s)
    /\ Judging => Vouched(stage)
\* Behind a gate the work is fulfilled, or a person has vouched for the Run or
\* moved the Commitment.
Through(g) ==
    /\ commitmentOf[Producer[g]] # 0
    /\ \/ commitments[commitmentOf[Producer[g]]] \in {"fulfilled", "moved"}
       \/ VouchedBy(commitmentOf[Producer[g]])
GatesSettled == \A g \in Gates : step[g] = "completed" => Through(g)

SettledInv ==
    OneStage /\ UnderCommitment /\ OpenWhileWorked /\ Earned /\ AnsweredFor /\ VouchedBehind
             /\ GatesSettled

\* What people are offered at a gate is there to be judged.
Presented ==
    /\ \A g \in Gates \ AgentStages : stage = g =>
           \A k \in RequiredKinds[Producer[g]] : Stands(Producer[g], k)
    /\ Judging => stage \in Gates
    /\ Judging /\ stage = "mo_retrospective" => deliverable = "draft"
\* What a failure offers to people concerns the active Run.
Concerned ==
    /\ failure.run = "unknown" => activeRun[stage] # 0 /\ runs[activeRun[stage]].status = "unknown"
    /\ failure.retry = "safe" => activeRun[stage] # 0
TaskWaits == ~TaskFiled /\ stage = "simulated_publish" => task = "pending"

OfferInv == Presented /\ Concerned /\ TaskWaits

-----------------------------------------------------------------------------
(* Facts about the stages.                                                 *)

LEMMA Order ==
    /\ DOMAIN StageOrder = 1..8
    /\ StageOrder[1] = "mo_plan"
    /\ StageOrder[2] = "pma"
    /\ StageOrder[3] = "product_review"
    /\ StageOrder[4] = "bga"
    /\ StageOrder[5] = "content_review"
    /\ StageOrder[6] = "simulated_publish"
    /\ StageOrder[7] = "feedback"
    /\ StageOrder[8] = "mo_retrospective"
BY DEF StageOrder

LEMMA Names ==
    Stages = {"mo_plan", "pma", "product_review", "bga", "content_review",
              "simulated_publish", "feedback", "mo_retrospective"}
BY Order DEF Stages

LEMMA Positions ==
    /\ Position("mo_plan") = 1
    /\ Position("pma") = 2
    /\ Position("product_review") = 3
    /\ Position("bga") = 4
    /\ Position("content_review") = 5
    /\ Position("simulated_publish") = 6
    /\ Position("feedback") = 7
    /\ Position("mo_retrospective") = 8
<1>1. ASSUME NEW k \in 1..8 PROVE Position(StageOrder[k]) = k
  <2>1. \A i \in DOMAIN StageOrder : StageOrder[i] = StageOrder[k] => i = k
    BY Order
  <2>2. k \in DOMAIN StageOrder
    BY Order
  <2> QED
    BY <2>1, <2>2 DEF Position
<1> QED
  BY <1>1, Order

\* Two stages at one position are one stage.
LEMMA Linear ==
    ASSUME NEW s \in Stages, NEW t \in Stages
    PROVE  Before(s, t) \/ Before(t, s) \/ s = t
BY Names, Positions DEF Before

LEMMA Agents == AgentStages \in SUBSET Stages /\ "mo_retrospective" \in Stages
BY Names DEF AgentStages

-----------------------------------------------------------------------------
(* How a step moves the case.                                              *)

\* The current step changes its status.
LEMMA StepHere ==
    ASSUME Typed, Placed, NEW v \in StepStatuses, SetStep(stage, v), stage' = stage
    PROVE  step' \in [Stages -> StepStatuses] /\ step'[stage'] = v /\ Placed'
<1>1. /\ step' = [step EXCEPT ![stage] = v] /\ step \in [Stages -> StepStatuses]
      /\ stage \in Stages
  BY DEF Typed, SetStep
<1>2. step' \in [Stages -> StepStatuses] /\ step'[stage] = v
  BY <1>1
<1>3. \A s \in Stages : s # stage => step'[s] = step[s]
  BY <1>1
<1>4. ~Before(stage, stage)
  BY <1>1, Names, Positions DEF Before
<1> QED
  BY <1>2, <1>3, <1>4 DEF Placed, Before

\* The case goes on to the next stage.
LEMMA StepOn ==
    ASSUME Typed, Placed, stage # "mo_retrospective", Advance(stage)
    PROVE  /\ step' \in [Stages -> StepStatuses] /\ step'[stage'] = "ready" /\ Placed'
           /\ stage' \in Stages /\ caseStatus' \in CaseStatuses /\ Shown'
           /\ caseStatus' # "running"
<1> DEFINE next == StageOrder[Position(stage) + 1]
<1>1. /\ stage \in Stages /\ step \in [Stages -> StepStatuses]
      /\ step' = [step EXCEPT ![stage] = "completed", ![next] = "ready"]
      /\ stage' = next /\ caseStatus' = IF next \in AgentStages THEN "active" ELSE "awaiting_human"
  BY DEF Typed, Advance
<1>2. next \in Stages /\ Position(next) = Position(stage) + 1
  BY <1>1, Names, Positions, Order
<1> HIDE DEF next
<1>3. Position(stage) \in Nat /\ \A s \in Stages : Position(s) \in Nat
  BY <1>1, Names, Positions
<1>4. next # stage
  BY <1>2, <1>3
<1>5. /\ step' \in [Stages -> StepStatuses] /\ step'[next] = "ready" /\ step'[stage] = "completed"
      /\ \A s \in Stages \ {stage, next} : step'[s] = step[s]
  BY <1>1, <1>2, <1>4 DEF StepStatuses
<1>6. \A s \in Stages : Before(s, next) => s = stage \/ Before(s, stage)
  BY <1>1, <1>2, <1>3, Linear DEF Before
<1>7. \A s \in Stages : Before(next, s) => Before(stage, s) /\ s # stage
  BY <1>2, <1>3 DEF Before
<1>8. \A s \in Stages : Before(s, next) => s # next
  BY <1>2, <1>3 DEF Before
<1>9. \A s \in Stages : Before(next, s) => s # next
  BY <1>2, <1>3 DEF Before
<1>10. \A s \in Stages : Before(s, next) => step'[s] = "completed"
  BY <1>5, <1>6, <1>8 DEF Placed
<1>11. \A s \in Stages : Before(next, s) => step'[s] = "pending"
  BY <1>5, <1>7, <1>9 DEF Placed
<1>12. Placed'
  BY <1>1, <1>10, <1>11 DEF Placed, Before
<1>13. caseStatus' \in {"active", "awaiting_human"} /\ Shown'
  BY <1>1, <1>5 DEF Shown
<1> QED
  BY <1>1, <1>2, <1>5, <1>12, <1>13 DEF CaseStatuses

-----------------------------------------------------------------------------
(* How a step leaves the Runs.                                             *)

\* The Runs stay Runs of their stages, under the Commitments they had.
SameRuns ==
    /\ runs' \in Seq(Run) /\ Len(runs') = Len(runs)
    /\ \A n \in DOMAIN runs : runs'[n].stage = runs[n].stage

RunStatuses == {"queued", "active"} \cup EndStatuses

\* One Run changes its status.
LEMMA OneRun ==
    ASSUME Typed, NEW n \in DOMAIN runs, NEW to \in RunStatuses, SetRun(n, to)
    PROVE  /\ SameRuns /\ DOMAIN runs' = DOMAIN runs /\ runs'[n].status = to
           /\ \A m \in DOMAIN runs : m # n => runs'[m] = runs[m]
<1>1. runs \in Seq(Run) /\ runs' = [runs EXCEPT ![n].status = to]
  BY DEF Typed, SetRun
<1> DEFINE row == [runs[n] EXCEPT !.status = to]
<1>2. runs[n] \in Run
  BY <1>1
<1>3. row \in Run /\ row.status = to /\ row.stage = runs[n].stage
  BY <1>2 DEF Run, RunStatuses
<1>4. runs' = [runs EXCEPT ![n] = row]
  BY <1>1
<1> HIDE DEF row
<1> QED
  BY <1>1, <1>3, <1>4 DEF SameRuns

LEMMA NoRun ==
    ASSUME Typed, UNCHANGED runs
    PROVE  SameRuns
BY DEF Typed, SameRuns

LEMMA NoFailureType == NoFailure \in Failures /\ NoFailure.class # "human"
BY DEF NoFailure, Failures, StepStatuses

LEMMA OwnedStays ==
    ASSUME Typed, Owned, SameRuns, UNCHANGED activeRun
    PROVE  Owned'
<1> SUFFICES ASSUME NEW s \in Stages, activeRun[s] # 0 PROVE runs'[activeRun[s]].stage = s
  BY DEF Owned
<1>1. activeRun[s] \in DOMAIN runs
  BY DEF Typed
<1> QED
  BY <1>1 DEF SameRuns, Owned

\* The case does not wait for a Run afterwards.
LEMMA Settled ==
    ASSUME ShapeInv, SameRuns, UNCHANGED activeRun, commitments' \in Seq(CommitmentStatuses),
           caseStatus' \in CaseStatuses, caseStatus' # "running", stage' \in Stages,
           step' \in [Stages -> StepStatuses], failure' \in Failures,
           Placed', Shown', Explained'
    PROVE  ShapeInv'
<1>1. Typed'
  BY DEF ShapeInv, Typed, SameRuns
<1>2. Owned'
  BY OwnedStays DEF ShapeInv
<1> QED
  BY <1>1, <1>2 DEF ShapeInv, Waiting

\* Nothing but Runs the case does not wait for, or a Run that goes on.
LEMMA Untouched ==
    ASSUME ShapeInv, SameRuns, UNCHANGED <<stepVars, activeRun>>,
           commitments' \in Seq(CommitmentStatuses),
           \A n \in DOMAIN runs :
               caseStatus = "running" /\ n = activeRun[stage] /\ Live(n) => Live(n)'
    PROVE  ShapeInv'
<1>1. UNCHANGED <<caseStatus, stage, step, failure>>
  BY DEF stepVars
<1>2. Typed'
  BY <1>1 DEF ShapeInv, Typed, SameRuns
<1>3. Owned'
  BY OwnedStays DEF ShapeInv
<1>4. Waiting'
  BY <1>1 DEF ShapeInv, Typed, Waiting
<1>5. Placed' /\ Shown' /\ Explained'
  BY <1>1 DEF ShapeInv, Placed, Before, Shown, Explained
<1> QED
  BY <1>2, <1>3, <1>4, <1>5 DEF ShapeInv

\* The current step is blocked.
LEMMA Blocked ==
    ASSUME ShapeInv, SameRuns, UNCHANGED activeRun, commitments' \in Seq(CommitmentStatuses),
           NEW why \in Failures, Block(stage, why),
           why.class = "human" /\ why.previous = "awaiting_human" => stage \in AgentStages
    PROVE  ShapeInv'
<1>1. /\ SetStep(stage, "blocked") /\ failure' = why /\ caseStatus' = "blocked" /\ stage' = stage
      /\ "blocked" \in StepStatuses
  BY DEF Block, StepStatuses
<1>2. step' \in [Stages -> StepStatuses] /\ step'[stage'] = "blocked" /\ Placed'
  BY <1>1, StepHere DEF ShapeInv
<1>3. Shown' /\ Explained' /\ caseStatus' \in CaseStatuses /\ stage' \in Stages
  BY <1>1, <1>2 DEF ShapeInv, Typed, Shown, Explained, CaseStatuses
<1> QED
  BY <1>1, <1>2, <1>3, Settled

\* A step of an Agent waits for people.
LEMMA Awaits ==
    ASSUME ShapeInv, SameRuns, UNCHANGED activeRun, commitments' \in Seq(CommitmentStatuses),
           stage \in AgentStages, AwaitHuman(stage), failure' = NoFailure
    PROVE  ShapeInv'
<1>1. /\ SetStep(stage, "awaiting_human") /\ caseStatus' = "awaiting_human" /\ stage' = stage
      /\ "awaiting_human" \in StepStatuses
  BY DEF AwaitHuman, StepStatuses
<1>2. step' \in [Stages -> StepStatuses] /\ step'[stage'] = "awaiting_human" /\ Placed'
  BY <1>1, StepHere DEF ShapeInv
<1>3. Shown' /\ Explained' /\ caseStatus' \in CaseStatuses /\ stage' \in Stages
  BY <1>1, <1>2, NoFailureType DEF ShapeInv, Typed, Shown, Explained, CaseStatuses
<1> QED
  BY <1>1, <1>2, <1>3, NoFailureType, Settled

\* The case goes on.
LEMMA GoesOn ==
    ASSUME ShapeInv, SameRuns, UNCHANGED activeRun, commitments' \in Seq(CommitmentStatuses),
           stage # "mo_retrospective", Advance(stage), failure' = NoFailure
    PROVE  ShapeInv'
<1>1. /\ step' \in [Stages -> StepStatuses] /\ step'[stage'] = "ready" /\ Placed'
      /\ stage' \in Stages /\ caseStatus' \in CaseStatuses /\ Shown' /\ caseStatus' # "running"
  BY StepOn DEF ShapeInv
<1>2. Explained'
  BY <1>1, NoFailureType DEF Explained
<1> QED
  BY <1>1, <1>2, NoFailureType, Settled

\* A Run is made for the current stage.
LEMMA Launched ==
    ASSUME ShapeInv, NEW s \in AgentStages, s = stage, NEW c \in Nat \ {0}, NewRun(s, c),
           stage' = stage, commitments' \in Seq(CommitmentStatuses)
    PROVE  /\ ShapeInv' /\ Len(runs') = Len(runs) + 1 /\ runs'[Len(runs) + 1].status = "queued"
           /\ \A n \in DOMAIN runs : n \in DOMAIN runs' /\ runs'[n] = runs[n]
           /\ DOMAIN runs' = DOMAIN runs \cup {Len(runs) + 1}
<1> DEFINE row == [stage |-> s, commitment |-> c, status |-> "queued"]
<1>1. /\ runs \in Seq(Run) /\ activeRun \in [Stages -> 0 .. Len(runs)] /\ s \in Stages
      /\ runs' = Append(runs, row) /\ activeRun' = [activeRun EXCEPT ![s] = Len(runs) + 1]
      /\ SetStep(s, "running") /\ failure' = NoFailure /\ caseStatus' = "running"
      /\ "running" \in StepStatuses
  BY DEF ShapeInv, Typed, NewRun, StepStatuses
<1>2. row \in Run /\ row.status = "queued" /\ row.stage = s
  BY DEF Run
<1> HIDE DEF row
<1>3. /\ runs' \in Seq(Run) /\ Len(runs') = Len(runs) + 1 /\ runs'[Len(runs) + 1] = row
      /\ \A n \in DOMAIN runs : n \in DOMAIN runs' /\ runs'[n] = runs[n]
      /\ DOMAIN runs' = DOMAIN runs \cup {Len(runs) + 1}
  BY <1>1, <1>2
<1>4. /\ activeRun' \in [Stages -> 0 .. Len(runs')] /\ activeRun'[s] = Len(runs) + 1
      /\ \A t \in Stages : t # s => activeRun'[t] = activeRun[t]
  BY <1>1, <1>3
<1>5. step' \in [Stages -> StepStatuses] /\ step'[stage'] = "running" /\ Placed'
  BY <1>1, StepHere DEF ShapeInv
<1>6. Typed'
  BY <1>1, <1>3, <1>4, <1>5, NoFailureType DEF ShapeInv, Typed, CaseStatuses
<1>7. Owned'
  <2> SUFFICES ASSUME NEW t \in Stages, activeRun'[t] # 0
               PROVE  runs'[activeRun'[t]].stage = t
    BY DEF Owned
  <2>1. CASE t = s
    BY <1>2, <1>3, <1>4, <2>1
  <2>2. CASE t # s
    <3>1. activeRun'[t] = activeRun[t] /\ activeRun[t] \in DOMAIN runs
      BY <1>1, <1>4, <2>2
    <3> QED
      BY <1>3, <3>1 DEF ShapeInv, Owned
  <2> QED
    BY <2>1, <2>2
<1>8. runs'[Len(runs) + 1].status = "queued"
  BY <1>2, <1>3
<1>9. Waiting'
  <2>1. activeRun'[stage'] = Len(runs) + 1 /\ Len(runs) \in Nat
    BY <1>1, <1>4
  <2> QED
    BY <1>8, <2>1 DEF Waiting, Live
<1>10. Shown' /\ Explained'
  BY <1>1, <1>5, NoFailureType DEF Shown, Explained
<1> QED
  BY <1>3, <1>5, <1>6, <1>7, <1>8, <1>9, <1>10 DEF ShapeInv

-----------------------------------------------------------------------------
(* Commands keep the shape of the case.                                    *)

LEMMA ShapeInit == Init => ShapeInv
<1> SUFFICES ASSUME Init PROVE ShapeInv
  OBVIOUS
<1>1. Typed
  BY Names, NoFailureType DEF Init, Typed, CaseStatuses, StepStatuses
<1>2. Placed
  BY Names, Positions DEF Init, Placed, Before
<1>3. Shown /\ Owned /\ Explained /\ Waiting
  BY Names, NoFailureType DEF Init, Shown, Owned, Explained, Waiting
<1> QED
  BY <1>1, <1>2, <1>3 DEF ShapeInv

\* Only the current step can be ready, running, blocked or awaiting people.
LEMMA Current ==
    ASSUME Typed, Placed, NEW s \in Stages, step[s] \notin {"pending", "completed"}
    PROVE  s = stage
BY Linear DEF Typed, Placed

\* What is done to the Commitment of a stage.
LEMMA SettleType ==
    ASSUME Typed, NEW c, NEW to \in CommitmentStatuses,
           commitments' \in {commitments, [commitments EXCEPT ![c] = to]}
    PROVE  commitments' \in Seq(CommitmentStatuses)
<1>1. commitments \in Seq(CommitmentStatuses)
  BY DEF Typed
<1>2. CASE commitments' = commitments
  BY <1>1, <1>2
<1>3. CASE commitments' = [commitments EXCEPT ![c] = to]
  <2> DEFINE n == Len(commitments)
  <2>1. n \in Nat /\ commitments \in [1..n -> CommitmentStatuses]
    BY <1>1
  <2> HIDE DEF n
  <2>2. commitments' \in [1..n -> CommitmentStatuses]
    BY <1>3, <2>1
  <2> QED
    BY <2>1, <2>2
<1> QED
  BY <1>2, <1>3

LEMMA StartShape ==
    ASSUME ShapeInv, NEW s \in AgentStages, Start(s)
    PROVE  /\ ShapeInv' /\ s = stage /\ stage' = stage /\ step[stage] = "ready"
           /\ NewRun(stage, Len(commitments) + 1)
<1>1. s = stage
  BY Current, Agents DEF ShapeInv, Start, CanStart
<1>2. /\ NewRun(s, Len(commitments) + 1) /\ stage' = stage
      /\ commitments' = Append(commitments, "accepted") /\ step[stage] = "ready"
  BY <1>1 DEF Start, CanStart
<1>3. commitments \in Seq(CommitmentStatuses) /\ "accepted" \in CommitmentStatuses
  BY DEF ShapeInv, Typed, CommitmentStatuses
<1>4. Len(commitments) + 1 \in Nat \ {0} /\ commitments' \in Seq(CommitmentStatuses)
  BY <1>2, <1>3
<1> QED
  BY <1>1, <1>2, <1>4, Launched

LEMMA ApproveShape ==
    ASSUME ShapeInv, NEW g \in Gates \ {"mo_retrospective"}, Approve(g)
    PROVE  ShapeInv' /\ step[stage] = GateStatus(stage) /\ stage = g
<1>1. stage = g /\ step[stage] = GateStatus(stage) /\ stage # "mo_retrospective"
  BY DEF Approve, CanApprove, AtGate
<1>2. UNCHANGED <<activeRun, runs, failure>> /\ Advance(stage)
  BY <1>1 DEF Approve, runVars
<1>3. commitments' \in Seq(CommitmentStatuses)
  BY SettleType DEF ShapeInv, Approve, Fulfill, CommitmentStatuses
<1>4. failure = NoFailure
  BY <1>1 DEF ShapeInv, Explained, GateStatus
<1> QED
  BY <1>1, <1>2, <1>3, <1>4, NoRun, GoesOn DEF ShapeInv

LEMMA AcceptShape ==
    ASSUME ShapeInv, AcceptRetrospective
    PROVE  /\ ShapeInv' /\ step' \in [Stages -> StepStatuses]
           /\ step'["mo_retrospective"] = "completed"
           /\ step[stage] = "awaiting_human" /\ stage = "mo_retrospective"
<1>1. stage = "mo_retrospective" /\ step[stage] = "awaiting_human"
  BY DEF AcceptRetrospective, CanAccept, AtGate, GateStatus, AgentStages
<1>2. /\ UNCHANGED <<activeRun, runs, failure>> /\ stage' = stage /\ caseStatus' = "completed"
      /\ SetStep(stage, "completed") /\ "completed" \in StepStatuses
  BY <1>1 DEF AcceptRetrospective, runVars, StepStatuses
<1>3. commitments' \in Seq(CommitmentStatuses)
  BY SettleType DEF ShapeInv, AcceptRetrospective, Fulfill, CommitmentStatuses
<1>4. failure = NoFailure
  BY <1>1 DEF ShapeInv, Explained
<1>5. step' \in [Stages -> StepStatuses] /\ step'[stage'] = "completed" /\ Placed'
  BY <1>2, StepHere DEF ShapeInv
<1>6. Shown' /\ Explained' /\ caseStatus' \in CaseStatuses /\ stage' \in Stages
  BY <1>1, <1>2, <1>4, <1>5, NoFailureType DEF ShapeInv, Typed, Shown, Explained, CaseStatuses
<1>7. ShapeInv'
  BY <1>2, <1>3, <1>4, <1>5, <1>6, NoFailureType, NoRun, Settled DEF ShapeInv
<1> QED
  BY <1>1, <1>2, <1>5, <1>7

LEMMA ReturnShape ==
    ASSUME ShapeInv, NEW g \in Gates, ReturnForRevision(g)
    PROVE  /\ ShapeInv' /\ step[stage] = GateStatus(stage) /\ stage = g
           /\ step'[stage'] = "ready" /\ caseStatus' = "active"
<1> DEFINE p == Producer[g]
<1>1. /\ stage = g /\ step[stage] = GateStatus(stage)
      /\ stage' = p /\ failure' = NoFailure /\ caseStatus' = "active" /\ UNCHANGED runs
      /\ step' = [s \in Stages |-> IF s = p THEN "ready" ELSE IF s = g THEN "pending" ELSE step[s]]
      /\ activeRun' = [activeRun EXCEPT ![p] = 0]
  BY DEF ReturnForRevision, CanReturn, AtGate
<1>2. /\ g \in Stages /\ p \in Stages
      /\ \A s \in Stages : Before(s, p) => Before(s, g) /\ s # p /\ s # g
      /\ \A s \in Stages : Before(p, s) => s # p /\ (s = g \/ Before(g, s))
  <2>1. CASE g = "mo_plan"
    BY <2>1, Names, Positions DEF Producer, Before
  <2>2. CASE g = "product_review"
    BY <2>2, Names, Positions DEF Producer, Before
  <2>3. CASE g = "content_review"
    BY <2>3, Names, Positions DEF Producer, Before
  <2>4. CASE g = "mo_retrospective"
    BY <2>4, Names, Positions DEF Producer, Before
  <2> QED
    BY <2>1, <2>2, <2>3, <2>4 DEF Gates, Producer
<1>3. commitments' \in Seq(CommitmentStatuses)
  BY SettleType DEF ShapeInv, ReturnForRevision, CommitmentStatuses
<1> HIDE DEF p
<1>4. step \in [Stages -> StepStatuses] /\ activeRun \in [Stages -> 0 .. Len(runs)]
      /\ Len(runs) \in Nat
  BY DEF ShapeInv, Typed
<1>5. step' \in [Stages -> StepStatuses] /\ step'[stage'] = "ready"
  BY <1>1, <1>2, <1>4 DEF StepStatuses
<1>6. \A s \in Stages : Before(s, p) => step'[s] = "completed"
  BY <1>1, <1>2 DEF ShapeInv, Placed
<1>7. \A s \in Stages : Before(p, s) => step'[s] = "pending"
  BY <1>1, <1>2 DEF ShapeInv, Placed
<1>8. Placed'
  BY <1>1, <1>6, <1>7 DEF Placed, Before
<1>9. activeRun' \in [Stages -> 0 .. Len(runs')]
  BY <1>1, <1>2, <1>4
<1>10. Typed'
  BY <1>1, <1>2, <1>3, <1>5, <1>9, NoFailureType DEF ShapeInv, Typed, CaseStatuses
<1>11. Owned'
  BY <1>1, <1>2, <1>4 DEF ShapeInv, Owned
<1>12. Shown' /\ Explained' /\ Waiting'
  BY <1>1, <1>5, NoFailureType DEF Shown, Explained, Waiting
<1> QED
  BY <1>1, <1>5, <1>8, <1>10, <1>11, <1>12 DEF ShapeInv

LEMMA MarchShape ==
    ASSUME ShapeInv, RecordSimulatedPublish \/ RecordSyntheticFeedback
    PROVE  ShapeInv' /\ step[stage] = "ready"
<1>1. /\ stage \in {"simulated_publish", "feedback"} /\ step[stage] = "ready" /\ Advance(stage)
      /\ UNCHANGED <<activeRun, runs, failure, commitments>>
  BY DEF RecordSimulatedPublish, CanPublish, RecordSyntheticFeedback, CanFeedback, runVars,
         recordVars
<1>2. failure = NoFailure /\ commitments' \in Seq(CommitmentStatuses)
  BY <1>1 DEF ShapeInv, Typed, Explained
<1> QED
  BY <1>1, <1>2, NoRun, GoesOn DEF ShapeInv

LEMMA HoldShape == ASSUME ShapeInv, HoldCase PROVE ShapeInv'
<1> DEFINE why == [class |-> "human", retry |-> "manual", run |-> "none", previous |-> step[stage]]
<1>1. Block(stage, why) /\ UNCHANGED <<activeRun, runs, commitments>>
  BY DEF HoldCase, runVars, recordVars
<1>2. why \in Failures /\ why.previous = step[stage] /\ commitments' \in Seq(CommitmentStatuses)
  BY <1>1 DEF ShapeInv, Typed, Failures
<1> HIDE DEF why
<1>3. why.previous = "awaiting_human" => stage \in AgentStages
  BY <1>2 DEF ShapeInv, Explained
<1> QED
  BY <1>1, <1>2, <1>3, NoRun, Blocked DEF ShapeInv

LEMMA ResumeShape ==
    ASSUME ShapeInv, ResumeCase
    PROVE  /\ ShapeInv' /\ step[stage] = "blocked" /\ failure.class = "human"
           /\ caseStatus' # "running" /\ failure' = NoFailure
<1> DEFINE back == IF failure.previous = "awaiting_human" THEN "awaiting_human" ELSE "ready"
<1>1. /\ step[stage] = "blocked" /\ failure.class = "human"
      /\ UNCHANGED <<stage, activeRun, runs, commitments>>
      /\ SetStep(stage, back) /\ failure' = NoFailure
      /\ caseStatus' = IF back = "awaiting_human" THEN "awaiting_human" ELSE "active"
  BY DEF ResumeCase, CanResume, runVars, recordVars
<1>2. /\ back \in {"awaiting_human", "ready"} /\ back \in StepStatuses
      /\ back = "awaiting_human" => stage \in AgentStages
  BY <1>1 DEF ShapeInv, Explained, StepStatuses
<1> HIDE DEF back
<1>3. step' \in [Stages -> StepStatuses] /\ step'[stage'] = back /\ Placed'
  BY <1>1, <1>2, StepHere DEF ShapeInv
<1>4. /\ Shown' /\ Explained' /\ caseStatus' \in CaseStatuses /\ caseStatus' # "running"
      /\ stage' \in Stages /\ commitments' \in Seq(CommitmentStatuses)
  BY <1>1, <1>2, <1>3, NoFailureType DEF ShapeInv, Typed, Shown, Explained, CaseStatuses
<1> QED
  BY <1>1, <1>3, <1>4, NoFailureType, NoRun, Settled DEF ShapeInv

\* What the three ways to speak about an unknown Run have in common.
LEMMA Reconciling ==
    ASSUME ShapeInv, Reconcile
    PROVE  /\ step[stage] = "blocked" /\ activeRun[stage] \in DOMAIN runs
           /\ runs[activeRun[stage]].status = "unknown" /\ stage \in AgentStages
           /\ caseStatus # "running" /\ reconciled' = reconciled \cup {activeRun[stage]}
           /\ UNCHANGED <<activeRun, runs, commitments>> /\ SameRuns
           /\ commitments' \in Seq(CommitmentStatuses)
<1>1. /\ step[stage] = "blocked" /\ activeRun[stage] # 0
      /\ runs[activeRun[stage]].status = "unknown"
      /\ reconciled' = reconciled \cup {activeRun[stage]}
      /\ UNCHANGED <<activeRun, runs, commitments>>
  BY DEF Reconcile, CanResolve, runVars
<1>2. activeRun[stage] \in DOMAIN runs /\ stage \in Stages /\ runs \in Seq(Run)
  BY <1>1 DEF ShapeInv, Typed
<1>3. runs[activeRun[stage]] \in Run
  BY <1>2
<1>4. stage \in AgentStages
  BY <1>1, <1>2, <1>3 DEF ShapeInv, Owned, Run
<1> QED
  BY <1>1, <1>2, <1>4, NoRun DEF ShapeInv, Typed, Shown

LEMMA ReconciledType ==
    ASSUME failure \in Failures,
           failure' = [failure EXCEPT !.class = "reconciled", !.retry = "safe", !.run = "confirmed"]
    PROVE  failure' \in Failures /\ failure'.class = "reconciled" /\ failure'.retry = "safe"
           /\ failure'.run = "confirmed"
<1> DEFINE x == [failure EXCEPT !.class = "reconciled"]
           y == [x EXCEPT !.retry = "safe"]
<1>1. x \in Failures /\ x.class = "reconciled"
  BY DEF Failures
<1>2. failure' = [y EXCEPT !.run = "confirmed"]
  OBVIOUS
<1> HIDE DEF x
<1>3. y \in Failures /\ y.class = x.class /\ y.retry = "safe"
  BY <1>1 DEF Failures
<1> HIDE DEF y
<1>4. /\ [y EXCEPT !.run = "confirmed"] \in Failures
      /\ [y EXCEPT !.run = "confirmed"].class = y.class
      /\ [y EXCEPT !.run = "confirmed"].retry = y.retry
      /\ [y EXCEPT !.run = "confirmed"].run = "confirmed"
  BY <1>3 DEF Failures
<1> QED
  BY <1>1, <1>2, <1>3, <1>4

LEMMA ResolveShape ==
    ASSUME ShapeInv, ResolveAsNotDone \/ ResolveAsAbandoned \/ ResolveAsSucceeded
    PROVE  ShapeInv'
<1>1. CASE ResolveAsNotDone
  <2>1. Reconcile /\ UNCHANGED <<caseStatus, stage, step>>
        /\ failure' = [failure EXCEPT !.class = "reconciled", !.retry = "safe", !.run = "confirmed"]
    BY <1>1 DEF ResolveAsNotDone
  <2>2. failure' \in Failures /\ failure'.class = "reconciled"
    BY <2>1, ReconciledType DEF ShapeInv, Typed
  <2>3. Placed' /\ Shown'
    BY <2>1 DEF ShapeInv, Placed, Before, Shown
  <2>4. Explained'
    BY <2>1, <2>2, Reconciling DEF Explained
  <2> QED
    BY <2>1, <2>2, <2>3, <2>4, Reconciling, Settled DEF ShapeInv, Typed
<1>2. CASE ResolveAsAbandoned
  <2>1. Reconcile /\ UNCHANGED <<stage, step, failure>> /\ caseStatus' = "cancelled"
    BY <1>2 DEF ResolveAsAbandoned
  <2>2. Placed' /\ Shown' /\ Explained'
    BY <2>1, Reconciling DEF ShapeInv, Placed, Before, Shown, Explained
  <2> QED
    BY <2>1, <2>2, Reconciling, Settled DEF ShapeInv, Typed, CaseStatuses
<1>3. CASE ResolveAsSucceeded
  <2>1. /\ Reconcile /\ failure' = NoFailure
        /\ IF stage \in Gates THEN AwaitHuman(stage) ELSE Advance(stage)
    BY <1>3 DEF ResolveAsSucceeded
  <2>2. "mo_retrospective" \in Gates
    BY DEF Gates, Producer
  <2> QED
    BY <2>1, <2>2, Reconciling, Awaits, GoesOn
<1> QED
  BY <1>1, <1>2, <1>3

LEMMA RetryShape ==
    ASSUME ShapeInv, RetrySafeStep
    PROVE  /\ ShapeInv' /\ stage' = stage /\ step[stage] = "blocked" /\ failure.retry = "safe"
           /\ stage \in AgentStages /\ UNCHANGED <<deliverable, reconciled>>
           /\ \E c \in Nat \ {0} : NewRun(stage, c)
<1>1. /\ step[stage] = "blocked" /\ failure.retry = "safe" /\ activeRun[stage] # 0
      /\ NewRun(stage, runs[activeRun[stage]].commitment)
      /\ UNCHANGED <<stage, commitments, reconciled, deliverable>>
  BY DEF RetrySafeStep, CanRetry, recordVars
<1>2. activeRun[stage] \in DOMAIN runs /\ stage \in Stages /\ runs \in Seq(Run)
  BY <1>1 DEF ShapeInv, Typed
<1>3. runs[activeRun[stage]] \in Run
  BY <1>2
<1>4. stage \in AgentStages /\ runs[activeRun[stage]].commitment \in Nat \ {0}
  BY <1>1, <1>2, <1>3 DEF ShapeInv, Owned, Run
<1>5. commitments' \in Seq(CommitmentStatuses)
  BY <1>1 DEF ShapeInv, Typed
<1> QED
  BY <1>1, <1>4, <1>5, Launched

-----------------------------------------------------------------------------
(* Runs keep the shape of the case.                                        *)

\* A Run the case waits for is one of the current stage.
LEMMA WatchedHere ==
    ASSUME ShapeInv, NEW n \in DOMAIN runs
    PROVE  /\ runs[n].stage \in AgentStages
           /\ Watched(n) => runs[n].stage = stage /\ activeRun[stage] = n
           /\ caseStatus = "running" /\ activeRun[stage] = n => Watched(n)
<1>1. runs \in Seq(Run) /\ n # 0 /\ activeRun \in [Stages -> 0 .. Len(runs)] /\ stage \in Stages
  BY DEF ShapeInv, Typed
<1>2. runs[n] \in Run
  BY <1>1
<1>3. runs[n].stage \in AgentStages /\ runs[n].stage \in Stages
  BY <1>2, Agents DEF Run
<1>4. ASSUME Watched(n) PROVE runs[n].stage = stage /\ activeRun[stage] = n
  BY <1>3, <1>4, Current DEF ShapeInv, Watched
<1>5. ASSUME caseStatus = "running", activeRun[stage] = n PROVE Watched(n)
  BY <1>1, <1>5 DEF ShapeInv, Shown, Owned, Watched
<1> QED
  BY <1>3, <1>4, <1>5

LEMMA FailureShape ==
    ASSUME ShapeInv, NEW n \in DOMAIN runs, NEW to \in {"failed", "cancelled", "unknown"},
           NEW retry \in {"safe", "unsafe"}, SetRun(n, to), SyncFailure(n, to, retry),
           UNCHANGED <<activeRun, commitments>>
    PROVE  ShapeInv'
<1>1. /\ SameRuns /\ \A m \in DOMAIN runs : m # n => runs'[m] = runs[m]
      /\ commitments' \in Seq(CommitmentStatuses)
  BY OneRun DEF ShapeInv, Typed, RunStatuses, EndStatuses
<1>2. CASE Watched(n)
  <2> DEFINE why == [class |-> "run", retry |-> retry, run |-> to, previous |-> "ready"]
  <2>1. Block(stage, why)
    BY <1>2, WatchedHere DEF SyncFailure
  <2>2. why \in Failures /\ why.class # "human"
    BY DEF Failures, StepStatuses
  <2> HIDE DEF why
  <2> QED
    BY <1>1, <2>1, <2>2, Blocked
<1>3. CASE ~Watched(n)
  <2>1. UNCHANGED <<stepVars, activeRun>>
    BY <1>3 DEF SyncFailure
  <2>2. ASSUME NEW m \in DOMAIN runs, caseStatus = "running", m = activeRun[stage], Live(m)
        PROVE  Live(m)'
    BY <1>1, <1>3, <2>2, WatchedHere DEF Live
  <2> QED
    BY <1>1, <2>1, <2>2, Untouched
<1> QED
  BY <1>2, <1>3

LEMMA SuccessShape ==
    ASSUME ShapeInv, NEW n \in DOMAIN runs, NEW made \in Outputs(runs[n].stage),
           RunSucceeds(n, made)
    PROVE  ShapeInv'
<1>1. SetRun(n, "evidence_accepted") /\ SyncSuccess(n, made) /\ UNCHANGED activeRun
  BY DEF RunSucceeds
<1>2. SameRuns /\ \A m \in DOMAIN runs : m # n => runs'[m] = runs[m]
  BY <1>1, OneRun DEF ShapeInv, RunStatuses, EndStatuses
<1>3. commitments' \in Seq(CommitmentStatuses)
  BY SettleType DEF ShapeInv, RunSucceeds, CommitmentStatuses
<1>4. CASE Watched(n)
  <2>1. runs[n].stage = stage /\ stage \in AgentStages
    BY <1>4, WatchedHere
  <2>2. \/ Block(stage, Incomplete)
        \/ failure' = NoFailure /\ AwaitHuman(stage)
        \/ failure' = NoFailure /\ stage \notin Gates /\ Advance(stage)
    BY <1>1, <1>4, <2>1 DEF SyncSuccess
  <2>3. Incomplete \in Failures /\ Incomplete.class # "human"
    BY DEF Incomplete, Failures, StepStatuses
  <2>4. "mo_retrospective" \in Gates
    BY DEF Gates, Producer
  <2> QED
    BY <1>1, <1>2, <1>3, <2>1, <2>2, <2>3, <2>4, Blocked, Awaits, GoesOn
<1>5. CASE ~Watched(n)
  <2>1. UNCHANGED <<stepVars, activeRun>>
    BY <1>1, <1>5 DEF SyncSuccess
  <2>2. ASSUME NEW m \in DOMAIN runs, caseStatus = "running", m = activeRun[stage], Live(m)
        PROVE  Live(m)'
    BY <1>2, <1>5, <2>2, WatchedHere DEF Live
  <2> QED
    BY <1>2, <1>3, <2>1, <2>2, Untouched
<1> QED
  BY <1>4, <1>5

\* A Run is claimed, or given back.
LEMMA GoesOnRunning ==
    ASSUME ShapeInv, NEW n \in DOMAIN runs, ClaimRun(n) \/ RequeueRun(n)
    PROVE  ShapeInv'
<1>1. PICK to \in {"queued", "active"} :
         SetRun(n, to) /\ UNCHANGED <<stepVars, activeRun, commitments>>
  BY DEF ClaimRun, RequeueRun, recordVars
<1>2. /\ SameRuns /\ runs'[n].status = to /\ \A m \in DOMAIN runs : m # n => runs'[m] = runs[m]
      /\ commitments' \in Seq(CommitmentStatuses)
  BY <1>1, OneRun DEF ShapeInv, Typed, RunStatuses
<1>3. \A m \in DOMAIN runs : Live(m) => Live(m)'
  BY <1>2 DEF Live
<1> QED
  BY <1>1, <1>2, <1>3, Untouched

LEMMA CancelCaseShape == ASSUME ShapeInv, CancelCase PROVE ShapeInv'
<1> DEFINE n == activeRun[stage]
<1>1. /\ UNCHANGED <<activeRun, commitments>> /\ commitments' \in Seq(CommitmentStatuses)
      /\ stage \in Stages /\ runs \in Seq(Run)
  BY DEF CancelCase, recordVars, ShapeInv, Typed
<1>2. CASE n # 0 /\ Live(n)
  <2>1. n \in DOMAIN runs
    BY <1>1, <1>2 DEF ShapeInv, Typed
  <2>2. CASE SetRun(n, "cancelled") /\ SyncFailure(n, "cancelled", "unsafe")
    BY <1>1, <2>1, <2>2, FailureShape
  <2>3. CASE Block(stage, [class |-> "cancel_asked", retry |-> "unsafe",
                           run |-> "none", previous |-> "ready"]) /\ UNCHANGED runs
    <3> DEFINE why == [class |-> "cancel_asked", retry |-> "unsafe", run |-> "none",
                       previous |-> "ready"]
    <3>1. why \in Failures /\ why.class # "human" /\ Block(stage, why)
      BY <2>3 DEF Failures, StepStatuses
    <3> HIDE DEF why
    <3> QED
      BY <1>1, <2>3, <3>1, NoRun, Blocked DEF ShapeInv
  <2> QED
    BY <1>2, <2>2, <2>3 DEF CancelCase
<1>3. CASE ~(n # 0 /\ Live(n))
  <2>1. caseStatus' = "cancelled" /\ UNCHANGED <<stage, step, failure, runs>>
    BY <1>3 DEF CancelCase
  <2>2. caseStatus # "running"
    BY <1>3 DEF ShapeInv, Waiting
  <2>3. step[stage] # "running"
    <3>1. caseStatus = "completed" => step[stage] \in {"completed"}
      <4>1. stage = "mo_retrospective" \/ Before(stage, "mo_retrospective")
        BY <1>1, Names, Positions DEF Before
      <4> QED
        BY <1>1, <4>1, Agents DEF ShapeInv, Placed, Shown
    <3> QED
      BY <2>2, <3>1 DEF ShapeInv, Typed, CaseStatuses, Shown
  <2>4. Placed' /\ Shown' /\ Explained'
    BY <2>1, <2>3 DEF ShapeInv, Placed, Before, Shown, Explained
  <2> QED
    BY <1>1, <2>1, <2>4, NoRun, Settled DEF ShapeInv, Typed, CaseStatuses
<1> QED
  BY <1>2, <1>3

\* What happens to the case from outside: its publish task is filed, a
\* Commitment moved, or nothing.
Elsewhere ==
    /\ UNCHANGED <<caseStatus, stage, step, failure, activeRun, commitmentOf, runs, items,
                   approved, handoff, reconciled, deliverable>>
    /\ task' = task \/ (task' = "filed" /\ TaskFiled)
    /\ \/ UNCHANGED commitments
       \/ \E c \in DOMAIN commitments : commitments' = [commitments EXCEPT ![c] = "moved"]

LEMMA Steps ==
    ASSUME [Next]_vars
    PROVE  Command \/ RunStep \/ Elsewhere
<1>1. CASE UNCHANGED caseVars
  BY <1>1 DEF caseVars, stepVars, runVars, recordVars, Elsewhere
<1>2. CASE FileTask
  BY <1>2 DEF FileTask, stepVars, runVars, Elsewhere
<1>3. ASSUME NEW c \in DOMAIN commitments, MoveCommitment(c) PROVE Elsewhere
  BY <1>3 DEF MoveCommitment, stepVars, runVars, Elsewhere
<1> QED
  BY <1>1, <1>2, <1>3 DEF Next, CaseStep, SwitchExecution, vars

\* What Elsewhere makes of the Commitments.
LEMMA Moves ==
    ASSUME Typed, Elsewhere
    PROVE  /\ commitments' \in Seq(CommitmentStatuses)
           /\ Len(commitments') = Len(commitments) /\ DOMAIN commitments' = DOMAIN commitments
           /\ \A d \in DOMAIN commitments :
                  commitments'[d] = commitments[d] \/ commitments'[d] = "moved"
<1>1. commitments \in Seq(CommitmentStatuses) /\ "moved" \in CommitmentStatuses
  BY DEF Typed, CommitmentStatuses
<1>2. ASSUME NEW c \in DOMAIN commitments, commitments' = [commitments EXCEPT ![c] = "moved"]
      PROVE  /\ commitments' \in Seq(CommitmentStatuses)
             /\ Len(commitments') = Len(commitments) /\ DOMAIN commitments' = DOMAIN commitments
             /\ \A d \in DOMAIN commitments :
                    commitments'[d] = commitments[d] \/ commitments'[d] = "moved"
  BY <1>1, <1>2
<1> QED
  BY <1>1, <1>2 DEF Elsewhere

LEMMA ShapeStep == ASSUME ShapeInv, [Next]_vars PROVE ShapeInv'
<1>1. CASE Elsewhere
  <2>1. UNCHANGED <<stepVars, activeRun, runs>>
    BY <1>1 DEF stepVars, Elsewhere
  <2>2. commitments' \in Seq(CommitmentStatuses)
    BY <1>1, Moves DEF ShapeInv
  <2>3. \A n \in DOMAIN runs : Live(n) => Live(n)'
    BY <2>1 DEF Live
  <2> QED
    BY <2>1, <2>2, <2>3, NoRun, Untouched DEF ShapeInv
<1>2. CASE Command
  BY <1>2, StartShape, ApproveShape, AcceptShape, ReturnShape, MarchShape, HoldShape,
     ResumeShape, ResolveShape, RetryShape, CancelCaseShape DEF Command
<1>3. ASSUME NEW n \in DOMAIN runs, CancelRun(n) PROVE ShapeInv'
  <2>1. /\ SetRun(n, "cancelled") /\ SyncFailure(n, "cancelled", "unsafe")
        /\ UNCHANGED <<activeRun, commitments>>
    BY <1>3 DEF CancelRun, recordVars
  <2> QED
    BY <2>1, FailureShape
<1>4. ASSUME NEW n \in DOMAIN runs, NEW to \in {"failed", "cancelled", "unknown"},
             NEW retry \in {"safe", "unsafe"}, RunFails(n, to, retry)
      PROVE  ShapeInv'
  <2>1. /\ SetRun(n, to) /\ SyncFailure(n, to, retry) /\ UNCHANGED <<activeRun, commitments>>
    BY <1>4 DEF RunFails, recordVars
  <2> QED
    BY <2>1, FailureShape
<1>5. CASE RunStep
  BY <1>3, <1>4, <1>5, GoesOnRunning, SuccessShape DEF RunStep
<1> QED
  BY <1>1, <1>2, <1>5, Steps

-----------------------------------------------------------------------------
(* The Runs of the case, as long as "hold" is sent only where it is offered. *)

\* Where the current step is neither running nor blocked, no Run is alive, and
\* every unknown one has been spoken about.
LEMMA Idle ==
    ASSUME CaseInv, step[stage] \notin {"running", "blocked"}
    PROVE  \A n \in DOMAIN runs : ~Live(n) /\ (runs[n].status = "unknown" => n \in reconciled)
BY DEF CaseInv, ShapeInv, RunsInv, Shown, Awaited, Unresolved

\* A step that may be retried has no Run to wait for.
LEMMA Repeatable ==
    ASSUME CaseInv, step[stage] = "blocked", failure.retry = "safe"
    PROVE  \A n \in DOMAIN runs : ~Live(n) /\ (runs[n].status = "unknown" => n \in reconciled)
BY DEF CaseInv, ShapeInv, RunsInv, Shown, Awaited, Unresolved

\* An accepted plan closes the stage the case has come to.
LEMMA ClosedHere ==
    ASSUME CaseInv, deliverable = "accepted"
    PROVE  stage = "mo_retrospective" /\ step[stage] = "completed"
<1>1. step["mo_retrospective"] = "completed" /\ stage \in Stages
  BY DEF CaseInv, ShapeInv, RunsInv, Typed, Closed
<1>2. stage = "mo_retrospective" \/ Before(stage, "mo_retrospective")
  BY <1>1, Names, Positions DEF Before
<1> QED
  BY <1>1, <1>2, Agents DEF CaseInv, ShapeInv, Placed

\* No Run is alive before or after.
LEMMA NoneAlive ==
    ASSUME CaseInv, UNCHANGED runs, \A n \in DOMAIN runs : ~Live(n),
           reconciled \subseteq reconciled', Unresolved', Closed'
    PROVE  RunsInv'
<1>1. Awaited'
  BY DEF Awaited, Live
<1>2. NoRerunOfUnknown'
  BY DEF CaseInv, RunsInv, NoRerunOfUnknown
<1> QED
  BY <1>1, <1>2 DEF RunsInv

\* A command of people while no Run is alive and none is open.
LEMMA IdleCommand ==
    ASSUME CaseInv, UNCHANGED <<runs, reconciled>>, step[stage] \notin {"running", "blocked"}, Closed'
    PROVE  RunsInv'
<1>1. Unresolved'
  BY Idle DEF Unresolved
<1> QED
  BY <1>1, Idle, NoneAlive

\* A Run is made.
LEMMA LaunchedRuns ==
    ASSUME CaseInv, NEW c \in Nat \ {0}, NewRun(stage, c), stage \in AgentStages, ShapeInv',
           UNCHANGED <<stage, reconciled, deliverable>>, step[stage] # "completed",
           \A n \in DOMAIN runs : ~Live(n) /\ (runs[n].status = "unknown" => n \in reconciled)
    PROVE  RunsInv'
<1> DEFINE row == [stage |-> stage, commitment |-> c, status |-> "queued"]
           last == Len(runs) + 1
<1>1. /\ runs \in Seq(Run) /\ activeRun \in [Stages -> 0 .. Len(runs)] /\ stage \in Stages
      /\ runs' = Append(runs, row) /\ activeRun' = [activeRun EXCEPT ![stage] = last]
      /\ caseStatus' = "running"
  BY DEF CaseInv, ShapeInv, Typed, NewRun
<1>2. row.status = "queued" /\ row.stage = stage
  OBVIOUS
<1> HIDE DEF row
<1>3. /\ Len(runs') = last /\ runs'[last] = row /\ DOMAIN runs' = DOMAIN runs \cup {last}
      /\ last \in Nat /\ \A n \in DOMAIN runs : runs'[n] = runs[n] /\ n < last
  BY <1>1
<1>4. activeRun'[stage] = last
  BY <1>1
<1> HIDE DEF last
<1>5. Awaited'
  <2> SUFFICES ASSUME NEW n \in DOMAIN runs', runs'[n].status \in {"queued", "active"}
               PROVE  n = last
    BY <1>1, <1>2, <1>3, <1>4 DEF Awaited, Live
  <2> QED
    BY <1>3 DEF Live
<1>6. \A n \in DOMAIN runs' : runs'[n].status = "unknown" => n \in DOMAIN runs /\ n \in reconciled
  BY <1>2, <1>3
<1>7. Unresolved' /\ NoRerunOfUnknown'
  BY <1>6 DEF Unresolved, NoRerunOfUnknown
<1>8. Closed'
  BY ClosedHere DEF Closed
<1> QED
  BY <1>5, <1>7, <1>8 DEF RunsInv

\* A Run ends: it was the one the case waits for.
LEMMA EndedRuns ==
    ASSUME CaseInv, NEW n \in DOMAIN runs, Live(n), NEW to \in EndStatuses, SetRun(n, to),
           UNCHANGED <<activeRun, reconciled>>, deliverable' # "accepted",
           to = "unknown" => /\ stage' = stage /\ step'[stage] = "blocked"
                             /\ failure'.class = "run" /\ failure'.retry = "unsafe"
    PROVE  RunsInv'
<1>1. /\ DOMAIN runs' = DOMAIN runs /\ runs'[n].status = to /\ runs'[n].stage = runs[n].stage
      /\ \A m \in DOMAIN runs : m # n => runs'[m] = runs[m]
      /\ runs \in Seq(Run) /\ DOMAIN runs = 1 .. Len(runs)
  <2>1. Typed /\ to \in RunStatuses
    BY DEF CaseInv, ShapeInv, RunStatuses
  <2>2. /\ SameRuns /\ DOMAIN runs' = DOMAIN runs /\ runs'[n].status = to
        /\ \A m \in DOMAIN runs : m # n => runs'[m] = runs[m]
    BY <2>1, OneRun
  <2>3. runs \in Seq(Run)
    BY <2>1 DEF Typed
  <2> QED
    BY <2>2, <2>3 DEF SameRuns
<1>2. n = Len(runs) /\ activeRun[stage] = n /\ \A m \in DOMAIN runs : Live(m) => m = n
  BY DEF CaseInv, RunsInv, Awaited
<1>3. Awaited'
  BY <1>1, <1>2 DEF Awaited, Live, EndStatuses
<1>4. \A m \in DOMAIN runs : m # n /\ runs[m].status = "unknown" => m \in reconciled
  BY <1>2 DEF CaseInv, RunsInv, Unresolved
<1>5. Unresolved'
  BY <1>1, <1>2, <1>4 DEF Unresolved
<1>6. NoRerunOfUnknown'
  <2> SUFFICES ASSUME NEW k \in DOMAIN runs, NEW m \in DOMAIN runs, k < m,
                      runs'[k].status = "unknown"
               PROVE  k \in reconciled
    BY <1>1 DEF NoRerunOfUnknown
  <2>1. k # n
    BY <1>1, <1>2
  <2> QED
    BY <1>1, <1>4, <2>1
<1>7. Closed'
  BY DEF Closed
<1> QED
  BY <1>3, <1>5, <1>6, <1>7 DEF RunsInv

\* The case does wait for a Run that is alive.
LEMMA AliveWatched ==
    ASSUME CaseInv, NEW n \in DOMAIN runs, Live(n)
    PROVE  /\ Watched(n) /\ runs[n].stage = stage /\ activeRun[stage] = n
           /\ deliverable # "accepted"
<1>1. runs[n].stage = stage /\ activeRun[stage] = n /\ caseStatus \in {"running", "blocked"}
  BY DEF CaseInv, RunsInv, Awaited
<1>2. step[stage] \in {"running", "blocked"}
  BY <1>1 DEF CaseInv, ShapeInv, Shown
<1> QED
  BY <1>1, <1>2, ClosedHere DEF Watched

\* A Run fails, is cancelled or is lost.
LEMMA FailedRuns ==
    ASSUME CaseInv, NEW n \in DOMAIN runs, Live(n),
           NEW to \in {"failed", "cancelled", "unknown"}, NEW retry \in {"safe", "unsafe"},
           retry = "safe" => to = "failed", SetRun(n, to), SyncFailure(n, to, retry),
           UNCHANGED <<activeRun, reconciled, deliverable>>
    PROVE  RunsInv'
<1> DEFINE why == [class |-> "run", retry |-> retry, run |-> to, previous |-> "ready"]
<1>1. Block(stage, why) /\ deliverable # "accepted"
  BY AliveWatched DEF SyncFailure
<1>2. /\ stage' = stage /\ failure'.class = "run" /\ failure'.retry = retry
      /\ step' = [step EXCEPT ![stage] = "blocked"]
  BY <1>1 DEF Block, SetStep
<1>3. step'[stage] = "blocked"
  BY <1>2 DEF CaseInv, ShapeInv, Typed
<1>4. to \in EndStatuses
  BY DEF EndStatuses
<1>5. to = "unknown" => retry = "unsafe"
  OBVIOUS
<1> QED
  BY <1>1, <1>2, <1>3, <1>4, <1>5, EndedRuns

LEMMA SucceededRuns ==
    ASSUME CaseInv, NEW n \in DOMAIN runs, NEW made \in Outputs(runs[n].stage),
           RunSucceeds(n, made)
    PROVE  RunsInv'
<1>1. /\ Live(n) /\ SetRun(n, "evidence_accepted") /\ SyncSuccess(n, made)
      /\ UNCHANGED <<activeRun, reconciled>>
  BY DEF RunSucceeds, Live
<1>2. deliverable' \in {deliverable, "draft", "unsound"} /\ deliverable # "accepted"
  BY <1>1, AliveWatched DEF SyncSuccess
<1>3. "evidence_accepted" \in EndStatuses
  BY DEF EndStatuses
<1> QED
  BY <1>1, <1>2, <1>3, EndedRuns

\* A Run is claimed, or given back.
LEMMA RunningRuns ==
    ASSUME CaseInv, NEW n \in DOMAIN runs, ClaimRun(n) \/ RequeueRun(n)
    PROVE  RunsInv'
<1>1. PICK to \in {"queued", "active"} :
         /\ SetRun(n, to) /\ Live(n)
         /\ UNCHANGED <<caseStatus, stage, step, failure, activeRun, reconciled, deliverable>>
  BY DEF ClaimRun, RequeueRun, recordVars, stepVars, Live
<1>2. /\ DOMAIN runs' = DOMAIN runs /\ Len(runs') = Len(runs) /\ runs'[n].status = to
      /\ \A m \in DOMAIN runs : runs'[m].stage = runs[m].stage
      /\ \A m \in DOMAIN runs : m # n => runs'[m] = runs[m]
  <2>1. Typed /\ to \in RunStatuses
    BY DEF CaseInv, ShapeInv, RunStatuses
  <2> QED
    BY <1>1, <2>1, OneRun DEF SameRuns
<1>3. \A m \in DOMAIN runs : /\ Live(m)' => Live(m)
                             /\ runs'[m].status = "unknown" => runs[m].status = "unknown"
  BY <1>1, <1>2 DEF Live
<1>4. Awaited'
  <2> SUFFICES ASSUME NEW m \in DOMAIN runs, runs'[m].status \in {"queued", "active"}
               PROVE  /\ m = Len(runs) /\ activeRun[stage] = m /\ runs'[m].stage = stage
                      /\ \/ caseStatus = "running"
                         \/ /\ caseStatus = "blocked"
                            /\ failure.class = "cancel_asked" /\ failure.retry = "unsafe"
    BY <1>1, <1>2 DEF Awaited, Live
  <2>1. Live(m)
    <3>1. CASE m = n
      BY <1>1, <3>1
    <3>2. CASE m # n
      BY <1>2, <3>2 DEF Live
    <3> QED
      BY <3>1, <3>2
  <2>2. runs'[m].stage = runs[m].stage
    BY <1>2
  <2> QED
    BY <2>1, <2>2 DEF CaseInv, RunsInv, Awaited
<1>5. Unresolved' /\ Closed'
  BY <1>1, <1>2, <1>3 DEF CaseInv, RunsInv, Unresolved, Closed
<1>6. NoRerunOfUnknown'
  BY <1>1, <1>2, <1>3 DEF CaseInv, RunsInv, NoRerunOfUnknown
<1> QED
  BY <1>4, <1>5, <1>6 DEF RunsInv

LEMMA CancelCaseRuns == ASSUME CaseInv, CancelCase PROVE RunsInv'
<1> DEFINE n == activeRun[stage]
<1>1. UNCHANGED <<activeRun, reconciled, deliverable>>
  BY DEF CancelCase, recordVars
<1>2. CASE n # 0 /\ Live(n)
  <2>1. n \in DOMAIN runs
    BY <1>2 DEF CaseInv, ShapeInv, Typed
  <2>2. CASE SetRun(n, "cancelled") /\ SyncFailure(n, "cancelled", "unsafe")
    BY <1>1, <1>2, <2>1, <2>2, FailedRuns
  <2>3. CASE Block(stage, [class |-> "cancel_asked", retry |-> "unsafe",
                           run |-> "none", previous |-> "ready"]) /\ UNCHANGED runs
    <3>1. /\ stage' = stage /\ caseStatus' = "blocked" /\ failure'.class = "cancel_asked"
          /\ failure'.retry = "unsafe" /\ deliverable # "accepted"
      BY <1>2, <2>1, <2>3, AliveWatched DEF Block
    <3>2. Awaited'
      BY <1>1, <2>3, <3>1 DEF CaseInv, RunsInv, Awaited, Live
    <3>3. \A m \in DOMAIN runs : runs[m].status = "unknown" => m \in reconciled
      BY <1>2 DEF CaseInv, RunsInv, Unresolved, Live
    <3>4. Unresolved' /\ Closed'
      BY <1>1, <2>3, <3>1, <3>3 DEF Unresolved, Closed
    <3>5. NoRerunOfUnknown'
      BY <1>1, <2>3 DEF CaseInv, RunsInv, NoRerunOfUnknown
    <3> QED
      BY <3>2, <3>4, <3>5 DEF RunsInv
  <2> QED
    BY <1>2, <2>2, <2>3 DEF CancelCase
<1>3. CASE ~(n # 0 /\ Live(n))
  <2>1. UNCHANGED <<stage, step, failure, runs>>
    BY <1>3 DEF CancelCase
  <2>2. \A m \in DOMAIN runs : ~Live(m)
    <3> SUFFICES ASSUME NEW m \in DOMAIN runs, Live(m) PROVE FALSE
      OBVIOUS
    <3>1. m = n /\ m # 0
      BY AliveWatched DEF CaseInv, ShapeInv, Typed
    <3> QED
      BY <1>3, <3>1
  <2>3. Unresolved' /\ Closed'
    BY <1>1, <2>1 DEF CaseInv, RunsInv, Unresolved, Closed
  <2> QED
    BY <1>1, <2>1, <2>2, <2>3, NoneAlive
<1> QED
  BY <1>2, <1>3

LEMMA ResolveRuns ==
    ASSUME CaseInv, ResolveAsNotDone \/ ResolveAsAbandoned \/ ResolveAsSucceeded
    PROVE  RunsInv'
<1>1. Reconcile /\ deliverable' \in {deliverable, "draft"}
  BY DEF ResolveAsNotDone, ResolveAsAbandoned, ResolveAsSucceeded
<1> DEFINE n == activeRun[stage]
<1>2. /\ step[stage] = "blocked" /\ n \in DOMAIN runs /\ runs[n].status = "unknown"
      /\ reconciled' = reconciled \cup {n} /\ UNCHANGED <<activeRun, runs>>
  BY <1>1, Reconciling DEF CaseInv
<1>3. \A m \in DOMAIN runs : ~Live(m)
  BY <1>2, AliveWatched DEF Live
<1>4. Unresolved'
  BY <1>2 DEF CaseInv, RunsInv, Unresolved
<1>5. Closed'
  BY <1>1, <1>2, ClosedHere DEF Closed
<1> QED
  BY <1>2, <1>3, <1>4, <1>5, NoneAlive

LEMMA HoldRuns == ASSUME CaseInv, "hold" \notin Strays, HoldCase PROVE RunsInv'
<1>1. /\ UNCHANGED <<runs, reconciled, deliverable>> /\ caseStatus # "running"
      /\ caseStatus \notin {"completed", "cancelled"} /\ step[stage] # "blocked"
  <2>1. Offered("hold") /\ CanHold /\ UNCHANGED <<runs, reconciled, deliverable>>
    BY DEF HoldCase, runVars, recordVars, Sent
  <2>2. caseStatus # "running"
    BY <2>1 DEF CanHold
  <2>3. caseStatus \notin {"completed", "cancelled"} /\ step[stage] # "blocked"
    BY <2>1 DEF Offered
  <2> QED
    BY <2>1, <2>2, <2>3
<1>2. step[stage] \notin {"running", "blocked", "completed"}
  BY <1>1 DEF CaseInv, ShapeInv, Typed, CaseStatuses, Shown
<1>3. Closed'
  BY <1>1, <1>2, ClosedHere DEF Closed
<1> QED
  BY <1>1, <1>2, <1>3, IdleCommand

LEMMA ResumeRuns == ASSUME CaseInv, ResumeCase PROVE RunsInv'
<1>1. step[stage] = "blocked" /\ failure.class = "human" /\ UNCHANGED <<runs, reconciled, deliverable>>
  BY DEF ResumeCase, CanResume, runVars, recordVars
<1>2. \A n \in DOMAIN runs : ~Live(n) /\ (runs[n].status = "unknown" => n \in reconciled)
  BY <1>1 DEF CaseInv, ShapeInv, RunsInv, Shown, Awaited, Unresolved
<1>3. Unresolved' /\ Closed'
  BY <1>1, <1>2, ClosedHere DEF Unresolved, Closed
<1> QED
  BY <1>1, <1>2, <1>3, NoneAlive

LEMMA CommandRuns == ASSUME CaseInv, "hold" \notin Strays, ShapeInv', Command PROVE RunsInv'
<1>1. ASSUME NEW s \in AgentStages, Start(s) PROVE RunsInv'
  <2>1. /\ s = stage /\ stage' = stage /\ step[stage] = "ready"
        /\ NewRun(stage, Len(commitments) + 1) /\ UNCHANGED <<reconciled, deliverable>>
    BY <1>1, StartShape DEF CaseInv, Start
  <2>2. Len(commitments) + 1 \in Nat \ {0}
    BY DEF CaseInv, ShapeInv, Typed
  <2> QED
    BY <2>1, <2>2, Idle, LaunchedRuns
<1>2. ASSUME NEW g \in Gates \ {"mo_retrospective"}, Approve(g) PROVE RunsInv'
  <2>1. UNCHANGED <<runs, reconciled, deliverable>> /\ step[stage] \in {"ready", "awaiting_human"}
    BY <1>2, ApproveShape DEF CaseInv, Approve, runVars, GateStatus
  <2> QED
    BY <2>1, ClosedHere, IdleCommand DEF Closed
<1>3. CASE AcceptRetrospective
  <2>1. /\ UNCHANGED <<runs, reconciled>> /\ step'["mo_retrospective"] = "completed"
        /\ step[stage] = "awaiting_human"
    BY <1>3, AcceptShape DEF CaseInv, AcceptRetrospective, runVars
  <2> QED
    BY <2>1, IdleCommand DEF Closed
<1>4. ASSUME NEW g \in Gates, ReturnForRevision(g) PROVE RunsInv'
  <2>1. UNCHANGED <<runs, reconciled, deliverable>> /\ step[stage] \in {"ready", "awaiting_human"}
    BY <1>4, ReturnShape DEF CaseInv, ReturnForRevision, GateStatus
  <2> QED
    BY <2>1, ClosedHere, IdleCommand DEF Closed
<1>5. CASE RecordSimulatedPublish \/ RecordSyntheticFeedback
  <2>1. UNCHANGED <<runs, reconciled, deliverable>> /\ step[stage] = "ready"
    BY <1>5, MarchShape DEF CaseInv, RecordSimulatedPublish, RecordSyntheticFeedback, runVars,
                            recordVars
  <2> QED
    BY <2>1, ClosedHere, IdleCommand DEF Closed
<1>6. CASE RetrySafeStep
  <2>1. /\ stage' = stage /\ step[stage] = "blocked" /\ failure.retry = "safe"
        /\ stage \in AgentStages /\ UNCHANGED <<deliverable, reconciled>>
        /\ \E c \in Nat \ {0} : NewRun(stage, c)
    BY <1>6, RetryShape DEF CaseInv
  <2> QED
    BY <2>1, Repeatable, LaunchedRuns
<1> QED
  BY <1>1, <1>2, <1>3, <1>4, <1>5, <1>6, HoldRuns, ResumeRuns, ResolveRuns, CancelCaseRuns
     DEF Command

LEMMA CaseKept == ASSUME CaseInv, "hold" \notin Strays, [Next]_vars PROVE CaseInv'
<1>1. ShapeInv'
  BY ShapeStep DEF CaseInv
<1>2. CASE Elsewhere
  <2>1. UNCHANGED <<caseStatus, stage, step, failure, activeRun, runs, reconciled, deliverable>>
    BY <1>2 DEF Elsewhere
  <2>2. Awaited' /\ Unresolved' /\ Closed'
    BY <2>1 DEF CaseInv, RunsInv, Awaited, Unresolved, Closed, Live
  <2>3. NoRerunOfUnknown'
    BY <2>1 DEF CaseInv, RunsInv, NoRerunOfUnknown
  <2> QED
    BY <1>1, <2>2, <2>3 DEF CaseInv, RunsInv
<1>3. CASE Command
  BY <1>1, <1>3, CommandRuns DEF CaseInv
<1>4. ASSUME NEW n \in DOMAIN runs, CancelRun(n) PROVE RunsInv'
  <2>1. /\ SetRun(n, "cancelled") /\ SyncFailure(n, "cancelled", "unsafe") /\ Live(n)
        /\ UNCHANGED <<activeRun, reconciled, deliverable>>
    BY <1>4 DEF CancelRun, recordVars, Live
  <2> QED
    BY <2>1, FailedRuns
<1>5. ASSUME NEW n \in DOMAIN runs, NEW to \in {"failed", "cancelled", "unknown"},
             NEW retry \in {"safe", "unsafe"}, RunFails(n, to, retry)
      PROVE  RunsInv'
  <2>1. /\ SetRun(n, to) /\ SyncFailure(n, to, retry) /\ Live(n) /\ (retry = "safe" => to = "failed")
        /\ UNCHANGED <<activeRun, reconciled, deliverable>>
    BY <1>5 DEF RunFails, recordVars, Live
  <2> QED
    BY <2>1, FailedRuns
<1>6. CASE RunStep
  BY <1>1, <1>4, <1>5, <1>6, RunningRuns, SucceededRuns DEF RunStep, CaseInv
<1> QED
  BY <1>2, <1>3, <1>6, Steps

LEMMA CaseInit == Init => CaseInv
<1> SUFFICES ASSUME Init PROVE CaseInv
  OBVIOUS
<1>1. RunsInv
  BY DEF Init, RunsInv, Awaited, Unresolved, Closed, NoRerunOfUnknown
<1> QED
  BY <1>1, ShapeInit DEF CaseInv

-----------------------------------------------------------------------------
(* The gates, whatever clients send.                                       *)

LEMMA GateNames ==
    /\ Gates = {"mo_plan", "product_review", "content_review", "mo_retrospective"}
    /\ Producer["mo_plan"] = "mo_plan" /\ Producer["product_review"] = "pma"
    /\ Producer["content_review"] = "bga" /\ Producer["mo_retrospective"] = "mo_retrospective"
    /\ Gates \in SUBSET Stages
BY Names DEF Gates, Producer

\* Nothing that was made, approved or started is lost.
Grown ==
    /\ items \subseteq items' /\ approved \subseteq approved'
    /\ \A n \in DOMAIN runs : n \in DOMAIN runs' /\ runs'[n].stage = runs[n].stage

LEMMA StandsStill ==
    ASSUME ItemsKnown, Grown, NEW s, NEW k
    PROVE  /\ Stands(s, k) => Stands(s, k)'
           /\ Cleared(s, k) => Cleared(s, k)'
<1>1. ASSUME Stands(s, k) PROVE Stands(s, k)'
  <2>1. PICK i \in items : runs[i.run].stage = s /\ ~i.returned /\ i.kind = k
    BY <1>1 DEF Stands
  <2>2. i \in items' /\ runs'[i.run].stage = s
    BY <2>1 DEF ItemsKnown, Grown
  <2> QED
    BY <2>1, <2>2 DEF Stands
<1>2. ASSUME Cleared(s, k) PROVE Cleared(s, k)'
  <2>1. PICK i \in items : /\ runs[i.run].stage = s /\ ~i.returned /\ i.kind = k
                           /\ Subject(i) \in approved
    BY <1>2 DEF Cleared
  <2>2. i \in items' /\ runs'[i.run].stage = s /\ Subject(i) \in approved'
    BY <2>1 DEF ItemsKnown, Grown
  <2> QED
    BY <2>1, <2>2 DEF Cleared
<1> QED
  BY <1>1, <1>2

LEMMA KnownStill ==
    ASSUME ItemsKnown, Grown, UNCHANGED items
    PROVE  ItemsKnown'
BY DEF ItemsKnown, Grown

\* The case stays, or goes on past no gate.
PastNoGate ==
    \/ stage' = stage
    \/ stage \in {"pma", "bga", "simulated_publish", "feedback"} /\ Advance(stage)

LEMMA NoGatePassed ==
    ASSUME Typed, PastNoGate
    PROVE  /\ \A g \in Gates : Before(g, stage') => Before(g, stage)
           /\ \A s \in Stages : Before(stage', s) => Before(stage, s)
           /\ stage' # stage => stage' \in {"product_review", "content_review", "feedback",
                                            "mo_retrospective"}
           /\ stage' \in {"feedback", "mo_retrospective"} =>
                  stage \in {stage', "simulated_publish", "feedback"}
<1>1. CASE stage' = stage
  BY <1>1
<1>2. CASE stage \in {"pma", "bga", "simulated_publish", "feedback"} /\ Advance(stage)
  <2>1. stage' = StageOrder[Position(stage) + 1]
    BY <1>2 DEF Advance
  <2>2. CASE stage = "pma"
    <3>1. stage' = "product_review"
      BY <2>1, <2>2, Positions, Order
    <3> QED
      BY <2>2, <3>1, Names, Positions, GateNames DEF Before
  <2>3. CASE stage = "bga"
    <3>1. stage' = "content_review"
      BY <2>1, <2>3, Positions, Order
    <3> QED
      BY <2>3, <3>1, Names, Positions, GateNames DEF Before
  <2>4. CASE stage = "simulated_publish"
    <3>1. stage' = "feedback"
      BY <2>1, <2>4, Positions, Order
    <3> QED
      BY <2>4, <3>1, Names, Positions, GateNames DEF Before
  <2>5. CASE stage = "feedback"
    <3>1. stage' = "mo_retrospective"
      BY <2>1, <2>5, Positions, Order
    <3> QED
      BY <2>5, <3>1, Names, Positions, GateNames DEF Before
  <2> QED
    BY <1>2, <2>2, <2>3, <2>4, <2>5
<1> QED
  BY <1>1, <1>2 DEF PastNoGate

\* A step that passes no gate.
LEMMA Carried ==
    ASSUME Typed, GatesInv, Grown, ItemsKnown', PastNoGate, UNCHANGED handoff,
           DOMAIN runs' = DOMAIN runs,
           task' = task \/ task' \in {"simulated", "filed"},
           stage = "simulated_publish" => stage' = stage \/ task' = "simulated",
           stage = "mo_plan" /\ Judging' =>
               \A k \in RequiredKinds["mo_plan"] : Stands("mo_plan", k)'
    PROVE  GatesInv'
<1>1. /\ \A g \in Gates : Before(g, stage') => Before(g, stage)
      /\ \A s \in Stages : Before(stage', s) => Before(stage, s)
      /\ stage' # stage => stage' \in {"product_review", "content_review", "feedback",
                                       "mo_retrospective"}
      /\ stage' \in {"feedback", "mo_retrospective"} =>
             stage \in {stage', "simulated_publish", "feedback"}
      /\ stage \in Stages
  BY NoGatePassed DEF Typed
<1>2. ItemsKnown /\ Passed /\ Complete /\ Reached /\ Handed /\ Published
  BY DEF GatesInv
<1>3. Passed'
  <2> SUFFICES ASSUME NEW g \in Gates, Before(g, stage'), NEW k \in RequiredKinds[Producer[g]]
               PROVE  Cleared(Producer[g], k)'
    BY DEF Passed, Before
  <2> QED
    BY <1>1, <1>2, StandsStill DEF Passed
<1>4. Complete'
  BY <1>1 DEF Complete
<1>5. \A n \in DOMAIN runs' : \E m \in DOMAIN runs : runs'[n].stage = runs[m].stage
  BY DEF Grown
<1>6. Reached'
  <2> SUFFICES ASSUME NEW n \in DOMAIN runs', Before(stage', runs'[n].stage) PROVE FALSE
    BY DEF Reached, Before
  <2>1. PICK m \in DOMAIN runs : runs'[n].stage = runs[m].stage
    BY <1>5
  <2>2. runs[m].stage \in Stages
    <3>1. runs[m] \in Run
      BY DEF Typed
    <3> QED
      BY <3>1, Agents DEF Run
  <2> QED
    BY <1>1, <1>2, <2>1, <2>2 DEF Reached
<1>7. Handed'
  <2>1. \A n \in DOMAIN runs' :
           runs'[n].stage \in {"pma", "bga"} => handoff[runs'[n].stage] = "accepted"
    BY <1>2, <1>5 DEF Handed
  <2>2. \A t \in {"pma", "bga"} : ~Before(stage', t) => handoff[t] \in {"pending", "accepted"}
    <3> SUFFICES ASSUME NEW t \in {"pma", "bga"}, ~Before(stage', t)
                 PROVE  handoff[t] \in {"pending", "accepted"}
      OBVIOUS
    <3>1. ~Before(stage, t)
      <4>1. CASE stage' = stage
        BY <4>1
      <4>2. CASE stage = "pma" /\ Advance(stage)
        <5>1. stage' = "product_review"
          BY <4>2, Positions, Order DEF Advance
        <5> QED
          BY <4>2, <5>1, Positions DEF Before
      <4>3. CASE stage \in {"bga", "simulated_publish", "feedback"}
        BY <4>3, Positions DEF Before
      <4> QED
        BY <4>1, <4>2, <4>3 DEF PastNoGate
    <3> QED
      BY <1>2, <3>1 DEF Handed
  <2> QED
    BY <1>2, <2>1, <2>2 DEF Handed, Before
<1>8. Published'
  <2> SUFFICES ASSUME Before("simulated_publish", stage') PROVE task' \in {"simulated", "filed"}
    BY DEF Published, Before
  <2>1. CASE Before("simulated_publish", stage)
    BY <1>2, <2>1 DEF Published
  <2>2. CASE ~Before("simulated_publish", stage)
    <3>1. stage' \in {"feedback", "mo_retrospective"}
      BY <1>1, <2>2, Positions DEF Before
    <3>2. stage = "simulated_publish" /\ stage' # stage
      BY <1>1, <2>2, <3>1, Positions DEF Before
    <3> QED
      BY <3>2
  <2> QED
    BY <2>1, <2>2
<1> QED
  BY <1>3, <1>4, <1>6, <1>7, <1>8 DEF GatesInv

\* A step that leaves alone what is behind the gates.
LEMMA Unconcerned ==
    ASSUME Typed, GatesInv, SameRuns, UNCHANGED <<stage, items, approved, handoff>>,
           task' = task \/ task' \in {"simulated", "filed"}, Judging' => Judging
    PROVE  GatesInv'
<1>1. Grown /\ PastNoGate
  BY DEF Typed, SameRuns, Grown, PastNoGate
<1>2. ItemsKnown'
  BY <1>1, KnownStill DEF GatesInv
<1>3. stage = "mo_plan" /\ Judging' =>
          \A k \in RequiredKinds["mo_plan"] : Stands("mo_plan", k)'
  BY <1>1, StandsStill DEF GatesInv, Complete
<1>4. DOMAIN runs' = DOMAIN runs
  BY DEF Typed, SameRuns
<1> QED
  BY <1>1, <1>2, <1>3, <1>4, Carried

\* A Run is made: its stage has its handoff.
LEMMA LaunchedGates ==
    ASSUME ShapeInv, GatesInv, NEW c, NewRun(stage, c), ShapeInv', stage \in AgentStages,
           UNCHANGED <<stage, items, approved, task>>,
           handoff' \in [{"pma", "bga"} -> {"none", "pending", "accepted"}],
           \A t \in {"pma", "bga"} : /\ handoff[t] = "accepted" => handoff'[t] = "accepted"
                                     /\ t = stage => handoff'[t] = "accepted"
                                     /\ t # stage => handoff'[t] = handoff[t]
    PROVE  GatesInv'
<1> DEFINE last == Len(runs) + 1
           row == [stage |-> stage, commitment |-> c, status |-> "queued"]
<1>1. runs \in Seq(Run) /\ runs' = Append(runs, row) /\ row.stage = stage /\ stage \in Stages
  BY DEF ShapeInv, Typed, NewRun
<1> HIDE DEF row
<1>2. /\ DOMAIN runs' = DOMAIN runs \cup {last} /\ runs'[last] = row
      /\ \A n \in DOMAIN runs : runs'[n] = runs[n]
  BY <1>1
<1> HIDE DEF last
<1>3. Grown
  BY <1>2 DEF Grown
<1>4. ItemsKnown'
  BY <1>3, KnownStill DEF GatesInv
<1>5. Passed'
  <2> SUFFICES ASSUME NEW g \in Gates, Before(g, stage), NEW k \in RequiredKinds[Producer[g]]
               PROVE  Cleared(Producer[g], k)'
    BY DEF Passed, Before
  <2> QED
    BY <1>3, StandsStill DEF GatesInv, Passed
<1>6. Complete'
  <2>1. step' = [step EXCEPT ![stage] = "running"] /\ failure' = NoFailure
    BY DEF NewRun, SetStep
  <2>2. ~Judging'
    BY <1>1, <2>1, NoFailureType DEF ShapeInv, Typed, Judging
  <2> QED
    BY <2>2 DEF Complete
<1>7. Reached'
  <2>1. ~Before(stage, stage)
    BY <1>1, Names, Positions DEF Before
  <2> QED
    BY <1>1, <1>2, <2>1 DEF GatesInv, Reached, Before
<1>8. Handed'
  <2>1. \A n \in DOMAIN runs' :
           runs'[n].stage \in {"pma", "bga"} => handoff'[runs'[n].stage] = "accepted"
    BY <1>1, <1>2 DEF GatesInv, Handed
  <2>2. \A t \in {"pma", "bga"} : ~Before(stage, t) => handoff'[t] \in {"pending", "accepted"}
    BY DEF GatesInv, Handed
  <2> QED
    BY <2>1, <2>2 DEF Handed, Before
<1>9. Published'
  BY DEF GatesInv, Published, Before
<1> QED
  BY <1>4, <1>5, <1>6, <1>7, <1>8, <1>9 DEF GatesInv

LEMMA StartGates ==
    ASSUME ShapeInv, GatesInv, NEW s \in AgentStages, Start(s), ShapeInv'
    PROVE  GatesInv'
<1>1. /\ s = stage /\ NewRun(stage, Len(commitments) + 1)
      /\ UNCHANGED <<stage, items, approved, task>>
      /\ handoff' = [t \in DOMAIN handoff |->
                        IF t = s /\ handoff[t] = "pending" THEN "accepted" ELSE handoff[t]]
  BY StartShape DEF Start
<1>2. /\ handoff \in [{"pma", "bga"} -> {"none", "pending", "accepted"}]
      /\ s \in {"pma", "bga"} => handoff[s] \in {"pending", "accepted"}
  <2>1. s \in {"pma", "bga"} => ~Before(s, s)
    BY Positions DEF Before
  <2> QED
    BY <1>1, <2>1 DEF GatesInv, Handed
<1> QED
  BY <1>1, <1>2, LaunchedGates

LEMMA RetryGates == ASSUME ShapeInv, GatesInv, RetrySafeStep, ShapeInv' PROVE GatesInv'
<1>1. /\ stage \in AgentStages /\ UNCHANGED <<stage, items, approved, task, handoff>>
      /\ activeRun[stage] # 0
  BY RetryShape DEF RetrySafeStep, recordVars, CanRetry
<1>2. PICK c : NewRun(stage, c)
  BY RetryShape
<1>3. activeRun[stage] \in DOMAIN runs /\ runs[activeRun[stage]].stage = stage
  BY <1>1 DEF ShapeInv, Typed, Owned
<1>4. /\ handoff \in [{"pma", "bga"} -> {"none", "pending", "accepted"}]
      /\ stage \in {"pma", "bga"} => handoff[stage] = "accepted"
  BY <1>3 DEF GatesInv, Handed
<1> QED
  BY <1>1, <1>2, <1>4, LaunchedGates

LEMMA ApproveGates ==
    ASSUME ShapeInv, GatesInv, NEW g \in Gates \ {"mo_retrospective"}, Approve(g), ShapeInv'
    PROVE  GatesInv'
<1> DEFINE p == Producer[g]
<1>1. /\ stage = g /\ step[g] = GateStatus(g) /\ Advance(g) /\ UNCHANGED <<items, runs>>
      /\ approved' = approved \cup {Subject(i) : i \in ItemsOf(p)}
      /\ handoff' = [t \in DOMAIN handoff |-> IF t = stage' THEN "pending" ELSE handoff[t]]
      /\ g # "mo_plan" => RequiredKinds[p] \subseteq KindsIn(ItemsOf(p))
  BY DEF Approve, CanApprove, AtGate, ApproveItems, runVars
<1>2. /\ stage' \in {"pma", "bga", "simulated_publish"}
      /\ \A h \in Gates : Before(h, stage') => Before(h, g) \/ h = g
      /\ \A s \in Stages : Before(stage', s) => Before(g, s)
      /\ \A s \in AgentStages : ~Before(stage', s) => ~Before(g, s) \/ s = stage'
      /\ stage' \in {"pma", "bga"} => Before(g, stage')
      /\ ~Before("simulated_publish", stage')
  <2>1. stage' = StageOrder[Position(g) + 1]
    BY <1>1 DEF Advance
  <2>2. CASE g = "mo_plan"
    <3>1. stage' = "pma"
      BY <2>1, <2>2, Positions, Order
    <3> QED
      BY <2>2, <3>1, Names, Positions, GateNames DEF Before, AgentStages
  <2>3. CASE g = "product_review"
    <3>1. stage' = "bga"
      BY <2>1, <2>3, Positions, Order
    <3> QED
      BY <2>3, <3>1, Names, Positions, GateNames DEF Before, AgentStages
  <2>4. CASE g = "content_review"
    <3>1. stage' = "simulated_publish"
      BY <2>1, <2>4, Positions, Order
    <3> QED
      BY <2>4, <3>1, Names, Positions, GateNames DEF Before, AgentStages
  <2> QED
    BY <2>2, <2>3, <2>4, GateNames
<1>3. Grown /\ ItemsKnown'
  <2>1. Grown
    BY <1>1 DEF Grown
  <2> QED
    BY <1>1, <2>1, KnownStill DEF GatesInv
<1>4. ASSUME NEW k \in RequiredKinds[p] PROVE Cleared(p, k)'
  <2>1. PICK i \in ItemsOf(p) : i.kind = k
    <3>1. CASE g = "mo_plan"
      <4>1. p = "mo_plan" /\ Judging
        BY <1>1, <3>1, GateNames DEF Judging, GateStatus, AgentStages
      <4>2. Stands("mo_plan", k)
        BY <1>1, <1>4, <3>1, <4>1 DEF GatesInv, Complete
      <4> QED
        BY <4>1, <4>2 DEF Stands, ItemsOf
    <3>2. CASE g # "mo_plan"
      BY <1>1, <1>4, <3>2 DEF KindsIn
    <3> QED
      BY <3>1, <3>2
  <2> QED
    BY <1>1, <2>1 DEF ItemsOf, Cleared
<1>5. Passed'
  <2> SUFFICES ASSUME NEW h \in Gates, Before(h, stage'), NEW k \in RequiredKinds[Producer[h]]
               PROVE  Cleared(Producer[h], k)'
    BY DEF Passed, Before
  <2>1. CASE h = g
    BY <1>4, <2>1
  <2>2. CASE Before(h, g)
    BY <1>1, <1>3, <2>2, StandsStill DEF GatesInv, Passed
  <2> QED
    BY <1>2, <2>1, <2>2
<1>6. \A n \in DOMAIN runs : runs[n].stage \in AgentStages /\ ~Before(g, runs[n].stage)
  <2> TAKE n \in DOMAIN runs
  <2>1. runs[n] \in Run
    BY DEF ShapeInv, Typed
  <2> QED
    BY <1>1, <2>1 DEF Run, GatesInv, Reached
<1>7. Reached'
  BY <1>1, <1>2, <1>6, Agents DEF Reached, Before
<1>8. Handed'
  <2>1. /\ handoff \in [{"pma", "bga"} -> {"none", "pending", "accepted"}]
        /\ handoff' \in [{"pma", "bga"} -> {"none", "pending", "accepted"}]
        /\ \A t \in {"pma", "bga"} : handoff'[t] = IF t = stage' THEN "pending" ELSE handoff[t]
    BY <1>1 DEF GatesInv, Handed
  <2>2. \A n \in DOMAIN runs : runs[n].stage \in {"pma", "bga"} => runs[n].stage # stage'
    BY <1>2, <1>6
  <2>3. \A n \in DOMAIN runs' :
           runs'[n].stage \in {"pma", "bga"} => handoff'[runs'[n].stage] = "accepted"
    BY <1>1, <2>1, <2>2 DEF GatesInv, Handed
  <2>4. \A t \in {"pma", "bga"} : ~Before(stage', t) => handoff'[t] \in {"pending", "accepted"}
    BY <1>1, <1>2, <2>1 DEF GatesInv, Handed, AgentStages
  <2> QED
    BY <2>1, <2>3, <2>4 DEF Handed, Before
<1>9. Complete' /\ Published'
  BY <1>2 DEF Complete, Published, Before
<1> QED
  BY <1>3, <1>5, <1>7, <1>8, <1>9 DEF GatesInv

LEMMA SentBack ==
    ASSUME NEW i \in Item, NEW b \in BOOLEAN, NEW j, j = [i EXCEPT !.returned = b]
    PROVE  j \in Item /\ j.run = i.run /\ j.kind = i.kind /\ j.returned = b /\ Subject(j) = Subject(i)
<1>1. j \in Item /\ j.run = i.run /\ j.kind = i.kind /\ j.returned = b
  BY DEF Item
<1> QED
  BY <1>1 DEF Subject

LEMMA ReturnGates ==
    ASSUME ShapeInv, GatesInv, NEW g \in Gates, ReturnForRevision(g), ShapeInv'
    PROVE  GatesInv'
<1> DEFINE p == Producer[g]
           back(i) == i.returned \/ runs[i.run].stage = p
           image(i) == [i EXCEPT !.returned = back(i)]
<1>1. /\ stage = g /\ stage' = p /\ failure' = NoFailure /\ step'[stage'] = "ready"
      /\ items' = {image(i) : i \in items} /\ UNCHANGED <<runs, approved, handoff, task>>
  BY ReturnShape DEF ReturnForRevision
<1>2. /\ p \in Stages /\ \A h \in Gates : Before(h, p) => Before(h, g) /\ Producer[h] # p
      /\ \A s \in AgentStages : Before(p, s) => Before(g, s)
      /\ \A t \in {"pma", "bga"} : ~Before(p, t) => ~Before(g, t)
      /\ Before("simulated_publish", p) => Before("simulated_publish", g)
  <2>1. CASE g = "mo_plan"
    BY <2>1, Names, Positions, GateNames DEF Before, AgentStages
  <2>2. CASE g = "product_review"
    BY <2>2, Names, Positions, GateNames DEF Before, AgentStages
  <2>3. CASE g = "content_review"
    BY <2>3, Names, Positions, GateNames DEF Before, AgentStages
  <2>4. CASE g = "mo_retrospective"
    BY <2>4, Names, Positions, GateNames DEF Before, AgentStages
  <2> QED
    BY <2>1, <2>2, <2>3, <2>4, GateNames
<1> HIDE DEF p
<1>3. ASSUME NEW i \in items
      PROVE  /\ image(i) \in Item /\ image(i).run = i.run /\ image(i).kind = i.kind
             /\ Subject(image(i)) = Subject(i) /\ image(i) \in items'
             /\ ~i.returned /\ runs[i.run].stage # p => ~image(i).returned
  <2> DEFINE b == back(i)
  <2>1. i \in Item
    BY DEF GatesInv, ItemsKnown
  <2>2. i.returned \in BOOLEAN
    BY <2>1 DEF Item
  <2>3. b \in BOOLEAN
    BY <2>2
  <2>4. ~i.returned /\ runs[i.run].stage # p => ~b
    OBVIOUS
  <2>5. image(i) = [i EXCEPT !.returned = b] /\ image(i) \in items'
    BY <1>1
  <2> HIDE DEF b, image
  <2>6. /\ image(i) \in Item /\ image(i).run = i.run /\ image(i).kind = i.kind
        /\ image(i).returned = b /\ Subject(image(i)) = Subject(i)
    BY <2>1, <2>3, <2>5, SentBack
  <2> QED
    BY <2>4, <2>5, <2>6
<1> HIDE DEF image
<1>4. ItemsKnown'
  BY <1>1, <1>3 DEF GatesInv, ItemsKnown
<1>5. Passed'
  <2> SUFFICES ASSUME NEW h \in Gates, Before(h, p), NEW k \in RequiredKinds[Producer[h]]
               PROVE  Cleared(Producer[h], k)'
    BY <1>1 DEF Passed, Before
  <2>1. Cleared(Producer[h], k) /\ Producer[h] # p
    BY <1>1, <1>2 DEF GatesInv, Passed
  <2>2. PICK i \in items : /\ runs[i.run].stage = Producer[h] /\ ~i.returned /\ i.kind = k
                           /\ Subject(i) \in approved
    BY <2>1 DEF Cleared
  <2>3. /\ image(i) \in items' /\ image(i).run = i.run /\ image(i).kind = k
        /\ ~image(i).returned /\ Subject(image(i)) \in approved
    BY <1>3, <2>1, <2>2
  <2> QED
    BY <1>1, <2>2, <2>3 DEF Cleared
<1>6. Complete'
  BY <1>1, NoFailureType DEF Complete, Judging
<1>7. Reached'
  <2> SUFFICES ASSUME NEW n \in DOMAIN runs, Before(p, runs[n].stage) PROVE FALSE
    BY <1>1 DEF Reached, Before
  <2>1. runs[n] \in Run
    BY DEF ShapeInv, Typed
  <2>2. runs[n].stage \in AgentStages
    BY <2>1 DEF Run
  <2> QED
    BY <1>1, <1>2, <2>2 DEF GatesInv, Reached
<1>8. Handed' /\ Published'
  BY <1>1, <1>2 DEF GatesInv, Handed, Published, Before
<1> QED
  BY <1>4, <1>5, <1>6, <1>7, <1>8 DEF GatesInv

LEMMA MarchGates ==
    ASSUME ShapeInv, GatesInv, RecordSimulatedPublish \/ RecordSyntheticFeedback
    PROVE  GatesInv'
<1>1. /\ stage \in {"simulated_publish", "feedback"} /\ Advance(stage)
      /\ UNCHANGED <<runs, items, approved, handoff>> /\ task' \in {task, "simulated"}
      /\ stage = "simulated_publish" => task' = "simulated"
  BY DEF RecordSimulatedPublish, CanPublish, RecordSyntheticFeedback, CanFeedback, runVars,
         recordVars
<1>2. Grown /\ PastNoGate
  BY <1>1 DEF Grown, PastNoGate
<1> QED
  BY <1>1, <1>2, KnownStill, Carried DEF ShapeInv, GatesInv

\* A new failure that does not speak of people's work.
LEMMA NotJudging ==
    ASSUME ShapeInv, NEW why, Block(stage, why),
           why.class # "human" \/ why.previous # "awaiting_human" \/ Judging
    PROVE  stage' = stage /\ (Judging' => Judging)
<1>1. stage' = stage /\ step' = [step EXCEPT ![stage] = "blocked"] /\ failure' = why
  BY DEF Block, SetStep
<1>2. step'[stage] = "blocked"
  BY <1>1 DEF ShapeInv, Typed
<1> QED
  BY <1>1, <1>2 DEF Judging

LEMMA HoldGates == ASSUME ShapeInv, GatesInv, HoldCase PROVE GatesInv'
<1> DEFINE why == [class |-> "human", retry |-> "manual", run |-> "none", previous |-> step[stage]]
<1>1. Block(stage, why) /\ UNCHANGED <<runs, items, approved, handoff, task>>
  BY DEF HoldCase, runVars, recordVars
<1>2. why.previous = step[stage]
  OBVIOUS
<1> HIDE DEF why
<1>3. why.previous # "awaiting_human" \/ Judging
  BY <1>2 DEF Judging
<1> QED
  BY <1>1, <1>3, NotJudging, NoRun, Unconcerned DEF ShapeInv

LEMMA ResumeGates == ASSUME ShapeInv, GatesInv, ResumeCase PROVE GatesInv'
<1>1. /\ UNCHANGED <<stage, runs, items, approved, handoff, task>> /\ failure' = NoFailure
      /\ failure.class = "human"
      /\ step' = [step EXCEPT ![stage] = IF failure.previous = "awaiting_human"
                                        THEN "awaiting_human" ELSE "ready"]
  BY DEF ResumeCase, CanResume, SetStep, runVars, recordVars
<1>2. Judging' => Judging
  BY <1>1, NoFailureType DEF ShapeInv, Typed, Judging
<1> QED
  BY <1>1, <1>2, NoRun, Unconcerned DEF ShapeInv

LEMMA ResolveGates ==
    ASSUME ShapeInv, GatesInv, ResolveAsNotDone \/ ResolveAsAbandoned \/ ResolveAsSucceeded
    PROVE  GatesInv'
<1>1. Reconcile /\ UNCHANGED <<runs, items, approved, handoff, task>> /\ step[stage] = "blocked"
  BY Reconciling DEF ResolveAsNotDone, ResolveAsAbandoned, ResolveAsSucceeded, Reconcile
<1>2. CASE ResolveAsNotDone \/ ResolveAsAbandoned
  <2>1. UNCHANGED <<stage, step>>
    BY <1>2 DEF ResolveAsNotDone, ResolveAsAbandoned
  <2>2. UNCHANGED failure \/ failure'.class = "reconciled"
    BY <1>2, ReconciledType DEF ShapeInv, Typed, ResolveAsNotDone, ResolveAsAbandoned
  <2>3. Judging' => Judging
    BY <2>1, <2>2 DEF Judging
  <2> QED
    BY <1>1, <2>1, <2>3, NoRun, Unconcerned DEF ShapeInv
<1>3. CASE ResolveAsSucceeded
  <2>1. /\ RequiredKinds[stage] \subseteq KindsIn(ItemsOf(stage))
        /\ IF stage \in Gates THEN AwaitHuman(stage) ELSE Advance(stage)
    BY <1>3 DEF ResolveAsSucceeded
  <2>2. Grown /\ ItemsKnown'
    <3>1. Grown
      BY <1>1 DEF Grown
    <3> QED
      BY <1>1, <3>1, KnownStill DEF GatesInv
  <2>3. PastNoGate
    <3>1. stage \in AgentStages
      BY <1>1, Reconciling
    <3> QED
      BY <2>1, <3>1, GateNames DEF PastNoGate, AwaitHuman, AgentStages
  <2>4. stage = "mo_plan" => \A k \in RequiredKinds["mo_plan"] : Stands("mo_plan", k)'
    <3> SUFFICES ASSUME stage = "mo_plan", NEW k \in RequiredKinds["mo_plan"]
                 PROVE  Stands("mo_plan", k)
      BY <2>2, StandsStill DEF GatesInv
    <3> QED
      BY <2>1 DEF KindsIn, ItemsOf, Stands
  <2>5. stage = "simulated_publish" => stage' = stage \/ task' = "simulated"
    BY <1>1, Reconciling DEF AgentStages
  <2> QED
    BY <1>1, <2>2, <2>3, <2>4, <2>5, Carried DEF ShapeInv
<1> QED
  BY <1>2, <1>3

\* A Run that does not succeed.
LEMMA FailureGates ==
    ASSUME ShapeInv, GatesInv, NEW n \in DOMAIN runs, NEW to \in {"failed", "cancelled", "unknown"},
           NEW retry, SetRun(n, to), SyncFailure(n, to, retry),
           UNCHANGED <<items, approved, handoff, task>>
    PROVE  GatesInv'
<1>1. SameRuns
  BY OneRun DEF ShapeInv, RunStatuses, EndStatuses
<1>2. stage' = stage /\ (Judging' => Judging)
  <2>1. CASE Watched(n)
    <3> DEFINE why == [class |-> "run", retry |-> retry, run |-> to, previous |-> "ready"]
    <3>1. Block(stage, why) /\ why.class # "human"
      BY <2>1, WatchedHere DEF SyncFailure
    <3> HIDE DEF why
    <3> QED
      BY <3>1, NotJudging
  <2>2. CASE ~Watched(n)
    BY <2>2 DEF SyncFailure, stepVars, Judging
  <2> QED
    BY <2>1, <2>2
<1> QED
  BY <1>1, <1>2, Unconcerned DEF ShapeInv

\* What a Run has made is of the kinds of its stage.
LEMMA Made ==
    ASSUME Typed, NEW n \in DOMAIN runs, NEW made \in Outputs(runs[n].stage)
    PROVE  /\ \A i \in Candidates(n, made) :
                  i \in Item /\ i.run = n /\ i.kind \in RequiredKinds[runs[n].stage] /\ ~i.returned
           /\ \A k \in RequiredKinds[runs[n].stage] :
                  made[k] = "good" => \E i \in Candidates(n, made) : i.kind = k
<1> DEFINE s == runs[n].stage
           row(k) == [run |-> n, kind |-> k, good |-> made[k] = "good", returned |-> FALSE]
<1>1. runs[n] \in Run /\ n \in Nat \ {0}
  BY DEF Typed
<1>2. s \in AgentStages /\ made \in [RequiredKinds[s] -> {"absent", "thin", "good"}]
  BY <1>1 DEF Run, Outputs
<1>3. Candidates(n, made) = {row(k) : k \in {j \in DOMAIN made : made[j] # "absent"}}
  BY DEF Candidates
<1> HIDE DEF s
<1>4. RequiredKinds[s] \subseteq Kinds
  BY <1>2 DEF Kinds
<1>5. ASSUME NEW k \in RequiredKinds[s]
      PROVE  row(k) \in Item /\ row(k).run = n /\ row(k).kind = k /\ row(k).returned = FALSE
  <2>1. k \in Kinds /\ (made[k] = "good") \in BOOLEAN
    BY <1>4
  <2> QED
    BY <1>1, <2>1 DEF Item
<1> HIDE DEF row
<1>6. \A i \in Candidates(n, made) :
         i \in Item /\ i.run = n /\ i.kind \in RequiredKinds[s] /\ ~i.returned
  <2> TAKE i \in Candidates(n, made)
  <2>1. PICK k \in RequiredKinds[s] : i = row(k)
    BY <1>2, <1>3
  <2>2. row(k) \in Item /\ row(k).run = n /\ row(k).kind = k /\ row(k).returned = FALSE
    BY <1>5
  <2>3. i \in Item /\ i.run = n /\ i.kind = k /\ i.returned = FALSE
    BY <2>1, <2>2
  <2> QED
    BY <2>3
<1>7. ASSUME NEW k \in RequiredKinds[s], made[k] = "good"
      PROVE  \E i \in Candidates(n, made) : i.kind = k
  <2>1. row(k) \in Candidates(n, made)
    BY <1>2, <1>3, <1>7
  <2> QED
    BY <1>5, <2>1
<1> QED
  BY <1>6, <1>7 DEF s

LEMMA SuccessGates ==
    ASSUME ShapeInv, GatesInv, NEW n \in DOMAIN runs, NEW made \in Outputs(runs[n].stage),
           RunSucceeds(n, made)
    PROVE  GatesInv'
<1>1. SetRun(n, "evidence_accepted") /\ SyncSuccess(n, made) /\ UNCHANGED <<approved, handoff, task>>
  BY DEF RunSucceeds
<1>2. SameRuns /\ DOMAIN runs' = DOMAIN runs /\ Typed
  BY <1>1, OneRun DEF ShapeInv, RunStatuses, EndStatuses
<1>3. items' \in {items, items \cup Candidates(n, made)}
  BY <1>1 DEF SyncSuccess
<1>4. Grown
  BY <1>1, <1>2, <1>3 DEF Grown, SameRuns
<1>5. ItemsKnown'
  <2> SUFFICES ASSUME NEW i \in items'
               PROVE  /\ i \in Item /\ i.run \in DOMAIN runs'
                      /\ i.kind \in RequiredKinds[runs'[i.run].stage]
    BY DEF ItemsKnown
  <2>1. CASE i \in items
    BY <1>4, <2>1 DEF GatesInv, ItemsKnown, Grown
  <2>2. CASE i \in Candidates(n, made)
    BY <1>2, <2>2, Made DEF SameRuns
  <2> QED
    BY <1>3, <2>1, <2>2
<1>6. CASE Watched(n)
  <2>1. runs[n].stage = stage /\ stage \in AgentStages
    BY <1>6, WatchedHere
  <2>2. \/ Block(stage, Incomplete)
        \/ /\ AwaitHuman(stage) /\ items' = items \cup Candidates(n, made)
           /\ \A k \in DOMAIN made : made[k] = "good"
        \/ stage \notin Gates /\ Advance(stage)
    BY <1>1, <1>6, <2>1 DEF SyncSuccess
  <2>3. PastNoGate
    BY <2>1, <2>2, GateNames DEF PastNoGate, Block, AwaitHuman, AgentStages
  <2>4. stage = "mo_plan" /\ Judging' =>
            \A k \in RequiredKinds["mo_plan"] : Stands("mo_plan", k)'
    <3> SUFFICES ASSUME stage = "mo_plan", Judging', NEW k \in RequiredKinds["mo_plan"]
                 PROVE  Stands("mo_plan", k)'
      OBVIOUS
    <3>1. CASE Block(stage, Incomplete)
      <4>1. Judging
        BY <3>1, NotJudging DEF Incomplete
      <4> QED
        BY <1>4, <4>1, StandsStill DEF GatesInv, Complete
    <3>2. CASE /\ AwaitHuman(stage) /\ items' = items \cup Candidates(n, made)
               /\ \A j \in DOMAIN made : made[j] = "good"
      <4>1. k \in DOMAIN made /\ k \in RequiredKinds[runs[n].stage]
        BY <2>1 DEF Outputs
      <4>2. PICK i \in Candidates(n, made) : i.kind = k
        BY <1>2, <3>2, <4>1, Made
      <4>3. i \in items' /\ i.run = n /\ ~i.returned /\ runs'[n].stage = stage
        BY <1>2, <2>1, <3>2, <4>2, Made DEF SameRuns
      <4> QED
        BY <4>2, <4>3 DEF Stands
    <3> QED
      BY <2>2, <3>1, <3>2, GateNames
  <2>5. stage # "simulated_publish"
    BY <2>1 DEF AgentStages
  <2> QED
    BY <1>1, <1>2, <1>4, <1>5, <2>3, <2>4, <2>5, Carried
<1>7. CASE ~Watched(n)
  <2>1. UNCHANGED <<stage, step, failure>>
    BY <1>1, <1>7 DEF SyncSuccess, stepVars
  <2>2. stage = "mo_plan" /\ Judging' =>
            \A k \in RequiredKinds["mo_plan"] : Stands("mo_plan", k)'
    BY <1>4, <2>1, StandsStill DEF GatesInv, Complete, Judging
  <2> QED
    BY <1>1, <1>2, <1>4, <1>5, <2>1, <2>2, Carried DEF PastNoGate
<1> QED
  BY <1>6, <1>7

LEMMA CancelCaseGates == ASSUME ShapeInv, GatesInv, CancelCase PROVE GatesInv'
<1> DEFINE n == activeRun[stage]
           why == [class |-> "cancel_asked", retry |-> "unsafe", run |-> "none", previous |-> "ready"]
<1>1. UNCHANGED <<items, approved, handoff, task>>
  BY DEF CancelCase, recordVars
<1>2. CASE n # 0 /\ Live(n)
  <2>1. n \in DOMAIN runs
    BY <1>2 DEF ShapeInv, Typed
  <2>2. CASE SetRun(n, "cancelled") /\ SyncFailure(n, "cancelled", "unsafe")
    BY <1>1, <2>1, <2>2, FailureGates
  <2>3. CASE Block(stage, why) /\ UNCHANGED runs
    <3>1. why.class # "human"
      OBVIOUS
    <3> HIDE DEF why
    <3> QED
      BY <1>1, <2>3, <3>1, NotJudging, NoRun, Unconcerned DEF ShapeInv
  <2> QED
    BY <1>2, <2>2, <2>3 DEF CancelCase
<1>3. CASE ~(n # 0 /\ Live(n))
  <2>1. UNCHANGED <<stage, step, failure, runs>>
    BY <1>3 DEF CancelCase
  <2> QED
    BY <1>1, <2>1, NoRun, Unconcerned DEF ShapeInv, Judging
<1> QED
  BY <1>2, <1>3

LEMMA GatesInit == Init => GatesInv
<1> SUFFICES ASSUME Init PROVE GatesInv
  OBVIOUS
<1>1. ItemsKnown /\ Complete /\ Reached
  BY Names, NoFailureType DEF Init, ItemsKnown, Complete, Judging, Reached
<1>2. Passed /\ Handed /\ Published
  BY Names, Positions, GateNames DEF Init, Passed, Handed, Published, Before
<1> QED
  BY <1>1, <1>2 DEF GatesInv

LEMMA GatesStep == ASSUME ShapeInv, GatesInv, [Next]_vars PROVE GatesInv'
<1>1. ShapeInv'
  BY ShapeStep
<1>2. CASE Elsewhere
  <2>1. /\ UNCHANGED <<stage, step, failure, runs, items, approved, handoff>>
        /\ task' = task \/ task' = "filed"
    BY <1>2 DEF Elsewhere
  <2> QED
    BY <2>1, NoRun, Unconcerned DEF ShapeInv, Judging
<1>3. CASE AcceptRetrospective
  <2>1. /\ stage = "mo_retrospective" /\ stage' = stage
        /\ UNCHANGED <<runs, items, handoff, task>> /\ approved \subseteq approved'
    BY <1>3, AcceptShape DEF AcceptRetrospective, ApproveItems, runVars
  <2>2. Grown /\ PastNoGate
    BY <2>1 DEF Grown, PastNoGate
  <2> QED
    BY <2>1, <2>2, KnownStill, Carried DEF ShapeInv, GatesInv
<1>4. CASE Command
  BY <1>1, <1>3, <1>4, StartGates, ApproveGates, ReturnGates, MarchGates, HoldGates, ResumeGates,
     ResolveGates, RetryGates, CancelCaseGates DEF Command
<1>5. ASSUME NEW n \in DOMAIN runs, ClaimRun(n) \/ RequeueRun(n) PROVE GatesInv'
  <2>1. PICK to \in {"queued", "active"} :
           SetRun(n, to) /\ UNCHANGED <<stage, step, failure, items, approved, handoff, task>>
    BY <1>5 DEF ClaimRun, RequeueRun, recordVars, stepVars
  <2>2. SameRuns
    BY <2>1, OneRun DEF ShapeInv, RunStatuses
  <2> QED
    BY <2>1, <2>2, Unconcerned DEF ShapeInv, Judging
<1>6. ASSUME NEW n \in DOMAIN runs, CancelRun(n) PROVE GatesInv'
  <2>1. /\ SetRun(n, "cancelled") /\ SyncFailure(n, "cancelled", "unsafe")
        /\ UNCHANGED <<items, approved, handoff, task>>
    BY <1>6 DEF CancelRun, recordVars
  <2> QED
    BY <2>1, FailureGates
<1>7. ASSUME NEW n \in DOMAIN runs, NEW to \in {"failed", "cancelled", "unknown"},
             NEW retry \in {"safe", "unsafe"}, RunFails(n, to, retry)
      PROVE  GatesInv'
  <2>1. SetRun(n, to) /\ SyncFailure(n, to, retry) /\ UNCHANGED <<items, approved, handoff, task>>
    BY <1>7 DEF RunFails, recordVars
  <2> QED
    BY <2>1, FailureGates
<1>8. CASE RunStep
  BY <1>5, <1>6, <1>7, <1>8, SuccessGates DEF RunStep
<1> QED
  BY <1>2, <1>4, <1>8, Steps

\* Every gate before the stage of a Run is behind the case.
LEMMA GatesBehind ==
    ASSUME ShapeInv, GatesInv, NEW n \in DOMAIN runs, NEW s \in AgentStages,
           Before(s, runs[n].stage)
    PROVE  RequiredKinds[s] = ApprovedKinds(s)
<1> DEFINE t == runs[n].stage
<1>1. t \in AgentStages /\ ~Before(stage, t) /\ stage \in Stages
  <2>1. runs[n] \in Run /\ stage \in Stages
    BY DEF ShapeInv, Typed
  <2> QED
    BY <2>1 DEF Run, GatesInv, Reached
<1> HIDE DEF t
<1>2. PICK g \in Gates : Producer[g] = s /\ Before(g, t)
  <2>1. Before(s, t)
    BY DEF t
  <2>2. CASE s = "mo_plan"
    BY <2>1, <2>2, GateNames
  <2>3. CASE s = "pma"
    <3>1. t \in {"bga", "mo_retrospective"}
      BY <1>1, <2>1, <2>3, Positions DEF Before, AgentStages
    <3> QED
      BY <2>3, <3>1, GateNames, Positions DEF Before
  <2>4. CASE s = "bga"
    <3>1. t = "mo_retrospective"
      BY <1>1, <2>1, <2>4, Positions DEF Before, AgentStages
    <3> QED
      BY <2>4, <3>1, GateNames, Positions DEF Before
  <2>5. s # "mo_retrospective"
    BY <1>1, <2>1, Positions DEF Before, AgentStages
  <2> QED
    BY <2>2, <2>3, <2>4, <2>5 DEF AgentStages
<1>3. Before(g, stage)
  <2>1. /\ Position(g) \in Nat /\ Position(t) \in Nat /\ Position(stage) \in Nat
    BY <1>1, Names, Agents, GateNames, Positions
  <2> QED
    BY <1>1, <1>2, <2>1 DEF Before
<1>4. \A k \in RequiredKinds[s] : Cleared(s, k)
  BY <1>2, <1>3 DEF GatesInv, Passed
<1>5. RequiredKinds[s] \subseteq ApprovedKinds(s)
  BY <1>4 DEF Cleared, ApprovedKinds, KindsIn, ItemsOf
<1>6. ApprovedKinds(s) \subseteq RequiredKinds[s]
  BY DEF GatesInv, ItemsKnown, ApprovedKinds, KindsIn, ItemsOf
<1> QED
  BY <1>5, <1>6

-----------------------------------------------------------------------------
(* What refers to a Run, a Commitment or an object refers to one there is,  *)
(* whatever clients send.                                                   *)

\* A Run changes its status and keeps its Commitment.
LEMMA RunKept ==
    ASSUME Typed, NEW n \in DOMAIN runs, NEW to \in RunStatuses, SetRun(n, to)
    PROVE  /\ DOMAIN runs' = DOMAIN runs /\ runs'[n].status = to
           /\ \A m \in DOMAIN runs : m # n => runs'[m] = runs[m]
           /\ \A m \in DOMAIN runs : runs'[m].commitment = runs[m].commitment
<1>1. /\ DOMAIN runs' = DOMAIN runs /\ runs'[n].status = to
      /\ \A m \in DOMAIN runs : m # n => runs'[m] = runs[m]
  BY OneRun
<1>2. runs[n] \in Run /\ runs' = [runs EXCEPT ![n] = [runs[n] EXCEPT !.status = to]]
  BY DEF Typed, SetRun
<1>3. [runs[n] EXCEPT !.status = to].commitment = runs[n].commitment
  BY <1>2 DEF Run
<1>4. runs'[n].commitment = runs[n].commitment
  BY <1>2, <1>3
<1> QED
  BY <1>1, <1>4

\* One Commitment changes its status.
LEMMA CommitmentMoved ==
    ASSUME Typed, NEW c \in DOMAIN commitments, NEW to \in CommitmentStatuses,
           commitments' = [commitments EXCEPT ![c] = to]
    PROVE  /\ Len(commitments') = Len(commitments) /\ DOMAIN commitments' = DOMAIN commitments
           /\ commitments'[c] = to
           /\ \A d \in DOMAIN commitments : d # c => commitments'[d] = commitments[d]
<1>1. commitments \in Seq(CommitmentStatuses)
  BY DEF Typed
<1> QED
  BY <1>1

\* A Run is appended.
LEMMA RunMade ==
    ASSUME Typed, NEW s \in Stages, NEW c, NewRun(s, c)
    PROVE  /\ DOMAIN runs' = DOMAIN runs \cup {Len(runs) + 1}
           /\ Len(runs) + 1 \notin DOMAIN runs /\ Len(runs) + 1 # 0
           /\ runs'[Len(runs) + 1] = [stage |-> s, commitment |-> c, status |-> "queued"]
           /\ \A n \in DOMAIN runs : runs'[n] = runs[n]
           /\ activeRun'[s] = Len(runs) + 1
           /\ \A t \in Stages : t # s => activeRun'[t] = activeRun[t]
           /\ step'[s] = "running" /\ failure' = NoFailure
           /\ \A t \in Stages : t # s => step'[t] = step[t]
<1> DEFINE row == [stage |-> s, commitment |-> c, status |-> "queued"]
<1>1. /\ runs \in Seq(Run) /\ activeRun \in [Stages -> 0 .. Len(runs)]
      /\ step \in [Stages -> StepStatuses]
      /\ runs' = Append(runs, row) /\ activeRun' = [activeRun EXCEPT ![s] = Len(runs) + 1]
      /\ step' = [step EXCEPT ![s] = "running"] /\ failure' = NoFailure
  BY DEF Typed, NewRun, SetStep
<1>2. activeRun'[s] = Len(runs) + 1 /\ \A t \in Stages : t # s => activeRun'[t] = activeRun[t]
  BY <1>1
<1>3. step'[s] = "running" /\ \A t \in Stages : t # s => step'[t] = step[t]
  BY <1>1
<1> HIDE DEF row
<1>4. /\ DOMAIN runs' = DOMAIN runs \cup {Len(runs) + 1}
      /\ Len(runs) + 1 \notin DOMAIN runs /\ Len(runs) + 1 # 0
      /\ runs'[Len(runs) + 1] = row
      /\ \A n \in DOMAIN runs : runs'[n] = runs[n]
  BY <1>1
<1> QED
  BY <1>1, <1>2, <1>3, <1>4 DEF row

\* No Run and no Commitment is made.
LEMMA ReferringKept ==
    ASSUME Referring, DOMAIN runs' = DOMAIN runs, UNCHANGED commitmentOf,
           \A n \in DOMAIN runs : runs'[n].commitment = runs[n].commitment,
           Len(commitments') = Len(commitments), DOMAIN commitments' = DOMAIN commitments,
           approved' \subseteq {Subject(i) : i \in items'},
           task' \in {"none", "pending", "simulated", "filed"},
           deliverable' \in {"none", "draft", "unsound", "accepted"},
           reconciled' \subseteq DOMAIN runs
    PROVE  Referring'
BY DEF Referring

\* The Commitments stay as many as they are.
LEMMA SettledOne ==
    ASSUME Typed, Referring, NEW s \in Stages, NEW to \in CommitmentStatuses,
           \/ UNCHANGED commitments
           \/ commitmentOf[s] # 0 /\ commitments' = [commitments EXCEPT ![commitmentOf[s]] = to]
    PROVE  Len(commitments') = Len(commitments) /\ DOMAIN commitments' = DOMAIN commitments
<1>1. commitments \in Seq(CommitmentStatuses) /\ commitmentOf[s] \in 0 .. Len(commitments)
  BY DEF Typed, Referring
<1>2. commitmentOf[s] # 0 => commitmentOf[s] \in DOMAIN commitments
  BY <1>1
<1> QED
  BY <1>2, CommitmentMoved

LEMMA StartReferring ==
    ASSUME ShapeInv, Referring, NEW s \in AgentStages, Start(s)
    PROVE  Referring'
<1> DEFINE last == Len(commitments) + 1
<1>1. /\ NewRun(s, last) /\ commitments' = Append(commitments, "accepted")
      /\ commitmentOf' = [commitmentOf EXCEPT ![s] = last]
      /\ UNCHANGED <<items, approved, task, deliverable, reconciled>>
  BY DEF Start
<1>2. /\ commitments \in Seq(CommitmentStatuses) /\ s \in Stages /\ Typed
      /\ commitmentOf \in [Stages -> 0 .. Len(commitments)]
  BY Agents DEF ShapeInv, Typed, Referring
<1>3. /\ Len(commitments') = last /\ DOMAIN commitments' = 1 .. last
      /\ DOMAIN commitments \subseteq 1 .. last /\ last \in Nat /\ last \in 1 .. last
  BY <1>1, <1>2
<1>4. commitmentOf' \in [Stages -> 0 .. Len(commitments')]
  BY <1>1, <1>2, <1>3
<1>5. /\ DOMAIN runs' = DOMAIN runs \cup {Len(runs) + 1}
      /\ runs'[Len(runs) + 1] = [stage |-> s, commitment |-> last, status |-> "queued"]
      /\ \A n \in DOMAIN runs : runs'[n] = runs[n]
  BY <1>1, <1>2, RunMade
<1>6. \A n \in DOMAIN runs' : runs'[n].commitment \in DOMAIN commitments'
  BY <1>3, <1>5 DEF Referring
<1> QED
  BY <1>1, <1>4, <1>5, <1>6 DEF Referring

LEMMA RetryReferring ==
    ASSUME ShapeInv, Referring, RetrySafeStep
    PROVE  Referring'
<1> DEFINE c == runs[activeRun[stage]].commitment
<1>1. /\ NewRun(stage, c) /\ activeRun[stage] # 0
      /\ UNCHANGED <<commitmentOf, commitments, items, approved, task, deliverable, reconciled>>
  BY DEF RetrySafeStep, CanRetry, recordVars
<1>2. stage \in Stages /\ Typed /\ activeRun[stage] \in DOMAIN runs
  BY <1>1 DEF ShapeInv, Typed
<1>3. c \in DOMAIN commitments
  BY <1>2 DEF Referring
<1> HIDE DEF c
<1>4. /\ DOMAIN runs' = DOMAIN runs \cup {Len(runs) + 1}
      /\ runs'[Len(runs) + 1] = [stage |-> stage, commitment |-> c, status |-> "queued"]
      /\ \A n \in DOMAIN runs : runs'[n] = runs[n]
  BY <1>1, <1>2, RunMade
<1>5. \A n \in DOMAIN runs' : runs'[n].commitment \in DOMAIN commitments'
  BY <1>1, <1>3, <1>4 DEF Referring
<1> QED
  BY <1>1, <1>4, <1>5 DEF Referring

\* The other commands make nothing that could be referred to.
LEMMA CommandReferring ==
    ASSUME ShapeInv, GatesInv, Referring, Command
    PROVE  Referring'
<1>1. /\ Typed /\ stage \in Stages /\ reconciled \subseteq DOMAIN runs
      /\ approved \subseteq {Subject(i) : i \in items}
      /\ task \in {"none", "pending", "simulated", "filed"}
      /\ deliverable \in {"none", "draft", "unsound", "accepted"}
  BY DEF ShapeInv, Typed, Referring
<1>2. ASSUME UNCHANGED <<runs, commitments, commitmentOf, items, approved>>,
             task' \in {task, "simulated"}, deliverable' \in {deliverable, "draft"},
             reconciled' \subseteq DOMAIN runs
      PROVE  Referring'
  BY <1>1, <1>2, ReferringKept
<1>3. ASSUME NEW p \in Stages, UNCHANGED <<runs, commitmentOf, items, reconciled>>,
             ApproveItems(p), Fulfill(p), task' \in {task, "pending"},
             deliverable' \in {deliverable, "accepted"}
      PROVE  Referring'
  <2>1. approved' \subseteq {Subject(i) : i \in items'}
    BY <1>1, <1>3 DEF ApproveItems, ItemsOf
  <2>2. Len(commitments') = Len(commitments) /\ DOMAIN commitments' = DOMAIN commitments
    BY <1>1, <1>3, SettledOne DEF Fulfill, CommitmentStatuses
  <2> QED
    BY <1>1, <1>3, <2>1, <2>2, ReferringKept
<1>4. ASSUME NEW g \in Gates \ {"mo_retrospective"}, Approve(g) PROVE Referring'
  <2>1. Producer[g] \in Stages
    BY GateNames, Names
  <2> QED
    BY <1>3, <1>4, <2>1 DEF Approve, runVars
<1>5. CASE AcceptRetrospective
  BY <1>3, <1>5, Agents DEF AcceptRetrospective, runVars
<1>6. ASSUME NEW g \in Gates, ReturnForRevision(g) PROVE Referring'
  <2> DEFINE p == Producer[g]
             back(i) == i.returned \/ runs[i.run].stage = p
             image(i) == [i EXCEPT !.returned = back(i)]
  <2>1. p \in Stages
    BY GateNames, Names
  <2>2. /\ UNCHANGED <<runs, commitmentOf, approved, task, deliverable, reconciled>>
        /\ items' = {image(i) : i \in items}
    BY <1>6 DEF ReturnForRevision
  <2>3. Len(commitments') = Len(commitments) /\ DOMAIN commitments' = DOMAIN commitments
    BY <1>1, <1>6, <2>1, SettledOne DEF ReturnForRevision, CommitmentStatuses
  <2>4. ASSUME NEW i \in items PROVE Subject(image(i)) = Subject(i)
    <3> DEFINE b == back(i)
    <3>1. i \in Item /\ i.returned \in BOOLEAN
      BY DEF GatesInv, ItemsKnown, Item
    <3>2. b \in BOOLEAN
      BY <3>1
    <3>3. image(i) = [i EXCEPT !.returned = b]
      OBVIOUS
    <3> HIDE DEF b, image
    <3> QED
      BY <3>1, <3>2, <3>3, SentBack
  <2> HIDE DEF image
  <2>5. approved \subseteq {Subject(i) : i \in items'}
    BY <1>1, <2>2, <2>4
  <2> QED
    BY <1>1, <2>2, <2>3, <2>5, ReferringKept
<1>7. CASE ResolveAsNotDone \/ ResolveAsAbandoned \/ ResolveAsSucceeded
  <2>1. Reconcile /\ deliverable' \in {deliverable, "draft"}
    BY <1>7 DEF ResolveAsNotDone, ResolveAsAbandoned, ResolveAsSucceeded
  <2>2. reconciled' \subseteq DOMAIN runs
    BY <1>1, <2>1, Reconciling
  <2> QED
    BY <1>2, <2>1, <2>2 DEF Reconcile, runVars
<1>8. CASE RecordSimulatedPublish \/ RecordSyntheticFeedback \/ HoldCase \/ ResumeCase
  BY <1>1, <1>2, <1>8 DEF RecordSimulatedPublish, RecordSyntheticFeedback, HoldCase, ResumeCase,
     runVars, recordVars
<1>9. CASE CancelCase
  <2>1. UNCHANGED <<commitments, commitmentOf, items, approved, task, deliverable, reconciled>>
    BY <1>9 DEF CancelCase, recordVars
  <2>2. DOMAIN runs' = DOMAIN runs /\ \A n \in DOMAIN runs : runs'[n].commitment = runs[n].commitment
    <3>1. CASE UNCHANGED runs
      BY <3>1
    <3>2. CASE runs' # runs
      <4>1. activeRun[stage] # 0 /\ SetRun(activeRun[stage], "cancelled")
        BY <1>9, <3>2 DEF CancelCase
      <4>2. activeRun[stage] \in DOMAIN runs /\ "cancelled" \in RunStatuses
        BY <1>1, <4>1 DEF Typed, RunStatuses, EndStatuses
      <4> QED
        BY <1>1, <4>1, <4>2, RunKept
    <3> QED
      BY <3>1, <3>2
  <2> QED
    BY <1>1, <2>1, <2>2, ReferringKept
<1> QED
  BY <1>4, <1>5, <1>6, <1>7, <1>8, <1>9, StartReferring, RetryReferring DEF Command

\* Runs end with their Commitment and their objects.
LEMMA RunReferring ==
    ASSUME ShapeInv, GatesInv, Referring, RunStep
    PROVE  Referring'
<1>1. /\ Typed /\ reconciled \subseteq DOMAIN runs
      /\ approved \subseteq {Subject(i) : i \in items}
      /\ task \in {"none", "pending", "simulated", "filed"}
      /\ deliverable \in {"none", "draft", "unsound", "accepted"}
  BY DEF ShapeInv, Referring
<1>2. ASSUME NEW n \in DOMAIN runs, NEW to \in RunStatuses, SetRun(n, to),
             UNCHANGED <<commitmentOf, approved, task, reconciled>>,
             Len(commitments') = Len(commitments), DOMAIN commitments' = DOMAIN commitments,
             items \subseteq items', deliverable' \in {deliverable, "draft", "unsound"}
      PROVE  Referring'
  <2>1. approved' \subseteq {Subject(i) : i \in items'}
    BY <1>1, <1>2
  <2> QED
    BY <1>1, <1>2, <2>1, RunKept, ReferringKept
<1>3. ASSUME NEW n \in DOMAIN runs,
             \/ ClaimRun(n) \/ RequeueRun(n) \/ CancelRun(n)
             \/ \E to \in {"failed", "cancelled", "unknown"}, retry \in {"safe", "unsafe"} :
                    RunFails(n, to, retry)
      PROVE  Referring'
  <2>1. /\ \E to \in RunStatuses : SetRun(n, to)
        /\ UNCHANGED <<commitmentOf, approved, task, reconciled, commitments, items, deliverable>>
    BY <1>3 DEF ClaimRun, RequeueRun, CancelRun, RunFails, recordVars, RunStatuses, EndStatuses
  <2> QED
    BY <1>2, <2>1
<1>4. ASSUME NEW n \in DOMAIN runs, NEW made \in Outputs(runs[n].stage), RunSucceeds(n, made)
      PROVE  Referring'
  <2> DEFINE c == runs[n].commitment
  <2>1. /\ SetRun(n, "evidence_accepted") /\ SyncSuccess(n, made)
        /\ UNCHANGED <<commitmentOf, approved, task, reconciled>>
        /\ commitments' \in {commitments, [commitments EXCEPT ![c] = "submitted"]}
    BY <1>4 DEF RunSucceeds
  <2>2. c \in DOMAIN commitments /\ "submitted" \in CommitmentStatuses
        /\ "evidence_accepted" \in RunStatuses
    BY DEF Referring, CommitmentStatuses, RunStatuses, EndStatuses
  <2> HIDE DEF c
  <2>3. Len(commitments') = Len(commitments) /\ DOMAIN commitments' = DOMAIN commitments
    BY <1>1, <2>1, <2>2, CommitmentMoved
  <2>4. items \subseteq items' /\ deliverable' \in {deliverable, "draft", "unsound"}
    BY <2>1 DEF SyncSuccess
  <2> QED
    BY <1>2, <2>1, <2>2, <2>3, <2>4
<1> QED
  BY <1>3, <1>4 DEF RunStep

LEMMA ReferringStep == ASSUME ShapeInv, GatesInv, Referring, [Next]_vars PROVE Referring'
<1>1. CASE Elsewhere
  <2>1. /\ UNCHANGED <<runs, commitmentOf, items, approved, deliverable, reconciled>>
        /\ task' \in {task, "filed"}
    BY <1>1 DEF Elsewhere
  <2>2. Len(commitments') = Len(commitments) /\ DOMAIN commitments' = DOMAIN commitments
    BY <1>1, Moves DEF ShapeInv
  <2> QED
    BY <2>1, <2>2, ReferringKept DEF Referring
<1> QED
  BY <1>1, CommandReferring, RunReferring, Steps

LEMMA ReferringInit == Init => Referring
BY Names DEF Init, Referring

-----------------------------------------------------------------------------
(* The Commitments, as long as "hold" is sent only where it is offered.    *)

\* Where the case goes when a step is completed.
LEMMA NextStage ==
    ASSUME Typed, stage # "mo_retrospective", Advance(stage)
    PROVE  /\ stage' \in Stages /\ Before(stage, stage') /\ stage' # stage
           /\ \A s \in Stages : Before(s, stage') => s = stage \/ Before(s, stage)
           /\ \A s \in Stages : Before(stage', s) => Before(stage, s)
           /\ step'[stage'] = "ready" /\ step'[stage] = "completed"
           /\ \A s \in Stages : s \notin {stage, stage'} => step'[s] = step[s]
<1> DEFINE next == StageOrder[Position(stage) + 1]
<1>1. /\ stage \in Stages /\ step \in [Stages -> StepStatuses] /\ stage' = next
      /\ step' = [step EXCEPT ![stage] = "completed", ![next] = "ready"]
  BY DEF Typed, Advance
<1>2. next \in Stages /\ Position(next) = Position(stage) + 1
  BY <1>1, Names, Positions, Order
<1> HIDE DEF next
<1>3. \A s \in Stages : Position(s) \in Nat
  BY Names, Positions
<1>4. Before(stage, next) /\ next # stage
  BY <1>1, <1>2, <1>3 DEF Before
<1>5. \A s \in Stages : Before(s, next) => s = stage \/ Before(s, stage)
  BY <1>1, <1>2, <1>3, Linear DEF Before
<1>6. \A s \in Stages : Before(next, s) => Before(stage, s)
  BY <1>1, <1>2, <1>3 DEF Before
<1>7. /\ step'[next] = "ready" /\ step'[stage] = "completed"
      /\ \A s \in Stages : s \notin {stage, next} => step'[s] = step[s]
  BY <1>1, <1>2, <1>4
<1> QED
  BY <1>1, <1>2, <1>4, <1>5, <1>6, <1>7 DEF Before

\* A gate judges the work of an Agent's stage that is not after it.
LEMMA Producers ==
    ASSUME NEW g \in Gates
    PROVE  /\ g \in Stages /\ Producer[g] \in AgentStages /\ Producer[g] \in Stages
           /\ ~Before(g, Producer[g]) /\ (Producer[g] = g \/ Before(Producer[g], g))
           /\ (g \in AgentStages => Producer[g] = g)
           /\ \A h \in Gates : Before(h, Producer[g]) => Producer[h] # Producer[g]
<1>1. CASE g = "mo_plan"
  BY <1>1, GateNames, Names, Positions DEF Before, AgentStages
<1>2. CASE g = "product_review"
  BY <1>2, GateNames, Names, Positions DEF Before, AgentStages
<1>3. CASE g = "content_review"
  BY <1>3, GateNames, Names, Positions DEF Before, AgentStages
<1>4. CASE g = "mo_retrospective"
  BY <1>4, GateNames, Names, Positions DEF Before, AgentStages
<1> QED
  BY <1>1, <1>2, <1>3, <1>4, GateNames

\* What is completed is behind the case, or its last stage.
LEMMA CompletedBehind ==
    ASSUME ShapeInv, NEW s \in Stages, step[s] = "completed"
    PROVE  Before(s, stage) \/ s = stage
<1>1. stage \in Stages
  BY DEF ShapeInv, Typed
<1> QED
  BY <1>1, Linear DEF ShapeInv, Placed

\* Commitments go forward or are moved, Runs keep theirs and their success, and what people
\* have said stays said.
Forward ==
    /\ UNCHANGED <<commitmentOf, activeRun>>
    /\ Len(commitments') = Len(commitments) /\ DOMAIN commitments' = DOMAIN commitments
    /\ \A c \in DOMAIN commitments :
           \/ commitments'[c] = commitments[c]
           \/ commitments[c] = "accepted" /\ commitments'[c] = "submitted"
           \/ commitments[c] = "submitted" /\ commitments'[c] = "fulfilled"
           \/ commitments'[c] = "moved"
    /\ DOMAIN runs' = DOMAIN runs
    /\ \A n \in DOMAIN runs :
           /\ runs'[n].commitment = runs[n].commitment
           /\ runs[n].status = "evidence_accepted" => runs'[n].status = "evidence_accepted"
    /\ reconciled \subseteq reconciled'
\* Only a Run that succeeds submits.
EarnsNew ==
    \A c \in DOMAIN commitments : commitments[c] = "accepted" /\ commitments'[c] = "submitted" =>
        \E n \in DOMAIN runs : /\ runs'[n].commitment = c
                               /\ runs'[n].status = "evidence_accepted"

\* The Commitment of a stage, if it has one, is one of the case's.
LEMMA OwnCommitment ==
    ASSUME Typed, Referring, NEW s \in Stages
    PROVE  /\ commitmentOf[s] # 0 => commitmentOf[s] \in DOMAIN commitments
           /\ commitmentOf[s] \in 0 .. Len(commitments) /\ Len(commitments) \in Nat
<1>1. commitmentOf[s] \in 0 .. Len(commitments) /\ commitments \in Seq(CommitmentStatuses)
  BY DEF Typed, Referring
<1> QED
  BY <1>1

\* What going forward keeps.
LEMMA ForwardKeeps ==
    ASSUME Typed, Referring, SettledInv, Forward
    PROVE  /\ UnderCommitment'
           /\ AnsweredFor'
           /\ EarnsNew => Earned'
           /\ \A s \in Stages : Vouched(s) => Vouched(s)'
           /\ \A g \in Gates : Through(g) => Through(g)'
<1>1. UnderCommitment'
  <2> SUFFICES ASSUME NEW s \in Stages, activeRun[s] # 0
               PROVE  commitmentOf[s] # 0 /\ runs'[activeRun[s]].commitment = commitmentOf[s]
    BY DEF UnderCommitment, Forward
  <2>1. activeRun[s] \in DOMAIN runs
    BY DEF Typed
  <2> QED
    BY <2>1 DEF SettledInv, UnderCommitment, Forward
<1>2. AnsweredFor'
  BY DEF SettledInv, AnsweredFor, Forward, OpenStatuses
<1>3. ASSUME EarnsNew PROVE Earned'
  <2> SUFFICES ASSUME NEW c \in DOMAIN commitments, commitments'[c] \in {"submitted", "fulfilled"}
               PROVE  \E n \in DOMAIN runs : /\ runs'[n].commitment = c
                                             /\ runs'[n].status = "evidence_accepted"
    BY DEF Earned, Forward, Of
  <2>1. CASE commitments[c] \in {"submitted", "fulfilled"}
    BY <2>1 DEF SettledInv, Earned, Forward, Of
  <2>2. CASE commitments[c] = "accepted" /\ commitments'[c] = "submitted"
    BY <1>3, <2>2 DEF EarnsNew
  <2> QED
    BY <2>1, <2>2 DEF Forward
<1>4. \A c : VouchedBy(c) => VouchedBy(c)'
  BY DEF VouchedBy, Referring, Forward
<1>5. \A s \in Stages : Vouched(s) => Vouched(s)'
  BY <1>4, OwnCommitment DEF Vouched, Forward
<1>6. \A g \in Gates : Through(g) => Through(g)'
  BY <1>4, OwnCommitment, Producers DEF Through, Forward
<1> QED
  BY <1>1, <1>2, <1>3, <1>5, <1>6


\* The current stage stays as much worked on as it was.
LEMMA OpenKept ==
    ASSUME Typed, Referring, SettledInv, Forward, UNCHANGED stage,
           \A c \in DOMAIN commitments :
               commitments'[c] = commitments[c] \/ commitments'[c] = "moved",
           step'[stage] # "completed" => step[stage] # "completed", Untaken' => Untaken
    PROVE  OpenWhileWorked'
<1>1. stage \in Stages
  BY DEF Typed
<1>2. /\ commitmentOf[stage] # 0 => commitmentOf[stage] \in DOMAIN commitments
      /\ activeRun[stage] # 0 => commitmentOf[stage] # 0
  BY <1>1, OwnCommitment DEF SettledInv, UnderCommitment
<1>3. commitmentOf' = commitmentOf /\ activeRun' = activeRun
  BY DEF Forward
<1> QED
  BY <1>2, <1>3 DEF SettledInv, OpenWhileWorked, WorkStatuses, OpenStatuses

\* The case stays at its stage, and Commitments go forward.
LEMMA SettledHere ==
    ASSUME ShapeInv, Referring, SettledInv, Forward, EarnsNew, UNCHANGED stage, OpenWhileWorked',
           Judging' => Judging \/ Vouched(stage)',
           \A g \in Gates : step'[g] = "completed" => step[g] = "completed" \/ Through(g)'
    PROVE  SettledInv'
<1>1. /\ UnderCommitment' /\ AnsweredFor' /\ Earned' /\ stage \in Stages
      /\ \A s \in Stages : Vouched(s) => Vouched(s)'
      /\ \A g \in Gates : Through(g) => Through(g)'
  BY ForwardKeeps DEF ShapeInv, Typed
<1>2. OneStage'
  BY DEF SettledInv, OneStage, Forward, Before
<1>3. Judging' => Vouched(stage)'
  <2>1. Judging => Vouched(stage)
    BY DEF SettledInv, VouchedBehind
  <2>2. PICK s \in Stages : s = stage
    BY <1>1
  <2>3. Vouched(s)' => Vouched(stage)'
    BY <2>2
  <2> QED
    BY <1>1, <2>1, <2>2, <2>3
<1>4. VouchedBehind'
  BY <1>1, <1>3, Agents DEF SettledInv, VouchedBehind, Before
<1>5. GatesSettled'
  BY <1>1 DEF SettledInv, GatesSettled
<1> QED
  BY <1>1, <1>2, <1>4, <1>5 DEF SettledInv

\* The case goes on from its stage, and Commitments go forward.
LEMMA SettledOn ==
    ASSUME ShapeInv, Referring, SettledInv, Forward, EarnsNew,
           NEW here \in Stages, here = stage,
           stage # "mo_retrospective", Advance(stage), failure' = NoFailure,
           here \in AgentStages => Vouched(here)',
           here \in Gates => Through(here)'
    PROVE  SettledInv'
<1>1. /\ UnderCommitment' /\ AnsweredFor' /\ Earned'
      /\ \A s \in Stages : Vouched(s) => Vouched(s)'
      /\ \A g \in Gates : Through(g) => Through(g)'
  BY ForwardKeeps DEF ShapeInv, Typed
<1>2. /\ stage' \in Stages /\ Before(here, stage') /\ stage' # here
      /\ \A s \in Stages : Before(s, stage') => s = here \/ Before(s, here)
      /\ \A s \in Stages : Before(stage', s) => Before(here, s)
      /\ step'[stage'] = "ready"
      /\ \A s \in Stages : s \notin {here, stage'} => step'[s] = step[s]
  BY NextStage DEF ShapeInv
<1>3. commitmentOf[stage'] = 0 /\ activeRun[stage'] = 0
  BY <1>2 DEF SettledInv, OneStage, UnderCommitment
<1>4. OneStage'
  BY <1>2 DEF SettledInv, OneStage, Forward, Before
<1>5. OpenWhileWorked'
  BY <1>3 DEF OpenWhileWorked, Forward
<1>6. ~Judging'
  BY <1>2, NoFailureType DEF Judging
<1>7. VouchedBehind'
  <2> SUFFICES ASSUME NEW s \in AgentStages, Before(s, stage') PROVE Vouched(s)'
    BY <1>6 DEF VouchedBehind, Before
  <2>1. s \in Stages
    BY Agents
  <2>2. s = here \/ Vouched(s)
    BY <1>2, <2>1 DEF SettledInv, VouchedBehind
  <2> QED
    BY <1>1, <2>1, <2>2
<1>8. GatesSettled'
  <2> SUFFICES ASSUME NEW g \in Gates, step'[g] = "completed" PROVE Through(g)'
    BY DEF GatesSettled
  <2>1. g \in Stages /\ g # stage'
    BY <1>2, Producers
  <2>2. g = here \/ Through(g)
    BY <1>2, <2>1 DEF SettledInv, GatesSettled
  <2> QED
    BY <1>1, <2>2
<1> QED
  BY <1>1, <1>4, <1>5, <1>7, <1>8 DEF SettledInv

\* What stays as it is goes forward.
LEMMA StillForward ==
    ASSUME Typed, UNCHANGED <<commitmentOf, activeRun, commitments>>,
           DOMAIN runs' = DOMAIN runs, reconciled \subseteq reconciled',
           \A n \in DOMAIN runs :
               /\ runs'[n].commitment = runs[n].commitment
               /\ runs[n].status = "evidence_accepted" => runs'[n].status = "evidence_accepted"
    PROVE  Forward /\ EarnsNew
BY DEF Forward, EarnsNew

\* So does what only a Run that is not over changes.
LEMMA RunForward ==
    ASSUME Typed, NEW n \in DOMAIN runs, NEW to \in RunStatuses, SetRun(n, to), Live(n),
           UNCHANGED <<commitmentOf, activeRun, commitments, reconciled>>
    PROVE  Forward /\ EarnsNew
<1>1. /\ DOMAIN runs' = DOMAIN runs
      /\ \A m \in DOMAIN runs : m # n => runs'[m] = runs[m]
      /\ \A m \in DOMAIN runs : runs'[m].commitment = runs[m].commitment
  BY RunKept
<1>2. runs[n].status # "evidence_accepted"
  BY DEF Live
<1> QED
  BY <1>1, <1>2, StillForward

\* The current step is blocked.
LEMMA SettledBlocked ==
    ASSUME ShapeInv, Referring, SettledInv, Forward, EarnsNew,
           NEW why, Block(stage, why), step[stage] # "completed",
           why.class = "human" => /\ why.previous = step[stage] /\ UNCHANGED commitments
                                  /\ step[stage] \in {"ready", "awaiting_human"},
           activeRun[stage] # 0 => commitments'[commitmentOf[stage]] \in WorkStatuses
    PROVE  SettledInv'
<1>1. stage' = stage /\ step' = [step EXCEPT ![stage] = "blocked"] /\ failure' = why
  BY DEF Block, SetStep
<1>2. /\ step'[stage] = "blocked"
      /\ \A s \in Stages : s # stage => step'[s] = step[s]
  BY <1>1 DEF ShapeInv, Typed
<1>3. Judging' => Judging
  BY <1>1, <1>2 DEF Judging
<1>4. \A g \in Gates : step'[g] = "completed" => step[g] = "completed"
  BY <1>2, Producers
<1>5. OpenWhileWorked'
  <2>1. Untaken' => Untaken /\ UNCHANGED commitments
    BY <1>1, <1>2 DEF Untaken
  <2> QED
    BY <1>1, <2>1 DEF SettledInv, OpenWhileWorked, Forward
<1> QED
  BY <1>1, <1>3, <1>4, <1>5, SettledHere

\* A Run fails, is cancelled or is lost: its Commitment stays open.
LEMMA SettledFailed ==
    ASSUME CaseInv, Referring, SettledInv, NEW n \in DOMAIN runs, Live(n),
           NEW to \in {"failed", "cancelled", "unknown"}, NEW retry \in {"safe", "unsafe"},
           SetRun(n, to), SyncFailure(n, to, retry),
           UNCHANGED <<commitmentOf, activeRun, commitments, reconciled>>
    PROVE  SettledInv'
<1> DEFINE why == [class |-> "run", retry |-> retry, run |-> to, previous |-> "ready"]
<1>1. /\ Block(stage, why) /\ step[stage] # "completed" /\ activeRun[stage] # 0
      /\ Typed /\ ShapeInv /\ to \in RunStatuses
  BY AliveWatched DEF SyncFailure, Watched, CaseInv, ShapeInv, Typed, RunStatuses, EndStatuses
<1>2. why.class # "human"
  OBVIOUS
<1> HIDE DEF why
<1>3. Forward /\ EarnsNew
  BY <1>1, RunForward
<1>4. commitments'[commitmentOf[stage]] \in WorkStatuses
  BY <1>1 DEF SettledInv, OpenWhileWorked
<1> QED
  BY <1>1, <1>2, <1>3, <1>4, SettledBlocked

\* A Run succeeds: it submits the Commitment of the stage the case is at.
LEMMA SettledSuccess ==
    ASSUME CaseInv, Referring, SettledInv, NEW n \in DOMAIN runs,
           NEW made \in Outputs(runs[n].stage), RunSucceeds(n, made)
    PROVE  SettledInv'
<1>1. PICK here \in Stages : here = stage
  BY DEF CaseInv, ShapeInv, Typed
<1> DEFINE c == commitmentOf[here]
<1>2. /\ ShapeInv /\ Typed /\ Live(n) /\ SetRun(n, "evidence_accepted") /\ SyncSuccess(n, made)
      /\ UNCHANGED <<activeRun, commitmentOf, reconciled>>
      /\ "evidence_accepted" \in RunStatuses /\ "submitted" \in CommitmentStatuses
  BY DEF CaseInv, ShapeInv, RunSucceeds, Live, RunStatuses, EndStatuses, CommitmentStatuses
<1>3. /\ Watched(n) /\ runs[n].stage = here /\ activeRun[here] = n /\ here \in AgentStages
      /\ step[here] # "completed" /\ n # 0
  BY <1>1, <1>2, AliveWatched, WatchedHere DEF Watched, Typed
<1>4. c # 0 /\ runs[n].commitment = c /\ commitments[c] \in WorkStatuses /\ c \in DOMAIN commitments
  BY <1>1, <1>2, <1>3, OwnCommitment DEF SettledInv, UnderCommitment, OpenWhileWorked
<1>5. /\ commitments' = IF commitments[c] = "accepted"
                        THEN [commitments EXCEPT ![c] = "submitted"] ELSE commitments
  BY <1>4 DEF RunSucceeds
<1> HIDE DEF c
<1>6. /\ Len(commitments') = Len(commitments) /\ DOMAIN commitments' = DOMAIN commitments
      /\ commitments'[c] = IF commitments[c] = "moved" THEN "moved" ELSE "submitted"
      /\ \A d \in DOMAIN commitments : d # c => commitments'[d] = commitments[d]
  BY <1>2, <1>4, <1>5, CommitmentMoved DEF WorkStatuses, OpenStatuses
<1>7. /\ DOMAIN runs' = DOMAIN runs /\ runs'[n].status = "evidence_accepted"
      /\ \A m \in DOMAIN runs : m # n => runs'[m] = runs[m]
      /\ \A m \in DOMAIN runs : runs'[m].commitment = runs[m].commitment
  BY <1>2, RunKept
<1>8. Forward
  BY <1>2, <1>4, <1>6, <1>7 DEF Forward, WorkStatuses, OpenStatuses
<1>9. EarnsNew
  BY <1>4, <1>6, <1>7 DEF EarnsNew
<1>10. commitments'[commitmentOf[stage]] \in WorkStatuses /\ Vouched(here)'
  BY <1>1, <1>2, <1>4, <1>6 DEF c, Vouched, WorkStatuses, OpenStatuses
<1>11. \/ Block(stage, Incomplete)
       \/ failure' = NoFailure /\ AwaitHuman(stage)
       \/ failure' = NoFailure /\ stage \notin Gates /\ Advance(stage)
  BY <1>1, <1>2, <1>3 DEF SyncSuccess
<1>12. CASE Block(stage, Incomplete)
  <2>1. Incomplete.class # "human"
    BY DEF Incomplete
  <2> QED
    BY <1>1, <1>2, <1>3, <1>8, <1>9, <1>10, <1>12, <2>1, SettledBlocked
<1>13. CASE failure' = NoFailure /\ AwaitHuman(stage)
  <2>1. UNCHANGED stage /\ step'[stage] = "awaiting_human" /\ failure'.class # "human"
        /\ \A s \in Stages : s # stage => step'[s] = step[s]
    BY <1>1, <1>2, <1>13, NoFailureType DEF AwaitHuman, SetStep, Typed
  <2>2. OpenWhileWorked'
    BY <1>2, <1>10, <2>1 DEF OpenWhileWorked, Untaken
  <2>3. Vouched(stage)'
    BY <1>1, <1>10, <2>1
  <2>4. \A g \in Gates : step'[g] = "completed" => step[g] = "completed"
    BY <2>1, Producers
  <2> QED
    BY <1>2, <1>8, <1>9, <2>1, <2>2, <2>3, <2>4, SettledHere
<1>14. CASE failure' = NoFailure /\ stage \notin Gates /\ Advance(stage)
  <2>1. stage # "mo_retrospective"
    BY <1>14, GateNames
  <2> QED
    BY <1>1, <1>2, <1>8, <1>9, <1>10, <1>14, <2>1, SettledOn
<1> QED
  BY <1>11, <1>12, <1>13, <1>14

LEMMA SettledRunStep ==
    ASSUME CaseInv, Referring, SettledInv, RunStep
    PROVE  SettledInv'
<1>1. ASSUME NEW n \in DOMAIN runs, ClaimRun(n) \/ RequeueRun(n) PROVE SettledInv'
  <2>1. PICK to \in {"queued", "active"} :
           /\ SetRun(n, to) /\ Live(n)
           /\ UNCHANGED <<stage, step, failure, activeRun, commitmentOf, commitments, reconciled>>
    BY <1>1 DEF ClaimRun, RequeueRun, recordVars, stepVars, Live
  <2>2. Typed /\ ShapeInv /\ to \in RunStatuses
    BY DEF CaseInv, ShapeInv, RunStatuses
  <2>3. Forward /\ EarnsNew
    BY <2>1, <2>2, RunForward
  <2>4. (Untaken' => Untaken) /\ (Judging' => Judging)
    BY <2>1 DEF Untaken, Judging
  <2>5. OpenWhileWorked'
    BY <2>1, <2>2, <2>3, <2>4, OpenKept
  <2> QED
    BY <2>1, <2>2, <2>3, <2>4, <2>5, SettledHere
<1>2. ASSUME NEW n \in DOMAIN runs, CancelRun(n) PROVE SettledInv'
  <2>1. /\ SetRun(n, "cancelled") /\ SyncFailure(n, "cancelled", "unsafe") /\ Live(n)
        /\ UNCHANGED <<commitmentOf, activeRun, commitments, reconciled>>
    BY <1>2 DEF CancelRun, recordVars, Live
  <2> QED
    BY <2>1, SettledFailed
<1>3. ASSUME NEW n \in DOMAIN runs, NEW to \in {"failed", "cancelled", "unknown"},
             NEW retry \in {"safe", "unsafe"}, RunFails(n, to, retry)
      PROVE  SettledInv'
  <2>1. /\ SetRun(n, to) /\ SyncFailure(n, to, retry) /\ Live(n)
        /\ UNCHANGED <<commitmentOf, activeRun, commitments, reconciled>>
    BY <1>3 DEF RunFails, recordVars, Live
  <2> QED
    BY <2>1, SettledFailed
<1> QED
  BY <1>1, <1>2, <1>3, SettledSuccess DEF RunStep

\* People interrupt the case and take it up again.
LEMMA SettledHold ==
    ASSUME CaseInv, Referring, SettledInv, "hold" \notin Strays, HoldCase
    PROVE  SettledInv'
<1> DEFINE why == [class |-> "human", retry |-> "manual", run |-> "none", previous |-> step[stage]]
<1>1. /\ Offered("hold") /\ CanHold /\ Block(stage, why)
      /\ UNCHANGED <<commitmentOf, activeRun, runs, commitments, reconciled>>
  BY DEF HoldCase, runVars, recordVars, Sent
<1>2. ShapeInv /\ Typed
  BY DEF CaseInv, ShapeInv
<1>3. step[stage] \in {"ready", "awaiting_human"}
  <2>1. caseStatus \notin {"running", "completed", "cancelled"} /\ step[stage] # "blocked"
    BY <1>1 DEF Offered, CanHold
  <2> QED
    BY <1>2, <2>1 DEF ShapeInv, Typed, CaseStatuses, Shown
<1>4. Forward /\ EarnsNew
  BY <1>1, <1>2, StillForward
<1>5. why.previous = step[stage]
  OBVIOUS
<1> HIDE DEF why
<1>6. activeRun[stage] # 0 => commitments'[commitmentOf[stage]] \in WorkStatuses
  BY <1>1, <1>3 DEF SettledInv, OpenWhileWorked
<1> QED
  BY <1>1, <1>2, <1>3, <1>4, <1>5, <1>6, SettledBlocked

LEMMA SettledResume ==
    ASSUME CaseInv, Referring, SettledInv, ResumeCase
    PROVE  SettledInv'
<1> DEFINE back == IF failure.previous = "awaiting_human" THEN "awaiting_human" ELSE "ready"
<1>1. /\ step[stage] = "blocked" /\ failure.class = "human" /\ SetStep(stage, back)
      /\ failure' = NoFailure
      /\ UNCHANGED <<stage, commitmentOf, activeRun, runs, commitments, reconciled>>
  BY DEF ResumeCase, CanResume, runVars, recordVars
<1>2. ShapeInv /\ Typed
  BY DEF CaseInv, ShapeInv
<1>3. /\ step'[stage] = back /\ back \in {"ready", "awaiting_human"}
      /\ back = "awaiting_human" <=> failure.previous = "awaiting_human"
      /\ \A s \in Stages : s # stage => step'[s] = step[s]
  BY <1>1, <1>2 DEF SetStep, Typed
<1> HIDE DEF back
<1>4. (Untaken' => Untaken) /\ (Judging' => Judging)
  BY <1>1, <1>3, NoFailureType DEF Untaken, Judging
<1>5. Forward /\ EarnsNew
  BY <1>1, <1>2, StillForward
<1>6. OpenWhileWorked'
  BY <1>1, <1>2, <1>4, <1>5, OpenKept
<1>7. \A g \in Gates : step'[g] = "completed" => step[g] = "completed"
  BY <1>3, Producers
<1> QED
  BY <1>1, <1>2, <1>4, <1>5, <1>6, <1>7, SettledHere

\* What people have said of the active Run vouches for the Commitment of its stage.
LEMMA SettledResolve ==
    ASSUME CaseInv, Referring, SettledInv,
           ResolveAsNotDone \/ ResolveAsAbandoned \/ ResolveAsSucceeded
    PROVE  SettledInv'
<1>1. PICK here \in Stages : here = stage
  BY DEF CaseInv, ShapeInv, Typed
<1>2. ShapeInv /\ Typed
  BY DEF CaseInv, ShapeInv
<1>3. /\ Reconcile /\ UNCHANGED commitmentOf
  BY DEF ResolveAsNotDone, ResolveAsAbandoned, ResolveAsSucceeded, Reconcile, runVars
<1>4. /\ step[here] = "blocked" /\ activeRun[here] \in DOMAIN runs /\ activeRun[here] # 0
      /\ here \in AgentStages /\ reconciled' = reconciled \cup {activeRun[here]}
      /\ UNCHANGED <<activeRun, runs, commitments>>
  BY <1>1, <1>2, <1>3, Reconciling DEF Typed
<1>5. Forward /\ EarnsNew
  BY <1>2, <1>3, <1>4, StillForward
<1>6. /\ commitmentOf[here] # 0 /\ runs[activeRun[here]].commitment = commitmentOf[here]
      /\ commitments[commitmentOf[here]] \in WorkStatuses
  BY <1>1, <1>4 DEF SettledInv, UnderCommitment, OpenWhileWorked
<1>7. Vouched(here)'
  BY <1>3, <1>4, <1>6 DEF Vouched, VouchedBy
<1>8. CASE ResolveAsNotDone
  <2>1. /\ UNCHANGED <<stage, step>>
        /\ failure' = [failure EXCEPT !.class = "reconciled", !.retry = "safe", !.run = "confirmed"]
    BY <1>8 DEF ResolveAsNotDone
  <2>2. failure'.class = "reconciled"
    BY <1>2, <2>1, ReconciledType DEF Typed
  <2>3. ~Untaken' /\ ~Judging'
    BY <1>1, <1>4, <2>1, <2>2 DEF Untaken, Judging
  <2>4. OpenWhileWorked'
    BY <1>2, <1>4, <1>5, <2>1, <2>3, OpenKept
  <2> QED
    BY <1>2, <1>5, <2>1, <2>3, <2>4, SettledHere
<1>9. CASE ResolveAsAbandoned
  <2>1. UNCHANGED <<stage, step, failure>>
    BY <1>9 DEF ResolveAsAbandoned
  <2>2. (Untaken' => Untaken) /\ (Judging' => Judging)
    BY <2>1 DEF Untaken, Judging
  <2>3. OpenWhileWorked'
    BY <1>2, <1>4, <1>5, <2>1, <2>2, OpenKept
  <2> QED
    BY <1>2, <1>5, <2>1, <2>2, <2>3, SettledHere
<1>10. CASE ResolveAsSucceeded
  <2>1. failure' = NoFailure /\ IF stage \in Gates THEN AwaitHuman(stage) ELSE Advance(stage)
    BY <1>10 DEF ResolveAsSucceeded
  <2>2. CASE stage \in Gates
    <3>1. UNCHANGED stage /\ step'[stage] = "awaiting_human" /\ failure'.class # "human"
          /\ \A s \in Stages : s # stage => step'[s] = step[s]
      BY <1>1, <1>2, <2>1, <2>2, NoFailureType DEF AwaitHuman, SetStep, Typed
    <3>2. OpenWhileWorked'
      BY <1>1, <1>3, <1>4, <1>6, <3>1 DEF OpenWhileWorked, Untaken
    <3>3. Vouched(stage)'
      BY <1>1, <1>7, <3>1
    <3>4. \A g \in Gates : step'[g] = "completed" => step[g] = "completed"
      BY <3>1, Producers
    <3> QED
      BY <1>2, <1>5, <3>1, <3>2, <3>3, <3>4, SettledHere
  <2>3. CASE stage \notin Gates
    <3>1. stage # "mo_retrospective" /\ Advance(stage)
      BY <2>1, <2>3, GateNames
    <3> QED
      BY <1>1, <1>2, <1>5, <1>7, <2>1, <2>3, <3>1, SettledOn
  <2> QED
    BY <2>2, <2>3
<1> QED
  BY <1>8, <1>9, <1>10

\* What people accept was vouched for, and is fulfilled if it was submitted.
LEMMA SettledApproved ==
    ASSUME ShapeInv, Referring, SettledInv, NEW g \in Gates, stage = g, step[g] = GateStatus(g),
           Fulfill(Producer[g]), UNCHANGED <<commitmentOf, activeRun, runs, reconciled>>
    PROVE  /\ Forward /\ EarnsNew /\ Through(g)'
           /\ g \in AgentStages => Vouched(g)'
           /\ failure = NoFailure
<1> DEFINE p == Producer[g]
<1>1. /\ g \in Stages /\ p \in AgentStages /\ p \in Stages
      /\ p = g \/ Before(p, g)
      /\ g \in AgentStages => p = g
  BY Producers
<1>2. Vouched(p)
  <2>1. CASE p = g
    <3>1. step[stage] = "awaiting_human"
      BY <1>1, <2>1 DEF GateStatus
    <3>2. Vouched(stage)
      BY <3>1 DEF SettledInv, VouchedBehind, Judging
    <3> QED
      BY <2>1, <3>2
  <2>2. CASE Before(p, g)
    BY <1>1, <2>2 DEF SettledInv, VouchedBehind
  <2> QED
    BY <1>1, <2>1, <2>2
<1>3. Typed /\ failure = NoFailure
  BY DEF ShapeInv, Explained, GateStatus
<1>4. PICK c \in DOMAIN commitments :
         /\ c = commitmentOf[p] /\ c # 0
         /\ commitments' = IF commitments[c] = "submitted"
                           THEN [commitments EXCEPT ![c] = "fulfilled"] ELSE commitments
  BY <1>1, <1>2, <1>3, OwnCommitment DEF Vouched, Fulfill
<1>5. commitments[c] \in {"submitted", "fulfilled", "moved"} \/ VouchedBy(c)
  BY <1>2, <1>4 DEF Vouched
<1>6. commitmentOf'[p] = c
  BY <1>4
<1>7. /\ Len(commitments') = Len(commitments) /\ DOMAIN commitments' = DOMAIN commitments
      /\ \A d \in DOMAIN commitments :
             commitments'[d] = commitments[d]
                \/ (d = c /\ commitments[d] = "submitted" /\ commitments'[d] = "fulfilled")
  <2>1. CASE commitments[c] = "submitted"
    BY <1>3, <1>4, <2>1, CommitmentMoved DEF CommitmentStatuses
  <2>2. CASE commitments[c] # "submitted"
    BY <1>4, <2>2
  <2> QED
    BY <2>1, <2>2
<1>8. Forward /\ EarnsNew
  BY <1>7 DEF Forward, EarnsNew
<1>9. commitments'[c] \in {"fulfilled", "moved"} \/ VouchedBy(c)
  <2>1. CASE commitments[c] = "submitted"
    BY <1>3, <1>4, <2>1, CommitmentMoved DEF CommitmentStatuses
  <2>2. CASE commitments[c] # "submitted"
    BY <1>4, <1>5, <2>2
  <2> QED
    BY <2>1, <2>2
<1>10. VouchedBy(c) => VouchedBy(c)'
  BY DEF VouchedBy
<1>11. Through(g)'
  BY <1>4, <1>6, <1>9, <1>10 DEF Through
<1>12. g \in AgentStages => Vouched(g)'
  BY <1>1, <1>11 DEF Through, Vouched
<1> QED
  BY <1>3, <1>8, <1>11, <1>12

LEMMA SettledGate ==
    ASSUME CaseInv, Referring, SettledInv,
           \/ \E g \in Gates \ {"mo_retrospective"} : Approve(g)
           \/ AcceptRetrospective
           \/ RecordSimulatedPublish \/ RecordSyntheticFeedback
    PROVE  SettledInv'
<1>1. ShapeInv /\ Typed
  BY DEF CaseInv, ShapeInv
<1>2. ASSUME NEW g \in Gates \ {"mo_retrospective"}, Approve(g) PROVE SettledInv'
  <2>1. /\ stage = g /\ step[g] = GateStatus(g) /\ Fulfill(Producer[g]) /\ Advance(stage)
        /\ UNCHANGED <<failure, commitmentOf, activeRun, runs, reconciled>>
    BY <1>2 DEF Approve, CanApprove, AtGate, runVars
  <2>2. /\ Forward /\ EarnsNew /\ Through(g)' /\ (g \in AgentStages => Vouched(g)')
        /\ failure = NoFailure /\ g \in Stages
    BY <1>1, <2>1, SettledApproved, Producers
  <2> QED
    BY <1>1, <2>1, <2>2, SettledOn
<1>3. CASE AcceptRetrospective
  <2> DEFINE g == "mo_retrospective"
  <2>1. /\ stage = g /\ step[g] = GateStatus(g) /\ Fulfill(Producer[g]) /\ g \in Gates
        /\ SetStep(g, "completed") /\ stage' = stage
        /\ UNCHANGED <<failure, commitmentOf, activeRun, runs, reconciled>>
    BY <1>3, GateNames DEF AcceptRetrospective, CanAccept, AtGate, runVars
  <2>2. /\ Forward /\ EarnsNew /\ Through(g)' /\ failure = NoFailure
    BY <1>1, <2>1, SettledApproved
  <2>3. /\ step'[g] = "completed"
        /\ \A s \in Stages : s # g => step'[s] = step[s]
    BY <1>1, <2>1 DEF SetStep, Typed
  <2> HIDE DEF g
  <2>4. ~Untaken' /\ ~Judging'
    BY <2>1, <2>2, <2>3, NoFailureType DEF Untaken, Judging
  <2>5. OpenWhileWorked'
    BY <2>1, <2>3, <2>4 DEF OpenWhileWorked
  <2>6. \A h \in Gates : step'[h] = "completed" => step[h] = "completed" \/ Through(h)'
    <3> SUFFICES ASSUME NEW h \in Gates, step'[h] = "completed"
                 PROVE  step[h] = "completed" \/ Through(h)'
      OBVIOUS
    <3>1. CASE h = g
      BY <2>2, <3>1
    <3>2. CASE h # g
      BY <2>3, <3>2, Producers
    <3> QED
      BY <3>1, <3>2
  <2> QED
    BY <1>1, <2>1, <2>2, <2>4, <2>5, <2>6, SettledHere
<1>4. CASE RecordSimulatedPublish \/ RecordSyntheticFeedback
  <2>1. PICK here \in {"simulated_publish", "feedback"} :
           /\ here = stage /\ step[here] = "ready" /\ Advance(stage)
           /\ UNCHANGED <<failure, commitmentOf, activeRun, runs, commitments, reconciled>>
    BY <1>4 DEF RecordSimulatedPublish, CanPublish, RecordSyntheticFeedback, CanFeedback, runVars,
                recordVars
  <2>2. here \in Stages /\ here \notin AgentStages /\ here \notin Gates /\ here # "mo_retrospective"
    BY Names, GateNames DEF AgentStages
  <2>3. failure = NoFailure
    BY <1>1, <2>1 DEF ShapeInv, Explained
  <2>4. Forward /\ EarnsNew
    BY <1>1, <2>1, StillForward
  <2> QED
    BY <1>1, <2>1, <2>2, <2>3, <2>4, SettledOn
<1> QED
  BY <1>2, <1>3, <1>4

LEMMA SettledCancel ==
    ASSUME CaseInv, Referring, SettledInv, CancelCase
    PROVE  SettledInv'
<1> DEFINE n == activeRun[stage]
<1>1. ShapeInv /\ Typed /\ UNCHANGED <<activeRun, commitmentOf, commitments, reconciled>>
  BY DEF CaseInv, ShapeInv, CancelCase, recordVars
<1>2. CASE n # 0 /\ Live(n)
  <2>1. n \in DOMAIN runs
    BY <1>1, <1>2 DEF Typed
  <2>2. CASE SetRun(n, "cancelled") /\ SyncFailure(n, "cancelled", "unsafe")
    BY <1>1, <1>2, <2>1, <2>2, SettledFailed
  <2>3. CASE Block(stage, [class |-> "cancel_asked", retry |-> "unsafe",
                           run |-> "none", previous |-> "ready"]) /\ UNCHANGED runs
    <3> DEFINE why == [class |-> "cancel_asked", retry |-> "unsafe", run |-> "none",
                       previous |-> "ready"]
    <3>1. Block(stage, why) /\ why.class # "human"
      BY <2>3
    <3> HIDE DEF why
    <3>2. Forward /\ EarnsNew
      BY <1>1, <2>3, StillForward
    <3>3. step[stage] # "completed"
      BY <1>1, <1>2, <2>1, AliveWatched DEF Watched
    <3>4. commitments'[commitmentOf[stage]] \in WorkStatuses
      BY <1>1, <1>2, <3>3 DEF SettledInv, OpenWhileWorked
    <3> QED
      BY <1>1, <3>1, <3>2, <3>3, <3>4, SettledBlocked
  <2> QED
    BY <1>2, <2>2, <2>3 DEF CancelCase
<1>3. CASE ~(n # 0 /\ Live(n))
  <2>1. UNCHANGED <<stage, step, failure, runs>>
    BY <1>3 DEF CancelCase
  <2>2. Forward /\ EarnsNew
    BY <1>1, <2>1, StillForward
  <2>3. (Untaken' => Untaken) /\ (Judging' => Judging)
    BY <2>1 DEF Untaken, Judging
  <2>4. OpenWhileWorked'
    BY <1>1, <2>1, <2>2, <2>3, OpenKept
  <2> QED
    BY <1>1, <2>1, <2>2, <2>3, <2>4, SettledHere
<1> QED
  BY <1>2, <1>3

\* A Run is made for a stage, and its step is running.
Launches(s, c) ==
    \E last \in Nat \ {0} :
        /\ DOMAIN runs' = DOMAIN runs \cup {last} /\ last \notin DOMAIN runs
        /\ runs'[last].commitment = c
        /\ \A n \in DOMAIN runs : runs'[n] = runs[n]
        /\ activeRun'[s] = last
        /\ \A t \in Stages : t # s => activeRun'[t] = activeRun[t]
        /\ step'[s] = "running" /\ failure' = NoFailure
        /\ \A t \in Stages : t # s => step'[t] = step[t]

LEMMA RunLaunched ==
    ASSUME Typed, NEW s \in Stages, NEW c, NewRun(s, c)
    PROVE  Launches(s, c)
<1>1. PICK last : last = Len(runs) + 1
  OBVIOUS
<1>2. /\ DOMAIN runs' = DOMAIN runs \cup {last} /\ last \notin DOMAIN runs /\ last # 0
      /\ runs'[last] = [stage |-> s, commitment |-> c, status |-> "queued"]
      /\ \A n \in DOMAIN runs : runs'[n] = runs[n]
      /\ activeRun'[s] = last
      /\ \A t \in Stages : t # s => activeRun'[t] = activeRun[t]
      /\ step'[s] = "running" /\ failure' = NoFailure
      /\ \A t \in Stages : t # s => step'[t] = step[t]
  BY <1>1, RunMade
<1>3. runs'[last].commitment = c
  BY <1>2
<1>4. last \in Nat
  BY <1>1 DEF Typed
<1> QED
  BY <1>2, <1>3, <1>4 DEF Launches

\* A Run is made for the current stage, under the Commitment of the stage.
LEMMA SettledLaunch ==
    ASSUME ShapeInv, Referring, SettledInv, NEW here \in AgentStages, here = stage,
           NEW c \in Nat \ {0}, Launches(here, c), UNCHANGED <<stage, reconciled>>,
           step[here] # "completed",
           commitmentOf'[here] = c, DOMAIN commitments \subseteq DOMAIN commitments',
           \A s \in Stages : s # here => commitmentOf'[s] = commitmentOf[s],
           \A d \in DOMAIN commitments : commitments'[d] = commitments[d],
           c \in DOMAIN commitments', commitments'[c] \in WorkStatuses,
           \A d \in DOMAIN commitments' : d \in DOMAIN commitments \/ d = c,
           commitmentOf[here] = c \/ /\ c \notin DOMAIN commitments /\ commitments'[c] = "accepted"
                                     /\ ~(commitmentOf[here] # 0 /\
                                          commitments[commitmentOf[here]] \in OpenStatuses)
    PROVE  SettledInv'
<1>1. Typed /\ here \in Stages
  BY Agents DEF ShapeInv
<1>2. PICK last \in Nat \ {0} :
         /\ DOMAIN runs' = DOMAIN runs \cup {last} /\ last \notin DOMAIN runs
         /\ runs'[last].commitment = c
         /\ \A n \in DOMAIN runs : runs'[n] = runs[n]
         /\ activeRun'[here] = last
         /\ \A s \in Stages : s # here => activeRun'[s] = activeRun[s]
         /\ step'[here] = "running" /\ failure' = NoFailure
         /\ \A s \in Stages : s # here => step'[s] = step[s]
  BY DEF Launches
<1>3. \A s \in Stages : commitmentOf[s] # 0 => commitmentOf[s] \in DOMAIN commitments
  BY <1>1, OwnCommitment
<1>4. \A s \in Stages : s # here => commitmentOf[s] # c
  BY <1>1, <1>3 DEF SettledInv, OneStage
<1>5. OneStage'
  <2>1. \A s, t \in Stages : commitmentOf'[s] = commitmentOf'[t] /\ commitmentOf'[s] # 0 => s = t
    BY <1>4 DEF SettledInv, OneStage
  <2>2. ~Before(here, here)
    BY <1>1, Names, Positions DEF Before
  <2>3. \A s \in Stages : Before(stage, s) \/ s \notin AgentStages => commitmentOf'[s] = 0
    BY <2>2 DEF SettledInv, OneStage
  <2> QED
    BY <2>1, <2>3 DEF OneStage, Before
<1>6. UnderCommitment'
  <2> SUFFICES ASSUME NEW s \in Stages, activeRun'[s] # 0
               PROVE  commitmentOf'[s] # 0 /\ runs'[activeRun'[s]].commitment = commitmentOf'[s]
    BY DEF UnderCommitment
  <2>1. CASE s = here
    BY <1>2, <2>1
  <2>2. CASE s # here
    <3>1. activeRun'[s] = activeRun[s] /\ activeRun[s] \in DOMAIN runs
      BY <1>1, <1>2, <2>2 DEF Typed
    <3> QED
      BY <1>2, <2>2, <3>1 DEF SettledInv, UnderCommitment
  <2> QED
    BY <2>1, <2>2
<1>7. OpenWhileWorked'
  BY <1>2, NoFailureType DEF OpenWhileWorked, Untaken
<1>8. Earned'
  <2> SUFFICES ASSUME NEW d \in DOMAIN commitments', commitments'[d] \in {"submitted", "fulfilled"}
               PROVE  \E n \in DOMAIN runs' : /\ runs'[n].commitment = d
                                              /\ runs'[n].status = "evidence_accepted"
    BY DEF Earned, Of
  <2>1. d \in DOMAIN commitments
    <3>1. CASE c \in DOMAIN commitments
      BY <3>1
    <3>2. CASE c \notin DOMAIN commitments
      BY <1>1, <1>3, <3>2
    <3> QED
      BY <3>1, <3>2
  <2>2. PICK n \in DOMAIN runs : runs[n].commitment = d /\ runs[n].status = "evidence_accepted"
    BY <2>1 DEF SettledInv, Earned, Of
  <2> QED
    BY <1>2, <2>2
<1>9. AnsweredFor'
  <2> SUFFICES ASSUME NEW d \in DOMAIN commitments', commitments'[d] \in OpenStatuses
               PROVE  \E s \in AgentStages : commitmentOf'[s] = d
    BY DEF AnsweredFor
  <2>1. CASE d = c
    BY <2>1
  <2>2. CASE d # c
    <3>1. d \in DOMAIN commitments /\ commitments[d] \in OpenStatuses /\ d # 0
      BY <1>1, <2>2 DEF Typed
    <3>2. PICK s \in AgentStages : commitmentOf[s] = d
      BY <3>1 DEF SettledInv, AnsweredFor
    <3>3. s # here
      BY <2>2, <3>1, <3>2
    <3> QED
      BY <3>2, <3>3, Agents
  <2> QED
    BY <2>1, <2>2
<1>10. \A d : VouchedBy(d) => VouchedBy(d)'
  BY <1>2 DEF VouchedBy, Referring
<1>11. VouchedBehind'
  <2> SUFFICES ASSUME NEW s \in AgentStages, Before(s, stage) PROVE Vouched(s)'
    BY <1>2, NoFailureType DEF VouchedBehind, Judging, Before
  <2>1. s # here /\ s \in Stages /\ Vouched(s)
    BY Agents, Names, Positions DEF Before, SettledInv, VouchedBehind
  <2> QED
    BY <1>3, <1>10, <2>1 DEF Vouched
<1>12. GatesSettled'
  <2> SUFFICES ASSUME NEW g \in Gates, step'[g] = "completed" PROVE Through(g)'
    BY DEF GatesSettled
  <2>1. g \in Stages /\ g # here /\ step[g] = "completed" /\ Producer[g] \in Stages
    BY <1>2, Producers
  <2>2. Before(g, here) /\ Through(g)
    BY <2>1, CompletedBehind DEF SettledInv, GatesSettled
  <2>3. Producer[g] # here
    BY <2>2, Producers
  <2> QED
    BY <1>3, <1>10, <2>1, <2>2, <2>3 DEF Through
<1> QED
  BY <1>5, <1>6, <1>7, <1>8, <1>9, <1>11, <1>12 DEF SettledInv

\* Starting closes nothing: what the stage had is closed already.
LEMMA SettledStart ==
    ASSUME ShapeInv, Referring, SettledInv, NEW s \in AgentStages, Start(s)
    PROVE  SettledInv'
<1>1. s = stage /\ stage' = stage /\ step[s] = "ready" /\ Typed /\ s \in Stages
  BY StartShape, Agents DEF ShapeInv
<1> DEFINE last == Len(commitments) + 1
<1>2. /\ NewRun(s, last) /\ commitments' = Append(commitments, "accepted")
      /\ commitmentOf' = [commitmentOf EXCEPT ![s] = last] /\ UNCHANGED reconciled
  BY DEF Start
<1>3. /\ commitments \in Seq(CommitmentStatuses) /\ commitmentOf \in [Stages -> 0 .. Len(commitments)]
  BY <1>1 DEF Typed, Referring
<1>4. /\ DOMAIN commitments' = DOMAIN commitments \cup {last} /\ last \notin DOMAIN commitments
      /\ last \in Nat \ {0} /\ commitments'[last] = "accepted"
      /\ \A d \in DOMAIN commitments : commitments'[d] = commitments[d]
  BY <1>2, <1>3
<1>5. /\ commitmentOf'[s] = last
      /\ \A t \in Stages : t # s => commitmentOf'[t] = commitmentOf[t]
  BY <1>1, <1>2, <1>3
<1>6. ~(commitmentOf[s] # 0 /\ commitments[commitmentOf[s]] \in OpenStatuses)
  BY <1>1 DEF SettledInv, OpenWhileWorked, Untaken
<1> HIDE DEF last
<1> QED
  BY <1>1, <1>2, <1>4, <1>5, <1>6, RunLaunched, SettledLaunch
     DEF WorkStatuses, OpenStatuses

\* Retrying goes on under the Commitment of the stage.
LEMMA SettledRetry ==
    ASSUME ShapeInv, Referring, SettledInv, RetrySafeStep
    PROVE  SettledInv'
<1>1. PICK here \in AgentStages : here = stage
  BY RetryShape
<1>2. /\ NewRun(here, runs[activeRun[here]].commitment) /\ activeRun[here] # 0
      /\ step[here] = "blocked"
      /\ UNCHANGED <<stage, commitmentOf, commitments, reconciled>>
  BY <1>1 DEF RetrySafeStep, CanRetry, recordVars
<1>3. Typed /\ here \in Stages
  BY Agents DEF ShapeInv
<1>4. PICK c \in DOMAIN commitments : c = commitmentOf[here] /\ c # 0
  BY <1>2, <1>3, OwnCommitment DEF SettledInv, UnderCommitment
<1>5. runs[activeRun[here]].commitment = c /\ commitments[c] \in WorkStatuses
  BY <1>1, <1>2, <1>3, <1>4 DEF SettledInv, UnderCommitment, OpenWhileWorked
<1>6. c \in Nat \ {0}
  BY <1>3, <1>4 DEF Typed
<1>7. Launches(here, c)
  BY <1>2, <1>3, <1>5, RunLaunched
<1> QED
  BY <1>1, <1>2, <1>4, <1>5, <1>6, <1>7, SettledLaunch

\* Returning closes the Commitment of what is returned.
LEMMA SettledReturn ==
    ASSUME ShapeInv, Referring, SettledInv, NEW g \in Gates, ReturnForRevision(g)
    PROVE  SettledInv'
<1> DEFINE p == Producer[g]
<1>1. /\ stage = g /\ stage' = p /\ failure' = NoFailure /\ UNCHANGED <<commitmentOf, runs, reconciled>>
      /\ step[g] = GateStatus(g)
      /\ step' = [s \in Stages |-> IF s = p THEN "ready" ELSE IF s = g THEN "pending" ELSE step[s]]
      /\ activeRun' = [activeRun EXCEPT ![p] = 0]
      /\ commitments' = IF commitmentOf[p] # 0 /\
                              commitments[commitmentOf[p]] \notin {"fulfilled", "cancelled", "moved"}
                        THEN [commitments EXCEPT ![commitmentOf[p]] = "cancelled"] ELSE commitments
  BY DEF ReturnForRevision, CanReturn, AtGate
<1>2. /\ g \in Stages /\ p \in Stages
      /\ \A s \in Stages : Before(s, p) => Before(s, g) /\ s # p /\ s # g
      /\ \A s \in AgentStages : Before(p, s) => Before(g, s)
      /\ \A s \in Stages : Before(s, g) => s = p \/ Before(s, p)
      /\ \A h \in Gates : Before(h, p) => Producer[h] # p
  <2>1. CASE g = "mo_plan"
    BY <2>1, Names, Positions, GateNames DEF Before, AgentStages
  <2>2. CASE g = "product_review"
    BY <2>2, Names, Positions, GateNames DEF Before, AgentStages
  <2>3. CASE g = "content_review"
    BY <2>3, Names, Positions, GateNames DEF Before, AgentStages
  <2>4. CASE g = "mo_retrospective"
    BY <2>4, Names, Positions, GateNames DEF Before, AgentStages
  <2> QED
    BY <2>1, <2>2, <2>3, <2>4, GateNames
<1> HIDE DEF p
<1>3. Typed
  BY DEF ShapeInv
<1>4. commitmentOf[p] # 0 => commitmentOf[p] \in DOMAIN commitments
  BY <1>2, <1>3, OwnCommitment
<1>5. /\ DOMAIN commitments' = DOMAIN commitments
      /\ \A d \in DOMAIN commitments :
             commitments'[d] = commitments[d] \/ (d = commitmentOf[p] /\ commitments'[d] = "cancelled")
      /\ commitmentOf[p] # 0 => commitments'[commitmentOf[p]] \in {"fulfilled", "cancelled", "moved"}
  <2>1. CASE commitmentOf[p] # 0 /\ commitments[commitmentOf[p]] \notin {"fulfilled", "cancelled", "moved"}
    BY <1>1, <1>3, <1>4, <2>1, CommitmentMoved DEF CommitmentStatuses
  <2>2. CASE ~(commitmentOf[p] # 0 /\ commitments[commitmentOf[p]] \notin {"fulfilled", "cancelled", "moved"})
    BY <1>1, <2>2
  <2> QED
    BY <2>1, <2>2
<1>6. activeRun'[p] = 0 /\ \A s \in Stages : s # p => activeRun'[s] = activeRun[s]
  BY <1>1, <1>2, <1>3 DEF Typed
<1>7. step'[p] = "ready"
  BY <1>1, <1>2
<1>8. OneStage'
  BY <1>1, <1>2, Agents DEF SettledInv, OneStage, Before
<1>9. UnderCommitment'
  BY <1>1, <1>6 DEF SettledInv, UnderCommitment
<1>10. OpenWhileWorked'
  BY <1>1, <1>5, <1>6 DEF OpenWhileWorked, OpenStatuses
<1>11. Earned' /\ AnsweredFor'
  BY <1>1, <1>5 DEF SettledInv, Earned, AnsweredFor, Of, OpenStatuses
<1>12. \A d : VouchedBy(d) => VouchedBy(d)'
  BY <1>1 DEF VouchedBy
<1>13. ASSUME NEW s \in Stages, s # p, commitmentOf[s] # 0
       PROVE  commitments'[commitmentOf[s]] = commitments[commitmentOf[s]]
  <2>1. commitmentOf[s] # commitmentOf[p] /\ commitmentOf[s] \in DOMAIN commitments
    BY <1>2, <1>3, <1>13, OwnCommitment DEF SettledInv, OneStage
  <2> QED
    BY <1>5, <2>1
<1>14. VouchedBehind'
  <2> SUFFICES ASSUME NEW s \in AgentStages, Before(s, p) PROVE Vouched(s)'
    BY <1>1, <1>7, NoFailureType DEF VouchedBehind, Judging, Before
  <2>1. s # p /\ s \in Stages /\ Vouched(s)
    BY <1>1, <1>2, Agents DEF SettledInv, VouchedBehind
  <2> QED
    BY <1>1, <1>12, <1>13, <2>1 DEF Vouched
<1>15. GatesSettled'
  <2> SUFFICES ASSUME NEW h \in Gates, step'[h] = "completed" PROVE Through(h)'
    BY DEF GatesSettled
  <2>1. h \in Stages /\ h # p /\ h # g /\ step[h] = "completed" /\ Producer[h] \in Stages
    BY <1>1, <1>7, Producers
  <2>2. Before(h, p) /\ Through(h)
    BY <1>1, <1>2, <2>1, CompletedBehind DEF SettledInv, GatesSettled
  <2>3. Producer[h] # p
    BY <1>2, <2>2
  <2> QED
    BY <1>1, <1>12, <1>13, <2>1, <2>2, <2>3 DEF Through
<1> QED
  BY <1>8, <1>9, <1>10, <1>11, <1>14, <1>15 DEF SettledInv

LEMMA SettledStep ==
    ASSUME CaseInv, Referring, SettledInv, "hold" \notin Strays, [Next]_vars
    PROVE  SettledInv'
<1>1. CASE Elsewhere
  <2>1. UNCHANGED <<stage, step, failure, activeRun, commitmentOf, runs, reconciled>>
    BY <1>1 DEF Elsewhere
  <2>2. Typed /\ ShapeInv
    BY DEF CaseInv, ShapeInv
  <2>3. /\ Len(commitments') = Len(commitments) /\ DOMAIN commitments' = DOMAIN commitments
        /\ \A d \in DOMAIN commitments :
               commitments'[d] = commitments[d] \/ commitments'[d] = "moved"
    BY <1>1, <2>2, Moves
  <2>4. Forward /\ EarnsNew
    BY <2>1, <2>3 DEF Forward, EarnsNew
  <2>5. (Untaken' => Untaken) /\ (Judging' => Judging)
    BY <2>1 DEF Untaken, Judging
  <2>6. OpenWhileWorked'
    BY <2>1, <2>2, <2>3, <2>4, <2>5, OpenKept
  <2> QED
    BY <2>1, <2>2, <2>4, <2>5, <2>6, SettledHere
<1>2. CASE Command
  BY <1>2, SettledStart, SettledGate, SettledReturn, SettledHold, SettledResume, SettledResolve,
     SettledRetry, SettledCancel DEF Command, CaseInv
<1> QED
  BY <1>1, <1>2, SettledRunStep, Steps

LEMMA SettledInit == Init => SettledInv
<1> SUFFICES ASSUME Init PROVE SettledInv
  OBVIOUS
<1>1. /\ commitments = <<>> /\ runs = <<>> /\ reconciled = {} /\ failure = NoFailure
      /\ stage = "mo_plan" /\ \A s \in Stages : commitmentOf[s] = 0 /\ activeRun[s] = 0
      /\ \A s \in Stages : step[s] \in {"ready", "pending"}
  BY DEF Init
<1>2. OneStage /\ UnderCommitment /\ Earned /\ AnsweredFor
  BY <1>1 DEF OneStage, UnderCommitment, Earned, AnsweredFor
<1>3. stage \in Stages /\ \A s \in Stages : ~Before(s, stage)
  BY <1>1, Names, Positions DEF Before
<1>4. OpenWhileWorked
  BY <1>1, <1>3 DEF OpenWhileWorked
<1>5. ~Judging
  BY <1>1, <1>3, NoFailureType DEF Judging
<1>6. VouchedBehind /\ GatesSettled
  BY <1>1, <1>3, <1>5, Agents, Producers DEF VouchedBehind, GatesSettled
<1> QED
  BY <1>2, <1>4, <1>6 DEF SettledInv

-----------------------------------------------------------------------------
(* What the server offers, as long as "hold" is sent only where it is       *)
(* offered.                                                                *)

\* The stage after each one.
LEMMA Following ==
    ASSUME Advance(stage)
    PROVE  /\ stage = "mo_plan" => stage' = "pma"
           /\ stage = "pma" => stage' = "product_review"
           /\ stage = "product_review" => stage' = "bga"
           /\ stage = "bga" => stage' = "content_review"
           /\ stage = "content_review" => stage' = "simulated_publish"
           /\ stage = "simulated_publish" => stage' = "feedback"
           /\ stage = "feedback" => stage' = "mo_retrospective"
BY Positions, Order DEF Advance

\* The case stays at its stage.
LEMMA OfferHere ==
    ASSUME OfferInv, ItemsKnown, Grown, UNCHANGED stage, task' = task \/ TaskFiled, Concerned',
           Judging' => /\ Judging \/ stage \in Gates
                       /\ stage = "mo_retrospective" =>
                              deliverable' = "draft" \/ (Judging /\ UNCHANGED deliverable)
    PROVE  OfferInv'
<1>1. \A s, k : Stands(s, k) => Stands(s, k)'
  BY StandsStill
<1>2. Presented'
  BY <1>1 DEF OfferInv, Presented
<1>3. TaskWaits'
  BY DEF OfferInv, TaskWaits
<1> QED
  BY <1>2, <1>3 DEF OfferInv

\* Nobody judges yet: the case has come to a stage, or an Agent goes to work.
LEMMA OfferAfresh ==
    ASSUME failure' = NoFailure, step'[stage'] \in {"ready", "running"},
           \A g \in Gates \ AgentStages : stage' = g =>
               \A k \in RequiredKinds[Producer[g]] : Stands(Producer[g], k)',
           ~TaskFiled /\ stage' = "simulated_publish" => task' = "pending"
    PROVE  OfferInv'
<1>1. ~Judging' /\ Concerned'
  BY NoFailureType DEF Judging, Concerned, NoFailure
<1>2. Presented'
  BY <1>1 DEF Presented
<1> QED
  BY <1>1, <1>2 DEF OfferInv, TaskWaits

\* An Agent's stage is handed to people with an object of every kind.
LEMMA OfferReview ==
    ASSUME Typed, stage \in AgentStages \ Gates, Advance(stage), failure' = NoFailure,
           NEW here \in AgentStages, here = stage,
           \A k \in RequiredKinds[here] : Stands(here, k)'
    PROVE  OfferInv'
<1>1. here \in {"pma", "bga"}
  BY GateNames DEF AgentStages
<1>2. step'[stage'] = "ready" /\ stage # "mo_retrospective"
  BY <1>1, NextStage
<1>3. /\ here = "pma" => stage' = "product_review"
      /\ here = "bga" => stage' = "content_review"
  BY Following
<1>4. \A g \in Gates \ AgentStages : stage' = g => Producer[g] = here
  BY <1>1, <1>3, GateNames
<1>5. stage' # "simulated_publish"
  BY <1>1, <1>3
<1> QED
  BY <1>2, <1>4, <1>5, OfferAfresh

\* The current step is blocked.
LEMMA OfferBlocked ==
    ASSUME ShapeInv, OfferInv, ItemsKnown, Grown, NEW why, Block(stage, why),
           UNCHANGED task, UNCHANGED deliverable \/ why.class # "human",
           why.class = "human" => why.previous = step[stage],
           why.run = "unknown" => activeRun'[stage] # 0 /\ runs'[activeRun'[stage]].status = "unknown",
           why.retry = "safe" => activeRun'[stage] # 0
    PROVE  OfferInv'
<1>1. stage' = stage /\ step' = [step EXCEPT ![stage] = "blocked"] /\ failure' = why
  BY DEF Block, SetStep
<1>2. step'[stage] = "blocked"
  BY <1>1 DEF ShapeInv, Typed
<1>3. Judging' => Judging /\ UNCHANGED deliverable
  BY <1>1, <1>2 DEF Judging
<1>4. Concerned'
  BY <1>1 DEF Concerned
<1> QED
  BY <1>1, <1>3, <1>4, OfferHere

\* A Run fails, is cancelled or is lost.
LEMMA OfferFailed ==
    ASSUME CaseInv, OfferInv, ItemsKnown, NEW n \in DOMAIN runs, Live(n),
           NEW to \in {"failed", "cancelled", "unknown"}, NEW retry \in {"safe", "unsafe"},
           SetRun(n, to), SyncFailure(n, to, retry),
           UNCHANGED <<activeRun, items, approved, task, deliverable>>
    PROVE  OfferInv'
<1> DEFINE why == [class |-> "run", retry |-> retry, run |-> to, previous |-> "ready"]
<1>1. /\ Block(stage, why) /\ activeRun[stage] = n /\ n # 0 /\ ShapeInv /\ Typed
      /\ to \in RunStatuses
  BY AliveWatched DEF SyncFailure, CaseInv, ShapeInv, Typed, RunStatuses, EndStatuses
<1>2. why.class # "human" /\ why.run = to
  OBVIOUS
<1> HIDE DEF why
<1>3. SameRuns /\ DOMAIN runs' = DOMAIN runs /\ runs'[n].status = to
  BY <1>1, OneRun
<1>4. Grown
  BY <1>3 DEF Grown, SameRuns
<1> QED
  BY <1>1, <1>2, <1>3, <1>4, OfferBlocked

LEMMA OfferSuccess ==
    ASSUME CaseInv, GatesInv, OfferInv, NEW n \in DOMAIN runs,
           NEW made \in Outputs(runs[n].stage), RunSucceeds(n, made)
    PROVE  OfferInv'
<1>1. PICK here \in Stages : here = stage
  BY DEF CaseInv, ShapeInv, Typed
<1>2. /\ ShapeInv /\ Typed /\ ItemsKnown /\ Live(n)
      /\ SetRun(n, "evidence_accepted") /\ SyncSuccess(n, made)
      /\ UNCHANGED <<activeRun, approved, task>> /\ "evidence_accepted" \in RunStatuses
  BY DEF CaseInv, ShapeInv, GatesInv, RunSucceeds, Live, RunStatuses, EndStatuses
<1>3. /\ Watched(n) /\ runs[n].stage = here /\ activeRun[here] = n /\ here \in AgentStages /\ n # 0
  BY <1>1, <1>2, AliveWatched, WatchedHere DEF Typed
<1>4. SameRuns /\ DOMAIN runs' = DOMAIN runs
  BY <1>2, OneRun
<1>5. /\ items' = items \cup Candidates(n, made)
      /\ \/ Block(stage, Incomplete)
         \/ /\ failure' = NoFailure /\ AwaitHuman(stage)
            /\ stage \in Gates /\ (stage = "mo_retrospective" => deliverable' = "draft")
         \/ /\ failure' = NoFailure /\ stage \notin Gates /\ Advance(stage)
            /\ \A k \in DOMAIN made : made[k] = "good"
  BY <1>1, <1>2, <1>3, GateNames DEF SyncSuccess
<1>6. Grown
  BY <1>2, <1>4, <1>5 DEF Grown, SameRuns
<1>7. CASE Block(stage, Incomplete)
  <2>1. Incomplete.class # "human" /\ Incomplete.run # "unknown"
    BY DEF Incomplete
  <2> QED
    BY <1>1, <1>2, <1>3, <1>6, <1>7, <2>1, OfferBlocked
<1>8. CASE /\ failure' = NoFailure /\ AwaitHuman(stage)
           /\ stage \in Gates /\ (stage = "mo_retrospective" => deliverable' = "draft")
  <2>1. UNCHANGED stage /\ Concerned'
    BY <1>8 DEF AwaitHuman, Concerned, NoFailure
  <2> QED
    BY <1>2, <1>6, <1>8, <2>1, OfferHere
<1>9. CASE /\ failure' = NoFailure /\ stage \notin Gates /\ Advance(stage)
           /\ \A k \in DOMAIN made : made[k] = "good"
  <2> SUFFICES ASSUME NEW k \in RequiredKinds[here] PROVE Stands(here, k)'
    BY <1>1, <1>2, <1>3, <1>9, OfferReview
  <2>1. k \in DOMAIN made
    BY <1>3 DEF Outputs
  <2>2. PICK i \in Candidates(n, made) : i.kind = k
    BY <1>2, <1>3, <1>9, <2>1, Made
  <2>3. i \in items' /\ i.run = n /\ ~i.returned /\ runs'[n].stage = here
    BY <1>2, <1>3, <1>4, <1>5, <2>2, Made DEF SameRuns
  <2> QED
    BY <2>2, <2>3 DEF Stands
<1> QED
  BY <1>5, <1>7, <1>8, <1>9

LEMMA OfferRunStep ==
    ASSUME CaseInv, GatesInv, OfferInv, RunStep
    PROVE  OfferInv'
<1>1. ASSUME NEW n \in DOMAIN runs, ClaimRun(n) \/ RequeueRun(n) PROVE OfferInv'
  <2>1. PICK to \in {"queued", "active"} :
           /\ SetRun(n, to) /\ Live(n)
           /\ UNCHANGED <<stage, step, failure, activeRun, items, approved, task, deliverable>>
    BY <1>1 DEF ClaimRun, RequeueRun, recordVars, stepVars, Live
  <2>2. Typed /\ to \in RunStatuses /\ ItemsKnown
    BY DEF CaseInv, ShapeInv, RunStatuses, GatesInv
  <2>3. /\ SameRuns /\ DOMAIN runs' = DOMAIN runs
        /\ \A m \in DOMAIN runs : m # n => runs'[m] = runs[m]
    BY <2>1, <2>2, OneRun
  <2>4. Grown
    BY <2>1, <2>3 DEF Grown, SameRuns
  <2>5. Concerned'
    <3>1. failure.run = "unknown" => /\ activeRun[stage] # 0 /\ activeRun[stage] \in DOMAIN runs
                                     /\ runs[activeRun[stage]].status = "unknown"
      BY <2>2 DEF OfferInv, Concerned, CaseInv, ShapeInv, Typed
    <3>2. failure.run = "unknown" => runs'[activeRun[stage]] = runs[activeRun[stage]]
      BY <2>1, <2>3, <3>1 DEF Live
    <3> QED
      BY <2>1, <3>1, <3>2 DEF OfferInv, Concerned
  <2>6. Judging' => Judging
    BY <2>1 DEF Judging
  <2> QED
    BY <2>1, <2>2, <2>4, <2>5, <2>6, OfferHere
<1>2. ASSUME NEW n \in DOMAIN runs, CancelRun(n) PROVE OfferInv'
  <2>1. /\ SetRun(n, "cancelled") /\ SyncFailure(n, "cancelled", "unsafe") /\ Live(n)
        /\ UNCHANGED <<activeRun, items, approved, task, deliverable>>
    BY <1>2 DEF CancelRun, recordVars, Live
  <2> QED
    BY <2>1, OfferFailed DEF GatesInv
<1>3. ASSUME NEW n \in DOMAIN runs, NEW to \in {"failed", "cancelled", "unknown"},
             NEW retry \in {"safe", "unsafe"}, RunFails(n, to, retry)
      PROVE  OfferInv'
  <2>1. /\ SetRun(n, to) /\ SyncFailure(n, to, retry) /\ Live(n)
        /\ UNCHANGED <<activeRun, items, approved, task, deliverable>>
    BY <1>3 DEF RunFails, recordVars, Live
  <2> QED
    BY <2>1, OfferFailed DEF GatesInv
<1> QED
  BY <1>1, <1>2, <1>3, OfferSuccess DEF RunStep

\* What a person has said of the active Run: it is not done, or done.
LEMMA OfferResolve ==
    ASSUME CaseInv, GatesInv, OfferInv, ResolveAsNotDone \/ ResolveAsAbandoned \/ ResolveAsSucceeded
    PROVE  OfferInv'
<1>1. PICK here \in Stages : here = stage
  BY DEF CaseInv, ShapeInv, Typed
<1>2. ShapeInv /\ Typed /\ ItemsKnown
  BY DEF CaseInv, ShapeInv, GatesInv
<1>3. Reconcile /\ UNCHANGED <<items, approved, task>>
  BY DEF ResolveAsNotDone, ResolveAsAbandoned, ResolveAsSucceeded, Reconcile
<1>4. /\ step[here] = "blocked" /\ activeRun[here] \in DOMAIN runs /\ activeRun[here] # 0
      /\ here \in AgentStages /\ UNCHANGED <<activeRun, runs>>
  BY <1>1, <1>2, <1>3, Reconciling DEF Typed
<1>5. Grown
  BY <1>3, <1>4 DEF Grown
<1>6. CASE ResolveAsNotDone
  <2>1. /\ UNCHANGED <<stage, step, deliverable>>
        /\ failure' = [failure EXCEPT !.class = "reconciled", !.retry = "safe", !.run = "confirmed"]
    BY <1>6 DEF ResolveAsNotDone
  <2>2. failure'.class = "reconciled" /\ failure'.run = "confirmed"
    BY <1>2, <2>1, ReconciledType DEF Typed
  <2>3. ~Judging'
    BY <1>1, <1>4, <2>1, <2>2 DEF Judging
  <2>4. Concerned'
    BY <1>1, <1>4, <2>1, <2>2 DEF Concerned
  <2> QED
    BY <1>2, <1>3, <1>5, <2>1, <2>3, <2>4, OfferHere
<1>7. CASE ResolveAsAbandoned
  <2>1. UNCHANGED <<stage, step, failure, deliverable>>
    BY <1>7 DEF ResolveAsAbandoned
  <2>2. Judging' => Judging
    BY <2>1 DEF Judging
  <2>3. Concerned'
    BY <1>4, <2>1 DEF OfferInv, Concerned
  <2> QED
    BY <1>2, <1>3, <1>5, <2>1, <2>2, <2>3, OfferHere
<1>8. CASE ResolveAsSucceeded
  <2>1. /\ failure' = NoFailure /\ RequiredKinds[here] \subseteq KindsIn(ItemsOf(here))
        /\ IF stage \in Gates THEN AwaitHuman(stage) ELSE Advance(stage)
        /\ deliverable' = IF stage = "mo_retrospective" THEN "draft" ELSE deliverable
    BY <1>1, <1>8 DEF ResolveAsSucceeded
  <2>2. CASE stage \in Gates
    <3>1. UNCHANGED stage /\ Concerned'
      BY <2>1, <2>2 DEF AwaitHuman, Concerned, NoFailure
    <3> QED
      BY <1>2, <1>3, <1>5, <2>1, <2>2, <3>1, OfferHere
  <2>3. CASE stage \notin Gates
    <3> SUFFICES ASSUME NEW k \in RequiredKinds[here] PROVE Stands(here, k)'
      BY <1>1, <1>2, <1>4, <2>1, <2>3, OfferReview
    <3>1. Stands(here, k)
      BY <2>1 DEF KindsIn, ItemsOf, Stands
    <3> QED
      BY <1>2, <1>5, <3>1, StandsStill
  <2> QED
    BY <2>2, <2>3
<1> QED
  BY <1>6, <1>7, <1>8

LEMMA OfferCancel ==
    ASSUME CaseInv, GatesInv, OfferInv, CancelCase
    PROVE  OfferInv'
<1> DEFINE n == activeRun[stage]
           why == [class |-> "cancel_asked", retry |-> "unsafe", run |-> "none", previous |-> "ready"]
<1>1. /\ ShapeInv /\ Typed /\ ItemsKnown
      /\ UNCHANGED <<activeRun, items, approved, task, deliverable>>
  BY DEF CaseInv, ShapeInv, GatesInv, CancelCase, recordVars
<1>2. ASSUME UNCHANGED runs PROVE Grown
  BY <1>1, <1>2 DEF Grown
<1>3. CASE n # 0 /\ Live(n)
  <2>1. n \in DOMAIN runs
    BY <1>1, <1>3 DEF Typed
  <2>2. CASE SetRun(n, "cancelled") /\ SyncFailure(n, "cancelled", "unsafe")
    BY <1>1, <1>3, <2>1, <2>2, OfferFailed
  <2>3. CASE Block(stage, why) /\ UNCHANGED runs
    <3>1. why.class # "human" /\ why.run # "unknown" /\ why.retry # "safe"
      OBVIOUS
    <3> HIDE DEF why
    <3> QED
      BY <1>1, <1>2, <2>3, <3>1, OfferBlocked
  <2> QED
    BY <1>3, <2>2, <2>3 DEF CancelCase
<1>4. CASE ~(n # 0 /\ Live(n))
  <2>1. UNCHANGED <<stage, step, failure, runs>>
    BY <1>4 DEF CancelCase
  <2>2. (Judging' => Judging) /\ Concerned'
    BY <1>1, <2>1 DEF Judging, OfferInv, Concerned
  <2> QED
    BY <1>1, <1>2, <2>1, <2>2, OfferHere
<1> QED
  BY <1>3, <1>4

\* People let the case go on, send it back, or interrupt it.
LEMMA OfferPeople ==
    ASSUME CaseInv, GatesInv, OfferInv,
           \/ \E g \in Gates \ {"mo_retrospective"} : Approve(g)
           \/ AcceptRetrospective
           \/ \E g \in Gates : ReturnForRevision(g)
           \/ RecordSimulatedPublish \/ RecordSyntheticFeedback
           \/ HoldCase \/ ResumeCase
    PROVE  OfferInv'
<1>1. ShapeInv /\ Typed /\ ItemsKnown
  BY DEF CaseInv, ShapeInv, GatesInv
<1>2. ASSUME NEW g \in Gates \ {"mo_retrospective"}, Approve(g) PROVE OfferInv'
  <2>1. /\ stage = g /\ step[stage] = GateStatus(stage) /\ Advance(stage)
        /\ failure' = failure /\ (g = "content_review" => task' = "pending")
    BY <1>1, <1>2, ApproveShape DEF Approve
  <2>2. failure = NoFailure
    BY <1>1, <2>1 DEF ShapeInv, Explained, GateStatus
  <2>3. step'[stage'] = "ready"
    BY <1>1, <2>1, NextStage
  <2>4. /\ g = "mo_plan" => stage' = "pma"
        /\ g = "product_review" => stage' = "bga"
        /\ g = "content_review" => stage' = "simulated_publish"
    BY <2>1, Following
  <2>5. /\ stage' \notin Gates \ AgentStages
        /\ stage' = "simulated_publish" => task' = "pending"
    BY <2>1, <2>4, GateNames DEF AgentStages
  <2> QED
    BY <2>1, <2>2, <2>3, <2>5, OfferAfresh
<1>3. CASE AcceptRetrospective
  <2>1. /\ UNCHANGED <<stage, failure, items, activeRun, runs, task>> /\ approved \subseteq approved'
        /\ SetStep(stage, "completed") /\ step[stage] = "awaiting_human"
    BY <1>1, <1>3, AcceptShape DEF AcceptRetrospective, runVars, ApproveItems
  <2>2. step'[stage] = "completed" /\ failure = NoFailure
    BY <1>1, <2>1 DEF ShapeInv, Explained, SetStep, Typed
  <2>3. ~Judging' /\ Concerned'
    BY <2>1, <2>2, NoFailureType DEF Judging, Concerned, NoFailure
  <2>4. Grown
    BY <2>1 DEF Grown
  <2> QED
    BY <1>1, <2>1, <2>3, <2>4, OfferHere
<1>4. ASSUME NEW g \in Gates, ReturnForRevision(g) PROVE OfferInv'
  <2>1. stage' = Producer[g] /\ failure' = NoFailure /\ step'[stage'] = "ready"
    BY <1>1, <1>4, ReturnShape DEF ReturnForRevision
  <2>2. stage' \in AgentStages
    BY <2>1, Producers
  <2>3. stage' # "simulated_publish"
    BY <2>2 DEF AgentStages
  <2> QED
    BY <2>1, <2>2, <2>3, OfferAfresh
<1>5. CASE RecordSimulatedPublish \/ RecordSyntheticFeedback
  <2>1. /\ stage \in {"simulated_publish", "feedback"} /\ step[stage] = "ready" /\ Advance(stage)
        /\ failure' = failure
    BY <1>5 DEF RecordSimulatedPublish, CanPublish, RecordSyntheticFeedback, CanFeedback
  <2>2. failure = NoFailure
    BY <1>1, <2>1 DEF ShapeInv, Explained
  <2>3. step'[stage'] = "ready"
    BY <1>1, <2>1, NextStage
  <2>4. stage' \in {"feedback", "mo_retrospective"}
    BY <2>1, Following
  <2>5. stage' \notin Gates \ AgentStages /\ stage' # "simulated_publish"
    BY <2>4, GateNames DEF AgentStages
  <2> QED
    BY <2>1, <2>2, <2>3, <2>5, OfferAfresh
<1>6. CASE HoldCase
  <2> DEFINE why == [class |-> "human", retry |-> "manual", run |-> "none", previous |-> step[stage]]
  <2>1. Block(stage, why) /\ UNCHANGED <<activeRun, runs, items, approved, task, deliverable>>
    BY <1>6 DEF HoldCase, runVars, recordVars
  <2>2. why.previous = step[stage] /\ why.run # "unknown" /\ why.retry # "safe"
    OBVIOUS
  <2> HIDE DEF why
  <2>3. Grown
    BY <2>1 DEF Grown
  <2> QED
    BY <1>1, <2>1, <2>2, <2>3, OfferBlocked
<1>7. CASE ResumeCase
  <2>1. /\ UNCHANGED <<stage, activeRun, runs, items, approved, task, deliverable>>
        /\ failure' = NoFailure /\ failure.class = "human"
        /\ step' = [step EXCEPT ![stage] = IF failure.previous = "awaiting_human"
                                           THEN "awaiting_human" ELSE "ready"]
    BY <1>7 DEF ResumeCase, CanResume, SetStep, runVars, recordVars
  <2>2. (Judging' => Judging) /\ Concerned'
    BY <1>1, <2>1, NoFailureType DEF Judging, Concerned, NoFailure, Typed
  <2>3. Grown
    BY <2>1 DEF Grown
  <2> QED
    BY <1>1, <2>1, <2>2, <2>3, OfferHere
<1> QED
  BY <1>2, <1>3, <1>4, <1>5, <1>6, <1>7

LEMMA OfferStep ==
    ASSUME CaseInv, GatesInv, OfferInv, [Next]_vars
    PROVE  OfferInv'
<1>1. ShapeInv /\ Typed /\ ItemsKnown
  BY DEF CaseInv, ShapeInv, GatesInv
<1>2. CASE Elsewhere
  <2>1. /\ UNCHANGED <<stage, step, failure, activeRun, runs, items, approved, deliverable>>
        /\ task' = task \/ TaskFiled
    BY <1>2 DEF Elsewhere
  <2>2. (Judging' => Judging) /\ Concerned' /\ Grown
    BY <2>1 DEF Judging, OfferInv, Concerned, Grown
  <2> QED
    BY <1>1, <2>1, <2>2, OfferHere
<1>3. ASSUME NEW s \in Stages, NEW c, s \in AgentStages, stage' = s, NewRun(s, c) PROVE OfferInv'
  <2>1. step'[s] = "running" /\ failure' = NoFailure
    BY <1>1, <1>3, RunMade
  <2>2. stage' # "simulated_publish"
    BY <1>3 DEF AgentStages
  <2> QED
    BY <1>3, <2>1, <2>2, OfferAfresh
<1>4. ASSUME NEW s \in AgentStages, Start(s) PROVE OfferInv'
  BY <1>3, <1>4, Agents DEF Start
<1>5. CASE RetrySafeStep
  <2>1. stage' = stage /\ stage \in AgentStages /\ \E c \in Nat \ {0} : NewRun(stage, c)
    BY <1>1, <1>5, RetryShape
  <2> QED
    BY <1>3, <2>1, Agents
<1>6. CASE Command
  BY <1>4, <1>5, <1>6, OfferPeople, OfferResolve, OfferCancel DEF Command
<1> QED
  BY <1>2, <1>6, OfferRunStep, Steps

LEMMA OfferInit == Init => OfferInv
<1> SUFFICES ASSUME Init PROVE OfferInv
  OBVIOUS
<1>1. stage = "mo_plan" /\ step[stage] = "ready" /\ failure = NoFailure
  BY Names DEF Init
<1>2. ~Judging /\ Concerned /\ TaskWaits
  BY <1>1, NoFailureType DEF Judging, Concerned, TaskWaits, NoFailure
<1> QED
  BY <1>1, <1>2 DEF OfferInv, Presented, AgentStages

\* What is offered is accepted, but where execution is switched off.
LEMMA OfferedAccepted ==
    ASSUME ShapeInv, SettledInv, OfferInv, ~TaskFiled, NEW c \in Commands, Offered(c)
    PROVE  Accepted(c) \/ (c \in {"start", "retry"} /\ ~Executes)
<1>1. CASE step[stage] = "blocked"
  <2>1. \/ c = "cancel"
        \/ c = "resume" /\ failure.class = "human"
        \/ c = "resolve" /\ failure.run = "unknown"
        \/ c = "retry" /\ failure.retry = "safe"
    BY <1>1 DEF Offered
  <2>2. stage \in Stages
    BY DEF ShapeInv, Typed
  <2>3. c = "resolve" => CanResolve
    BY <1>1, <2>1 DEF CanResolve, OfferInv, Concerned
  <2>4. c = "retry" => CanRetry \/ ~Executes
    BY <1>1, <2>1, <2>2 DEF CanRetry, OfferInv, Concerned, SettledInv, UnderCommitment
  <2>5. c = "resume" => CanResume
    BY <1>1, <2>1 DEF CanResume
  <2> QED
    BY <2>1, <2>3, <2>4, <2>5 DEF Accepted
<1>2. CASE step[stage] # "blocked"
  <2>1. /\ MainAction # "none"
        /\ \/ c \in {MainAction, "cancel"}
           \/ c = "return" /\ MainAction \in {"approve", "accept"}
           \/ c = "hold" /\ caseStatus # "running"
    BY <1>2 DEF Offered
  <2>2. /\ MainAction = "start" => stage \in AgentStages /\ (CanStart(stage) \/ ~Executes)
        /\ MainAction = "publish" => stage = "simulated_publish" /\ step[stage] = "ready"
        /\ MainAction = "feedback" => CanFeedback
        /\ MainAction = "accept" => stage = "mo_retrospective" /\ step[stage] = "awaiting_human"
        /\ MainAction = "approve" => stage \in Gates /\ AtGate(stage)
        /\ MainAction \in {"start", "publish", "feedback", "accept", "approve", "none"}
    BY GateNames DEF MainAction, CanStart, CanFeedback, AtGate
  <2>3. MainAction = "publish" => CanPublish
    BY <2>2 DEF OfferInv, TaskWaits, CanPublish
  <2>4. MainAction = "accept" => CanAccept /\ stage \in Gates /\ CanReturn(stage)
    BY <2>2, GateNames DEF OfferInv, Presented, Judging, CanAccept, CanReturn, AtGate, GateStatus,
                           AgentStages
  <2>5. MainAction = "approve" => stage \in Gates /\ CanApprove(stage) /\ CanReturn(stage)
    <3> SUFFICES ASSUME MainAction = "approve", stage # "mo_plan"
                 PROVE  RequiredKinds[Producer[stage]] \subseteq KindsIn(ItemsOf(Producer[stage]))
      BY <2>2 DEF CanApprove, CanReturn, AtGate
    <3>1. stage \in Gates \ AgentStages
      BY <2>2, GateNames DEF MainAction, AgentStages
    <3>2. \A k \in RequiredKinds[Producer[stage]] : Stands(Producer[stage], k)
      BY <3>1 DEF OfferInv, Presented
    <3> QED
      BY <3>2 DEF Stands, KindsIn, ItemsOf
  <2>6. c = "hold" => CanHold
    BY <2>1, <2>2 DEF CanHold
  <2> QED
    BY <2>1, <2>2, <2>3, <2>4, <2>5, <2>6 DEF Accepted
<1> QED
  BY <1>1, <1>2

-----------------------------------------------------------------------------
(* Theorems.                                                               *)

\* Whatever clients send and in whichever order Runs end, the stages before the
\* current one stay completed, those after it untouched, and the case shows the
\* status of its current step, also after a return (marketing_case.py:1005, 1072).
THEOREM StagesInOrder == Spec => []StageShape
<1>1. ShapeInv => StageShape
  BY DEF ShapeInv, Typed, CaseStatuses, Placed, Shown, StageShape
<1>2. ShapeInv /\ [Next]_vars => ShapeInv'
  BY ShapeStep
<1> QED
  BY <1>1, <1>2, ShapeInit, PTL DEF Spec

\* No Agent is put to work on what no person has approved, whatever clients send,
\* people return and Runs do late (marketing_case.py:1072, 1124, 1717).
THEOREM NoWorkUnapproved == Spec => []GatesKept
<1>1. ShapeInv /\ GatesInv => GatesKept
  <2> SUFFICES ASSUME ShapeInv, GatesInv, NEW n \in DOMAIN runs
               PROVE  LET t == runs[n].stage IN
                      /\ \A s \in AgentStages : Before(s, t) => RequiredKinds[s] = ApprovedKinds(s)
                      /\ t \in DOMAIN handoff => handoff[t] = "accepted"
                      /\ t = "mo_retrospective" => task \in {"simulated", "filed"}
    BY DEF GatesKept
  <2>1. runs[n].stage \in DOMAIN handoff => handoff[runs[n].stage] = "accepted"
    BY DEF GatesInv, Handed
  <2>2. runs[n].stage = "mo_retrospective" => task \in {"simulated", "filed"}
    <3> SUFFICES ASSUME runs[n].stage = "mo_retrospective" PROVE task \in {"simulated", "filed"}
      OBVIOUS
    <3>1. stage = "mo_retrospective"
      BY Names, Positions DEF ShapeInv, Typed, GatesInv, Reached, Before
    <3> QED
      BY <3>1, Positions DEF GatesInv, Published, Before
  <2> QED
    BY <2>1, <2>2, GatesBehind
<1>2. ShapeInv /\ GatesInv /\ [Next]_vars => (ShapeInv /\ GatesInv)'
  BY ShapeStep, GatesStep
<1>3. Init => ShapeInv /\ GatesInv
  BY ShapeInit, GatesInit
<1> QED
  BY <1>1, <1>2, <1>3, PTL DEF Spec

\* At most one Run of a case is alive, of the current stage, and the case waits for
\* it or for its stop; unless "hold" is sent where it is not offered
\* (marketing_case.py:475, 1465).
THEOREM OneRunAlive == ASSUME "hold" \notin Strays PROVE Spec => []OneLiveRun
<1>1. CaseInv => OneLiveRun
  BY DEF CaseInv, ShapeInv, RunsInv, Awaited, Waiting, OneLiveRun
<1>2. CaseInv /\ [Next]_vars => CaseInv'
  BY CaseKept
<1> QED
  BY <1>1, <1>2, CaseInit, PTL DEF Spec

\* An unknown Run is not run again before a person has said what became of it
\* (marketing_case.py:1367).
THEOREM UnknownNotRerun == ASSUME "hold" \notin Strays PROVE Spec => []NoRerunOfUnknown
<1>1. CaseInv => NoRerunOfUnknown
  BY DEF CaseInv, RunsInv
<1>2. CaseInv /\ [Next]_vars => CaseInv'
  BY CaseKept
<1> QED
  BY <1>1, <1>2, CaseInit, PTL DEF Spec

\* No Run that ends late and no command puts another plan in the place of the
\* accepted one (marketing_case.py:1265, 1717).
THEOREM PlanStays == ASSUME "hold" \notin Strays PROVE Spec => AcceptedPlanKept
<1>1. CaseInv /\ [Next]_vars => CaseInv'
  BY CaseKept
<1>2. CaseInv /\ [Next]_vars => [deliverable = "accepted" => deliverable' = "accepted"]_vars
  <2> SUFFICES ASSUME CaseInv, [Next]_vars, deliverable = "accepted"
               PROVE  deliverable' = "accepted"
    OBVIOUS
  <2>1. step[stage] = "completed"
    BY ClosedHere
  <2>2. \A n \in DOMAIN runs : runs[n].status # "active"
    BY AliveWatched DEF Live
  <2>3. UNCHANGED deliverable \/ Command \/ RunStep
    BY Steps DEF Elsewhere
  <2>4. CASE Command
    BY <2>1, <2>4 DEF Command, Start, Approve, AcceptRetrospective, ReturnForRevision,
       RecordSimulatedPublish, RecordSyntheticFeedback, HoldCase, ResumeCase, ResolveAsNotDone,
       ResolveAsAbandoned, ResolveAsSucceeded, Reconcile, CanResolve, RetrySafeStep, CancelCase
  <2>5. CASE RunStep
    BY <2>2, <2>5 DEF RunStep, ClaimRun, RequeueRun, CancelRun, RunSucceeds, RunFails
  <2> QED
    BY <2>3, <2>4, <2>5
<1> QED
  BY <1>1, <1>2, CaseInit, PTL DEF Spec, AcceptedPlanKept

\* Types, and that a case refers to its own Runs, Commitments and objects only,
\* whatever clients send.
THEOREM MarketingCaseTyped == Spec => []TypeOK
<1> DEFINE Switch == enabled \in BOOLEAN
<1>1. ShapeInv /\ GatesInv /\ Referring /\ Switch => TypeOK
  BY DEF ShapeInv, Typed, GatesInv, ItemsKnown, Handed, Referring, TypeOK
<1>2. ShapeInv /\ GatesInv /\ Referring /\ Switch /\ [Next]_vars
         => (ShapeInv /\ GatesInv /\ Referring /\ Switch)'
  BY ShapeStep, GatesStep, ReferringStep DEF Next, SwitchExecution, vars
<1>3. Init => ShapeInv /\ GatesInv /\ Referring /\ Switch
  BY ShapeInit, GatesInit, ReferringInit DEF Init
<1> QED
  BY <1>1, <1>2, <1>3, PTL DEF Spec

\* Commitments are fulfilled only by Runs that succeeded, none is left open without a
\* stage that answers for it, and none behind a gate that was passed unless a person
\* has vouched for the Run or moved the Commitment at its own endpoint; if "hold" is
\* sent only where it is offered (marketing_case.py:1005, 1072, 1265, 1367).
THEOREM CommitmentsKept == ASSUME "hold" \notin Strays PROVE Spec => []CommitmentsSettled
<1>1. SettledInv => CommitmentsSettled
  BY DEF SettledInv, Earned, AnsweredFor, GatesSettled, Through, VouchedBy, Of, OpenStatuses,
         CommitmentsSettled
<1>2. ShapeInv /\ GatesInv /\ RunsInv /\ Referring /\ SettledInv /\ [Next]_vars
         => (ShapeInv /\ GatesInv /\ RunsInv /\ Referring /\ SettledInv)'
  BY ShapeStep, GatesStep, CaseKept, ReferringStep, SettledStep DEF CaseInv
<1>3. Init => ShapeInv /\ GatesInv /\ RunsInv /\ Referring /\ SettledInv
  BY ShapeInit, GatesInit, CaseInit, ReferringInit, SettledInit DEF CaseInv
<1> QED
  BY <1>1, <1>2, <1>3, PTL DEF Spec

\* The server never offers a command it would refuse, but for start and retry while
\* execution is switched off for a real case, and a case that is not over can be moved
\* by what is offered, or waits for a Run; if "hold" is sent only where it is offered
\* and the publish task is not filed at its own endpoint, which does not know of the
\* case (marketing_case.py:475, 1005).
THEOREM OffersWork == ASSUME "hold" \notin Strays, ~TaskFiled PROVE Spec => []OfferWorks
<1>1. ShapeInv /\ SettledInv /\ OfferInv => OfferWorks
  <2> SUFFICES ASSUME ShapeInv, SettledInv, OfferInv PROVE OfferWorks
    OBVIOUS
  <2>1. \A c \in Commands :
           Offered(c) => Accepted(c) \/ (c \in {"start", "retry"} /\ ~Executes)
    BY OfferedAccepted
  <2>2. \/ caseStatus \in {"completed", "cancelled"}
        \/ Offered("cancel")
        \/ \E n \in DOMAIN runs : Live(n)
    <3>1. CASE caseStatus = "running"
      BY <3>1 DEF ShapeInv, Waiting, Typed
    <3>2. CASE caseStatus = "blocked"
      BY <3>2 DEF ShapeInv, Shown, Offered
    <3>3. CASE caseStatus \in {"active", "awaiting_human"}
      <4>1. stage \in Stages /\ step[stage] \in {"ready", "awaiting_human"}
        BY <3>3 DEF ShapeInv, Shown, Typed
      <4>2. step[stage] = "awaiting_human" => stage \in AgentStages /\ stage \in Gates
        BY DEF ShapeInv, Explained, OfferInv, Presented, Judging
      <4>3. MainAction # "none"
        BY <4>1, <4>2, Names, GateNames DEF MainAction, GateStatus, AgentStages
      <4> QED
        BY <3>3, <4>1, <4>3 DEF Offered
    <3> QED
      BY <3>1, <3>2, <3>3 DEF ShapeInv, Typed, CaseStatuses
  <2>3. "cancel" \in Commands
    BY DEF Commands
  <2> QED
    BY <2>1, <2>2, <2>3 DEF OfferWorks
<1>2. ShapeInv /\ GatesInv /\ RunsInv /\ Referring /\ SettledInv /\ OfferInv /\ [Next]_vars
         => (ShapeInv /\ GatesInv /\ RunsInv /\ Referring /\ SettledInv /\ OfferInv)'
  BY ShapeStep, GatesStep, CaseKept, ReferringStep, SettledStep, OfferStep DEF CaseInv
<1>3. Init => ShapeInv /\ GatesInv /\ RunsInv /\ Referring /\ SettledInv /\ OfferInv
  BY ShapeInit, GatesInit, CaseInit, ReferringInit, SettledInit, OfferInit DEF CaseInv
<1> QED
  BY <1>1, <1>2, <1>3, PTL DEF Spec
=============================================================================
