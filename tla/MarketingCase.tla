--------------------------- MODULE MarketingCase ---------------------------
(***************************************************************************)
(* One Marketing Case of marketing_case.py: its stages, the commands people *)
(* send, and what the end of an Agent Run does to it.  A command holds the  *)
(* row of the case (main.py:916) and is refused when its If-Match is not    *)
(* the case's version, so commands are atomic here and the version is not   *)
(* modelled; nor is the interleaving of a command with the transaction that *)
(* ends a Run.  The life of a Run is AgentRun's; only its end matters here. *)
(* A Commitment somebody moves at its own endpoint is only known to have     *)
(* been moved: what those requests and the case make of it is AgentTools'.  *)
(***************************************************************************)
EXTENDS Naturals, Sequences, FiniteSets

CONSTANTS
    MaxRuns,   \* bound on the Runs of the case
    Strays,    \* commands clients send even when next_actions does not list them
    TaskFiled, \* may the publish task be filed at its own endpoint?
    Movable,   \* bound: the Commitments moved at their own endpoint, by number
    Mode       \* MarketingCase.execution_mode

ASSUME ModeAssumption == Mode \in {"real", "synthetic"}

VARIABLES
    caseStatus,   \* MarketingCase.status
    stage,        \* MarketingCase.current_stage
    step,         \* MarketingCaseStep.status of each stage
    failure,      \* MarketingCaseStep.failure of the current stage
    activeRun,    \* MarketingCaseStep.active_run_id, 0 for null
    commitmentOf, \* MarketingCaseStep.commitment_id, 0 for null
    runs,         \* the Runs of the case, as created
    commitments,  \* Commitment.status of the Commitments made, as created
    items,        \* candidates linked to their stage (knowledge items)
    approved,     \* items some Approval was issued for
    handoff,      \* Handoff.status for the role of the stage it is made to
    task,         \* ManualTask.status of the publish task
    deliverable,  \* MarketingDeliverable.status
    reconciled,   \* Runs with a MarketingReconciliation
    enabled       \* execution_enabled(): the switch of the model administration

stepVars == <<caseStatus, stage, step, failure>>
runVars == <<activeRun, commitmentOf, runs>>
recordVars == <<commitments, approved, handoff, task, reconciled>>
caseVars == <<stepVars, runVars, recordVars, items, deliverable>>
vars == <<caseVars, enabled>>

-----------------------------------------------------------------------------
\* STAGES; "brief" is completed when the case is created.
StageOrder == <<"mo_plan", "pma", "product_review", "bga", "content_review",
                "simulated_publish", "feedback", "mo_retrospective">>
Stages == {StageOrder[i] : i \in DOMAIN StageOrder}
Position(s) == CHOOSE i \in DOMAIN StageOrder : StageOrder[i] = s
Before(s, t) == Position(s) < Position(t)

\* ROLE_BY_STAGE and REQUIRED_KINDS
AgentStages == {"mo_plan", "pma", "bga", "mo_retrospective"}
RequiredKinds ==
    [s \in AgentStages |-> CASE s = "pma" -> {"fact", "claim"}
                             [] s = "bga" -> {"campaign", "content"}
                             [] OTHER -> {"review"}]
Kinds == UNION {RequiredKinds[s] : s \in AgentStages}

\* The four human gates: whose work each judges, and the status of the step
\* while it is to be judged.
Producer == [mo_plan |-> "mo_plan", product_review |-> "pma",
             content_review |-> "bga", mo_retrospective |-> "mo_retrospective"]
Gates == DOMAIN Producer
GateStatus(g) == IF g \in AgentStages THEN "awaiting_human" ELSE "ready"

Commands == {"start", "approve", "accept", "return", "publish", "feedback", "hold",
             "resume", "resolve", "retry", "cancel"}
CaseStatuses == {"active", "running", "awaiting_human", "blocked", "completed", "cancelled"}
StepStatuses == {"pending", "ready", "running", "awaiting_human", "blocked", "completed"}
\* "moved": by way of transition_commitment; any status at all from then on.
CommitmentStatuses == {"accepted", "submitted", "fulfilled", "cancelled", "moved"}
EndStatuses == {"evidence_accepted", "failed", "cancelled", "unknown"}
Failures == [class : {"none", "artifacts", "run", "human", "cancel_asked", "reconciled"},
             retry : {"safe", "unsafe", "manual"},
             run : {"none", "failed", "cancelled", "unknown", "confirmed"},
             previous : StepStatuses]
Run == [stage : AgentStages, commitment : Nat \ {0},
        status : {"queued", "active"} \cup EndStatuses]
Item == [run : Nat \ {0}, kind : Kinds, good : BOOLEAN, returned : BOOLEAN]

NoFailure == [class |-> "none", retry |-> "unsafe", run |-> "none", previous |-> "ready"]
Live(n) == runs[n].status \in {"queued", "active"}

\* _knowledge_for_step, without the returned ones.
ItemsOf(s) == {i \in items : runs[i.run].stage = s /\ ~i.returned}
KindsIn(set) == {i.kind : i \in set}
Subject(i) == [run |-> i.run, kind |-> i.kind]

-----------------------------------------------------------------------------
\* create_marketing_case
Init ==
    /\ caseStatus = "active"
    /\ stage = "mo_plan"
    /\ step = [s \in Stages |-> IF s = "mo_plan" THEN "ready" ELSE "pending"]
    /\ failure = NoFailure
    /\ activeRun = [s \in Stages |-> 0]
    /\ commitmentOf = [s \in Stages |-> 0]
    /\ runs = <<>>
    /\ commitments = <<>>
    /\ items = {}
    /\ approved = {}
    /\ handoff = [s \in {"pma", "bga"} |-> "none"]
    /\ task = "none"
    /\ deliverable = "none"
    /\ reconciled = {}
    /\ enabled \in BOOLEAN

-----------------------------------------------------------------------------
(* What the server offers (allowed_actions) and what it accepts (the checks  *)
(* of execute_case_command).                                                *)

MainAction ==
    CASE stage \in AgentStages /\ step[stage] = "ready" -> "start"
      [] stage = "simulated_publish" /\ step[stage] = "ready" -> "publish"
      [] stage = "feedback" /\ step[stage] = "ready" -> "feedback"
      [] stage = "mo_retrospective" /\ step[stage] = "awaiting_human" -> "accept"
      [] stage \in Gates \ {"mo_retrospective"} /\ step[stage] = GateStatus(stage) -> "approve"
      [] OTHER -> "none"

Offered(c) ==
    /\ caseStatus \notin {"completed", "cancelled"}
    /\ IF step[stage] = "blocked"
       THEN \/ c = "cancel"
            \/ c = "resume" /\ failure.class = "human"
            \/ c = "resolve" /\ failure.run = "unknown"
            \/ c = "retry" /\ failure.retry = "safe"
       ELSE /\ MainAction # "none"
            /\ \/ c \in {MainAction, "cancel"}
               \/ c = "return" /\ MainAction \in {"approve", "accept"}
               \/ c = "hold" /\ caseStatus # "running"

AtGate(g) == stage = g /\ step[g] = GateStatus(g)

\* A real case starts and retries Runs only while execution is switched on.
Executes == Mode = "real" => enabled

CanStart(s) == step[s] = "ready" /\ Executes
CanApprove(g) ==
    /\ AtGate(g)
    /\ g # "mo_plan" => RequiredKinds[Producer[g]] \subseteq KindsIn(ItemsOf(Producer[g]))
CanAccept == AtGate("mo_retrospective") /\ deliverable = "draft"
\* Mutant of CanReturn: what was approved can be returned as well.
CanReturnCompleted(g) == stage = g /\ step[g] \in {GateStatus(g), "completed"}
CanReturn(g) == AtGate(g)
CanPublish == stage = "simulated_publish" /\ step[stage] = "ready" /\ task = "pending"
CanFeedback == stage = "feedback" /\ step[stage] = "ready"
CanHold == caseStatus # "running"
CanResume == step[stage] = "blocked" /\ failure.class = "human"
CanResolve ==
    /\ step[stage] = "blocked"
    /\ activeRun[stage] # 0 /\ runs[activeRun[stage]].status = "unknown"
\* Mutant of CanRetry: the retryability is not looked at.
CanRetryAnyway ==
    step[stage] = "blocked" /\ commitmentOf[stage] # 0 /\ activeRun[stage] # 0 /\ Executes
CanRetry ==
    /\ step[stage] = "blocked" /\ failure.retry = "safe"
    /\ commitmentOf[stage] # 0 /\ activeRun[stage] # 0
    /\ Executes

Accepted(c) ==
    CASE c = "start" -> stage \in AgentStages /\ CanStart(stage)
      [] c = "approve" -> stage \in Gates /\ CanApprove(stage)
      [] c = "accept" -> CanAccept
      [] c = "return" -> stage \in Gates /\ CanReturn(stage)
      [] c = "publish" -> CanPublish
      [] c = "feedback" -> CanFeedback
      [] c = "hold" -> CanHold
      [] c = "resume" -> CanResume
      [] c = "resolve" -> CanResolve
      [] c = "retry" -> CanRetry
      [] OTHER -> TRUE

Sent(c) == c \in Strays \/ Offered(c)

-----------------------------------------------------------------------------
(* Building blocks.                                                        *)

SetStep(s, to) == step' = [step EXCEPT ![s] = to]

\* _complete_step_and_ready_next
Advance(s) ==
    LET next == StageOrder[Position(s) + 1] IN
    /\ step' = [step EXCEPT ![s] = "completed", ![next] = "ready"]
    /\ stage' = next
    /\ caseStatus' = IF next \in AgentStages THEN "active" ELSE "awaiting_human"

Block(s, why) ==
    /\ SetStep(s, "blocked")
    /\ failure' = why
    /\ caseStatus' = "blocked"
    /\ UNCHANGED stage

AwaitHuman(s) ==
    /\ SetStep(s, "awaiting_human")
    /\ caseStatus' = "awaiting_human"
    /\ UNCHANGED stage

\* _fulfill_commitment, which passes over what is not submitted.
Fulfill(s) ==
    LET c == commitmentOf[s] IN
    commitments' = IF c # 0 /\ commitments[c] = "submitted"
                   THEN [commitments EXCEPT ![c] = "fulfilled"] ELSE commitments

\* Mutant of ApproveItems: only what the last Run has made.
ApproveLastRun(s) ==
    approved' = approved \cup {Subject(i) : i \in {j \in ItemsOf(s) : j.run = activeRun[s]}}

\* _create_approval for every item of the stage that was not returned
ApproveItems(s) == approved' = approved \cup {Subject(i) : i \in ItemsOf(s)}

NewRun(s, commitment) ==
    /\ Len(runs) < MaxRuns
    /\ runs' = Append(runs, [stage |-> s, commitment |-> commitment, status |-> "queued"])
    /\ activeRun' = [activeRun EXCEPT ![s] = Len(runs) + 1]
    /\ SetStep(s, "running")
    /\ failure' = NoFailure
    /\ caseStatus' = "running"

-----------------------------------------------------------------------------
(* Commands.                                                               *)

\* start_*: _start_agent, which looks at the step and not at the case.
Start(s) ==
    /\ Sent("start") /\ CanStart(s)
    /\ NewRun(s, Len(commitments) + 1)
    /\ commitments' = Append(commitments, "accepted")
    /\ commitmentOf' = [commitmentOf EXCEPT ![s] = Len(commitments) + 1]
    /\ stage' = s
    /\ handoff' = [t \in DOMAIN handoff |->
                      IF t = s /\ handoff[t] = "pending" THEN "accepted" ELSE handoff[t]]
    /\ UNCHANGED <<items, approved, task, deliverable, reconciled>>

\* approve_mo_plan, approve_product, approve_content
Approve(g) ==
    /\ Sent("approve") /\ CanApprove(g)
    /\ ApproveItems(Producer[g])
    /\ Fulfill(Producer[g])
    /\ Advance(g)
    /\ handoff' = [t \in DOMAIN handoff |-> IF t = stage' THEN "pending" ELSE handoff[t]]
    /\ task' = IF g = "content_review" THEN "pending" ELSE task
    /\ UNCHANGED <<failure, runVars, items, deliverable, reconciled>>

\* accept_retrospective
AcceptRetrospective ==
    /\ Sent("accept") /\ CanAccept
    /\ ApproveItems("mo_retrospective")
    /\ Fulfill("mo_retrospective")
    /\ deliverable' = "accepted"
    /\ SetStep("mo_retrospective", "completed")
    /\ caseStatus' = "completed"
    /\ UNCHANGED <<stage, failure, runVars, items, handoff, task, reconciled>>

\* Mutant of ReturnForRevision: the review step is left ready.
ReturnWithoutReset(g) ==
    LET p == Producer[g]  c == commitmentOf[p] IN
    /\ Sent("return") /\ CanReturn(g)
    /\ commitments' = IF c # 0 /\ commitments[c] \notin {"fulfilled", "cancelled", "moved"}
                      THEN [commitments EXCEPT ![c] = "cancelled"] ELSE commitments
    /\ items' = {[i EXCEPT !.returned = @ \/ runs[i.run].stage = p] : i \in items}
    /\ SetStep(p, "ready")
    /\ activeRun' = [activeRun EXCEPT ![p] = 0]
    /\ stage' = p
    /\ failure' = NoFailure
    /\ caseStatus' = "active"
    /\ UNCHANGED <<commitmentOf, runs, approved, handoff, task, deliverable, reconciled>>

\* Mutant of ReturnForRevision: the Commitment of the returned work is left open.
ReturnLeavesOpen(g) ==
    LET p == Producer[g] IN
    /\ Sent("return") /\ CanReturn(g)
    /\ items' = {[i EXCEPT !.returned = @ \/ runs[i.run].stage = p] : i \in items}
    /\ step' = [s \in Stages |-> IF s = p THEN "ready" ELSE IF s = g THEN "pending" ELSE step[s]]
    /\ activeRun' = [activeRun EXCEPT ![p] = 0]
    /\ stage' = p
    /\ failure' = NoFailure
    /\ caseStatus' = "active"
    /\ UNCHANGED <<commitmentOf, runs, recordVars, deliverable>>

\* return_*: _return_for_revision
ReturnForRevision(g) ==
    LET p == Producer[g]  c == commitmentOf[p] IN
    /\ Sent("return") /\ CanReturn(g)
    /\ commitments' = IF c # 0 /\ commitments[c] \notin {"fulfilled", "cancelled", "moved"}
                      THEN [commitments EXCEPT ![c] = "cancelled"] ELSE commitments
    /\ items' = {[i EXCEPT !.returned = @ \/ runs[i.run].stage = p] : i \in items}
    /\ step' = [s \in Stages |-> IF s = p THEN "ready" ELSE IF s = g THEN "pending" ELSE step[s]]
    /\ activeRun' = [activeRun EXCEPT ![p] = 0]
    /\ stage' = p
    /\ failure' = NoFailure
    /\ caseStatus' = "active"
    /\ UNCHANGED <<commitmentOf, runs, approved, handoff, task, deliverable, reconciled>>

RecordSimulatedPublish ==
    /\ Sent("publish") /\ CanPublish
    /\ task' = "simulated"
    /\ Advance("simulated_publish")
    /\ UNCHANGED <<failure, runVars, commitments, approved, handoff, reconciled, items, deliverable>>

RecordSyntheticFeedback ==
    /\ Sent("feedback") /\ CanFeedback
    /\ Advance("feedback")
    /\ UNCHANGED <<failure, runVars, recordVars, items, deliverable>>

\* hold_case and takeover_case
HoldCase ==
    /\ Sent("hold") /\ CanHold
    /\ Block(stage, [class |-> "human", retry |-> "manual", run |-> "none",
                     previous |-> step[stage]])
    /\ UNCHANGED <<runVars, recordVars, items, deliverable>>

ResumeCase ==
    LET back == IF failure.previous = "awaiting_human" THEN "awaiting_human" ELSE "ready" IN
    /\ Sent("resume") /\ CanResume
    /\ SetStep(stage, back)
    /\ failure' = NoFailure
    /\ caseStatus' = IF back = "awaiting_human" THEN "awaiting_human" ELSE "active"
    /\ UNCHANGED <<stage, runVars, recordVars, items, deliverable>>

\* resolve_unknown
Reconcile ==
    /\ Sent("resolve") /\ CanResolve
    /\ reconciled' = reconciled \cup {activeRun[stage]}
    /\ UNCHANGED <<runVars, commitments, approved, handoff, task, items>>

ResolveAsNotDone ==
    /\ Reconcile
    /\ failure' = [failure EXCEPT !.class = "reconciled", !.retry = "safe", !.run = "confirmed"]
    /\ UNCHANGED <<caseStatus, stage, step, deliverable>>

ResolveAsAbandoned ==
    /\ Reconcile
    /\ caseStatus' = "cancelled"
    /\ UNCHANGED <<stage, step, failure, deliverable>>

\* Mutant of ResolveAsSucceeded: the plan is not built.
ResolveWithoutPlan ==
    /\ Reconcile
    /\ RequiredKinds[stage] \subseteq KindsIn(ItemsOf(stage))
    /\ failure' = NoFailure
    /\ IF stage \in Gates THEN AwaitHuman(stage) ELSE Advance(stage)
    /\ UNCHANGED deliverable

\* The candidates are those linked to the stage, by whichever Run.
ResolveAsSucceeded ==
    /\ Reconcile
    /\ RequiredKinds[stage] \subseteq KindsIn(ItemsOf(stage))
    /\ failure' = NoFailure
    /\ IF stage \in Gates THEN AwaitHuman(stage) ELSE Advance(stage)
    /\ deliverable' = IF stage = "mo_retrospective" THEN "draft" ELSE deliverable

\* Mutant of RetrySafeStep: a Commitment of its own, which nobody makes.
RetryUncommitted ==
    /\ Sent("retry") /\ CanRetry
    /\ NewRun(stage, Len(commitments) + 1)
    /\ UNCHANGED <<stage, commitmentOf, recordVars, items, deliverable>>

RetrySafeStep ==
    /\ Sent("retry") /\ CanRetry
    /\ NewRun(stage, runs[activeRun[stage]].commitment)
    /\ UNCHANGED <<stage, commitmentOf, recordVars, items, deliverable>>

-----------------------------------------------------------------------------
(* The end of a Run: sync_case_after_run_terminal, in its transaction.     *)

Watched(n) ==
    LET s == runs[n].stage IN
    activeRun[s] = n /\ step[s] \in {"running", "blocked"} /\ caseStatus # "cancelled"

SetRun(n, to) == runs' = [runs EXCEPT ![n].status = to]

\* "failed", "cancelled" or "unknown", with the retryability of the Attempt.
SyncFailure(n, to, retry) ==
    IF Watched(n)
    THEN Block(runs[n].stage,
               [class |-> "run", retry |-> retry, run |-> to, previous |-> "ready"])
    ELSE UNCHANGED stepVars

\* The candidates of the Run, by kind: none, none long enough, or a good one.
Outputs(s) == [RequiredKinds[s] -> {"absent", "thin", "good"}]
Candidates(n, made) ==
    {[run |-> n, kind |-> k, good |-> made[k] = "good", returned |-> FALSE] :
        k \in {j \in DOMAIN made : made[j] # "absent"}}

Incomplete == [class |-> "artifacts", retry |-> "safe", run |-> "none", previous |-> "ready"]

\* Whether the plan's ten sections are all long enough is up to the texts.
SyncSuccess(n, made) ==
    LET s == runs[n].stage IN
    IF Watched(n)
    THEN /\ items' = items \cup Candidates(n, made)
         /\ \/ /\ \E k \in DOMAIN made : made[k] # "good"
               /\ Block(s, Incomplete)
               /\ UNCHANGED deliverable
            \/ /\ \A k \in DOMAIN made : made[k] = "good"
               /\ \/ /\ s = "mo_retrospective"
                     /\ \/ deliverable' = "draft" /\ failure' = NoFailure /\ AwaitHuman(s)
                        \/ deliverable' = "unsound" /\ Block(s, Incomplete)
                  \/ /\ s # "mo_retrospective"
                     /\ failure' = NoFailure
                     /\ IF s \in Gates THEN AwaitHuman(s) ELSE Advance(s)
                     /\ UNCHANGED deliverable
    ELSE \* simulated Runs link their candidates before the case is asked
         /\ \/ activeRun[s] = n /\ items' = items \cup Candidates(n, made)
            \/ UNCHANGED items
         /\ UNCHANGED <<stepVars, deliverable>>

ClaimRun(n) ==
    /\ runs[n].status = "queued"
    /\ SetRun(n, "active")
    /\ UNCHANGED <<stepVars, activeRun, commitmentOf, recordVars, items, deliverable>>

RequeueRun(n) ==
    /\ runs[n].status = "active"
    /\ SetRun(n, "queued")
    /\ UNCHANGED <<stepVars, activeRun, commitmentOf, recordVars, items, deliverable>>

\* finish_success: the Commitment is submitted, never fulfilled; one that was
\* moved is submitted or passed over, as its status is by then.
RunSucceeds(n, made) ==
    LET c == runs[n].commitment IN
    /\ runs[n].status = "active"
    /\ SetRun(n, "evidence_accepted")
    /\ commitments' = IF commitments[c] = "accepted"
                      THEN [commitments EXCEPT ![c] = "submitted"] ELSE commitments
    /\ SyncSuccess(n, made)
    /\ UNCHANGED <<activeRun, commitmentOf, approved, handoff, task, reconciled>>

RunFails(n, to, retry) ==
    /\ runs[n].status = "active"
    /\ retry = "safe" => to = "failed"
    /\ SetRun(n, to)
    /\ SyncFailure(n, to, retry)
    /\ UNCHANGED <<activeRun, commitmentOf, recordVars, items, deliverable>>

\* POST /v1/runs/{id}/cancel ends a Run that is queued; it has no Attempt.
CancelRun(n) ==
    /\ runs[n].status = "queued"
    /\ SetRun(n, "cancelled")
    /\ SyncFailure(n, "cancelled", "unsafe")
    /\ UNCHANGED <<activeRun, commitmentOf, recordVars, items, deliverable>>

\* Mutant of CancelCase: the case does not wait for the Run it has asked to stop.
CancelAtOnce ==
    /\ Sent("cancel")
    /\ caseStatus' = "cancelled"
    /\ UNCHANGED <<stage, step, failure, runVars, recordVars, items, deliverable>>

\* cancel_case: a Run that is not over is asked to stop first, and the command
\* has to be sent again once it is.
CancelCase ==
    LET n == activeRun[stage] IN
    /\ Sent("cancel")
    /\ IF n # 0 /\ Live(n)
       THEN \/ /\ runs[n].status = "queued"
               /\ SetRun(n, "cancelled")
               /\ SyncFailure(n, "cancelled", "unsafe")
            \/ /\ runs[n].status = "active"
               /\ Block(stage, [class |-> "cancel_asked", retry |-> "unsafe",
                                run |-> "none", previous |-> "ready"])
               /\ UNCHANGED runs
       ELSE caseStatus' = "cancelled" /\ UNCHANGED <<stage, step, failure, runs>>
    /\ UNCHANGED <<activeRun, commitmentOf, recordVars, items, deliverable>>

\* POST /v1/manual-tasks/{id}/receipt, which does not know of the case.
FileTask ==
    /\ TaskFiled /\ task \in {"pending", "simulated"}
    /\ task' = "filed"
    /\ UNCHANGED <<stepVars, runVars, commitments, approved, handoff, reconciled, items, deliverable>>

\* POST /v1/commitments/{id}/transition, by a person or by an Agent's
\* commitment_respond.  The row is read without a lock, so the status that was
\* looked up may be any the Commitment has had, and may overwrite any.
MoveCommitment(c) ==
    /\ c \in Movable
    /\ commitments' = [commitments EXCEPT ![c] = "moved"]
    /\ UNCHANGED <<stepVars, runVars, approved, handoff, task, reconciled, items, deliverable>>

\* The model administration turns execution on and off (ModelAdmin), which
\* only a real case looks at.
SwitchExecution ==
    /\ Mode = "real"
    /\ enabled' = ~enabled
    /\ UNCHANGED caseVars

-----------------------------------------------------------------------------
Command ==
    \/ \E s \in AgentStages : Start(s)
    \/ \E g \in Gates \ {"mo_retrospective"} : Approve(g)
    \/ AcceptRetrospective
    \/ \E g \in Gates : ReturnForRevision(g)
    \/ RecordSimulatedPublish \/ RecordSyntheticFeedback
    \/ HoldCase \/ ResumeCase
    \/ ResolveAsNotDone \/ ResolveAsAbandoned \/ ResolveAsSucceeded
    \/ RetrySafeStep \/ CancelCase

RunStep ==
    \E n \in DOMAIN runs :
        \/ ClaimRun(n) \/ RequeueRun(n) \/ CancelRun(n)
        \/ \E made \in Outputs(runs[n].stage) : RunSucceeds(n, made)
        \/ \E to \in {"failed", "cancelled", "unknown"}, retry \in {"safe", "unsafe"} :
              RunFails(n, to, retry)

CaseStep ==
    \/ Command \/ RunStep \/ FileTask
    \/ \E c \in DOMAIN commitments : MoveCommitment(c)

Next == (CaseStep /\ UNCHANGED enabled) \/ SwitchExecution

Spec == Init /\ [][Next]_vars

-----------------------------------------------------------------------------
(* Properties.                                                             *)

\* Types; what refers to a Run or a Commitment refers to one of the case's.
TypeOK ==
    /\ caseStatus \in CaseStatuses
    /\ stage \in Stages
    /\ step \in [Stages -> StepStatuses]
    /\ failure \in Failures
    /\ activeRun \in [Stages -> 0 .. Len(runs)]
    /\ commitmentOf \in [Stages -> 0 .. Len(commitments)]
    /\ runs \in Seq(Run)
    /\ \A n \in DOMAIN runs : runs[n].commitment \in DOMAIN commitments
    /\ commitments \in Seq(CommitmentStatuses)
    /\ items \subseteq Item
    /\ \A i \in items : i.run \in DOMAIN runs
    /\ approved \subseteq {Subject(i) : i \in items}
    /\ handoff \in [{"pma", "bga"} -> {"none", "pending", "accepted"}]
    /\ task \in {"none", "pending", "simulated", "filed"}
    /\ deliverable \in {"none", "draft", "unsound", "accepted"}
    /\ reconciled \subseteq DOMAIN runs
    /\ enabled \in BOOLEAN

\* Through returns, holds, retries and reconciliations the stages before the
\* current one stay completed and those after it untouched, and the case shows
\* the status of its current step unless it is over.
StageShape ==
    /\ \A s \in Stages : /\ Before(s, stage) => step[s] = "completed"
                         /\ Before(stage, s) => step[s] = "pending"
    /\ CASE caseStatus = "active" -> step[stage] = "ready"
         [] caseStatus = "running" -> stage \in AgentStages /\ step[stage] = "running"
         [] caseStatus = "awaiting_human" ->
                step[stage] = IF stage \in AgentStages THEN "awaiting_human" ELSE "ready"
         [] caseStatus = "blocked" -> step[stage] = "blocked"
         [] caseStatus = "completed" -> step["mo_retrospective"] = "completed"
         [] OTHER -> step[stage] # "running"

\* At most one Run of the case is alive, the case waits for it, and a case that
\* is over has none: a case cannot be cancelled over a Run that still works,
\* and a case shown as running is not waiting for nothing.
OneLiveRun ==
    /\ \A n \in DOMAIN runs : Live(n) =>
           /\ activeRun[stage] = n /\ runs[n].stage = stage
           /\ caseStatus \in {"running", "blocked"}
    /\ caseStatus = "running" => activeRun[stage] # 0 /\ Live(activeRun[stage])

\* No Agent is put to work on what no person has approved: a Run of a stage
\* exists only if every kind of object of every earlier stage is approved and
\* was not returned since, and the role had its handoff.
ApprovedKinds(s) == KindsIn({i \in ItemsOf(s) : Subject(i) \in approved})
GatesKept ==
    \A n \in DOMAIN runs :
        LET t == runs[n].stage IN
        /\ \A s \in AgentStages : Before(s, t) => RequiredKinds[s] = ApprovedKinds(s)
        /\ t \in DOMAIN handoff => handoff[t] = "accepted"
        /\ t = "mo_retrospective" => task \in {"simulated", "filed"}

\* An unknown Run is not run again before a person has said what became of it.
NoRerunOfUnknown ==
    \A n, m \in DOMAIN runs :
        n < m /\ runs[n].stage = runs[m].stage /\ runs[n].status = "unknown" =>
            n \in reconciled

\* Commitments: fulfilled only on work that was accepted, none left open
\* without a stage that answers for it, and none left open behind a gate that
\* was passed, except where a person has vouched for the Run.  Of one that was
\* moved at its own endpoint the case promises nothing.
CommitmentsSettled ==
    /\ \A c \in DOMAIN commitments :
          LET of == {n \in DOMAIN runs : runs[n].commitment = c} IN
          /\ commitments[c] = "fulfilled" =>
                 \E n \in of : runs[n].status = "evidence_accepted"
          /\ commitments[c] \in {"accepted", "submitted"} =>
                 \E s \in AgentStages : commitmentOf[s] = c
    /\ \A g \in Gates : step[g] = "completed" =>
          LET c == commitmentOf[Producer[g]] IN
          \/ commitments[c] \in {"fulfilled", "moved"}
          \/ \E n \in reconciled : runs[n].commitment = c

\* The server never offers a command it would refuse, but for the start and
\* the retry of a real case while execution is switched off; and a case that is
\* not over can always be moved by what next_actions lists, or waits for a Run.
OfferWorks ==
    /\ \A c \in Commands :
          Offered(c) => Accepted(c) \/ (c \in {"start", "retry"} /\ ~Executes)
    /\ \/ caseStatus \in {"completed", "cancelled"}
       \/ \E c \in Commands : Offered(c)
       \/ \E n \in DOMAIN runs : Live(n)

\* The plan that was accepted stays the one that was accepted.
AcceptedPlanKept == [][deliverable = "accepted" => deliverable' = "accepted"]_vars
=============================================================================
