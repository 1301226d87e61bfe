------------------------------- MODULE Lineage -------------------------------
(***************************************************************************)
(* Which record of a Marketing Case names which version of which other one: *)
(* candidates, Approvals, decisions, handoffs, the publish task, the Lead,  *)
(* the final plan and its revisions (marketing_case.py:590-1310).  The      *)
(* stages and commands are MarketingCase's, cut down to those that write    *)
(* such references or decide when one may be sent, hold and resume at any    *)
(* time included; here candidates have versions, and the plan says what it  *)
(* was made from.                                                           *)
(***************************************************************************)
EXTENDS Naturals, Sequences

CONSTANTS
    MaxItems,   \* bound on the candidates of the case, the brief included
    MaxVersion  \* bound on the versions of the plan: no draft is built after it

ASSUME ItemsAssumption == MaxItems \in Nat \ {0}
ASSUME VersionAssumption == MaxVersion \in Nat

VARIABLES
    stage,     \* the stage at work; a review counts to the stage it judges
    phase,     \* what it waits for: status and failure of its step
    run,       \* status of the step's active Run
    items,     \* KnowledgeItems linked to the case, as created
    approvals, \* Approvals: subject and version
    decisions, \* MarketingDecisions that approve: the references they record
    handed,    \* payloads of the Handoffs
    task,      \* object_ref of the publish task
    lead,      \* campaign_ref and content_ref of the Lead
    plan,      \* the MarketingDeliverable
    revisions, \* MarketingDeliverableRevisions, by version
    reviewed   \* subject_version of the Approval of the plan, 0 for none

progress == <<stage, phase, run>>
records == <<approvals, decisions, handed, task, lead>>
planVars == <<plan, revisions, reviewed>>
vars == <<progress, items, records, planVars>>

-----------------------------------------------------------------------------
Stages == {"mo_plan", "pma", "bga", "publish", "feedback", "mo_retrospective"}
\* "blocked" is not offered a retry, "retryable" is; a step on hold resumes as
\* it was if it was to be judged, and as ready if not.  "done": completed.
Phases == {"ready", "running", "blocked", "retryable", "held", "held_judging",
           "judging", "done"}
BlockedPhases == {"blocked", "retryable", "held", "held_judging"}
\* The stage that is ready once a gate has been passed.
Following == [mo_plan |-> "pma", pma |-> "bga", bga |-> "publish"]
RequiredKinds ==
    [mo_plan |-> {"review"}, pma |-> {"fact", "claim"}, bga |-> {"campaign", "content"},
     mo_retrospective |-> {"review"}]
AgentStages == DOMAIN RequiredKinds
Kinds == {"brief"} \cup UNION {RequiredKinds[s] : s \in AgentStages}

Item == [stage : AgentStages \cup {"brief"}, kind : Kinds, version : 1..2, returned : BOOLEAN]
\* A reference: the candidate and the version it had.
Ref == [item : 1..MaxItems, version : 1..2]
RefTo(i) == [item |-> i, version |-> items[i].version]

\* _knowledge_for_step and "status != returned"
OfStage(s) == {i \in DOMAIN items : items[i].stage = s /\ ~items[i].returned}
\* _knowledge_for_case and "status != returned"
OfCase == {i \in DOMAIN items : ~items[i].returned}
KindsOf(set) == {items[i].kind : i \in set}
RefsTo(set) == {RefTo(i) : i \in set}

Brief == [stage |-> "brief", kind |-> "brief", version |-> 1, returned |-> FALSE]
BriefRef == [item |-> 1, version |-> 1]
NoPlan == [status |-> "none", version |-> 0, sources |-> {}]

-----------------------------------------------------------------------------
\* create_marketing_case, which links the brief.
Init ==
    /\ stage = "mo_plan" /\ phase = "ready" /\ run = "none"
    /\ items = <<Brief>>
    /\ approvals = {}
    /\ decisions = {}
    /\ handed = {}
    /\ task = {}
    /\ lead = {}
    /\ plan = NoPlan
    /\ revisions = <<>>
    /\ reviewed = 0

Goto(s, p, r) == stage' = s /\ phase' = p /\ run' = r
Keep == UNCHANGED <<items, records, planVars>>

\* _start_agent
Start ==
    /\ stage \in AgentStages /\ phase = "ready"
    /\ Goto(stage, "running", "live")
    /\ Keep

\* retry_safe_step
Retry ==
    /\ phase = "retryable" /\ run # "none"
    /\ Goto(stage, "running", "live")
    /\ Keep

\* hold_case and takeover_case: whatever the step was, a completed one too.  One
\* that is on hold already was "blocked", and a review that was resumes as
\* ready, which is to be judged.
Hold ==
    LET judged == phase = "judging" \/ (phase = "held_judging" /\ stage \in {"pma", "bga"}) IN
    /\ phase # "running"
    /\ Goto(stage, IF judged THEN "held_judging" ELSE "held", run)
    /\ Keep

\* resume_case
Resume ==
    /\ phase \in {"held", "held_judging"}
    /\ Goto(stage, IF phase = "held" THEN "ready" ELSE "judging", run)
    /\ Keep

\* cancel_case while the Run is not over: it is asked to stop.
AskToCancel ==
    /\ run = "live"
    /\ Goto(stage, "blocked", run)
    /\ Keep

-----------------------------------------------------------------------------
(* The plan.                                                               *)

\* Mutant of RecordRevision: the revision of the version is written over.
RewriteRevision(p) == revisions' = [n \in 1..p.version |-> p]
\* _record_deliverable_revision: one that exists is left as it is.
RecordRevision(p) ==
    revisions' = IF p.version \in DOMAIN revisions THEN revisions ELSE Append(revisions, p)

\* _build_final_deliverable: a new draft under the next version.
BuildPlan(linked) ==
    LET p == [status |-> "draft", version |-> plan.version + 1,
              sources |-> {[item |-> i, version |-> linked[i].version] :
                              i \in {j \in DOMAIN linked : ~linked[j].returned}}]
    IN plan.version < MaxVersion /\ plan' = p /\ RecordRevision(p)

\* Mutant of AcceptDeliverable: the version stays.
AcceptInPlace ==
    LET p == [plan EXCEPT !.status = "accepted"] IN
    /\ plan.status = "draft"
    /\ reviewed' = plan.version
    /\ plan' = p
    /\ RecordRevision(p)
\* _accept_deliverable: the Approval names the draft, the accepted plan is the
\* next version.
AcceptDeliverable ==
    LET p == [plan EXCEPT !.status = "accepted", !.version = @ + 1] IN
    /\ plan.status = "draft"
    /\ reviewed' = plan.version
    /\ plan' = p
    /\ RecordRevision(p)

-----------------------------------------------------------------------------
(* The end of a Run.                                                       *)

\* Candidates, one of each kind, in a fixed order.
Made(kinds) ==
    LET new(k) == [stage |-> stage, kind |-> k, version |-> 1, returned |-> FALSE]
        only(k) == IF k \in kinds THEN <<new(k)>> ELSE <<>>
    IN only("review") \o only("fact") \o only("claim") \o only("campaign") \o only("content")

\* The step is told of the end of its Run while it runs or is blocked.
Watched == run = "live" /\ phase \in {"running"} \cup BlockedPhases

\* The stage is to be judged.  A review is a step of its own and has no Run.
ToJudge(how) == Goto(stage, "judging", IF stage \in {"pma", "bga"} THEN "none" ELSE how)

\* sync_case_after_run_terminal: what the Run has made is linked; missing kinds,
\* short texts or an incomplete plan block the stage.
RunSucceeds(kinds, complete) ==
    LET linked == items \o Made(kinds) IN
    /\ Watched /\ Len(linked) <= MaxItems
    /\ items' = linked
    /\ complete => kinds = RequiredKinds[stage]
    /\ IF complete THEN ToJudge("over") ELSE Goto(stage, "retryable", "over")
    /\ \/ stage = "mo_retrospective" /\ kinds = RequiredKinds[stage] /\ BuildPlan(linked)
       \/ (stage = "mo_retrospective" => ~complete) /\ UNCHANGED <<plan, revisions>>
    /\ UNCHANGED <<records, reviewed>>

RunFails(blocked, how) ==
    /\ Watched
    /\ how = "unknown" => blocked = "blocked"
    /\ Goto(stage, blocked, how)
    /\ Keep

\* A Run ends that its step does not wait for, as it is ready again; a simulated
\* one has its candidates linked nonetheless (prepare_synthetic_candidates).
RunEndsUnwatched(kinds, how) ==
    LET linked == items \o Made(kinds) IN
    /\ run = "live" /\ ~Watched /\ Len(linked) <= MaxItems
    /\ how = "unknown" => kinds = {}
    /\ items' = linked
    /\ Goto(stage, phase, how)
    /\ UNCHANGED <<records, planVars>>

\* resolve_unknown
ResolveAsFailed ==
    /\ phase \in BlockedPhases /\ run = "unknown"
    /\ Goto(stage, "retryable", run)
    /\ Keep
ResolveAsSucceeded ==
    /\ phase \in BlockedPhases /\ run = "unknown"
    /\ RequiredKinds[stage] \subseteq KindsOf(OfStage(stage))
    /\ ToJudge(run)
    /\ IF stage = "mo_retrospective" THEN BuildPlan(items) ELSE UNCHANGED <<plan, revisions>>
    /\ UNCHANGED <<items, records, reviewed>>

-----------------------------------------------------------------------------
(* Commands.                                                               *)

\* _subject_refs: everything linked to the stage.
SubjectRefs(s) == RefsTo({i \in DOMAIN items : items[i].stage = s})

\* return_*: _return_for_revision
ReturnForRevision ==
    /\ phase = "judging"
    /\ items' = [i \in DOMAIN items |->
                    IF i \in OfStage(stage)
                    THEN [items[i] EXCEPT !.returned = TRUE, !.version = @ + 1] ELSE items[i]]
    /\ Goto(stage, "ready", "none")
    /\ UNCHANGED <<records, planVars>>

\* Mutant of Approve: only the latest candidate of a kind gets an Approval.
ApproveLatest ==
    LET newest == {i \in OfStage(stage) :
                      \A j \in OfStage(stage) : items[j].kind = items[i].kind => j <= i} IN
    /\ phase = "judging" /\ stage # "mo_retrospective"
    /\ approvals' = approvals \cup RefsTo(newest)
    /\ decisions' = decisions \cup {SubjectRefs(stage)}
    /\ handed' = IF stage = "bga" THEN handed ELSE handed \cup RefsTo(OfStage(stage))
    /\ task' = IF stage = "bga" THEN RefsTo(OfStage(stage)) ELSE task
    /\ Goto(Following[stage], "ready", "none")
    /\ UNCHANGED <<items, lead, planVars>>
\* approve_mo_plan, approve_product, approve_content
Approve ==
    /\ phase = "judging" /\ stage # "mo_retrospective"
    /\ stage # "mo_plan" => RequiredKinds[stage] \subseteq KindsOf(OfStage(stage))
    /\ approvals' = approvals \cup RefsTo(OfStage(stage))
    /\ decisions' = decisions \cup {SubjectRefs(stage)}
    /\ handed' = IF stage = "bga" THEN handed ELSE handed \cup RefsTo(OfStage(stage))
    /\ task' = IF stage = "bga" THEN RefsTo(OfStage(stage)) ELSE task
    /\ Goto(Following[stage], "ready", "none")
    /\ UNCHANGED <<items, lead, planVars>>

RecordSimulatedPublish ==
    /\ stage = "publish" /\ phase = "ready"
    /\ Goto("feedback", "ready", "none")
    /\ Keep

\* record_synthetic_feedback: the first campaign and the first content that are
\* linked to the stage, in the order of the database.
RecordSyntheticFeedback(campaign, content) ==
    /\ stage = "feedback" /\ phase = "ready"
    /\ items[campaign].stage = "bga" /\ items[campaign].kind = "campaign"
    /\ items[content].stage = "bga" /\ items[content].kind = "content"
    /\ lead' = RefsTo({campaign, content})
    /\ Goto("mo_retrospective", "ready", "none")
    /\ UNCHANGED <<items, approvals, decisions, handed, task, planVars>>

AcceptRetrospective ==
    /\ stage = "mo_retrospective" /\ phase = "judging"
    /\ approvals' = approvals \cup RefsTo(OfStage(stage))
    /\ decisions' = decisions \cup {SubjectRefs(stage)}
    /\ AcceptDeliverable
    /\ Goto(stage, "done", run)
    /\ UNCHANGED <<items, handed, task, lead>>

-----------------------------------------------------------------------------
Next ==
    \/ Start \/ Retry \/ Hold \/ Resume \/ AskToCancel
    \/ /\ stage \in AgentStages
       /\ \E kinds \in SUBSET RequiredKinds[stage] :
              \/ \E complete \in BOOLEAN : RunSucceeds(kinds, complete)
              \/ \E how \in {"over", "unknown"} : RunEndsUnwatched(kinds, how)
    \/ \E blocked \in {"blocked", "retryable"}, how \in {"over", "unknown"} :
           RunFails(blocked, how)
    \/ ResolveAsFailed \/ ResolveAsSucceeded
    \/ ReturnForRevision \/ Approve
    \/ RecordSimulatedPublish
    \/ \E campaign, content \in DOMAIN items : RecordSyntheticFeedback(campaign, content)
    \/ AcceptRetrospective

Spec == Init /\ [][Next]_vars

-----------------------------------------------------------------------------
(* Properties.                                                             *)

Plan == [status : {"none", "draft", "accepted"}, version : Nat, sources : SUBSET Ref]
TypeOK ==
    /\ stage \in Stages
    /\ phase \in Phases
    /\ run \in {"none", "live", "unknown", "over"}
    /\ items \in Seq(Item) /\ Len(items) <= MaxItems
    /\ approvals \subseteq Ref
    /\ decisions \subseteq SUBSET Ref
    /\ handed \subseteq Ref /\ task \subseteq Ref /\ lead \subseteq Ref
    /\ plan \in Plan
    /\ revisions \in Seq(Plan)
    /\ reviewed \in Nat

\* Nothing leaves a gate that was not approved in that version: not in a
\* handoff, not in the publish task, not in the accepted plan, whichever Runs,
\* returns, retries, holds and reconciliations came before
\* (marketing_case.py:1131).  The brief is the exception: it is linked when the
\* case is created and named by every plan, and no gate judges it.
ReleasedApproved ==
    handed \cup task \cup (IF plan.status = "accepted" THEN plan.sources ELSE {})
        \subseteq approvals \cup {BriefRef}

\* The accepted plan is the draft that was reviewed, made from the same
\* candidates, each in the same version (README.md:75); while the case is
\* completed the plan is accepted and names exactly the candidates of the case.
\* A completed case that is put on hold, resumed and started again gets new
\* candidates beside the accepted plan.
AcceptedAsReviewed ==
    /\ plan.status = "accepted" =>
           /\ revisions[plan.version] = plan
           /\ revisions[reviewed].status = "draft"
           /\ revisions[reviewed].sources = plan.sources
    /\ phase = "done" => plan.status = "accepted" /\ plan.sources = RefsTo(OfCase)

\* A revision of the plan never changes, and every version has one.
RevisionsKept ==
    [][/\ \A n \in DOMAIN revisions : n \in DOMAIN revisions' /\ revisions'[n] = revisions[n]
       /\ plan'.version \in DOMAIN revisions' \cup {0}]_vars
=============================================================================
