---------------------------- MODULE LineageProofs ----------------------------
(***************************************************************************)
(* Proofs about Lineage, for a case with any number of candidates and       *)
(* drafts: what leaves a gate was approved in that version, the accepted    *)
(* plan is the reviewed one, and no revision of it changes.                 *)
(***************************************************************************)
EXTENDS Lineage, TLAPS

-----------------------------------------------------------------------------
(* The inductive invariant.                                                *)

\* The position of a stage on the way of the case; the brief comes before all.
Rank(s) ==
    IF s = "brief" THEN 0
    ELSE IF s = "mo_plan" THEN 1 ELSE IF s = "pma" THEN 2 ELSE IF s = "bga" THEN 3
    ELSE IF s = "publish" THEN 4 ELSE IF s = "feedback" THEN 5 ELSE 6

AgentNames == {"mo_plan", "pma", "bga", "mo_retrospective"}
JudgedPhases == {"judging", "held_judging"}

\* Only an Agent's stage has a Run, or is anything but ready or on hold; what is
\* to be judged has none that is under way.
AtWork ==
    /\ phase \notin {"ready", "held"} \/ run # "none" => stage \in AgentNames
    /\ run = "live" => phase \notin JudgedPhases \cup {"done"}
    /\ phase = "done" => stage = "mo_retrospective"
\* No candidate belongs to a stage the case has not reached.
Reached == \A i \in DOMAIN items : Rank(items[i].stage) <= Rank(stage)
\* A candidate that stands, of a stage the case has left, was approved as it is.
Passed ==
    \A i \in DOMAIN items :
        Rank(items[i].stage) < Rank(stage) /\ ~items[i].returned =>
            RefTo(i) \in approvals \cup {BriefRef}
\* A candidate that stands is as it was made.
Untouched == \A i \in DOMAIN items : ~items[i].returned => items[i].version = 1
\* The plan people judge, or have accepted, was built from what the case
\* consists of now.
Judged ==
    stage = "mo_retrospective" =>
        /\ phase \in JudgedPhases => plan.status = "draft"
        /\ phase = "done" => plan.status = "accepted"
        /\ phase \in JudgedPhases \cup {"done"} => plan.sources = RefsTo(OfCase)
\* The plan is the latest of its revisions.
Recorded ==
    /\ Len(revisions) = plan.version
    /\ plan.status # "none" => plan.version > 0 /\ revisions[plan.version] = plan
\* An accepted plan names what was approved, one revision after the one that
\* was reviewed.
Accepted ==
    plan.status = "accepted" =>
        /\ stage = "mo_retrospective"
        /\ plan.sources \subseteq approvals \cup {BriefRef}
        /\ plan.version = reviewed + 1 /\ reviewed > 0
        /\ revisions[reviewed].status = "draft" /\ revisions[reviewed].sources = plan.sources

LineageInv ==
    /\ TypeOK /\ AtWork /\ Reached /\ Passed /\ Untouched /\ Judged /\ Recorded /\ Accepted
    /\ handed \cup task \subseteq approvals

-----------------------------------------------------------------------------
(* Facts about the stages.                                                 *)

LEMMA Names == AgentStages = AgentNames
BY DEF AgentStages, RequiredKinds, AgentNames

\* What a Run makes: candidates of its stage, as created.
LEMMA MadeType ==
    ASSUME stage \in AgentNames, NEW kinds \in SUBSET Kinds
    PROVE  /\ Made(kinds) \in Seq(Item)
           /\ \A i \in DOMAIN Made(kinds) :
                  Made(kinds)[i].stage = stage /\ Made(kinds)[i].version = 1
<1> DEFINE Fresh == {x \in Item : x.stage = stage /\ x.version = 1}
           new(k) == [stage |-> stage, kind |-> k, version |-> 1, returned |-> FALSE]
           only(k) == IF k \in kinds THEN <<new(k)>> ELSE <<>>
<1>1. ASSUME NEW k PROVE only(k) \in Seq(Fresh)
  <2>1. CASE k \in kinds
    <3>1. new(k) \in Fresh
      BY <2>1, Names DEF Item
    <3> QED
      BY <2>1, <3>1
  <2> QED
    BY <2>1
<1> HIDE DEF Fresh, new, only
<1>2. only("review") \o only("fact") \in Seq(Fresh)
  BY <1>1
<1>3. only("review") \o only("fact") \o only("claim") \in Seq(Fresh)
  BY <1>1, <1>2
<1>4. only("review") \o only("fact") \o only("claim") \o only("campaign") \in Seq(Fresh)
  BY <1>1, <1>3
<1>5. Made(kinds) \in Seq(Fresh)
  <2>1. Made(kinds) = only("review") \o only("fact") \o only("claim") \o only("campaign")
                      \o only("content")
    BY DEF Made, only, new
  <2> QED
    BY <1>1, <1>4, <2>1
<1>6. \A i \in DOMAIN Made(kinds) : Made(kinds)[i] \in Fresh
  BY <1>5
<1>7. Fresh \subseteq Item /\ \A x \in Fresh : x.stage = stage /\ x.version = 1
  BY DEF Fresh
<1> QED
  BY <1>5, <1>6, <1>7

-----------------------------------------------------------------------------
(* The building blocks.                                                    *)

\* A reference that can be made has the type of one.
LEMMA RefType ==
    ASSUME TypeOK, NEW i \in DOMAIN items
    PROVE  RefTo(i) \in Ref /\ items[i] \in Item
<1>1. items \in Seq(Item) /\ Len(items) <= MaxItems /\ i \in 1..Len(items) /\ Len(items) \in Nat
  BY DEF TypeOK
<1>2. items[i] \in Item /\ i \in 1..MaxItems
  BY <1>1, ItemsAssumption
<1> QED
  BY <1>2 DEF RefTo, Ref, Item

LEMMA RefsType ==
    ASSUME TypeOK, NEW S \in SUBSET (DOMAIN items)
    PROVE  RefsTo(S) \in SUBSET Ref
BY RefType DEF RefsTo

\* The next revision is appended; those before stay.
LEMMA Appended ==
    ASSUME TypeOK, Recorded, NEW p \in Plan, p.version = plan.version + 1, RecordRevision(p)
    PROVE  /\ revisions' = Append(revisions, p)
           /\ revisions' \in Seq(Plan) /\ Len(revisions') = p.version
           /\ revisions'[p.version] = p
           /\ \A n \in DOMAIN revisions : n \in DOMAIN revisions' /\ revisions'[n] = revisions[n]
<1>1. revisions \in Seq(Plan) /\ Len(revisions) = plan.version /\ plan.version \in Nat
  BY DEF TypeOK, Recorded, Plan
<1>2. p.version \notin DOMAIN revisions
  BY <1>1
<1>3. revisions' = Append(revisions, p)
  BY <1>2 DEF RecordRevision
<1> QED
  BY <1>1, <1>3

LEMMA Built ==
    ASSUME LineageInv, NEW linked \in Seq(Item), Len(linked) <= MaxItems, BuildPlan(linked)
    PROVE  /\ plan' \in Plan /\ plan'.status = "draft" /\ plan'.version = plan.version + 1
           /\ plan'.sources = {[item |-> i, version |-> linked[i].version] :
                                  i \in {j \in DOMAIN linked : ~linked[j].returned}}
           /\ revisions' = Append(revisions, plan')
           /\ revisions' \in Seq(Plan) /\ Recorded'
           /\ \A n \in DOMAIN revisions : n \in DOMAIN revisions' /\ revisions'[n] = revisions[n]
<1> DEFINE p == [status |-> "draft", version |-> plan.version + 1,
                 sources |-> {[item |-> i, version |-> linked[i].version] :
                                 i \in {j \in DOMAIN linked : ~linked[j].returned}}]
<1>1. \A i \in DOMAIN linked : [item |-> i, version |-> linked[i].version] \in Ref
  <2> TAKE i \in DOMAIN linked
  <2>1. i \in 1..MaxItems
    BY ItemsAssumption
  <2>2. linked[i] \in Item
    OBVIOUS
  <2> QED
    BY <2>1, <2>2 DEF Ref, Item
<1>2. p.sources \in SUBSET Ref
  BY <1>1
<1>3. plan.version \in Nat
  BY DEF LineageInv, TypeOK, Plan
<1>4. p \in Plan /\ p.version = plan.version + 1
  BY <1>2, <1>3 DEF Plan
<1>5. plan' = p /\ RecordRevision(p)
  BY DEF BuildPlan
<1>6. p.status = "draft" /\ p.sources = {[item |-> i, version |-> linked[i].version] :
                                            i \in {j \in DOMAIN linked : ~linked[j].returned}}
  OBVIOUS
<1> HIDE DEF p
<1>7. /\ revisions' = Append(revisions, p)
      /\ revisions' \in Seq(Plan) /\ Len(revisions') = p.version
      /\ revisions'[p.version] = p
      /\ \A n \in DOMAIN revisions : n \in DOMAIN revisions' /\ revisions'[n] = revisions[n]
  BY <1>4, <1>5, Appended DEF LineageInv
<1> QED
  BY <1>4, <1>5, <1>6, <1>7 DEF Recorded

-----------------------------------------------------------------------------
(* Steps.                                                                  *)

LEMMA LineageInit == Init => LineageInv
<1> SUFFICES ASSUME Init PROVE LineageInv
  OBVIOUS
<1>1. items = <<Brief>> /\ Brief \in Item
  <2>1. "brief" \in Kinds /\ 1 \in 1..2 /\ FALSE \in BOOLEAN
    BY DEF Kinds
  <2> QED
    BY <2>1 DEF Init, Brief, Item
<1>2. items \in Seq(Item) /\ Len(items) = 1 /\ DOMAIN items = {1} /\ items[1] = Brief
  <2>1. ASSUME NEW b \in Item
        PROVE  /\ <<b>> \in Seq(Item) /\ Len(<<b>>) = 1 /\ DOMAIN <<b>> = {1} /\ <<b>>[1] = b
    OBVIOUS
  <2> QED
    BY <1>1, <2>1
<1>3. TypeOK
  BY <1>2, ItemsAssumption DEF Init, TypeOK, Stages, Phases, NoPlan, Plan
<1>4. RefTo(1) = BriefRef
  BY <1>2 DEF RefTo, BriefRef, Brief
<1>5. Reached /\ Passed /\ Untouched
  BY <1>2, <1>4 DEF Init, Reached, Passed, Untouched, Rank, Brief
<1> QED
  BY <1>3, <1>5 DEF Init, LineageInv, AtWork, Judged, Recorded, Accepted, NoPlan, AgentNames,
                    JudgedPhases

\* Only the step changes its status: nothing is to be judged that was not.
LEMMA Stays ==
    ASSUME LineageInv, stage' = stage, phase' \in Phases,
           run' \in {"none", "live", "unknown", "over"}, AtWork',
           stage = "mo_retrospective" /\ phase' \in JudgedPhases => phase \in JudgedPhases,
           phase' = "done" => phase = "done",
           Keep
    PROVE  LineageInv'
<1>1. UNCHANGED <<items, approvals, decisions, handed, task, lead, plan, revisions, reviewed>>
  BY DEF Keep, records, planVars
<1>2. TypeOK'
  BY <1>1 DEF LineageInv, TypeOK
<1>3. Reached' /\ Passed' /\ Untouched' /\ Recorded' /\ Accepted'
  BY <1>1 DEF LineageInv, Reached, Passed, Untouched, Recorded, Accepted, RefTo
<1>4. RefsTo(OfCase)' = RefsTo(OfCase)
  BY <1>1 DEF RefsTo, RefTo, OfCase
<1>5. Judged'
  BY <1>1, <1>4 DEF LineageInv, Judged
<1> QED
  BY <1>1, <1>2, <1>3, <1>5 DEF LineageInv

\* A Run whose success is accepted or not, is confirmed by people, or comes too
\* late: candidates of the stage are added or not, and a plan is built or not.
LEMMA Outcome ==
    ASSUME LineageInv, stage' = stage, phase' \in Phases,
           run' \in {"none", "live", "unknown", "over"}, AtWork',
           UNCHANGED <<records, reviewed>>,
           items' \in Seq(Item), Len(items') <= MaxItems,
           \A i \in DOMAIN items' :
               \/ i \in DOMAIN items /\ items'[i] = items[i]
               \/ items'[i].stage = stage /\ items'[i].version = 1,
           phase' # "done",
           \/ BuildPlan(items') /\ stage = "mo_retrospective"
           \/ UNCHANGED <<plan, revisions>> /\ ~(stage = "mo_retrospective" /\ phase' \in JudgedPhases)
    PROVE  LineageInv'
<1>1. UNCHANGED <<approvals, decisions, handed, task, lead, reviewed>>
  BY DEF records
<1>2. Reached' /\ Untouched'
  BY DEF LineageInv, Reached, Untouched, Rank
<1>3. Passed'
  <2> SUFFICES ASSUME NEW i \in DOMAIN items', Rank(items'[i].stage) < Rank(stage'),
                      ~items'[i].returned
               PROVE  RefTo(i)' \in approvals' \cup {BriefRef}
    BY DEF Passed
  <2>1. items'[i].stage # stage
    BY DEF Rank
  <2>2. i \in DOMAIN items /\ items'[i] = items[i]
    BY <2>1
  <2> QED
    BY <1>1, <2>2 DEF LineageInv, Passed, RefTo
<1>4. CASE BuildPlan(items') /\ stage = "mo_retrospective"
  <2>1. /\ plan' \in Plan /\ plan'.status = "draft" /\ Recorded' /\ revisions' \in Seq(Plan)
        /\ plan'.sources = {[item |-> i, version |-> items'[i].version] :
                               i \in {j \in DOMAIN items' : ~items'[j].returned}}
    BY <1>4, Built
  <2>2. plan'.sources = RefsTo(OfCase)'
    BY <2>1 DEF RefsTo, RefTo, OfCase
  <2>3. TypeOK'
    BY <1>1, <2>1 DEF LineageInv, TypeOK
  <2> QED
    BY <1>1, <1>2, <1>3, <2>1, <2>2, <2>3 DEF LineageInv, Judged, Accepted
<1>5. CASE UNCHANGED <<plan, revisions>> /\ ~(stage = "mo_retrospective" /\ phase' \in JudgedPhases)
  <2>1. TypeOK'
    BY <1>1, <1>5 DEF LineageInv, TypeOK
  <2>2. Judged' /\ Accepted' /\ Recorded'
    BY <1>1, <1>5 DEF LineageInv, Judged, Accepted, Recorded
  <2> QED
    BY <1>1, <1>2, <1>3, <2>1, <2>2 DEF LineageInv
<1> QED
  BY <1>4, <1>5

\* What a Run has made comes after what was there.
LEMMA Linked ==
    ASSUME LineageInv, stage \in AgentNames, NEW kinds \in SUBSET Kinds,
           items' = items \o Made(kinds)
    PROVE  /\ items' \in Seq(Item)
           /\ \A i \in DOMAIN items' :
                  \/ i \in DOMAIN items /\ items'[i] = items[i]
                  \/ items'[i].stage = stage /\ items'[i].version = 1
<1>3. items \in Seq(Item)
  BY DEF LineageInv, TypeOK
<1>4. /\ Made(kinds) \in Seq(Item)
      /\ \A i \in DOMAIN Made(kinds) : Made(kinds)[i].stage = stage /\ Made(kinds)[i].version = 1
  BY MadeType
<1> DEFINE made == Made(kinds)
<1> HIDE DEF made
<1>5. /\ items' = items \o made /\ made \in Seq(Item)
      /\ \A i \in DOMAIN made : made[i].stage = stage /\ made[i].version = 1
  BY <1>4 DEF made
<1>6. items' \in Seq(Item)
  BY <1>3, <1>5
<1>7. ASSUME NEW i \in DOMAIN items'
      PROVE  \/ i \in DOMAIN items /\ items'[i] = items[i]
             \/ items'[i].stage = stage /\ items'[i].version = 1
  <2>1. i \in 1..(Len(items) + Len(made))
    BY <1>3, <1>5, <1>7
  <2>2. CASE i <= Len(items)
    BY <1>3, <1>5, <2>1, <2>2
  <2>3. CASE i > Len(items)
    <3>1. i - Len(items) \in DOMAIN made /\ items'[i] = made[i - Len(items)]
      BY <1>3, <1>5, <2>1, <2>3
    <3> QED
      BY <1>5, <3>1
  <2> QED
    BY <1>3, <2>1, <2>2, <2>3
<1> QED
  BY <1>6, <1>7

LEMMA SuccessStep ==
    ASSUME LineageInv, NEW kinds \in SUBSET Kinds, NEW complete \in BOOLEAN,
           RunSucceeds(kinds, complete)
    PROVE  LineageInv'
<1>1. /\ stage \in AgentNames /\ stage' = stage
      /\ phase' \in {"judging", "retryable"} /\ run' \in {"none", "over"}
      /\ ~complete => phase' = "retryable"
  BY DEF LineageInv, AtWork, RunSucceeds, Watched, ToJudge, Goto
<1>2. items' = items \o Made(kinds) /\ Len(items') <= MaxItems /\ UNCHANGED <<records, reviewed>>
  BY DEF RunSucceeds
<1>3. \/ BuildPlan(items') /\ stage = "mo_retrospective"
      \/ UNCHANGED <<plan, revisions>> /\ ~(stage = "mo_retrospective" /\ phase' \in JudgedPhases)
  BY <1>1, <1>2 DEF RunSucceeds, JudgedPhases
<1>4. AtWork' /\ phase' \in Phases /\ run' \in {"none", "live", "unknown", "over"}
  BY <1>1 DEF AtWork, Phases, JudgedPhases
<1> QED
  BY <1>1, <1>2, <1>3, <1>4, Linked, Outcome

LEMMA UnwatchedStep ==
    ASSUME LineageInv, NEW kinds \in SUBSET Kinds, NEW how \in {"over", "unknown"},
           RunEndsUnwatched(kinds, how)
    PROVE  LineageInv'
<1>1. /\ stage \in AgentNames /\ stage' = stage /\ phase' = phase /\ run' = how
      /\ phase \in Phases /\ phase \notin JudgedPhases \cup {"done"}
  BY DEF LineageInv, TypeOK, AtWork, RunEndsUnwatched, Goto
<1>2. items' = items \o Made(kinds) /\ Len(items') <= MaxItems /\ UNCHANGED <<records, planVars>>
  BY DEF RunEndsUnwatched
<1>3. UNCHANGED <<records, reviewed, plan, revisions>>
  BY <1>2 DEF planVars
<1>4. AtWork'
  BY <1>1 DEF LineageInv, AtWork
<1> QED
  BY <1>1, <1>2, <1>3, <1>4, Linked, Outcome

LEMMA ConfirmStep == ASSUME LineageInv, ResolveAsSucceeded PROVE LineageInv'
<1>1. /\ stage \in AgentNames /\ stage' = stage /\ phase' = "judging"
      /\ run' \in {"none", "unknown"}
  BY DEF LineageInv, AtWork, ResolveAsSucceeded, ToJudge, Goto
<1>2. items' = items /\ UNCHANGED <<records, reviewed>>
  BY DEF ResolveAsSucceeded
<1>3. items' \in Seq(Item) /\ Len(items') <= MaxItems
  BY <1>2 DEF LineageInv, TypeOK
<1>4. \A i \in DOMAIN items' : i \in DOMAIN items /\ items'[i] = items[i]
  BY <1>2
<1>5. \/ BuildPlan(items') /\ stage = "mo_retrospective"
      \/ UNCHANGED <<plan, revisions>> /\ ~(stage = "mo_retrospective" /\ phase' \in JudgedPhases)
  BY <1>2 DEF ResolveAsSucceeded
<1>6. AtWork' /\ phase' \in Phases /\ run' \in {"none", "live", "unknown", "over"}
  BY <1>1 DEF AtWork, Phases, JudgedPhases
<1> QED
  BY <1>1, <1>2, <1>3, <1>4, <1>5, <1>6, Outcome

\* A candidate as it comes back from people.
SentBack(x) == [x EXCEPT !.returned = TRUE, !.version = 2]
LEMMA SentBackType ==
    ASSUME NEW x \in Item
    PROVE  SentBack(x) \in Item /\ SentBack(x).stage = x.stage /\ SentBack(x).returned
<1> DEFINE y == [x EXCEPT !.returned = TRUE]
<1>1. y \in Item /\ y.stage = x.stage /\ y.returned = TRUE
  BY DEF Item
<1>2. SentBack(x) = [y EXCEPT !.version = 2]
  BY DEF Item, SentBack
<1> HIDE DEF y
<1>3. [y EXCEPT !.version = 2] \in Item
  BY <1>1 DEF Item
<1>4. [y EXCEPT !.version = 2].stage = y.stage /\ [y EXCEPT !.version = 2].returned = y.returned
  BY <1>1 DEF Item
<1> QED
  BY <1>1, <1>2, <1>3, <1>4

\* The next version of the plan, accepted.
LEMMA AcceptedType ==
    ASSUME NEW n \in Nat, plan \in Plan,
           NEW p, p = [plan EXCEPT !.status = "accepted", !.version = n]
    PROVE  p \in Plan /\ p.status = "accepted" /\ p.version = n /\ p.sources = plan.sources
<1> DEFINE y == [plan EXCEPT !.status = "accepted"]
<1>1. y \in Plan /\ y.sources = plan.sources /\ y.status = "accepted"
  BY DEF Plan
<1>2. [plan EXCEPT !.status = "accepted", !.version = n] = [y EXCEPT !.version = n]
  BY DEF Plan
<1> HIDE DEF y
<1>3. [y EXCEPT !.version = n] \in Plan
  BY <1>1 DEF Plan
<1>4. /\ [y EXCEPT !.version = n].sources = y.sources
      /\ [y EXCEPT !.version = n].status = y.status
      /\ [y EXCEPT !.version = n].version = n
  BY <1>1 DEF Plan
<1> QED
  BY <1>1, <1>2, <1>3, <1>4

LEMMA ReturnStep == ASSUME LineageInv, ReturnForRevision PROVE LineageInv'
<1>1. /\ stage \in AgentNames /\ stage' = stage /\ phase = "judging"
      /\ phase' = "ready" /\ run' = "none"
      /\ items \in Seq(Item) /\ Len(items) <= MaxItems
  BY DEF LineageInv, TypeOK, AtWork, ReturnForRevision, Goto
<1>2. UNCHANGED <<approvals, decisions, handed, task, lead, plan, revisions, reviewed>>
  BY DEF ReturnForRevision, records, planVars
<1>3. /\ items' \in Seq(Item) /\ Len(items') = Len(items) /\ DOMAIN items' = DOMAIN items
      /\ \A i \in DOMAIN items :
            \/ items'[i] = items[i]
            \/ items'[i].stage = stage /\ items[i].stage = stage /\ items'[i].returned
  <2> DEFINE new(i) == IF i \in OfStage(stage)
                       THEN [items[i] EXCEPT !.returned = TRUE, !.version = @ + 1] ELSE items[i]
  <2>1. items' = [i \in DOMAIN items |-> new(i)]
    BY DEF ReturnForRevision
  <2>2. ASSUME NEW i \in DOMAIN items
        PROVE  /\ new(i) \in Item
               /\ \/ new(i) = items[i]
                  \/ new(i).stage = stage /\ items[i].stage = stage /\ new(i).returned
    <3>1. items[i] \in Item
      BY <1>1
    <3>2. CASE i \in OfStage(stage)
      <4>1. items[i].stage = stage /\ items[i].version = 1
        BY <3>2 DEF OfStage, LineageInv, Untouched
      <4>2. new(i) = SentBack(items[i])
        BY <3>1, <3>2, <4>1 DEF Item, SentBack
      <4> HIDE DEF new
      <4>3. new(i).stage = items[i].stage /\ new(i).returned /\ new(i) \in Item
        BY <3>1, <4>2, SentBackType
      <4> QED
        BY <4>1, <4>3
    <3>3. CASE i \notin OfStage(stage)
      <4>1. new(i) = items[i]
        BY <3>3
      <4> QED
        BY <3>1, <4>1
    <3> QED
      BY <3>2, <3>3
  <2> HIDE DEF new
  <2>3. DOMAIN items = 1..Len(items) /\ Len(items) \in Nat
    BY <1>1
  <2>4. items' \in Seq(Item) /\ Len(items') = Len(items)
    BY <2>1, <2>2, <2>3
  <2> QED
    BY <2>1, <2>2, <2>4
<1>4. TypeOK'
  BY <1>1, <1>2, <1>3 DEF LineageInv, TypeOK, Phases
<1>5. Reached' /\ Untouched'
  BY <1>1, <1>3 DEF LineageInv, Reached, Untouched
<1>6. Passed'
  <2> SUFFICES ASSUME NEW i \in DOMAIN items', Rank(items'[i].stage) < Rank(stage'),
                      ~items'[i].returned
               PROVE  RefTo(i)' \in approvals' \cup {BriefRef}
    BY DEF Passed
  <2>1. i \in DOMAIN items /\ items'[i] = items[i]
    BY <1>3
  <2> QED
    BY <1>1, <1>2, <2>1 DEF LineageInv, Passed, RefTo
<1>7. AtWork' /\ Judged' /\ Recorded' /\ Accepted'
  BY <1>1, <1>2 DEF LineageInv, AtWork, Judged, Recorded, Accepted, JudgedPhases
<1> QED
  BY <1>2, <1>4, <1>5, <1>6, <1>7 DEF LineageInv

\* The case leaves a stage for the next one, with an Approval for every
\* candidate of it that stands.
LEMMA Leaves ==
    ASSUME LineageInv, stage # "mo_retrospective", stage' \in Stages,
           phase' = "ready", run' = "none",
           Rank(stage') = Rank(stage) + 1,
           UNCHANGED <<items, plan, revisions, reviewed>>,
           approvals \subseteq approvals', RefsTo(OfStage(stage)) \subseteq approvals',
           approvals' \subseteq Ref, decisions' \subseteq SUBSET Ref,
           handed' \subseteq Ref, task' \subseteq Ref, lead' \subseteq Ref,
           handed' \cup task' \subseteq approvals'
    PROVE  LineageInv'
<1>1. TypeOK'
  BY DEF LineageInv, TypeOK, Phases
<1>2. stage \in Stages /\ \A i \in DOMAIN items : items[i].stage \in AgentNames \cup {"brief"}
  BY RefType, Names DEF LineageInv, TypeOK, Item
<1>3. Reached' /\ Untouched'
  BY <1>2 DEF LineageInv, Reached, Untouched, Rank
<1>4. Passed'
  <2> SUFFICES ASSUME NEW i \in DOMAIN items, Rank(items[i].stage) < Rank(stage'),
                      ~items[i].returned
               PROVE  RefTo(i) \in approvals' \cup {BriefRef}
    BY DEF Passed, RefTo
  <2>1. CASE items[i].stage = stage
    BY <2>1 DEF OfStage, RefsTo
  <2>2. CASE items[i].stage # stage
    <3>1. Rank(items[i].stage) # Rank(stage)
      BY <1>2, <2>2 DEF Rank, AgentNames, Stages
    <3>2. Rank(items[i].stage) < Rank(stage)
      BY <1>2, <3>1 DEF Rank
    <3> QED
      BY <3>2 DEF LineageInv, Passed
  <2> QED
    BY <2>1, <2>2
<1>5. plan.status # "accepted"
  BY DEF LineageInv, Accepted
<1> QED
  BY <1>1, <1>3, <1>4, <1>5 DEF LineageInv, AtWork, Judged, Recorded, Accepted, JudgedPhases

LEMMA StageSets ==
    ASSUME TypeOK
    PROVE  /\ OfStage(stage) \in SUBSET (DOMAIN items)
           /\ RefsTo(OfStage(stage)) \in SUBSET Ref /\ SubjectRefs(stage) \in SUBSET Ref
           /\ approvals \in SUBSET Ref /\ decisions \in SUBSET SUBSET Ref
           /\ handed \in SUBSET Ref /\ task \in SUBSET Ref /\ lead \in SUBSET Ref
<1>1. OfStage(stage) \in SUBSET (DOMAIN items)
  BY DEF OfStage
<1> QED
  BY <1>1, RefsType DEF SubjectRefs, TypeOK

LEMMA ApproveStep == ASSUME LineageInv, Approve PROVE LineageInv'
<1>1. stage \in {"mo_plan", "pma", "bga"}
  BY DEF LineageInv, AtWork, Approve, AgentNames
<1>2. stage' = Following[stage] /\ phase' = "ready" /\ run' = "none"
  BY DEF Approve, Goto
<1>3. stage # "mo_retrospective" /\ stage' \in Stages /\ Rank(stage') = Rank(stage) + 1
  <2>1. CASE stage = "mo_plan"
    BY <1>2, <2>1 DEF Following, Rank, Stages
  <2>2. CASE stage = "pma"
    BY <1>2, <2>2 DEF Following, Rank, Stages
  <2>3. CASE stage = "bga"
    BY <1>2, <2>3 DEF Following, Rank, Stages
  <2> QED
    BY <1>1, <2>1, <2>2, <2>3
<1> DEFINE refs == RefsTo(OfStage(stage))
<1>4. /\ approvals' = approvals \cup refs
      /\ decisions' = decisions \cup {SubjectRefs(stage)}
      /\ handed' \in {handed, handed \cup refs} /\ task' \in {task, refs}
      /\ UNCHANGED <<items, lead, plan, revisions, reviewed>>
  BY DEF Approve, planVars
<1>5. refs \in SUBSET Ref /\ SubjectRefs(stage) \in SUBSET Ref
  BY StageSets DEF LineageInv
<1> HIDE DEF refs
<1>6. /\ approvals' \subseteq Ref /\ decisions' \subseteq SUBSET Ref
      /\ handed' \subseteq Ref /\ task' \subseteq Ref /\ lead' \subseteq Ref
      /\ handed' \cup task' \subseteq approvals'
  BY <1>4, <1>5, StageSets DEF LineageInv
<1> QED
  BY <1>2, <1>3, <1>4, <1>6, Leaves DEF refs

\* No candidate belongs to a stage of people alone.
LEMMA NoCandidates ==
    ASSUME TypeOK, stage \in {"publish", "feedback"}
    PROVE  RefsTo(OfStage(stage)) = {}
<1>1. \A i \in DOMAIN items : items[i].stage # stage
  BY RefType, Names DEF Item, AgentNames
<1> QED
  BY <1>1 DEF RefsTo, OfStage

LEMMA PublishStep == ASSUME LineageInv, RecordSimulatedPublish PROVE LineageInv'
<1>1. /\ stage = "publish" /\ stage' = "feedback" /\ phase' = "ready" /\ run' = "none"
      /\ UNCHANGED <<items, approvals, decisions, handed, task, lead, plan, revisions, reviewed>>
  BY DEF RecordSimulatedPublish, Goto, Keep, records, planVars
<1>2. stage' \in Stages /\ Rank(stage') = Rank(stage) + 1
  BY <1>1 DEF Stages, Rank
<1> QED
  BY <1>1, <1>2, NoCandidates, StageSets, Leaves DEF LineageInv

LEMMA FeedbackStep ==
    ASSUME LineageInv, NEW campaign \in DOMAIN items, NEW content \in DOMAIN items,
           RecordSyntheticFeedback(campaign, content)
    PROVE  LineageInv'
<1>1. /\ stage = "feedback" /\ stage' = "mo_retrospective" /\ phase' = "ready" /\ run' = "none"
      /\ lead' = RefsTo({campaign, content})
      /\ UNCHANGED <<items, approvals, decisions, handed, task, plan, revisions, reviewed>>
  BY DEF RecordSyntheticFeedback, Goto, planVars
<1>2. stage' \in Stages /\ Rank(stage') = Rank(stage) + 1
  BY <1>1 DEF Stages, Rank
<1>3. lead' \in SUBSET Ref
  BY <1>1, RefsType DEF LineageInv
<1> QED
  BY <1>1, <1>2, <1>3, NoCandidates, StageSets, Leaves DEF LineageInv

LEMMA AcceptStep == ASSUME LineageInv, AcceptRetrospective PROVE LineageInv'
<1> DEFINE p == [plan EXCEPT !.status = "accepted", !.version = @ + 1]
<1>1. /\ stage = "mo_retrospective" /\ stage' = stage /\ phase = "judging"
      /\ phase' = "done" /\ run' = run
      /\ approvals' = approvals \cup RefsTo(OfStage(stage))
      /\ decisions' = decisions \cup {SubjectRefs(stage)}
      /\ UNCHANGED <<items, handed, task, lead>>
      /\ reviewed' = plan.version /\ plan' = p /\ RecordRevision(p)
  BY DEF AcceptRetrospective, AcceptDeliverable, Goto
<1>2. /\ plan \in Plan /\ plan.status = "draft" /\ plan.sources = RefsTo(OfCase)
      /\ plan.version \in Nat /\ plan.version > 0 /\ revisions[plan.version] = plan
  BY <1>1 DEF LineageInv, TypeOK, Judged, JudgedPhases, Recorded, AcceptRetrospective,
              AcceptDeliverable, Plan
<1>3. /\ p \in Plan /\ p.status = "accepted" /\ p.version = plan.version + 1
      /\ p.sources = plan.sources
  <2>1. p = [plan EXCEPT !.status = "accepted", !.version = plan.version + 1]
    BY <1>2
  <2>2. plan.version + 1 \in Nat
    BY <1>2
  <2> HIDE DEF p
  <2> QED
    BY <1>2, <2>1, <2>2, AcceptedType
<1> HIDE DEF p
<1>4. /\ revisions' \in Seq(Plan) /\ Len(revisions') = p.version /\ revisions'[p.version] = p
      /\ \A n \in DOMAIN revisions : n \in DOMAIN revisions' /\ revisions'[n] = revisions[n]
  BY <1>1, <1>3, Appended DEF LineageInv
<1>5. revisions'[plan.version] = plan
  <2>1. plan.version \in DOMAIN revisions
    BY <1>2 DEF LineageInv, TypeOK, Recorded
  <2> QED
    BY <1>2, <1>4, <2>1
<1>6. \A i \in DOMAIN items : ~items[i].returned => RefTo(i) \in approvals' \cup {BriefRef}
  <2> SUFFICES ASSUME NEW i \in DOMAIN items, ~items[i].returned
               PROVE  RefTo(i) \in approvals' \cup {BriefRef}
    OBVIOUS
  <2>1. CASE items[i].stage = stage
    BY <1>1, <2>1 DEF OfStage, RefsTo
  <2>2. CASE items[i].stage # stage
    <3>1. items[i].stage \in AgentNames \cup {"brief"}
      BY RefType, Names DEF LineageInv, Item
    <3>2. Rank(items[i].stage) < Rank(stage)
      BY <1>1, <2>2, <3>1 DEF Rank, AgentNames
    <3> QED
      BY <1>1, <3>2 DEF LineageInv, Passed
  <2> QED
    BY <2>1, <2>2
<1>7. plan'.sources \subseteq approvals' \cup {BriefRef} /\ plan'.sources = RefsTo(OfCase)'
  <2>1. plan'.sources = RefsTo(OfCase)
    BY <1>1, <1>2, <1>3
  <2>2. RefsTo(OfCase)' = RefsTo(OfCase)
    BY <1>1 DEF RefsTo, RefTo, OfCase
  <2>3. RefsTo(OfCase) \subseteq approvals' \cup {BriefRef}
    BY <1>6 DEF RefsTo, OfCase
  <2> QED
    BY <2>1, <2>2, <2>3
<1>8. TypeOK'
  BY <1>1, <1>2, <1>3, <1>4, StageSets DEF LineageInv, TypeOK, Phases
<1>9. Reached' /\ Untouched'
  BY <1>1 DEF LineageInv, Reached, Untouched
<1>10. Passed'
  BY <1>1, <1>6 DEF Passed, RefTo
<1>11. Recorded' /\ Accepted' /\ Judged'
  BY <1>1, <1>2, <1>3, <1>4, <1>5, <1>7 DEF Recorded, Accepted, Judged, JudgedPhases
<1>12. AtWork'
  BY <1>1 DEF LineageInv, AtWork, AgentNames, JudgedPhases
<1> QED
  BY <1>1, <1>8, <1>9, <1>10, <1>11, <1>12 DEF LineageInv

LEMMA StepTypes ==
    ASSUME LineageInv
    PROVE  phase \in Phases /\ run \in {"none", "live", "unknown", "over"}
BY DEF LineageInv, TypeOK

\* A step of its own starts, rests, stops or fails.
LEMMA QuietStep ==
    ASSUME LineageInv,
           \/ Start \/ Retry \/ Hold \/ Resume \/ AskToCancel \/ ResolveAsFailed
           \/ \E blocked \in {"blocked", "retryable"}, how \in {"over", "unknown"} :
                  RunFails(blocked, how)
    PROVE  LineageInv' /\ UNCHANGED revisions
<1>1. Keep /\ stage' = stage /\ UNCHANGED revisions
  BY DEF Start, Retry, Hold, Resume, AskToCancel, ResolveAsFailed, RunFails, Goto, Keep, planVars
<1>2. CASE Start
  <2>1. stage \in AgentNames /\ phase' = "running" /\ run' = "live"
    BY <1>2, Names DEF Start, Goto
  <2>2. AtWork'
    BY <1>1, <2>1 DEF AtWork, JudgedPhases
  <2> QED
    BY <1>1, <2>1, <2>2, Stays DEF Phases, JudgedPhases
<1>3. CASE Retry
  <2>1. stage \in AgentNames /\ phase' = "running" /\ run' = "live"
    BY <1>3 DEF Retry, Goto, LineageInv, AtWork
  <2>2. AtWork'
    BY <1>1, <2>1 DEF AtWork, JudgedPhases
  <2> QED
    BY <1>1, <2>1, <2>2, Stays DEF Phases, JudgedPhases
<1>4. CASE Hold
  <2>1. /\ run' = run
        /\ \/ /\ phase' = "held_judging"
              /\ phase = "judging" \/ (phase = "held_judging" /\ stage \in {"pma", "bga"})
           \/ phase' = "held"
    BY <1>4 DEF Hold, Goto
  <2>2. AtWork'
    BY <1>1, <2>1 DEF LineageInv, AtWork, JudgedPhases
  <2> QED
    BY <1>1, <2>1, <2>2, StepTypes, Stays DEF Phases, JudgedPhases
<1>5. CASE Resume
  <2>1. /\ run' = run
        /\ \/ phase = "held" /\ phase' = "ready"
           \/ phase = "held_judging" /\ phase' = "judging"
    BY <1>5 DEF Resume, Goto
  <2>2. AtWork'
    BY <1>1, <2>1 DEF LineageInv, AtWork, JudgedPhases
  <2> QED
    BY <1>1, <2>1, <2>2, StepTypes, Stays DEF Phases, JudgedPhases
<1>6. CASE AskToCancel
  <2>1. stage \in AgentNames /\ phase' = "blocked" /\ run' = run
    BY <1>6 DEF AskToCancel, Goto, LineageInv, AtWork
  <2>2. AtWork'
    BY <1>1, <2>1 DEF AtWork, JudgedPhases
  <2> QED
    BY <1>1, <2>1, <2>2, StepTypes, Stays DEF Phases, JudgedPhases
<1>7. CASE ResolveAsFailed
  <2>1. stage \in AgentNames /\ phase' = "retryable" /\ run' = run
    BY <1>7 DEF ResolveAsFailed, Goto, LineageInv, AtWork
  <2>2. AtWork'
    BY <1>1, <2>1 DEF AtWork, JudgedPhases
  <2> QED
    BY <1>1, <2>1, <2>2, StepTypes, Stays DEF Phases, JudgedPhases
<1>8. ASSUME NEW blocked \in {"blocked", "retryable"}, NEW how \in {"over", "unknown"},
             RunFails(blocked, how)
      PROVE  LineageInv'
  <2>1. stage \in AgentNames /\ phase' = blocked /\ run' = how
    BY <1>8 DEF RunFails, Watched, Goto, LineageInv, AtWork
  <2>2. AtWork'
    BY <1>1, <2>1 DEF AtWork, JudgedPhases
  <2> QED
    BY <1>1, <2>1, <2>2, Stays DEF Phases, JudgedPhases
<1> QED
  BY <1>1, <1>2, <1>3, <1>4, <1>5, <1>6, <1>7, <1>8

\* The steps of Next, by what they do.
LEMMA NextCases ==
    ASSUME Next
    PROVE  \/ Start \/ Retry \/ Hold \/ Resume \/ AskToCancel \/ ResolveAsFailed
           \/ \E blocked \in {"blocked", "retryable"}, how \in {"over", "unknown"} :
                  RunFails(blocked, how)
           \/ \E kinds \in SUBSET Kinds, complete \in BOOLEAN : RunSucceeds(kinds, complete)
           \/ \E kinds \in SUBSET Kinds, how \in {"over", "unknown"} : RunEndsUnwatched(kinds, how)
           \/ ResolveAsSucceeded \/ ReturnForRevision \/ Approve \/ RecordSimulatedPublish
           \/ \E campaign, content \in DOMAIN items : RecordSyntheticFeedback(campaign, content)
           \/ AcceptRetrospective
<1>1. stage \in AgentStages => RequiredKinds[stage] \subseteq Kinds
  BY DEF Kinds
<1> QED
  BY <1>1 DEF Next

LEMMA LineageStep == LineageInv /\ [Next]_vars => LineageInv'
<1> SUFFICES ASSUME LineageInv, [Next]_vars PROVE LineageInv'
  OBVIOUS
<1>1. CASE UNCHANGED vars
  BY <1>1 DEF vars, progress, records, planVars, LineageInv, TypeOK, AtWork, Reached, Passed,
              Untouched, Judged, Recorded, Accepted, RefTo, RefsTo, OfCase
<1>2. CASE Next
  BY <1>2, NextCases, QuietStep, SuccessStep, UnwatchedStep, ConfirmStep, ReturnStep, ApproveStep,
     PublishStep, FeedbackStep, AcceptStep
<1> QED
  BY <1>1, <1>2

\* How a step leaves the revisions of the plan.
LEMMA Revised ==
    ASSUME LineageInv, [Next]_vars
    PROVE  \/ UNCHANGED revisions
           \/ \A n \in DOMAIN revisions : n \in DOMAIN revisions' /\ revisions'[n] = revisions[n]
<1>1. CASE UNCHANGED vars
  BY <1>1 DEF vars, planVars
<1>2. ASSUME NEW kinds \in SUBSET Kinds, NEW complete \in BOOLEAN, RunSucceeds(kinds, complete)
      PROVE  \/ UNCHANGED revisions
             \/ \A n \in DOMAIN revisions :
                    n \in DOMAIN revisions' /\ revisions'[n] = revisions[n]
  <2>1. CASE BuildPlan(items \o Made(kinds))
    <3>1. items' = items \o Made(kinds) /\ Len(items') <= MaxItems
      BY <1>2 DEF RunSucceeds
    <3>2. items' \in Seq(Item)
      BY <1>2, SuccessStep DEF LineageInv, TypeOK
    <3> QED
      BY <2>1, <3>1, <3>2, Built
  <2> QED
    BY <1>2, <2>1 DEF RunSucceeds
<1>3. ASSUME NEW kinds \in SUBSET Kinds, NEW how \in {"over", "unknown"},
             RunEndsUnwatched(kinds, how)
      PROVE  UNCHANGED revisions
  BY <1>3 DEF RunEndsUnwatched, planVars
<1>4. CASE ResolveAsSucceeded
  <2>1. items \in Seq(Item) /\ Len(items) <= MaxItems
    BY DEF LineageInv, TypeOK
  <2> QED
    BY <1>4, <2>1, Built DEF ResolveAsSucceeded
<1>5. CASE ReturnForRevision
  BY <1>5 DEF ReturnForRevision, planVars
<1>6. CASE Approve
  BY <1>6 DEF Approve, planVars
<1>7. CASE RecordSimulatedPublish
  BY <1>7 DEF RecordSimulatedPublish, Keep, planVars
<1>8. ASSUME NEW campaign \in DOMAIN items, NEW content \in DOMAIN items,
             RecordSyntheticFeedback(campaign, content)
      PROVE  UNCHANGED revisions
  BY <1>8 DEF RecordSyntheticFeedback, planVars
<1>9. CASE AcceptRetrospective
  <2> DEFINE p == [plan EXCEPT !.status = "accepted", !.version = @ + 1]
  <2>1. plan \in Plan /\ plan.version \in Nat
    BY DEF LineageInv, TypeOK, Plan
  <2>2. p = [plan EXCEPT !.status = "accepted", !.version = plan.version + 1]
        /\ plan.version + 1 \in Nat
    BY <2>1
  <2>3. RecordRevision(p)
    BY <1>9 DEF AcceptRetrospective, AcceptDeliverable
  <2> HIDE DEF p
  <2>4. p \in Plan /\ p.version = plan.version + 1
    BY <2>1, <2>2, AcceptedType
  <2> QED
    BY <2>3, <2>4, Appended DEF LineageInv
<1> QED
  BY <1>1, <1>2, <1>3, <1>4, <1>5, <1>6, <1>7, <1>8, <1>9, NextCases, QuietStep

-----------------------------------------------------------------------------
(* Theorems.                                                               *)

\* The candidates keep to their bound and the plan to its type.
THEOREM TypeCorrect == Spec => []TypeOK
<1>1. LineageInv => TypeOK
  BY DEF LineageInv
<1> QED
  BY <1>1, LineageInit, LineageStep, PTL DEF Spec

\* However many Runs, returns and retries a stage takes, what its handoff, the
\* publish task or the accepted plan names was approved in that version, but for
\* the brief (marketing_case.py:1131).
THEOREM ReleasesApproved == Spec => []ReleasedApproved
<1>1. LineageInv => ReleasedApproved
  BY DEF LineageInv, ReleasedApproved, Accepted
<1> QED
  BY <1>1, LineageInit, LineageStep, PTL DEF Spec

\* The accepted plan is the draft that was reviewed, and while the case is
\* completed it names exactly what the case consists of (marketing_case.py:926,
\* README.md:75).
THEOREM ReviewedAccepted == Spec => []AcceptedAsReviewed
<1>1. LineageInv => AcceptedAsReviewed
  BY DEF LineageInv, AcceptedAsReviewed, Accepted, Recorded, AtWork, Judged
<1> QED
  BY <1>1, LineageInit, LineageStep, PTL DEF Spec

\* A revision that was recorded stays as it is, and the plan always is one of
\* them (marketing_case.py:873).
THEOREM RevisionsStay == Spec => RevisionsKept
<1>1. LineageInv /\ [Next]_vars =>
          [/\ \A n \in DOMAIN revisions : n \in DOMAIN revisions' /\ revisions'[n] = revisions[n]
           /\ plan'.version \in DOMAIN revisions' \cup {0}]_vars
  <2> SUFFICES ASSUME LineageInv, [Next]_vars
               PROVE  /\ \A n \in DOMAIN revisions :
                             n \in DOMAIN revisions' /\ revisions'[n] = revisions[n]
                      /\ plan'.version \in DOMAIN revisions' \cup {0}
    OBVIOUS
  <2>1. /\ revisions' \in Seq(Plan) /\ Len(revisions') = plan'.version
        /\ plan'.version \in Nat
    BY LineageStep DEF LineageInv, TypeOK, Recorded, Plan
  <2>2. plan'.version \in DOMAIN revisions' \cup {0}
    BY <2>1
  <2> QED
    BY <2>2, Revised
<1> QED
  BY <1>1, LineageInit, LineageStep, PTL DEF Spec, RevisionsKept
=============================================================================
