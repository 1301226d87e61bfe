------------------------------ MODULE AgentTools ------------------------------
(***************************************************************************)
(* An Agent at work on one stage of a case: the tools it calls through the  *)
(* Organization MCP, the Commitment they and people move, the candidates    *)
(* they leave behind, and what the end of its Run makes of them.            *)
(*                                                                          *)
(* A tool call is several requests: assert_context reads the Attempt,       *)
(* commitment_read reads the Commitment, and only the last one writes.  The *)
(* API reads the Commitment without a lock and writes a status and a        *)
(* version computed from what it read (main.py:198-207, run_state.py:200),  *)
(* so every change of the Commitment is a read and a later write here.      *)
(* The Agent of an Attempt that is over goes on until Hermes ends it.       *)
(***************************************************************************)
EXTENDS Naturals, Sequences

CONSTANTS
    Kinds,       \* REQUIRED_KINDS of the stage
    People,      \* people who move the Commitment or judge the stage
    Actions,     \* actions the Agent may pass to commitment_respond
    Targets,     \* statuses people may ask for
    MaxAttempts, \* bound on the Attempts of the stage
    MaxVersion   \* bound: the Commitment is moved while its version is below it

VARIABLES
    purpose,    \* AgentRun.purpose
    run,        \* status and current Attempt of the latest Run of the stage
    attempts,   \* AgentRunAttempt.status, in order of creation
    agent,      \* what Hermes does for each Attempt
    call,       \* the tool call each Agent waits for
    commitment, \* Commitment.status and version
    knowledge,  \* candidates: the Attempt in their metadata, and their kind
    linked,     \* those linked to the stage (MarketingCaseResource)
    step,       \* MarketingCaseStep.status, with its failure
    worker,     \* what finish_success has read
    person      \* what each person's request has read

vars == <<purpose, run, attempts, agent, call, commitment, knowledge, linked, step, worker, person>>

-----------------------------------------------------------------------------
\* TRANSITIONS of main.py
Transitions ==
    [proposed |-> {"clarifying", "accepted", "rejected", "cancelled"},
     clarifying |-> {"proposed", "cancelled"},
     accepted |-> {"active", "cancelled", "paused"},
     active |-> {"waiting", "submitted", "manual_takeover", "paused"},
     waiting |-> {"active", "manual_takeover", "paused"},
     submitted |-> {"fulfilled", "active"},
     manual_takeover |-> {"submitted", "paused"},
     paused |-> {"active", "cancelled"},
     fulfilled |-> {}, rejected |-> {}, cancelled |-> {}]
CommitmentStatuses == DOMAIN Transitions
EndedStatuses == {"fulfilled", "rejected", "cancelled"}

\* ACTION_TARGET of commitment_contract.py
ActionTarget ==
    [accept |-> "accepted", activate |-> "active", wait |-> "waiting",
     submit |-> "submitted", request_takeover |-> "manual_takeover", pause |-> "paused"]

ASSUME ActionsAssumption == Actions \subseteq DOMAIN ActionTarget
ASSUME TargetsAssumption == Targets \subseteq CommitmentStatuses
ASSUME AttemptsAssumption == MaxAttempts \in Nat

AttemptStatuses == {"claimed", "external_starting", "running", "succeeded", "failed", "lost", "unknown"}
AgentStatuses == {"none", "asked", "working", "completed", "failed"}
CommitmentRow == [status : CommitmentStatuses, version : Nat]
Candidate == [attempt : Nat \ {0}, kind : Kinds]
Idle == [at |-> "idle"]
Call == [at : {"checked"}] \cup [at : {"asked"}, to : CommitmentStatuses]
        \cup [at : {"writing"}, to : CommitmentStatuses, read : CommitmentRow]
Writing == [at : {"writing"}, to : CommitmentStatuses, read : CommitmentRow]
Judging == [at : {"approving", "returning"}, read : CommitmentRow]
Finishing == [at : {"finishing"}, read : CommitmentRow, found : SUBSET Candidate]

KindsOf(set) == {x.kind : x \in set}
\* Nobody holds the row of the Run.
RunFree == worker = Idle

-----------------------------------------------------------------------------
\* _start_agent, or a chat turn, has just made the Commitment and the Run.
Init ==
    /\ purpose \in {"workflow", "chat"}
    /\ run = [status |-> "queued", current |-> 0]
    /\ attempts = <<>>
    /\ agent = [a \in 1..MaxAttempts |-> "none"]
    /\ call = [a \in 1..MaxAttempts |-> Idle]
    /\ commitment = [status |-> "accepted", version |-> 1]
    /\ knowledge = {}
    /\ linked = {}
    /\ step = "running"
    /\ worker = Idle
    /\ person = [p \in People |-> Idle]

-----------------------------------------------------------------------------
(* The Runtime, as far as the tools can tell.                              *)

runtime == <<run, attempts, agent>>
work == <<commitment, knowledge, linked, step, worker, person, call, purpose>>

ClaimNextRun ==
    /\ run.status = "queued" /\ Len(attempts) < MaxAttempts
    /\ attempts' = Append(attempts, "claimed")
    /\ run' = [status |-> "active", current |-> Len(attempts) + 1]
    /\ UNCHANGED <<agent, work>>

\* mark_external_starting; the request to Hermes leaves.
Dispatch(a) ==
    /\ run.current = a /\ attempts[a] = "claimed" /\ RunFree
    /\ attempts' = [attempts EXCEPT ![a] = "external_starting"]
    /\ agent' = [agent EXCEPT ![a] = "asked"]
    /\ UNCHANGED <<run, work>>

\* set_hermes_run
Recorded(a) ==
    /\ run.current = a /\ attempts[a] = "external_starting" /\ agent[a] # "asked" /\ RunFree
    /\ attempts' = [attempts EXCEPT ![a] = "running"]
    /\ UNCHANGED <<run, agent, work>>

HermesStarts(a) ==
    /\ agent[a] = "asked"
    /\ agent' = [agent EXCEPT ![a] = "working"]
    /\ UNCHANGED <<run, attempts, work>>
HermesEnds(a, how) ==
    /\ agent[a] = "working"
    /\ agent' = [agent EXCEPT ![a] = how]
    /\ UNCHANGED <<run, attempts, work>>

Block(why) == step' = IF purpose = "workflow" /\ step \in {"running", "unknown", "safe"} THEN why ELSE step

\* The lease is lost: before the dispatch the Run is queued again, after it
\* nobody knows.
LoseLease(a) ==
    /\ run.current = a /\ run.status = "active" /\ RunFree
    /\ IF attempts[a] = "claimed"
       THEN /\ attempts' = [attempts EXCEPT ![a] = "lost"]
            /\ run' = [status |-> "queued", current |-> 0]
            /\ UNCHANGED step
       ELSE /\ attempts' = [attempts EXCEPT ![a] = "unknown"]
            /\ run' = [run EXCEPT !.status = "unknown"]
            /\ Block("unknown")
    /\ UNCHANGED <<agent, purpose, call, commitment, knowledge, linked, worker, person>>

RunFails(a) ==
    /\ run.current = a /\ attempts[a] = "running" /\ agent[a] = "failed" /\ RunFree
    /\ attempts' = [attempts EXCEPT ![a] = "failed"]
    /\ run' = [run EXCEPT !.status = "failed"]
    /\ Block("safe")
    /\ UNCHANGED <<agent, purpose, call, commitment, knowledge, linked, worker, person>>

\* Mutant of FinishRead: the candidates of the Commitment, not of the Attempt.
FinishReadAll(a) ==
    /\ run.current = a /\ attempts[a] = "running" /\ agent[a] = "completed" /\ RunFree
    /\ worker' = [at |-> "finishing", read |-> commitment, found |-> knowledge]
    /\ UNCHANGED <<runtime, purpose, call, commitment, knowledge, linked, step, person>>
\* finish_success has locked the Run; it reads the Commitment and the
\* candidates of its Attempt.
FinishRead(a) ==
    /\ run.current = a /\ attempts[a] = "running" /\ agent[a] = "completed" /\ RunFree
    /\ worker' = [at |-> "finishing", read |-> commitment,
                  found |-> {x \in knowledge : x.attempt = a}]
    /\ UNCHANGED <<runtime, purpose, call, commitment, knowledge, linked, step, person>>

\* The Commitment is submitted, whatever became of it since it was read; the
\* candidates are linked; missing ones, and texts that are too short, block the
\* stage.
FinishSuccess(a) ==
    /\ worker # Idle /\ run.current = a
    /\ attempts' = [attempts EXCEPT ![a] = "succeeded"]
    /\ run' = [run EXCEPT !.status = "evidence_accepted"]
    /\ commitment' = IF worker.read.status \in {"accepted", "active"}
                     THEN [status |-> "submitted", version |-> worker.read.version + 1]
                     ELSE commitment
    /\ IF purpose = "workflow" /\ step \in {"running", "unknown", "safe"}
       THEN /\ linked' = linked \cup worker.found
            /\ \/ Kinds \subseteq KindsOf(worker.found) /\ step' = "awaiting_human"
               \/ step' = "safe"
       ELSE UNCHANGED <<linked, step>>
    /\ worker' = Idle
    /\ UNCHANGED <<agent, purpose, call, knowledge, person>>

-----------------------------------------------------------------------------
(* Tools.                                                                  *)

\* assert_context
Leased(a) == run.current = a /\ attempts[a] \in {"claimed", "running"}

SetCall(a, to) == call' = [call EXCEPT ![a] = to]
tools == <<runtime, purpose, linked, step, worker, person>>

\* require_workflow_write
MayWrite == purpose = "workflow"

AssertContext(a) ==
    /\ agent[a] = "working" /\ call[a] = Idle
    /\ Leased(a) /\ MayWrite
    /\ SetCall(a, [at |-> "checked"])
    /\ UNCHANGED <<tools, commitment, knowledge>>

\* object_create_candidate: POST /v1/knowledge, which asks nothing.
ObjectCreateCandidate(a, kind) ==
    /\ call[a].at = "checked"
    /\ knowledge' = knowledge \cup {[attempt |-> a, kind |-> kind]}
    /\ SetCall(a, Idle)
    /\ UNCHANGED <<tools, commitment>>

\* Mutant of CommitmentRespond: the action is sent as it is.
RespondWithAction(a, action) ==
    /\ call[a].at = "checked" /\ Leased(a)
    /\ commitment.version < MaxVersion
    /\ SetCall(a, [at |-> "asked", to |-> action])
    /\ UNCHANGED <<tools, commitment, knowledge>>
\* commitment_respond: commitment_read asserts the context again.
CommitmentRespond(a, action) ==
    /\ call[a].at = "checked" /\ Leased(a)
    /\ commitment.version < MaxVersion
    /\ SetCall(a, IF commitment.status = ActionTarget[action] THEN Idle
                  ELSE [at |-> "asked", to |-> ActionTarget[action]])
    /\ UNCHANGED <<tools, commitment, knowledge>>

\* A tool that raises, and one that only reads.
ToolEnds(a) ==
    /\ call[a].at = "checked"
    /\ SetCall(a, Idle)
    /\ UNCHANGED <<tools, commitment, knowledge>>

\* transition_commitment reads the row; If-Match is not compared with it.
Legal(to) == to \in Transitions[commitment.status]
AgentTransitionRead(a) ==
    /\ call[a].at = "asked"
    /\ SetCall(a, IF Legal(call[a].to)
                  THEN [at |-> "writing", to |-> call[a].to, read |-> commitment] ELSE Idle)
    /\ UNCHANGED <<tools, commitment, knowledge>>

WriteCommitment(t) == commitment' = [status |-> t.to, version |-> t.read.version + 1]
AgentTransitionWrite(a) ==
    /\ call[a].at = "writing"
    /\ WriteCommitment(call[a])
    /\ SetCall(a, Idle)
    /\ UNCHANGED <<tools, knowledge>>

-----------------------------------------------------------------------------
(* People.                                                                 *)

others == <<runtime, purpose, call, knowledge, linked, worker>>
SetPerson(p, to) == person' = [person EXCEPT ![p] = to]

TransitionRead(p, to) ==
    /\ person[p] = Idle /\ Legal(to) /\ commitment.version < MaxVersion
    /\ SetPerson(p, [at |-> "writing", to |-> to, read |-> commitment])
    /\ UNCHANGED <<others, commitment, step>>
TransitionWrite(p) ==
    /\ person[p].at = "writing"
    /\ WriteCommitment(person[p])
    /\ SetPerson(p, Idle)
    /\ UNCHANGED <<others, step>>

\* Commands on the stage hold the row of the case, one at a time.
CaseFree == \A p \in People : person[p].at \in {"idle", "writing"}

\* approve_*: _fulfill_commitment
ApproveRead(p) ==
    /\ person[p] = Idle /\ CaseFree /\ step = "awaiting_human"
    /\ SetPerson(p, [at |-> "approving", read |-> commitment])
    /\ UNCHANGED <<others, commitment, step>>
ApproveWrite(p) ==
    /\ person[p].at = "approving"
    /\ IF person[p].read.status = "submitted"
       THEN WriteCommitment([to |-> "fulfilled", read |-> person[p].read])
       ELSE UNCHANGED commitment
    /\ step' = "completed"
    /\ SetPerson(p, Idle)
    /\ UNCHANGED others

\* _return_for_revision: the Commitment is cancelled; the next start makes a new
\* one.
ReturnRead(p) ==
    /\ person[p] = Idle /\ CaseFree /\ step = "awaiting_human"
    /\ SetPerson(p, [at |-> "returning", read |-> commitment])
    /\ UNCHANGED <<others, commitment, step>>
ReturnWrite(p) ==
    /\ person[p].at = "returning"
    /\ IF person[p].read.status \notin {"fulfilled", "cancelled"}
       THEN WriteCommitment([to |-> "cancelled", read |-> person[p].read])
       ELSE UNCHANGED commitment
    /\ step' = "ready"
    /\ SetPerson(p, Idle)
    /\ UNCHANGED others

\* retry_safe_step: another Run for the same Commitment.
RetrySafeStep ==
    /\ step = "safe" /\ CaseFree /\ RunFree
    /\ run' = [status |-> "queued", current |-> 0]
    /\ step' = "running"
    /\ UNCHANGED <<attempts, agent, purpose, call, commitment, knowledge, linked, worker, person>>

\* resolve_unknown
ResolveAsFailed ==
    /\ step = "unknown" /\ CaseFree
    /\ step' = "safe"
    /\ UNCHANGED <<others, commitment, person>>
\* Mutant of CanConfirm: what is there is not looked at.
ConfirmAnyway == step = "unknown" /\ CaseFree
CanConfirm == step = "unknown" /\ CaseFree /\ Kinds \subseteq KindsOf(linked)
ResolveAsSucceeded ==
    /\ CanConfirm
    /\ step' = "awaiting_human"
    /\ UNCHANGED <<others, commitment, person>>

-----------------------------------------------------------------------------
Runtime ==
    \/ ClaimNextRun
    \/ \E a \in DOMAIN attempts :
           \/ Dispatch(a) \/ Recorded(a) \/ LoseLease(a) \/ RunFails(a)
           \/ FinishRead(a) \/ FinishSuccess(a)
           \/ HermesStarts(a) \/ HermesEnds(a, "completed") \/ HermesEnds(a, "failed")

Tools ==
    \E a \in DOMAIN attempts :
        \/ AssertContext(a) \/ ToolEnds(a)
        \/ \E kind \in Kinds : ObjectCreateCandidate(a, kind)
        \/ \E action \in Actions : CommitmentRespond(a, action)
        \/ AgentTransitionRead(a) \/ AgentTransitionWrite(a)

Human ==
    \/ \E p \in People :
           \/ \E to \in Targets : TransitionRead(p, to)
           \/ TransitionWrite(p) \/ ApproveRead(p) \/ ApproveWrite(p)
           \/ ReturnRead(p) \/ ReturnWrite(p)
    \/ RetrySafeStep \/ ResolveAsFailed \/ ResolveAsSucceeded

Next == Runtime \/ Tools \/ Human

Spec == Init /\ [][Next]_vars

-----------------------------------------------------------------------------
(* Properties.                                                             *)

TypeOK ==
    /\ purpose \in {"workflow", "chat"}
    /\ run \in [status : {"queued", "active", "evidence_accepted", "failed", "unknown"},
                current : 0..Len(attempts)]
    /\ attempts \in Seq(AttemptStatuses)
    /\ agent \in [1..MaxAttempts -> AgentStatuses]
    /\ call \in [1..MaxAttempts -> {Idle} \cup Call]
    /\ commitment \in CommitmentRow
    /\ knowledge \subseteq Candidate
    /\ linked \subseteq knowledge
    /\ step \in {"running", "safe", "unknown", "awaiting_human", "ready", "completed"}
    /\ worker = Idle \/ worker \in Finishing
    /\ person \in [People -> {Idle} \cup Writing \cup Judging]

\* What an Agent has written for an Attempt that did not succeed, or writes
\* after its Attempt is over, never becomes part of the case, however late its
\* calls arrive (marketing_case.py:1728, server.py:133).
LinkedFromSuccess == \A x \in linked : attempts[x.attempt] = "succeeded"

\* People are asked to judge a stage only when every kind of object it has to
\* produce is linked to it (marketing_case.py:1733, 1409).
GateWithEvidence == step \in {"awaiting_human", "completed"} => Kinds \subseteq KindsOf(linked)
=============================================================================
