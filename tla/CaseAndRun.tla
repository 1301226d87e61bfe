----------------------------- MODULE CaseAndRun -----------------------------
(***************************************************************************)
(* One stage of a Marketing Case and its Run at the granularity of the      *)
(* database: which statement reads a row, which one locks it, and what a    *)
(* transaction writes from what it read.  The end of a Run locks the Run    *)
(* and then writes the case; the command cancel_case locks the case and     *)
(* then writes the Run; messages write the version of the case without a    *)
(* lock of their own.  PostgreSQL, READ COMMITTED: a statement sees what is *)
(* committed, a row that is written stays locked until the transaction      *)
(* ends, and one of the transactions of a cycle of waits is aborted.        *)
(*                                                                          *)
(* SELECT FOR UPDATE does not refresh an object the session has loaded      *)
(* before (there is no populate_existing in this code), so a transaction    *)
(* writes values computed from its first read; the uniqueness of            *)
(* (run_id, sequence_no) is what stops a stale one.                         *)
(*                                                                          *)
(* Leases are AgentRun's: here a Worker may find at any time that recovery  *)
(* has taken its Attempt away.                                              *)
(***************************************************************************)
EXTENDS Naturals, Sequences

CONSTANTS
    Coordinators, \* Worker processes; each also runs the recovery scan
    Operators,    \* clients of POST /v1/runs/{id}/cancel
    People,       \* clients of the case: commands, messages, change requests
    Nobody,       \* no transaction
    MaxVersion,   \* bound: requests are sent while the version is below it
    MaxSeq        \* bound: Runs are requeued, and asked to cancel, below it

ASSUME BoundsAssumption == MaxVersion \in Nat /\ MaxSeq \in Nat

VARIABLES
    run,       \* the row of the AgentRun
    timeline,  \* its AgentRunTransition rows, by sequence_no
    step,      \* MarketingCaseStep.status of its stage
    case,      \* MarketingCase.status and version
    runLock,   \* the transaction that has locked or written the Run
    caseLock,  \* the transaction that holds the case FOR UPDATE
    caseShare, \* transactions that hold it FOR KEY SHARE until they end
    tx,        \* where each transaction is and what it has read
    holds,     \* the Attempt a Worker works on, 0 for none
    seen       \* the case as a person's client has last read it

locks == <<runLock, caseLock, caseShare>>
vars == <<run, timeline, step, case, locks, tx, holds, seen>>

-----------------------------------------------------------------------------
Processes == Coordinators \cup Operators \cup People
ASSUME NobodyAssumption == Nobody \notin Processes

Ends == {"evidence_accepted", "failed", "cancelled", "unknown"}
RunStatuses == {"queued", "accepted", "running"} \cup Ends
RunRow == [mode : {"real", "synthetic"}, status : RunStatuses, seq : Nat, asked : BOOLEAN,
           current : Nat]
CaseRow == [status : {"running", "blocked", "awaiting_human", "cancelled"}, version : Nat]
StepStatuses == {"running", "blocked", "awaiting_human"}

Idle == [at |-> "idle"]
\* A transaction and the rows as it has read them; "to" is the status it will
\* give the Run, and "attempt" the one it acts for.
Transaction ==
    [at : {"starting", "finishing", "linked", "locked", "command", "message"},
     run : RunRow, case : CaseRow, step : StepStatuses, to : RunStatuses, attempt : Nat]

Active == run.status \in {"accepted", "running"}
Ended == run.status \in Ends

\* A transaction reads the committed rows.
Reading(at, to, attempt) ==
    [at |-> at, run |-> run, case |-> case, step |-> step, to |-> to, attempt |-> attempt]

RunFree == runLock = Nobody
\* Nobody holds the case FOR UPDATE: it can be written, or locked FOR KEY SHARE
\* as the insertion of a row that refers to it does.
CaseWritable == caseLock = Nobody
\* It can be locked FOR UPDATE.
CaseFree == caseLock = Nobody /\ caseShare = {}

-----------------------------------------------------------------------------
Init ==
    /\ \E mode \in {"real", "synthetic"} :
           run = [mode |-> mode, status |-> "queued", seq |-> 1, asked |-> FALSE, current |-> 0]
    /\ timeline = <<[from |-> "queued", to |-> "queued"]>>
    /\ step = "running"
    /\ case = [status |-> "running", version |-> 1]
    /\ runLock = Nobody
    /\ caseLock = Nobody
    /\ caseShare = {}
    /\ tx = [p \in Processes |-> Idle]
    /\ holds = [c \in Coordinators |-> 0]
    /\ seen = [p \in People |-> case]

\* Mutant of Unmoved: nothing makes the sequence number unique.
Unchecked(old) == TRUE
\* The uniqueness of (run_id, sequence_no): the number after the one that was
\* read is still free.
Unmoved(old) == old.seq = run.seq

\* append_transition, computed from the row as it was read.
AppendTransition(old, row, from) ==
    /\ run' = [row EXCEPT !.seq = old.seq + 1]
    /\ timeline' = Append(timeline, [from |-> from, to |-> row.status])
SetStatus(old, to) == AppendTransition(old, [old EXCEPT !.status = to], old.status)

Done(p) == tx' = [tx EXCEPT ![p] = Idle]
Drop(c) == holds' = [holds EXCEPT ![c] = 0]
Release(p) ==
    /\ runLock' = IF runLock = p THEN Nobody ELSE runLock
    /\ caseLock' = IF caseLock = p THEN Nobody ELSE caseLock
    /\ caseShare' = caseShare \ {p}

-----------------------------------------------------------------------------
(* Workers and recovery.                                                   *)

\* claim_next_run: one statement skips a locked Run or locks and reads it.
Claim(c) ==
    /\ tx[c] = Idle /\ holds[c] = 0
    /\ run.status = "queued" /\ RunFree
    /\ AppendTransition(run, [run EXCEPT !.status = "accepted", !.current = Len(timeline)], "queued")
    /\ holds' = [holds EXCEPT ![c] = Len(timeline)]
    /\ UNCHANGED <<step, case, locks, tx, seen>>

\* finish_simulated and execute_hermes begin with db.get(AgentRun).
StartRead(c) ==
    /\ tx[c] = Idle /\ holds[c] # 0
    /\ run.current = holds[c] /\ run.status = "accepted"
    /\ tx' = [tx EXCEPT ![c] = Reading("starting", "running", holds[c])]
    /\ UNCHANGED <<run, timeline, step, case, locks, holds, seen>>

\* The lease is lost, or the row has moved since it was read: the Worker gives
\* up (StaleLease), or the failed insertion ends its process.
GiveUp(c) ==
    /\ tx[c].at \in {"starting", "linked"} /\ RunFree
    /\ run.current # tx[c].attempt \/ ~Active \/ ~Unmoved(tx[c].run)
    /\ Done(c) /\ Drop(c) /\ Release(c)
    /\ UNCHANGED <<run, timeline, step, case, seen>>

\* mark_running
MarkRunning(c) ==
    /\ tx[c].at = "starting" /\ RunFree
    /\ run.current = tx[c].attempt /\ Active /\ Unmoved(tx[c].run)
    /\ SetStatus(tx[c].run, "running")
    /\ Done(c)
    /\ UNCHANGED <<step, case, locks, holds, seen>>

\* A Worker that holds no living Attempt any more.
LeaseLost(c) ==
    /\ tx[c] = Idle /\ holds[c] # 0
    /\ run.current # holds[c] \/ Ended
    /\ Drop(c)
    /\ UNCHANGED <<run, timeline, step, case, locks, tx, seen>>

\* Simulated: the Run, its step and the case are read first, then the
\* candidates are inserted and linked to the case (prepare_synthetic_candidates).
FinishRead(c) ==
    /\ run.mode = "synthetic"
    /\ tx[c] = Idle /\ holds[c] # 0
    /\ run.current = holds[c] /\ run.status = "running"
    /\ tx' = [tx EXCEPT ![c] = Reading("finishing", "evidence_accepted", holds[c])]
    /\ UNCHANGED <<run, timeline, step, case, locks, holds, seen>>
FinishLink(c) ==
    /\ tx[c].at = "finishing" /\ CaseWritable
    /\ caseShare' = caseShare \cup {c}
    /\ tx' = [tx EXCEPT ![c].at = "linked"]
    /\ UNCHANGED <<run, timeline, step, case, runLock, caseLock, holds, seen>>
\* finish_success locks the Run; the transition is flushed at once.
FinishLock(c) ==
    /\ tx[c].at = "linked" /\ RunFree
    /\ run.current = tx[c].attempt /\ Active /\ Unmoved(tx[c].run)
    /\ runLock' = c
    /\ tx' = [tx EXCEPT ![c].at = "locked"]
    /\ UNCHANGED <<run, timeline, step, case, caseLock, caseShare, holds, seen>>

LockRun(p, to, row, attempt) ==
    /\ RunFree
    /\ runLock' = p
    /\ tx' = [tx EXCEPT ![p] = [Reading("locked", to, attempt) EXCEPT !.run = row]]
    /\ UNCHANGED <<run, timeline, step, case, caseLock, caseShare, holds, seen>>

\* Real: finish_success, finish_terminal and finish_failure_or_requeue lock the
\* Run with their first statement, and read the rest under the lock.
FinishReal(c, to) ==
    /\ run.mode = "real"
    /\ tx[c] = Idle /\ holds[c] # 0
    /\ run.current = holds[c] /\ run.status = "running"
    /\ LockRun(c, to, run, holds[c])

\* recover_expired ends the Run of another Worker.
RecoverEnd(c, to) ==
    /\ tx[c] = Idle /\ holds[c] = 0
    /\ Active
    /\ LockRun(c, to, run, run.current)

\* finish_failure_or_requeue and recover_expired put the Run back; the case is
\* not touched, so this transaction waits for nothing but the Run.
Requeue(c) ==
    /\ tx[c] = Idle /\ RunFree
    /\ \/ holds[c] = 0 /\ Active
       \/ holds[c] # 0 /\ run.current = holds[c] /\ run.status = "running" /\ run.mode = "real"
    /\ run.seq < MaxSeq
    /\ SetStatus([run EXCEPT !.current = 0], "queued")
    /\ Drop(c)
    /\ UNCHANGED <<step, case, locks, tx, seen>>

-----------------------------------------------------------------------------
(* The end of a Run, whoever ends it.                                      *)

\* A column is written when the object differs from what was read.
Column(now, old, new) == IF new = old THEN now ELSE new

\* sync_case_after_run_terminal: the step and the case as they were read get
\* the outcome; missing or thin artifacts block a Run that has succeeded.
Tell(t, to) ==
    IF t.step \in {"running", "blocked"} /\ t.case.status # "cancelled"
    THEN \E result \in IF to = "evidence_accepted" THEN {"awaiting_human", "blocked"}
                                                  ELSE {"blocked"} :
             /\ step' = Column(step, t.step, result)
             /\ case' = [status |-> Column(case.status, t.case.status, result),
                         version |-> t.case.version + 1]
    ELSE UNCHANGED <<step, case>>

\* Mutant of EndRun: the case is told in a transaction of its own.
EndRunOnly(p) ==
    /\ tx[p].at = "locked" /\ CaseWritable
    /\ SetStatus(tx[p].run, tx[p].to)
    /\ Done(p) /\ Release(p)
    /\ IF p \in Coordinators THEN Drop(p) ELSE UNCHANGED holds
    /\ UNCHANGED <<step, case, seen>>

\* The commit: the Run is locked, the case has to be.
EndRun(p) ==
    /\ tx[p].at = "locked" /\ CaseWritable
    /\ SetStatus(tx[p].run, tx[p].to)
    /\ Tell(tx[p], tx[p].to)
    /\ Done(p) /\ Release(p)
    /\ IF p \in Coordinators THEN Drop(p) ELSE UNCHANGED holds
    /\ UNCHANGED seen

-----------------------------------------------------------------------------
(* POST /v1/runs/{id}/cancel: FOR UPDATE on the Run, then request_cancellation. *)

CancelActive(k) ==
    /\ tx[k] = Idle /\ RunFree /\ Active
    /\ run.seq < MaxSeq
    /\ AppendTransition(run, [run EXCEPT !.asked = TRUE], run.status)
    /\ UNCHANGED <<step, case, locks, tx, holds, seen>>
CancelQueued(k) ==
    /\ tx[k] = Idle /\ run.status = "queued"
    /\ LockRun(k, "cancelled", [run EXCEPT !.asked = TRUE], 0)

-----------------------------------------------------------------------------
(* People.                                                                 *)

\* GET /v1/marketing-cases/{id}
Look(p) ==
    /\ tx[p] = Idle /\ seen[p] # case
    /\ seen' = [seen EXCEPT ![p] = case]
    /\ UNCHANGED <<run, timeline, step, case, locks, tx, holds>>

\* cancel_case: the case FOR UPDATE, If-Match, and the Run without a lock.
CommandLock(p) ==
    /\ tx[p] = Idle /\ CaseFree
    /\ seen[p].version = case.version /\ case.version < MaxVersion
    /\ case.status # "cancelled"
    /\ caseLock' = p
    /\ tx' = [tx EXCEPT ![p] = Reading("command", "cancelled", 0)]
    /\ UNCHANGED <<run, timeline, step, case, runLock, caseShare, holds, seen>>

TouchCase(t, to) ==
    case' = [status |-> Column(case.status, t.case.status, to), version |-> t.case.version + 1]

\* The Run is over.
CommandCancels(p) ==
    /\ tx[p].at = "command" /\ tx[p].run.status \in Ends
    /\ TouchCase(tx[p], "cancelled")
    /\ Done(p) /\ Release(p)
    /\ UNCHANGED <<run, timeline, step, holds, seen>>

\* request_cancellation writes the Run from what was read: one that was queued
\* ends, an active one is asked to and its step is blocked.
CommandAsks(p) ==
    LET t == tx[p]  old == [t.run EXCEPT !.asked = TRUE] IN
    /\ t.at = "command" /\ t.run.status \notin Ends
    /\ RunFree /\ Unmoved(t.run)
    /\ IF t.run.status = "queued"
       THEN SetStatus(old, "cancelled") /\ Tell(t, "cancelled")
       ELSE /\ AppendTransition(old, old, old.status)
            /\ step' = "blocked"
            /\ TouchCase(t, "blocked")
    /\ Done(p) /\ Release(p)
    /\ UNCHANGED <<holds, seen>>

\* The insertion of the transition fails; the command is answered with 500 and
\* leaves no trace.
CommandFails(p) ==
    /\ tx[p].at = "command" /\ tx[p].run.status \notin Ends
    /\ RunFree /\ ~Unmoved(tx[p].run)
    /\ Done(p) /\ Release(p)
    /\ UNCHANGED <<run, timeline, step, case, holds, seen>>

\* POST messages: the case is read, then the message is inserted, and the
\* version is written as the one that was read plus one.
MessageRead(p) ==
    /\ tx[p] = Idle /\ case.version < MaxVersion
    /\ tx' = [tx EXCEPT ![p] = Reading("message", run.status, 0)]
    /\ UNCHANGED <<run, timeline, step, case, locks, holds, seen>>
\* Mutant of MessageWrite: the whole row is written back.
MessageWriteRow(p) ==
    /\ tx[p].at = "message" /\ CaseWritable
    /\ case' = [tx[p].case EXCEPT !.version = @ + 1]
    /\ Done(p)
    /\ UNCHANGED <<run, timeline, step, locks, holds, seen>>
MessageWrite(p) ==
    /\ tx[p].at = "message" /\ CaseWritable
    /\ case' = [case EXCEPT !.version = tx[p].case.version + 1]
    /\ Done(p)
    /\ UNCHANGED <<run, timeline, step, locks, holds, seen>>

\* POST change-requests: FOR UPDATE and If-Match; one transaction that waits
\* for nothing else.
RequestChange(p) ==
    /\ tx[p] = Idle /\ CaseFree
    /\ seen[p].version = case.version /\ case.version < MaxVersion
    /\ case' = [case EXCEPT !.version = @ + 1]
    /\ UNCHANGED <<run, timeline, step, locks, tx, holds, seen>>

-----------------------------------------------------------------------------
\* p holds the case and waits for the Run that q holds, who waits for the case.
Cycle(p, q) ==
    /\ tx[p].at = "command" /\ tx[p].run.status \notin Ends
    /\ tx[q].at = "locked" /\ runLock = q

\* Mutant of Deadlock: nobody looks for cycles.
NoDetector(p, q) == FALSE /\ UNCHANGED vars
\* PostgreSQL aborts one of the two. A request is answered with 500; a Worker
\* tries again (retry_database_operation).
Deadlock(p, q) ==
    /\ Cycle(p, q)
    /\ \E victim \in {p, q} : Done(victim) /\ Release(victim)
    /\ UNCHANGED <<run, timeline, step, case, holds, seen>>

Work(c) ==
    \/ Claim(c) \/ StartRead(c) \/ GiveUp(c) \/ MarkRunning(c) \/ LeaseLost(c)
    \/ FinishRead(c) \/ FinishLink(c) \/ FinishLock(c) \/ Requeue(c) \/ EndRun(c)
    \/ \E to \in Ends : FinishReal(c, to)
    \/ \E to \in {"failed", "unknown"} : RecoverEnd(c, to)
\* What a request does once it has begun.
Serve(p) == CommandCancels(p) \/ CommandAsks(p) \/ CommandFails(p) \/ MessageWrite(p)
Send(p) == Look(p) \/ CommandLock(p) \/ MessageRead(p) \/ RequestChange(p)

Next ==
    \/ \E c \in Coordinators : Work(c)
    \/ \E k \in Operators : CancelActive(k) \/ CancelQueued(k) \/ EndRun(k)
    \/ \E p \in People : Send(p) \/ Serve(p)
    \/ \E p \in People, q \in Coordinators \cup Operators : Deadlock(p, q)

\* A transaction that waits for a row is first in its queue: it gets the row
\* when the holder is aborted, before the holder is back (strong fairness).
Fairness ==
    /\ \A c \in Coordinators : WF_vars(Work(c))
    /\ \A p \in Coordinators \cup Operators : SF_vars(EndRun(p))
    /\ \A p \in People : SF_vars(Serve(p))
    /\ \A p \in People, q \in Coordinators \cup Operators : WF_vars(Deadlock(p, q))

Spec == Init /\ [][Next]_vars
FairSpec == Spec /\ Fairness

-----------------------------------------------------------------------------
(* Properties.                                                             *)

TypeOK ==
    /\ run \in RunRow
    /\ timeline \in Seq([from : RunStatuses, to : RunStatuses])
    /\ step \in StepStatuses
    /\ case \in CaseRow
    /\ runLock \in Processes \cup {Nobody}
    /\ caseLock \in Processes \cup {Nobody}
    /\ caseShare \subseteq Coordinators
    /\ tx \in [Processes -> {Idle} \cup Transaction]
    /\ holds \in [Coordinators -> Nat]
    /\ seen \in [People -> CaseRow]

\* The timeline of a Run has no gap, no fork and no jump, and ends in the
\* status of the Run, though transactions write both from what they read
\* before they had the lock (run_state.py:66-92, models.py:135).
TimelineChained ==
    /\ run.seq = Len(timeline)
    /\ run.status = timeline[run.seq].to
    /\ \A i \in 2..Len(timeline) : timeline[i].from = timeline[i - 1].to

\* Whatever the interleaving, a person and a Worker see the case and its Run as
\* if commands and ends of Runs were indivisible (run_state.py:49, main.py:916).
AsIfAtomic == INSTANCE CaseContract WITH
    work <- IF Active THEN "active" ELSE run.status,
    asked <- run.asked,
    step <- step,
    case <- case.status
KeepsCaseContract == AsIfAtomic!Spec

\* Every Run of a case ends and the case learns of it, though commands and
\* Workers wait for each other's rows (run_state.py:289, worker.py:144).
EndArrives == run.status = "queued" ~> (Ended /\ step # "running")
=============================================================================
