------------------------------ MODULE AgentRun ------------------------------
(***************************************************************************)
(* Execution of Agent Runs: the lease-fenced Attempts of run_state.py, the  *)
(* Worker loop of worker.py that takes one Run at a time through Hermes (or *)
(* through the bounded simulation), the recovery scan, and the cancel       *)
(* endpoint.  Each action is one database transaction or one HTTP call.     *)
(*                                                                          *)
(* Time is abstracted to the lease of each Attempt: "valid" while           *)
(* lease_until >= now, "expired" after.  A transaction of the Worker        *)
(* computes "now" (run_state.py:146) before it waits for the row lock, so   *)
(* it may commit after the lease has lapsed; such a transaction is on its   *)
(* way while the lease is "inflight".                                       *)
(***************************************************************************)
EXTENDS Naturals, Sequences, FiniteSets

CONSTANTS
    Runs,         \* identifiers of the Runs
    Workers,      \* Worker processes (containers restarted when they die)
    Modes,        \* the values of AgentRun.execution_mode in use
    MaxAttempts,  \* AGENT_RUN_MAX_ATTEMPTS
    Straddling    \* the Attempt numbers whose lease may end under a
                  \* transaction of the Worker (all of them; fewer is a bound)

ASSUME ModesAssumption == Modes \subseteq {"real", "synthetic", "legacy"}
ASSUME MaxAttemptsAssumption == MaxAttempts \in Nat \ {0}
ASSUME StraddlingAssumption == Straddling \subseteq Nat

VARIABLES
    mode,        \* AgentRun.execution_mode; "none" before the Run exists
    status,      \* AgentRun.status
    current,     \* number of AgentRun.current_attempt_id's row, 0 for null
    cancelAsked, \* AgentRun.cancellation_requested_at is set
    attempts,    \* the AgentRunAttempt rows of each Run, by attempt_no
    job,         \* what Hermes does for each Attempt (outside this code)
    notified,    \* calls of sync_case_after_run_terminal for the Run
    reconcile,   \* manual.reconciliation.required events of the Run
    worker,      \* where each Worker process is, and on which Attempt
    scanned      \* Attempt rows a recovery scan has read and not yet handled

runVars == <<mode, status, current, cancelAsked, notified, reconcile>>
vars == <<mode, status, current, cancelAsked, attempts, job, notified,
          reconcile, worker, scanned>>

-----------------------------------------------------------------------------
TerminalRunStatuses == {"evidence_accepted", "failed", "cancelled", "unknown"}
RunStatuses == {"none", "queued", "accepted", "running"} \cup TerminalRunStatuses

\* Mutant of RunTransitions: an unknown Run can be settled by a late answer.
LateAnswerTransitions ==
    [s \in RunStatuses |->
        CASE s = "queued"   -> {"accepted", "cancelled"}
          [] s = "accepted" -> {"queued", "running", "cancelled", "failed", "unknown"}
          [] s \in {"running", "unknown"} ->
                 {"queued", "evidence_accepted", "failed", "cancelled", "unknown"}
          [] OTHER          -> {}]
\* RUN_TRANSITIONS: what append_transition lets a status become.
RunTransitions ==
    [s \in RunStatuses |->
        CASE s = "queued"   -> {"accepted", "cancelled"}
          [] s = "accepted" -> {"queued", "running", "cancelled", "failed", "unknown"}
          [] s = "running"  -> {"queued", "evidence_accepted", "failed", "cancelled", "unknown"}
          [] OTHER          -> {}]

OpenStatuses == {"claimed", "running", "external_starting"}
AttemptStatuses ==
    OpenStatuses \cup {"succeeded", "failed", "cancelled", "unknown", "lost"}

\* "late" is no column but history: a transaction of the Attempt's Worker was
\* on its way when the lease ended.  No action looks at it.
Attempt == [status : AttemptStatuses, hermes : BOOLEAN,
            retry : {"conditional", "safe", "unsafe"},
            lease : {"valid", "inflight", "expired"}, late : BOOLEAN]

JobStatuses == {"none", "running", "stopping", "completed", "failed_safe",
                "failed_unsafe", "cancelled"}

\* Steps of execute_hermes and finish_simulated at which a Worker can be.
Steps == {"claimed", "simulating", "started", "intent", "posted", "polling",
          "stopping", "failing"}
Idle == [step |-> "idle"]
Assignment == [step : Steps, run : Runs, no : Nat \ {0}]

Snapshot == [run : Runs, no : Nat \ {0}, external : BOOLEAN]

Open(r, n) == attempts[r][n].status \in OpenStatuses
Active(r) == status[r] \in {"accepted", "running"}
Terminal(r) == status[r] \in TerminalRunStatuses
\* Mutant of External: only the Hermes run id counts.
ExternalById(r, n) == attempts[r][n].hermes
\* The Hermes run id, or the intent to create one, is on record.
External(r, n) == attempts[r][n].hermes \/ attempts[r][n].status = "external_starting"

Busy(w) == worker[w].step # "idle"
Works(w, r, n) == Busy(w) /\ worker[w].run = r /\ worker[w].no = n
At(w, step, r, n) ==
    /\ worker[w].step = step
    /\ r = worker[w].run
    /\ n = worker[w].no
Goto(w, step) == worker' = [worker EXCEPT ![w].step = step]
GoIdle(w) == worker' = [worker EXCEPT ![w] = Idle]

\* Mutant of LeaseHeld: the end of the lease is not looked at.
CurrentOnly(r, n) == current[r] = n
\* _locked_attempt: the Attempt is still the current one, and its lease had
\* not ended when the transaction read the clock.
LeaseHeld(r, n) == current[r] = n /\ attempts[r][n].lease # "expired"

\* The lease column as a Worker transaction leaves it: one that was on its way
\* when the lease ended was the last to pass the check.
Spent(lease) == IF lease = "inflight" THEN "expired" ELSE lease

\* No transaction of the Worker is on its way: its event loop is free to take
\* a step that is not a database transaction.
LoopFree(r, n) == attempts[r][n].lease # "inflight"

-----------------------------------------------------------------------------
Init ==
    /\ mode = [r \in Runs |-> "none"]
    /\ status = [r \in Runs |-> "none"]
    /\ current = [r \in Runs |-> 0]
    /\ cancelAsked = [r \in Runs |-> FALSE]
    /\ attempts = [r \in Runs |-> <<>>]
    /\ job = [r \in Runs |-> <<>>]
    /\ notified = [r \in Runs |-> 0]
    /\ reconcile = [r \in Runs |-> 0]
    /\ worker = [w \in Workers |-> Idle]
    /\ scanned = {}

\* append_transition to a different status, with the notice every terminal
\* transition is followed by; a transition not in the table raises, and the
\* transaction that asked for it leaves no trace.
Transition(r, to) ==
    /\ to \in RunTransitions[status[r]]
    /\ status' = [status EXCEPT ![r] = to]
    /\ notified' = [notified EXCEPT ![r] = @ + IF to \in TerminalRunStatuses THEN 1 ELSE 0]
    /\ reconcile' = [reconcile EXCEPT ![r] = @ + IF to = "unknown" THEN 1 ELSE 0]

\* One row of the Attempt table is written.
SetAttempt(r, n, row) == attempts' = [attempts EXCEPT ![r] = [@ EXCEPT ![n] = row]]
SetJob(r, n, to) == job' = [job EXCEPT ![r] = [@ EXCEPT ![n] = to]]

\* What a transaction of the Worker does to its row: the status, and the lease
\* it has used up if it was on its way when that ended.
Write(r, n, to, retry, hermes) ==
    SetAttempt(r, n, [status |-> to, hermes |-> hermes, retry |-> retry,
                      lease |-> Spent(attempts[r][n].lease),
                      late |-> attempts[r][n].late])
MarkAttempt(r, n, to) == Write(r, n, to, attempts[r][n].retry, attempts[r][n].hermes)
CloseAttempt(r, n, to, retry) == Write(r, n, to, retry, attempts[r][n].hermes)
SetLease(r, n, to) == SetAttempt(r, n, [attempts[r][n] EXCEPT !.lease = to])

-----------------------------------------------------------------------------
(* The API.                                                                *)

\* POST /v1/runs, and _start_agent of a case: the Run is inserted as queued.
\* Rows of before the execution_mode column have none ("legacy").
CreateRun(r, m) ==
    /\ status[r] = "none"
    /\ mode' = [mode EXCEPT ![r] = m]
    /\ status' = [status EXCEPT ![r] = "queued"]
    /\ UNCHANGED <<current, cancelAsked, attempts, job, notified, reconcile, worker, scanned>>

\* POST /v1/runs/{id}/cancel: a queued Run ends, an active one is only marked.
RequestCancellation(r) ==
    /\ status[r] # "none" /\ ~Terminal(r)
    /\ cancelAsked' = [cancelAsked EXCEPT ![r] = TRUE]
    /\ IF status[r] = "queued"
       THEN Transition(r, "cancelled")
       ELSE UNCHANGED <<status, notified, reconcile>>
    /\ UNCHANGED <<mode, current, attempts, job, worker, scanned>>

-----------------------------------------------------------------------------
(* The Worker.                                                             *)

\* Mutant of ClaimNextRun: the Attempts are numbered from 0.
ClaimFromZero(w, r) ==
    /\ ~Busy(w)
    /\ status[r] = "queued"
    /\ attempts' = [attempts EXCEPT ![r] =
           Append(@, [status |-> "claimed", hermes |-> FALSE,
                      retry |-> "conditional", lease |-> "valid", late |-> FALSE])]
    /\ job' = [job EXCEPT ![r] = Append(@, "none")]
    /\ current' = [current EXCEPT ![r] = Len(attempts[r])]
    /\ Transition(r, "accepted")
    /\ worker' = [worker EXCEPT ![w] =
           [step |-> "claimed", run |-> r, no |-> Len(attempts[r])]]
    /\ UNCHANGED <<mode, cancelAsked, scanned>>

\* claim_next_run: FOR UPDATE SKIP LOCKED, the new Attempt and the fencing
\* columns in one transaction.
ClaimNextRun(w, r) ==
    /\ ~Busy(w)
    /\ status[r] = "queued"
    /\ attempts' = [attempts EXCEPT ![r] =
           Append(@, [status |-> "claimed", hermes |-> FALSE,
                      retry |-> "conditional", lease |-> "valid", late |-> FALSE])]
    /\ job' = [job EXCEPT ![r] = Append(@, "none")]
    /\ current' = [current EXCEPT ![r] = Len(attempts[r]) + 1]
    /\ Transition(r, "accepted")
    /\ worker' = [worker EXCEPT ![w] =
           [step |-> "claimed", run |-> r, no |-> Len(attempts[r]) + 1]]
    /\ UNCHANGED <<mode, cancelAsked, scanned>>

\* mark_running, the first transaction of both executions.  A legacy Run is
\* executed as the switch file says at this moment.
MarkRunning(w, r, n) ==
    /\ At(w, "claimed", r, n)
    /\ LeaseHeld(r, n)
    /\ MarkAttempt(r, n, "running")
    /\ Transition(r, "running")
    /\ \/ mode[r] \in {"real", "legacy"} /\ Goto(w, "started")
       \/ mode[r] \in {"synthetic", "legacy"} /\ Goto(w, "simulating")
    /\ UNCHANGED <<mode, current, cancelAsked, job, scanned>>

\* mark_external_starting: the intent is on record before the request leaves.
\* It looks at neither status, and is repeated when its commit is not
\* acknowledged (retry_database_operation).
MarkExternalStarting(w, r, n) ==
    /\ At(w, "started", r, n)
    /\ LeaseHeld(r, n)
    /\ MarkAttempt(r, n, "external_starting")
    /\ Goto(w, "intent") \/ UNCHANGED worker
    /\ UNCHANGED <<runVars, job, scanned>>

\* POST {hermes}/v1/runs: no lease check stands between the intent and it.
PostHermesRun(w, r, n) ==
    /\ At(w, "intent", r, n)
    /\ LoopFree(r, n)
    /\ \/ \* Hermes has created its run
          /\ SetJob(r, n, "running")
          /\ Goto(w, "posted") \/ Goto(w, "failing")
       \/ \* the request was refused or never arrived
          /\ job' = job
          /\ Goto(w, "failing")
    /\ UNCHANGED <<runVars, attempts, scanned>>

\* set_hermes_run
SetHermesRun(w, r, n) ==
    /\ At(w, "posted", r, n)
    /\ LeaseHeld(r, n)
    /\ Write(r, n, "running", attempts[r][n].retry, TRUE)
    /\ Goto(w, "polling") \/ UNCHANGED worker
    /\ UNCHANGED <<runVars, job, scanned>>

\* Mutant of StopHermesRun: the stop is sent without looking for a request.
StopUnasked(w, r, n) ==
    /\ At(w, "polling", r, n)
    /\ LoopFree(r, n)
    /\ SetJob(r, n, IF job[r][n] = "running" THEN "stopping" ELSE job[r][n])
    /\ Goto(w, "stopping")
    /\ UNCHANGED <<runVars, attempts, scanned>>

\* A round of the poll loop reads the cancellation and sends /stop, once.
\* An error answer of /stop raises, whether or not the stop took effect.
StopHermesRun(w, r, n) ==
    /\ At(w, "polling", r, n)
    /\ LoopFree(r, n)
    /\ cancelAsked[r]
    /\ \/ /\ SetJob(r, n, IF job[r][n] = "running" THEN "stopping" ELSE job[r][n])
          /\ Goto(w, "stopping") \/ Goto(w, "failing")
       \/ UNCHANGED job /\ Goto(w, "failing")
    /\ UNCHANGED <<runVars, attempts, scanned>>

\* Polling stops on an error answer, or after HERMES_MAX_POLLS rounds; any
\* other exception of the block ends up here too.
ExecutionRaises(w, r, n) ==
    /\ \E step \in {"started", "posted", "polling", "stopping"} : At(w, step, r, n)
    /\ LoopFree(r, n)
    /\ Goto(w, "failing")
    /\ UNCHANGED <<runVars, attempts, job, scanned>>

\* A round of the poll loop has read a terminal status from Hermes.
Polled(w, r, n, answers) ==
    /\ At(w, "polling", r, n) \/ At(w, "stopping", r, n)
    /\ job[r][n] \in answers
    /\ LeaseHeld(r, n)

\* The commit of the last transaction is acknowledged, or it is not and
\* retry_database_operation will run the transaction again.
EndOfAttempt(w) == GoIdle(w) \/ UNCHANGED worker

\* persist_terminal on "completed": finish_success
FinishSuccess(w, r, n) ==
    /\ Polled(w, r, n, {"completed"})
    /\ CloseAttempt(r, n, "succeeded", "safe")
    /\ Transition(r, "evidence_accepted")
    /\ EndOfAttempt(w)
    /\ UNCHANGED <<mode, current, cancelAsked, job, scanned>>

\* Mutants of FinishFailureOrRequeue: any failure is requeued, and the limit is
\* passed by one.
RequeueAnyFailure(w, r, n) ==
    /\ Polled(w, r, n, {"failed_safe", "failed_unsafe"})
    /\ CloseAttempt(r, n, "failed", "safe")
    /\ IF n < MaxAttempts
       THEN Transition(r, "queued") /\ current' = [current EXCEPT ![r] = 0]
       ELSE Transition(r, "failed") /\ UNCHANGED current
    /\ EndOfAttempt(w)
    /\ UNCHANGED <<mode, cancelAsked, job, scanned>>

RequeueAtLimit(w, r, n) ==
    LET safe == job[r][n] = "failed_safe" IN
    /\ Polled(w, r, n, {"failed_safe", "failed_unsafe"})
    /\ CloseAttempt(r, n, "failed", IF safe THEN "safe" ELSE "unsafe")
    /\ IF safe /\ n <= MaxAttempts
       THEN Transition(r, "queued") /\ current' = [current EXCEPT ![r] = 0]
       ELSE Transition(r, "failed") /\ UNCHANGED current
    /\ EndOfAttempt(w)
    /\ UNCHANGED <<mode, cancelAsked, job, scanned>>

\* persist_terminal on "failed": finish_failure_or_requeue
FinishFailureOrRequeue(w, r, n) ==
    LET safe == job[r][n] = "failed_safe" IN
    /\ Polled(w, r, n, {"failed_safe", "failed_unsafe"})
    /\ CloseAttempt(r, n, "failed", IF safe THEN "safe" ELSE "unsafe")
    /\ IF safe /\ n < MaxAttempts
       THEN Transition(r, "queued") /\ current' = [current EXCEPT ![r] = 0]
       ELSE Transition(r, "failed") /\ UNCHANGED current
    /\ EndOfAttempt(w)
    /\ UNCHANGED <<mode, cancelAsked, job, scanned>>

\* Mutant of FinishCancelled: /stop answers "stopping", which is not the end.
CancelWhileStopping(w, r, n) ==
    /\ Polled(w, r, n, {"cancelled", "stopping"})
    /\ CloseAttempt(r, n, "cancelled", "unsafe")
    /\ Transition(r, "cancelled")
    /\ EndOfAttempt(w)
    /\ UNCHANGED <<mode, current, cancelAsked, job, scanned>>

\* persist_terminal on "cancelled": finish_terminal(cancelled)
FinishCancelled(w, r, n) ==
    /\ Polled(w, r, n, {"cancelled"})
    /\ CloseAttempt(r, n, "cancelled", "unsafe")
    /\ Transition(r, "cancelled")
    /\ EndOfAttempt(w)
    /\ UNCHANGED <<mode, current, cancelAsked, job, scanned>>

\* persist_unknown: finish_terminal(unknown)
PersistUnknown(w, r, n) ==
    /\ At(w, "failing", r, n)
    /\ LeaseHeld(r, n)
    /\ CloseAttempt(r, n, "unknown", "unsafe")
    /\ Transition(r, "unknown")
    /\ EndOfAttempt(w)
    /\ UNCHANGED <<mode, current, cancelAsked, job, scanned>>

\* finish_simulated: no Hermes, and the cancellation is not looked at.
FinishSimulated(w, r, n) ==
    /\ At(w, "simulating", r, n)
    /\ LeaseHeld(r, n)
    /\ CloseAttempt(r, n, "succeeded", "safe")
    /\ Transition(r, "evidence_accepted")
    /\ EndOfAttempt(w)
    /\ UNCHANGED <<mode, current, cancelAsked, job, scanned>>

\* maintain_heartbeat renews the lease of the Attempt it works on, unless the
\* Attempt or the Run is over.  With the lease "valid" that changes nothing.
Heartbeat(w, r, n) ==
    /\ Works(w, r, n) /\ worker[w].step # "claimed"
    /\ attempts[r][n].lease = "inflight"
    /\ SetLease(r, n, IF current[r] = n /\ Active(r) /\ Open(r, n)
                      THEN "valid" ELSE "expired")
    /\ UNCHANGED <<runVars, job, worker, scanned>>

\* The Worker stops without a trace: _locked_attempt raised StaleLease, the
\* heartbeat found the lease lost, or the transition is not allowed any more
\* (InvalidRunTransition ends the process, and the container is restarted).
\* Nothing is checked between the intent and the POST.
Abandon(w, r, n) ==
    /\ Works(w, r, n) /\ worker[w].step # "intent"
    /\ ~LeaseHeld(r, n) \/ ~Active(r) \/ ~Open(r, n)
    /\ GoIdle(w)
    /\ UNCHANGED <<runVars, attempts, job, scanned>>

\* The process dies at any point; a transaction on its way is rolled back.
WorkerCrash(w, r, n) ==
    /\ Works(w, r, n)
    /\ GoIdle(w)
    /\ SetLease(r, n, Spent(attempts[r][n].lease))
    /\ UNCHANGED <<runVars, job, scanned>>

-----------------------------------------------------------------------------
(* Time, recovery and Hermes.                                              *)

\* lease_until passes: the heartbeat was late, the database away, or nobody
\* holds the Attempt any more.
LeaseExpires(r, n) ==
    /\ Open(r, n) /\ attempts[r][n].lease = "valid"
    /\ \/ SetLease(r, n, "expired")
       \/ /\ n \in Straddling /\ \E w \in Workers : Works(w, r, n)
          /\ SetAttempt(r, n, [attempts[r][n] EXCEPT !.lease = "inflight", !.late = TRUE])
    /\ UNCHANGED <<runVars, job, worker, scanned>>

\* Mutant of RecoveryScan: the rows that only have the intent are left out.
ScanWithoutIntent(r, n) ==
    /\ Open(r, n) /\ attempts[r][n].status # "external_starting"
    /\ attempts[r][n].lease # "valid"
    /\ scanned' = scanned \cup {[run |-> r, no |-> n, external |-> External(r, n)]}
    /\ UNCHANGED <<runVars, attempts, job, worker>>

\* recover_expired reads the expired rows first, without a lock.
RecoveryScan(r, n) ==
    /\ Open(r, n) /\ attempts[r][n].lease # "valid"
    /\ scanned' = scanned \cup {[run |-> r, no |-> n, external |-> External(r, n)]}
    /\ UNCHANGED <<runVars, attempts, job, worker>>

\* Mutant of Recover: the row is marked for its retry safety only.
RecoverSafetyOnly(r, n, to, retry) ==
    SetAttempt(r, n, [attempts[r][n] EXCEPT !.retry = retry])

Recover(r, n, to, retry) ==
    SetAttempt(r, n, [attempts[r][n] EXCEPT !.status = to, !.retry = retry])

\* Then, for each row, it locks the Run and decides from the row it has read.
RecoverAttempt(s) ==
    /\ s \in scanned
    /\ scanned' = scanned \ {s}
    /\ IF current[s.run] # s.no \/ ~Active(s.run)
       THEN UNCHANGED <<runVars, attempts>>
       ELSE /\ \/ /\ s.external
                  /\ Recover(s.run, s.no, "unknown", "unsafe")
                  /\ Transition(s.run, "unknown") /\ UNCHANGED current
               \/ /\ ~s.external /\ s.no < MaxAttempts
                  /\ Recover(s.run, s.no, "lost", "safe")
                  /\ Transition(s.run, "queued") /\ current' = [current EXCEPT ![s.run] = 0]
               \/ /\ ~s.external /\ s.no >= MaxAttempts
                  /\ Recover(s.run, s.no, "failed", "unsafe")
                  /\ Transition(s.run, "failed") /\ UNCHANGED current
            /\ UNCHANGED <<mode, cancelAsked>>
    /\ UNCHANGED <<job, worker>>

\* Hermes ends the run it was given, in its own time, with a status worker.py
\* tells apart; "failed_safe" is a failure it marks with retryability "safe".  It
\* says "cancelled" of a run it was told to stop, and of one that a shutdown of
\* the gateway has taken away.
HermesEnds(r, n, to) ==
    /\ job[r][n] \in {"running", "stopping"}
    /\ SetJob(r, n, to)
    /\ UNCHANGED <<runVars, attempts, worker, scanned>>

-----------------------------------------------------------------------------
WorkerStep(w, r, n) ==
    \/ MarkRunning(w, r, n)      \/ MarkExternalStarting(w, r, n)
    \/ PostHermesRun(w, r, n)    \/ SetHermesRun(w, r, n)
    \/ StopHermesRun(w, r, n)    \/ ExecutionRaises(w, r, n)
    \/ FinishSuccess(w, r, n)    \/ FinishFailureOrRequeue(w, r, n)
    \/ FinishCancelled(w, r, n)  \/ PersistUnknown(w, r, n)
    \/ FinishSimulated(w, r, n)  \/ Heartbeat(w, r, n)
    \/ Abandon(w, r, n)

Next ==
    \/ \E r \in Runs : \/ \E m \in Modes : CreateRun(r, m)
                       \/ RequestCancellation(r)
                       \/ \E w \in Workers : ClaimNextRun(w, r)
    \/ \E r \in Runs : \E n \in DOMAIN attempts[r] :
          \/ \E w \in Workers : WorkerStep(w, r, n) \/ WorkerCrash(w, r, n)
          \/ LeaseExpires(r, n)
          \/ RecoveryScan(r, n)
          \/ \E to \in {"completed", "failed_safe", "failed_unsafe", "cancelled"} :
                HermesEnds(r, n, to)
    \/ \E s \in scanned : RecoverAttempt(s)

Spec == Init /\ [][Next]_vars

-----------------------------------------------------------------------------
(* Fairness.  Compose restarts a dead Worker, the main loop claims and scans *)
(* for ever, execute_hermes bounds its polling, and clocks advance.  A       *)
(* Worker whose lease keeps being renewed at the last moment still gets its  *)
(* turn between two heartbeats: strong fairness for its own steps.           *)
OwnStep(w, r, n) == WorkerStep(w, r, n) /\ ~Heartbeat(w, r, n)
LeaseLapses(r, n) == LeaseExpires(r, n) /\ ~\E w \in Workers : Works(w, r, n)

Fairness ==
    /\ \A w \in Workers :
          /\ SF_vars(\E r \in Runs : \E n \in DOMAIN attempts[r] : OwnStep(w, r, n))
          /\ WF_vars(\E r \in Runs : \E n \in DOMAIN attempts[r] : Heartbeat(w, r, n))
    /\ \A r \in Runs :
          /\ WF_vars(\E w \in Workers : ClaimNextRun(w, r))
          /\ WF_vars(\E n \in DOMAIN attempts[r] : LeaseLapses(r, n))
          /\ WF_vars(\E n \in DOMAIN attempts[r] : RecoveryScan(r, n))
          /\ WF_vars(\E s \in scanned : s.run = r /\ RecoverAttempt(s))

FairSpec == Spec /\ Fairness

-----------------------------------------------------------------------------
(* Properties.                                                             *)

\* Types, and one job entry for every Attempt row.
TypeOK ==
    /\ mode \in [Runs -> Modes \cup {"none"}]
    /\ status \in [Runs -> RunStatuses]
    /\ current \in [Runs -> Nat]
    /\ cancelAsked \in [Runs -> BOOLEAN]
    /\ attempts \in [Runs -> Seq(Attempt)]
    /\ job \in [Runs -> Seq(JobStatuses)]
    /\ \A r \in Runs : Len(job[r]) = Len(attempts[r])
    /\ notified \in [Runs -> Nat]
    /\ reconcile \in [Runs -> Nat]
    /\ worker \in [Workers -> Assignment \cup {Idle}]
    /\ \A w \in Workers : Busy(w) => worker[w].no \in DOMAIN attempts[worker[w].run]
    /\ scanned \subseteq Snapshot
    /\ \A s \in scanned : s.no \in DOMAIN attempts[s.run]

\* A Run is given to Hermes again only after Hermes itself has declared the
\* earlier failure safe to retry: whatever crashes, lapses or times out, no
\* other second execution is started (ADR-004's recovery table).
NoDoubleDispatch ==
    \A r \in Runs : \A n, m \in DOMAIN job[r] :
        n < m /\ job[r][n] # "none" /\ job[r][m] # "none" => job[r][n] = "failed_safe"

\* What the code keeps of that: there is no second execution but after a safe
\* failure, or after recovery gave up as "lost" an Attempt whose Worker still
\* had a transaction on its way.
RedispatchJustified ==
    \A r \in Runs : \A n, m \in DOMAIN job[r] :
        n < m /\ job[r][n] # "none" /\ job[r][m] # "none" =>
            \/ job[r][n] = "failed_safe"
            \/ (attempts[r][n].status = "lost" /\ attempts[r][n].late)

\* At any time at most one physical execution of a Run is open, it is the one
\* the fencing column names, and a Run that is being executed has one.  All
\* a late transaction can do is to leave the last Attempt of a Run open that
\* recovery has called unknown or failed.
SingleOpenAttempt ==
    \A r \in Runs :
        /\ \A n \in DOMAIN attempts[r] : Open(r, n) =>
               /\ current[r] = n
               /\ Active(r) \/ (attempts[r][n].late /\ status[r] \in {"unknown", "failed"})
        /\ Active(r) => current[r] \in DOMAIN attempts[r] /\ Open(r, current[r])

\* The claim counts Attempts but does not compare them with the limit; the
\* limit holds because nothing requeues a Run whose last Attempt it was.
AttemptBound ==
    \A r \in Runs :
        /\ Len(attempts[r]) <= MaxAttempts
        /\ status[r] = "queued" => Len(attempts[r]) < MaxAttempts

\* What the Run's terminal status says about the outside is so: success was
\* seen completed, and a failed or cancelled Run has no work left at Hermes,
\* unless by an Attempt with a late transaction.
Truthful(r, n) ==
    /\ status[r] = "evidence_accepted" => job[r][n] \in {"none", "failed_safe", "completed"}
    /\ status[r] = "failed" => job[r][n] \in {"none", "failed_safe", "failed_unsafe"}
    /\ status[r] = "cancelled" => job[r][n] \in {"none", "failed_safe", "cancelled"}
OutcomeTruthful ==
    \A r \in Runs : \A n \in DOMAIN job[r] : attempts[r][n].late \/ Truthful(r, n)

\* However a Run ends, through whichever of the seven paths and however often
\* a transaction is repeated, its case is told once, and the people who have
\* to reconcile an unknown Run are called once.
ToldOnce ==
    \A r \in Runs :
        /\ notified[r] = IF Terminal(r) THEN 1 ELSE 0
        /\ reconcile[r] = IF status[r] = "unknown" THEN 1 ELSE 0

\* Hermes is told to stop only what somebody has asked to cancel, and a Run is
\* cancelled only by such a request or because Hermes says so of the Attempt
\* that was the current one, never by way of an earlier Attempt's stop.
StopsOnRequest ==
    \A r \in Runs :
        /\ \A n \in DOMAIN job[r] : job[r][n] = "stopping" => cancelAsked[r]
        /\ status[r] = "cancelled" =>
               \/ cancelAsked[r]
               \/ current[r] # 0 /\ job[r][current[r]] = "cancelled"

\* Attempts are history: one that is over is never rewritten by a late
\* Worker or a second recovery scan; a late transaction rewrites one only of a
\* Run that is over itself.
AttemptsKept ==
    [][\A r \in Runs : \A n \in DOMAIN attempts[r] :
          /\ n \in DOMAIN attempts'[r]
          /\ ~Open(r, n) =>
                 \/ /\ attempts'[r][n].status = attempts[r][n].status
                    /\ attempts'[r][n].retry = attempts[r][n].retry
                    /\ attempts'[r][n].hermes = attempts[r][n].hermes
                 \/ (attempts[r][n].late /\ Terminal(r))]_attempts

\* Every Run ends, whatever dies in between.
EveryRunEnds == \A r \in Runs : status[r] = "queued" ~> Terminal(r)

\* The whole of it: the runtime keeps the contract of RunContract.  "queued",
\* "accepted" and "running" are one "pending"; the executions are counted over
\* the Attempts of the Run, those with a late transaction apart.
Late(r) == {n \in DOMAIN attempts[r] : attempts[r][n].late}
JobsIn(r, set) == Cardinality({n \in DOMAIN job[r] : job[r][n] \in set /\ n \notin Late(r)})
Contract ==
    INSTANCE RunContract WITH
        outcome <- [r \in Runs |-> IF status[r] \in {"queued", "accepted", "running"}
                                  THEN "pending" ELSE status[r]],
        live <- [r \in Runs |-> JobsIn(r, {"running", "stopping"})],
        standing <- [r \in Runs |-> JobsIn(r, {"completed", "failed_unsafe", "cancelled"})],
        astray <- [r \in Runs |-> Cardinality(Late(r))],
        calls <- reconcile
KeepsContract == Contract!Spec
=============================================================================
