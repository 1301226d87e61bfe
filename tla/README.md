# 1Cat Marketing OS: specifications, model checking and proofs

TLA+ models of the Agent Runtime of this repository (`src/apps/runtime-api`,
`src/apps/runtime-worker`), TLC configurations that check them on small instances,
and theorems about them that TLAPS checks for every value of the constants. Paths
below are relative to `src/`; `run_state.py`, `marketing_case.py`, `main.py`,
`models.py` are those of `apps/runtime-api/app`, `worker.py` that of
`apps/runtime-worker`.

## 1. The system

People drive a *Marketing Case* through nine stages. Four of them are done by
Agents: the case creates a *Run*, a *Worker* process claims it, hands it to the
external executor *Hermes* (or simulates it), and writes the result back. Between
the Agents' stages stand human gates. All state is in one PostgreSQL database; the
API and the Workers share nothing else.

| Component | State it keeps | Operations | Interacts with |
|---|---|---|---|
| Agent Run state machine (`run_state.py`) | `AgentRun.status`, `current_attempt_id`, `cancellation_requested_at`; one `AgentRunAttempt` row per execution with its lease | claim, heartbeat, mark_running, mark_external_starting, set_hermes_run, finish_*, request_cancellation, recover_expired | Workers (calls), case (a call in the same transaction at each terminal status) |
| Runtime Worker (`worker.py`) | where its loop is; the lease it believes to hold | main loop, execute_hermes, finish_simulated, heartbeat task, retry of database operations | database, Hermes over HTTP |
| Marketing Case (`marketing_case.py`) | case status and stage; a status, failure, Run and Commitment for each step; links to candidates; the deliverable; approvals, handoffs, decisions, reconciliations | the twenty commands of `execute_case_command`, `sync_case_after_run_terminal` | people through `POST /commands`; Runs |
| Runs endpoint, manual tasks, Commitments API (`main.py`) | the same rows | create, cancel, receipt, transition | clients, MCP tools |
| Idempotency, audit, outbox (`policy.py`, `worker.py:732`) | records by key; events | prepare_write, find_idempotent, record_write, process_outbox | every write |
| Agent profiles (`main.py:1001-1128`, `workspace_ops.py`) | draft, revisions, published version | update, validate, publish, rollback; snapshot taken by a new Run | Runs |
| Messages, chat turns, change requests | rows of the case | create; end of a chat Run | Runs, case version |
| Model administration, gateway | two files, a lock | configure_model | Worker's `hermes_enabled` |
| Organization MCP | none | tools: check the Attempt, then call the API | Hermes |
| Workspace UI, observability, migrations, scripts, profiles, infrastructure, vendored Hermes | none of their own that a run could get wrong, or not this project's code | | |

What is hard here: Workers crash or lose their lease at any step; a request to
Hermes cannot be undone and its answer can be lost; a commit can be executed and
not acknowledged; the recovery scan races the Worker it replaces; `cancel` races
success; and on the side of the case, a long sequence of legal commands (returns,
holds, retries, reconciliations) works on eight or nine columns that the code
keeps consistent by hand. `PROJECT.json` lists each hazard at its line, also those
no property covers, with the reason.

What makes each part correct:

- *Run*: no second execution unless the first is known to be repeatable; one open
  Attempt; history is not rewritten; a terminal status is true, is told once and is
  reached; the limit on Attempts holds.
- *Case*: the stages stay in order; no Agent works behind a gate that no person
  passed; nothing unknown is repeated unreconciled; what is offered works and what
  is over stays over; a completed case has its objects.
- *Commitment and tools*: only what a successful Attempt made becomes part of the case,
  and no gate opens without its evidence, however late a tool's call arrives.
- *Requests*: a repeated request has one effect, one audit line and one answer.
- *Profiles*: a Run works with something that was published; revisions are never rewritten.
- *Chat*: a turn says how its Run ended, gets one reply or none, and ends.
- *Model configuration*: execution is on only with a verified key; a configuration that
  fails has not happened.

## 2. Modules

| Module | What it is |
|---|---|
| `AgentRun` | Runs, Attempts, Workers, recovery, cancellation, Hermes. One action per transaction or HTTP call. |
| `RunContract` | The promise of ADR-004 to whoever submits a Run, and where it ends: the abstract specification of `AgentRun`. |
| `AgentRunInv` | The inductive invariant of `AgentRun`. |
| `MarketingCase` | One case: commands, what is offered, what the end of a Run does. |
| `CaseAndRun` | One stage and its Run at the granularity of row locks: what a transaction reads, locks and writes. |
| `CaseContract` | The case and its Run when commands and ends of Runs are indivisible: the abstract specification of `CaseAndRun`. |
| `Lineage` | Which record of a case names which version of which other one: candidates, approvals, decisions, handoffs, the publish task, the Lead, the plan and its revisions. |
| `AgentTools` | An Agent's tool calls, the Commitment, the candidates, and the people who judge the stage. |
| `ChatTurn` | Chat turns, their Runs, the conversation and the activity log. |
| `Requests` | The twenty write endpoints as orders of steps, under one idempotency key. |
| `OnceOnly` | What an idempotency key promises: the abstract specification of `Requests`. |
| `AgentProfile` | Draft, validate, publish, roll back, and the snapshot of a Run. |
| `ModelAdmin` | The model's key and the switch for real execution, the API and the console. |
| `ModelContract` | A configuration that fails has not happened: the abstract specification of `ModelAdmin`. |
| `MC*` | Instances for TLC. |
| `AgentRunProofs`, `CaseAndRunProofs`, `MarketingCaseProofs`, `LineageProofs`, `RequestsProofs`, `AgentToolsProofs`, `ModelAdminProofs` | Theorems about the component in the name. |
| `ProfileAndChatProofs` | Theorems about `AgentProfile` and about `ChatTurn`, which names its specification `ChatSpec` so that both can be extended. |

### AgentRun and the code

`status`, `current`, `cancelAsked`, `mode` are the columns of a Run; `attempts[r]` its
Attempt rows; `worker[w]` is a position in `execute_hermes` or `finish_simulated`:

    idle -claim-> claimed -mark_running-> started -mark_external_starting-> intent
         -POST-> posted -set_hermes_run-> polling [-/stop-> stopping] -finish_*-> idle
    claimed -mark_running-> simulating -finish_simulated-> idle
    started, posted, polling, stopping -exception-> failing -persist_unknown-> idle

`job[r][n]` is what Hermes does for Attempt `n`; it is outside the code and moves by
itself (`HermesEnds`). The answers of `/v1/runs` may be lost after it took effect.
Hermes is third-party code and is modelled as `worker.py` reads it. The model allows more
than the vendored version (`vendor/hermes-agent/gateway/platforms/api_server.py:6391-6620`)
does: that one never marks a failure safe, and never completes a run it was told to stop.
It may say "cancelled" of a run nobody asked to stop: the gateway does so of every task that a
shutdown takes away (api_server.py:6565-6570), and worker.py:637-666 then ends the Run as
cancelled without looking at the request. `StopsOnRequest` therefore says of a cancelled Run
that somebody asked for it, or that Hermes said so of the Attempt that was current.

*Time* is one value per Attempt, its lease: `valid`, `expired`, or `inflight`.
`_locked_attempt` reads the clock and then waits for the row locks (run_state.py:146-150),
so a transaction that began under a valid lease may commit after its end. `LeaseExpires` may
leave the lease `inflight`, and one more transaction of the Worker that holds the Attempt then
passes. `late` is history, which no action looks at: this has happened to the Attempt. The
properties say what the code guarantees of every Attempt, and what only of those that are not
`late`; the exceptions are exactly what the finding in section 6 shows to happen. `Straddling`
is the set of Attempt numbers it may happen to: the theorems hold for every set, the runs use
the first Attempt, as with both the state space is beyond a few minutes.

`RunContract` has five actions: submit, dispatch, the end of an execution, the end of the Run,
and `LoseTrack`. The last is the limit of the promise: the lease of a pending Run's execution ends
under a transaction of its Worker, and from then on the contract keeps that execution on no
account (`astray` counts those). Of all others it says that the Run is dispatched again only when
nothing of it is live or stands.

*Recovery* is two steps, as in the code: the scan reads rows without a lock
(`RecoveryScan`), and each row is then handled under the lock of its Run from what
was read (`RecoverAttempt`). Handling several rows is one transaction in the code and
several here, which only adds behaviours.

*Crashes*: `WorkerCrash` at every step; the restarted container is the same idle
Worker. A commit that is executed and not acknowledged leaves the Worker where it was
(`EndOfAttempt`, and the `UNCHANGED worker` disjuncts), and it executes the transaction
again, as `retry_database_operation` does.

### MarketingCase and the code

`step`, `failure`, `activeRun`, `commitmentOf` are columns of the steps; `failure` is kept
for the current stage only, the one place the code reads it. `items` are the linked
candidates, each with the Run that made it, its kind, whether it is long enough
(`_quality_failures`) and whether it was returned. `Offered` is `allowed_actions`,
`Accepted` the checks of `execute_case_command`. Clients send what is offered and the
commands in the constant `Strays`. `enabled` is the switch of the model administration, which
start and retry of a real case look at (main.py:941-946); `Mode` is the case's execution mode.
Commitments have other writers, `transition_commitment` (main.py:197-209) and the tool
`commitment_respond`, which know nothing of the case: `MoveCommitment` makes one "moved", which
stands for any status it may have from then on, and for what the case's own code makes of it
(`finish_success` submits it or passes it over, `_fulfill_commitment` likewise). What these
writers do to each other is `AgentTools`'. A command holds the row of the case
(main.py:916-920), so it is one action; that the end of a Run and a command may be taken as atomic
towards each other is what `case_and_run` checks. A Run is only queued,
active or over: its life is `AgentRun`'s.

start also has a refusal for a role without a published profile (marketing_case.py:487-490), which
no state reaches: every start of the API stores a published revision 1 for each role that has no
configuration (main.py:56-70, workspace_ops.py:178-203), and nothing deletes one.

The four approvals-by-stage and four returns-by-stage of the code differ in constants
only (which stage, whose work) and are one action with a parameter. The texts, the
deliverable's ten sections and the hashes are left out; whether the plan passes
`_deliverable_validation` is a choice.

### CaseAndRun and the code

PostgreSQL is external and modelled as the code uses it: READ COMMITTED, a row that is
written or selected FOR UPDATE stays locked until the transaction ends, the insertion of
a row with a foreign key locks the row it refers to FOR KEY SHARE, and one transaction of a
cycle of waits is aborted (`Deadlock`). The session of SQLAlchemy is modelled by two rules:
an object that was loaded before is not refreshed by SELECT FOR UPDATE (no query of this code
asks for populate_existing), and a column is written only when its value differs from the one
loaded (`Column`). `tx[p]` is an open transaction with the rows it has read. A stale
transition is stopped by the uniqueness of (run_id, sequence_no) (models.py:135, `Unmoved`).
Leases are `AgentRun`'s; here a Worker may find at any time that recovery has taken its
Attempt. The refinement of `CaseContract` hides `timeline`, locks and transactions.

### AgentTools and the code

`assert_context` is a read of the Attempt, and the write is another request later, so
`call[a]` remembers how far the tool of Attempt `a` has come; an Agent whose Attempt was given
up goes on until Hermes ends it. The API reads a Commitment without a lock (main.py:198,
run_state.py:200), so every change of it is a read and a later write that overwrites
whatever came between. Reading tools are `ToolEnds`.

### Lineage and the code

The stages of `MarketingCase`, cut down to the commands that write references or decide when one
may be sent. A candidate has a version (returning it adds one); a plan says from which
candidates, in which versions, it was built. The first candidate is the brief, which
`create_marketing_case` links (marketing_case.py:253-264): it gets no Approval from any command and
is named by every plan, so `ReleasedApproved` names it as the exception. hold and resume are
accepted at any time but while a Run is shown as running, on a completed case too
(1334-1366), after which start runs the last stage again and links new candidates beside the
accepted plan; so what `AcceptedAsReviewed` says of "those of the case" it says of a case that is
completed. Lead and publish task keep references only.

### ChatTurn and the code

A turn, its Run and the message are created in one transaction (main.py:612-760). Ends of Runs
hold the Run's row and are atomic; a commit may go unacknowledged (`Finish` may leave the
Worker where it was), and leases may be lost at any time.

### Requests and the code

Each endpoint is the order in which its handler compares a state ("gate"), compares a version
("match"), locks, looks for the record of the key and writes. Copies of one request run at
the same time in two handlers; requests and answers get lost; processes die; other people
change the row, close the gate. Two payloads under one key are a client's mistake the code
answers with 409.

### AgentProfile and the code

No row is locked, so every request is three steps: read the configuration (and compare
If-Match), read the latest revision, write; the uniqueness of (agent_key, version_no) refuses
the second of two new revisions. `Normal` fills in what older documents lack. A
Run reads the configuration first and the revision after it (`ReadPublished`, `TakeSnapshot`).

### ModelAdmin and the code

A request holds a lock of its process and does: read the previous key, store the new one, ask
the gateway (which reads the file anew), switch execution on; each may fail, and the except
branch puts the key back. The console command does the same without the lock. `trouble`
is history: which of the events have happened that no roll-back can repair.

## 3. Runs

The longest runs take one to two minutes: `agentrun` (272,000 states, with liveness),
`marketing_case` (894,000), `case_any_command` (1,000,000), `agentrun_straddling` (279,000),
`chat_turn` and `case_and_run`.

| Run | Bounds | Checks |
|---|---|---|
| `agentrun` | one Run, two Workers, two Attempts, legacy mode, the first Attempt may straddle | types, every queued Run ends |
| `agentrun_straddling` | the same in all modes, Workers symmetric | the inductive invariant, second dispatch justified, single open Attempt, truthful outcome, Attempt limit, told once, stops on request, kept Attempts, refinement of `RunContract` |
| `agentrun_double_dispatch` | as `agentrun`, Workers symmetric | finding: a Run given to Hermes twice |
| `marketing_case` | a real case, the switch in both positions; 5 Runs; the first Commitment may be moved; strays: all but hold and takeover | one live Run, no rerun of unknown, Commitments settled, offers work, accepted plan kept |
| `case_any_command` | a synthetic case; 4 Runs; strays: all; task filed outside | types, shape of the stages, gates kept |
| `case_and_run` | two Workers, an operator, a person; versions to 3, transitions to 4 | timeline chained, refinement of `CaseContract`, the end arrives |
| `lineage` | the brief and eight candidates; four versions of the plan | released is approved, accepted as reviewed, revisions kept |
| `agent_tools` | two Attempts, two people, two kinds, Commitment versions to 3 | types, linked from success, gate with evidence |
| `chat_turn` | two turns, two Workers, two Attempts | turn follows Run, persisted once, turns end |
| `requests` | all twenty endpoints, two handlers, two payloads, two losses | no false refusal, refinement of `OnceOnly`, answered |
| `agent_profile` | two administrators, one client, two revisions, versions to 4 | types, snapshot published, revisions kept |
| `model_admin` | two requests, a console, two good keys and a bad one | enabled is verified, refinement of `ModelContract`, the lock is released |

Why the bounds are enough. *AgentRun*: a legacy Run may take either way of execution, so
one mode is enough for liveness. Runs share no row and no lock, and a Worker holds
one Attempt at a time, so a second Run only adds products of states; two Workers are
what fencing is about, and a third would find no open Attempt. `MaxAttempts = 2` is the
default of the code; the proofs cover other values. *MarketingCase*: `MaxRuns` bounds the Runs
and with them all loops; a case needs four to complete, so five is one return, retry or
reconciliation anywhere; four reach the last gate with every command allowed at any time. One
Commitment that may be moved passes through a returned, a retried and an accepted stage; the
theorems are about any set of them.
*CaseAndRun*: two Workers and an operator compete for the Run, a person for the case, which
gives every cycle of two locks; a Run may be requeued once, or asked to cancel, before each
of its ends, and a person sends two commands or messages. *Lineage*: a case makes six candidates, so eight are a repeated stage anywhere; the second
version of the plan is the accepted one, and a completed case that is started again can get a
new draft after it. *AgentTools*: two Attempts are one given up and one that goes on; more
people only add writers that overwrite the Commitment the same way.
*Requests*: two handlers are what a race on a key needs; after the first success
all further copies meet the same record. Losses are bounded so that `Answered` says something.
*AgentProfile*: two revisions are the published one and its successor that two requests
compete for; the theorems cover more. *ModelAdmin*: nothing is counted; the requests take the
lock in turn and start again without end.

`hold_case` is left out of the strays of `marketing_case` because, sent when it is not
offered, it breaks `NoRerunOfUnknown`, `AcceptedPlanKept` and `OneLiveRun` (section 6); it is
allowed there when it is offered. `case_any_command` shows what holds in spite of it.

Deadlock is not checked: cases complete, Runs, turns and requests end, and the bounded modules
run out of versions. That an open case is never stuck is part of `OfferWorks`; that nobody
waits for ever is `EveryRunEnds`, `EndArrives`, `TurnsEnd`, `Answered` and `BusyEnds`.

Every property of a passing run is broken by a plausible bug in one definition: the
operators commented "Mutant of" and listed in `PROJECT.json`.

## 4. Fairness

- `AgentRun`: Compose restarts a Worker that dies; its loop claims and scans for ever
  (worker.py:742-791), so claim, scan and recovery are weakly fair. Clocks advance: the lease
  of an Attempt nobody works on lapses. A Worker's own steps are strongly fair because the
  heartbeat task may move its lease back and forth between two of them, while each step is
  tried again; polling is bounded by `HERMES_MAX_POLLS` (`ExecutionRaises`), so nothing is
  assumed of Hermes, which may never answer. Crashes, cancellations and the end of Hermes'
  jobs are not fair. A Worker may crash for ever, once for each Attempt, and the limit on
  Attempts ends the Run all the same.
- `CaseAndRun`: Workers work (weak); an open transaction that waits for a row gets it in the end
  (strong, as the row may be taken and released many times: PostgreSQL queues those who
  wait), and a cycle of waits is found (weak).
- `ChatTurn`: Workers work, and the Attempt of a turn that no Worker holds any more is
  recovered. `Work` includes the answer of Hermes: polls are bounded, and "lost" is one.
- `Requests`: handlers work, answers that are not lost arrive, clients repeat what was not
  answered or answered with an error.
- `ModelAdmin`: a request works; calls to the gateway have timeouts (model_admin.py:99-110).

`AgentTools`, `AgentProfile`, `Lineage` and `MarketingCase` have no fairness: an Agent may
never call, a person may never decide.

## 5. Proofs

*AgentRun.* Assumptions: `MaxAttempts` is a positive number, `Modes` among the three values,
`Straddling` a set of numbers. Runs and Workers are any sets. Nothing is assumed of leases.

- `TypeCorrect`: types, and every reference to an Attempt is to an existing row. Lemmas say what
  each building block (`SetAttempt`, `Transition`, `Goto`, ...) does to one row; a step of the
  proof per action.
- `Fencing`: `AgentRunInv!FencingInv` is inductive. The safety properties are not inductive by
  themselves: that no unjustified second dispatch happens depends on where each Worker is, on what
  a scan has read, and on the lease. The invariant says two kinds of things. Of every Attempt,
  what the code itself guards: the columns of a Run and its rows agree (`RunShape`), whoever
  passes the transition table holds the current Attempt, a Worker before the POST has nothing at
  Hermes (`WorkerShape`), an Attempt that is open after its Run has ended was late (`LeftOpen`). Of
  an Attempt that is not late, what rests on the lease: a scan holds only rows whose lease has
  ended, which nobody but recovery writes, so what was read is still so (`SnapshotTrue`); a
  Worker whose Attempt was closed under it finds its lease expired; a Run is queued again only
  over Attempts that Hermes never had or has declared repeatable (`Released`). From it follow
  `SecondDispatchJustified`, `OneOpenAttempt`, `TruthfulOutcome` and `BoundedAttempts`.
- `ToldExactlyOnce` and `NoStrayStop`: the property is inductive with the types, or with
  `FencingInv` (Hermes is stopped by a Worker that has seen the request).
- `AttemptsStay`: whoever ends an Attempt finds it open, as the transition is refused to a Run
  that is not active (`FinishFindsOpen`); the two transactions that look at no status,
  `mark_external_starting` and `set_hermes_run`, write a closed row only when they are late
  and the Run is over (`HeldIsOpen`).
- `RunContractKept`: the refinement of `RunContract`. What the contract counts is the executions at
  Hermes over the Attempts that are not late; only the last Attempt's can be live or standing
  (`LiveIsLast`), which turns every count into a fact about one row, and each action of
  `AgentRun` into one of the contract's or none (`PostSeen`, `JobSeen`, `LapseSeen`, `FinishSeen`,
  `TransitionSeen`, `NothingSeen`).

*MarketingCase.* Invariants, each of which uses the ones before it, for any number of Runs:

- `ShapeInv`, whatever clients send: the steps before the current one are completed, those after it
  pending (`Placed`); the status of the case is that of the step (`Shown`); the active Run of a
  stage is one of that stage (`Owned`); only a blocked step has a failure, and what people interrupt
  to judge later is an Agent's stage (`Explained`); a running case has a Run that is alive (`Waiting`).
  From it follows `StagesInOrder`. The end of a Run the case does not wait for, or of one of
  another stage, changes no step: that is `WatchedHere`.
- `GatesInv`, whatever clients send: every kind of object behind a passed gate stands and is
  approved (`Passed`). It needs that Runs belong to stages the case has come to (`Reached`, or a
  return could void what a later Run builds on), that the first gate, the only one where the
  code does not count the kinds, is reached with all of them (`Complete`, which is up to
  `sync_case_after_run_terminal`), and where the handoffs and the receipt are (`Handed`,
  `Published`). From it follows `NoWorkUnapproved`. `Carried` is the one lemma for all steps
  that pass no gate.
- `RunsInv`, if `hold` is not among the strays: a Run that is alive is the latest one and the case
  waits for it or for its stop (`Awaited`); an unknown Run nobody has spoken about blocks its
  stage for good (`Unresolved`); an accepted plan closes its stage (`Closed`). From it follow
  `OneRunAlive`, `UnknownNotRerun` and `PlanStays`. Without the assumption they are false: a
  hold on a case that is blocked while its Run works makes the stage ready again after
  `resume_case`.
- `Referring`, whatever clients send: Commitments, subjects of approvals and reconciled Runs
  exist. With it, `MarketingCaseTyped`.
- `SettledInv`, if `hold` is not among the strays: a Commitment belongs to one stage (`OneStage`),
  is open exactly while its stage is worked on (`OpenWhileWorked`) and is submitted only by a Run
  that succeeded (`Earned`); an open one has a stage that answers for it (`AnsweredFor`), and what
  lies behind a stage is fulfilled, was moved at its own endpoint or is vouched for by a person
  (`VouchedBehind`, `GatesSettled`).
  From it follows `CommitmentsKept`, with any Commitments moved at any time; of those the case
  promises nothing (section 6). `CommitmentsSettled` alone says nothing of the stage at
  work, and is lost the moment that stage is passed.
- `OfferInv`, if moreover the publish task is only filed by the case's own command
  (`~TaskFiled`): what a gate shows is there (`Presented`), what a failure offers concerns the
  active Run (`Concerned`), the task waits for its receipt (`TaskWaits`). From it follows
  `OffersWork`: offers are accepted, but for start and retry of a real case while execution is
  switched off. Both assumptions are those of the code's own client: section 6 says what
  becomes of an offer when they do not hold.

*CaseAndRun.* `ChainedTimeline` for any Workers, operators, people and bounds. The chain alone
is not inductive, because a transaction writes what it computed from an earlier read.
`TimelineInv` adds `RowsRead`: what a transaction has read is not newer than the row, and if it
has the row's sequence number it has its status; whoever has locked the Run has read the
present row. Each step either leaves the Run alone (`Quiet`) or appends one transition
from its present status while nobody else has the lock (`Moving`); two lemmas show that both
keep the invariant, the others that each action is one of the two.

`CaseContractKept`, the refinement of `CaseContract`, with no further assumption. `ContractInv`
adds three things: while the Run is not over the case shows its step (`Shown`); what a
transaction is about to do is legal for the Run it has read (`Meant`); and what it has read of the
Run, the step and the case is still so until the Run has another transition (`Present`),
because before the end of the Run nobody changes them without one. So a transaction that the
uniqueness of the sequence number lets through (`Unmoved`), or that holds the Run, writes what
an indivisible one would have written. Each action is then one of the contract's (`EndMapped`,
`WorkerMapped`, `OperatorMapped`, `PersonMapped`) or not seen by it (`Unseen`).

*AgentProfile.* `ProfilesTyped`, `SnapshotsPublished` and `RevisionsStay` for any administrators, clients and
bounds: `ProfileInv` says that the published number names a revision that went out, and that a
request's latest number was a revision when it was read, which stays so because revisions
are only added.

*ModelAdmin.* `OnlyVerifiedEnabled` and `ContractKept`, the refinement of `ModelContract`: `AdminInv`
says who has the lock, what the file holds at each position of a request, and that the key a
roll-back puts back is one with which execution may be on.

*Lineage.* `ReleasesApproved`, `ReviewedAccepted` and `RevisionsStay` for any number of
candidates and of versions of the plan. What is handed over is approved in the same
transaction; that it is also what the *accepted plan* consists of, several stages later, is
the hard part. `LineageInv` therefore says of every candidate that still stands: it belongs to
no later stage than the case's (`Reached`), it was never changed (`Untouched`), and once its
stage was left it has an Approval of its version or is the brief (`Passed`); of the plan: while
people judge it, on hold or not, it is a draft made of what the case consists of, which is still
so while the case is completed (`Judged`); it is the latest of its revisions (`Recorded`); and once
accepted it names what was approved, one revision after the reviewed one (`Accepted`). A new
draft after a completed case was started again is a plan that is not accepted, so `Accepted` says
nothing of it until it is. `TypeCorrect` is proved and not also a run.

*ChatTurn.* `ChatTurnTyped`, `TurnsFollow` and `RepliesPersistOnce` for any turns, Workers and
limit on Attempts. `ChatInv` adds `Numbered`: a turn exists with its Run, and a Run that waits
may have another Attempt. A turn's entries in a table are stated as positions
(`Lists`) and not with SelectSeq, about which nothing can be proved here; `ListsMore` and
`ListsOther` say what storing one entry does. The three kinds of steps are `RunMoves`,
`WorkerMoves` and `RunEnds`.

*Requests.* `EffectOnce`, the refinement of `OnceOnly`, and `NoHiddenEffect`, for all twenty
endpoints and any handlers and payloads, if nobody is no handler. `OnceInv` says that effects and
audit lines are those of the record and that every success on its way is told of it
(`Successful`). For the refusals `RefusalInv` says what a handler knows at each step of its
endpoint while it holds the row (`Informed`), and that after a refusal no copy can pass any more
(`Hopeless`).

*AgentTools.* `AgentToolsTyped`, `OnlySuccessLinks` and `JudgedOnEvidence` for any people, kinds
and bounds. `IInv` says that only the current Attempt of a Run is open (`CurrentInv`), that what
`finish_success` has found is still its Attempt's when it links it (`FoundInv`), and that the
evidence somebody began to approve is still there when he is done (`JudgedInv`).

Every safety invariant, action property and refinement of the passing runs is now a theorem;
five of `MarketingCase` assume that `hold` is sent only where it is offered, one of them also
that the publish task is filed by the case's own command.

Only model-checked: liveness (`EveryRunEnds`, `EndArrives`, `TurnsEnd`, `Answered`, `BusyEnds`),
which needs ENABLED for its fairness; and the finding, which is a counterexample.

## 6. Findings, and known divergences

`agentrun_double_dispatch` is a run that TLC finds violated: recovery decides from a row read
before the lock (run_state.py:303-313) and can requeue a Run that was just dispatched. It
needs a transaction that reads the clock before the end of the lease and commits after the
scan. Re-reading the Attempt under the lock, and the clock after it, removes it. What remains
true is `RedispatchJustified`: only an Attempt that recovery gave up as lost while its Worker
had a transaction on its way is ever executed again without Hermes' word.

The following was met while modelling. The models do what the code does; the properties
are stated so that they say what remains true.

Runs

- `mark_external_starting` and `set_hermes_run` do not look at the status of the Attempt
  (run_state.py:178-188) and can reopen one that recovery has closed; the same schedule.
- A Run nobody asked to cancel ends as cancelled when the gateway shuts down under it
  (api_server.py:6565-6570, worker.py:637-666).
- Taking a Commitment over by hand does not stop its Run: the success is recorded and only
  the Commitment stays as it is (run_state.py:200).
- `database_retry_delay` raises OverflowError after 1024 failures in a row
  (worker_resilience.py:16): the exponent is not limited before the product with a float.

Case

- hold and resume, sent when they are not offered, turn a step whose Run is unknown into a
  ready one, and start runs it again without reconciliation (marketing_case.py:1335, 1355).
- A product or content gate that was held and resumed is shown as "active" and no longer as
  waiting for people (marketing_case.py:1364).
- `resolve_unknown` as succeeded counts candidates of a rejected Run and does not look at their
  length (marketing_case.py:1409); and while the unknown Run's own candidates are not linked to
  the stage, since only the end of a Run links them, a success often cannot be confirmed at all.
- A Commitment that is paused or taken over at its own endpoint is skipped by `finish_success`
  (run_state.py:201) and by `_fulfill_commitment` (marketing_case.py:867): the gate is passed and
  it stays open. One can also be fulfilled there without any work.
- start and retry of a real case are offered while execution is switched off, and refused with
  409 (main.py:941-946).
- Every plan names the brief among its sources, which no command approves
  (marketing_case.py:665, 827-830).
- A completed case can be put on hold, resumed and started again (marketing_case.py:1334-1366,
  1728-1766): candidates are linked beside the accepted plan, and a Run that makes all it should
  turns the plan into a draft again (835-846).
- Filing the publish task at its own endpoint (main.py:364) makes `record_simulated_publish`,
  which is still offered, fail for good (marketing_case.py:1207).
- A cancelled case can be started again: `_start_agent` looks at the step only
  (marketing_case.py:484).
- `_touch` (marketing_case.py:155) adds one to the version that was loaded, so a message or the
  end of a Run beside a command can give two states one version, and If-Match passes on a case
  that has changed.
- The Lead may name a returned candidate (marketing_case.py:1224), and a decision to approve
  lists the returned ones too (`_subject_refs`, 1036): neither looks at the status.
- A change request stays "proposed": no code moves it on. A chat Run that failed safely
  cannot be retried.

Requests, Commitments, tools

- `transition_commitment` (main.py:198) checks one value and overwrites another: an ended
  Commitment can be reopened by a slower request.
- Endpoints that compare a version or a state before they look for the record of their key
  refuse the repetition of what they have done; `transition_commitment` and the task receipt
  never look (main.py:198, 364, 1076).
- Tools are refused in `external_starting` (server.py:132): an Agent that calls one before
  the Worker has recorded the id of its run gets an error.

Profiles and model

- Publishing looks at the status of the configuration and takes the latest revision, which
  another request may have stored meanwhile: a revision that was never validated can be
  published (main.py:1095).
- If the API dies between storing a key and its verification, the new key stays and the
  switch with it (model_admin.py:133); a key is also in use by Runs while it is being verified.
- The console command and the API do not know of each other (bin/1cat:183-207,
  model_admin.py:126): one may switch on what the other has just replaced.
- If the previous key cannot be read, the lock is never released (model_admin.py:128-129,
  before the "try").

## 7. Not modelled

- *Worker*: the failure drills (worker.py:361-403), which are switched on by an environment
  variable for tests; how long it waits between attempts to reach the database.
- *MCP*: which documents a search returns; the shape of a candidate.
- *Console*: `1cat auth codex`, installation, backup and the other commands that only start
  containers.
- The vendored Hermes agent, the UI, metrics and traces, migrations, prompts and profiles,
  scripts (the reliability drill among them: a driver that kills processes at points
  `AgentRun` has as actions), infrastructure: no state machine of this project's own.
- Texts: the sections of the plan, hashes, and what makes a text too short are choices.

What a next step would be: to state which part of `OfferWorks` and `CommitmentsSettled` survives
a `hold` that is not offered, and to prove it.
