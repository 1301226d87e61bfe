------------------------------- MODULE ChatTurn -------------------------------
(***************************************************************************)
(* The conversation of a Marketing Case with its Agents: turns people       *)
(* create (main.py:611-760), the chat Run of each, and what the end of the  *)
(* Run writes into the conversation (marketing_case.py:1621-1714).  Several *)
(* turns are under way at once.  Transactions that end a Run hold its row   *)
(* and are atomic here; a commit may go unacknowledged, after which the     *)
(* Worker repeats its transaction.  Leases are AgentRun's: here a Worker    *)
(* may lose one at any time.                                                *)
(***************************************************************************)
EXTENDS Naturals, Sequences

CONSTANTS
    Turns,      \* chat turns that may be created
    Workers,
    MaxAttempts \* RUN_MAX_ATTEMPTS

ASSUME ChatAssumption == MaxAttempts \in Nat \ {0}

VARIABLES
    turn,         \* MarketingChatTurn.status
    failure,      \* retryability in MarketingChatTurn.failure
    run,          \* the chat Run of the turn
    worker,       \* what each Worker holds and what Hermes has told it
    conversation, \* MarketingCaseMessages, as created
    activity      \* MarketingCaseActivities of the turns, as created

records == <<turn, failure, conversation, activity>>
chatVars == <<records, run, worker>>

-----------------------------------------------------------------------------
Ends == {"evidence_accepted", "failed", "cancelled", "unknown"}
ClosedTurns == {"completed", "failed", "cancelled", "unknown"}
\* "attempt" is the current one, 0 for none; "made" counts them.
NoRun == [status |-> "none", attempt |-> 0, made |-> 0, dispatched |-> FALSE, asked |-> FALSE]
Run == [status : {"none", "queued", "active"} \cup Ends, attempt : 0..MaxAttempts,
        made : 0..MaxAttempts, dispatched : BOOLEAN, asked : BOOLEAN]
Free == [at |-> "free"]
\* What Hermes answers: a reply, an empty one, a failure that may or may not be
\* repeated, a stop, nothing that can be understood.
Answers == {"reply", "empty", "safe", "unsafe", "stopped", "lost"}
Holding == [at : {"claimed", "posted"} \cup Answers, turn : Turns, attempt : 1..MaxAttempts]
Message == [from : {"human", "agent"}, turn : Turns, attempt : 0..MaxAttempts]
Activity == [event : {"queued"} \cup ClosedTurns, turn : Turns]

ChatInit ==
    /\ turn = [t \in Turns |-> "none"]
    /\ failure = [t \in Turns |-> "none"]
    /\ run = [t \in Turns |-> NoRun]
    /\ worker = [w \in Workers |-> Free]
    /\ conversation = <<>>
    /\ activity = <<>>

Say(from, t, attempt) ==
    conversation' = Append(conversation, [from |-> from, turn |-> t, attempt |-> attempt])
\* append_case_activity
Log(event, t) == activity' = Append(activity, [event |-> event, turn |-> t])

\* create_marketing_chat_turn: message, turn, Commitment, Run and activity are
\* one transaction.
CreateChatTurn(t) ==
    /\ turn[t] = "none"
    /\ turn' = [turn EXCEPT ![t] = "queued"]
    /\ run' = [run EXCEPT ![t].status = "queued"]
    /\ Say("human", t, 0)
    /\ Log("queued", t)
    /\ UNCHANGED <<failure, worker>>

-----------------------------------------------------------------------------
Close(t, to, retry) ==
    /\ turn' = [turn EXCEPT ![t] = to]
    /\ failure' = [failure EXCEPT ![t] = retry]
    /\ Log(to, t)

\* _sync_chat_turn_after_run_terminal: only a turn that is open is told.
SyncChatTurn(t, to, reply, retry) ==
    IF turn[t] \in ClosedTurns THEN UNCHANGED records
    ELSE IF to = "evidence_accepted" /\ reply
         THEN Close(t, "completed", "none") /\ Say("agent", t, run[t].attempt)
         ELSE /\ Close(t, IF to = "evidence_accepted" THEN "failed" ELSE to,
                       IF to = "evidence_accepted" THEN "safe" ELSE retry)
              /\ UNCHANGED conversation

EndRun(t, to, reply, retry) ==
    /\ run' = [run EXCEPT ![t].status = to]
    /\ SyncChatTurn(t, to, reply, retry)

Requeue(t) ==
    /\ run' = [run EXCEPT ![t] = [@ EXCEPT !.status = "queued", !.attempt = 0, !.dispatched = FALSE]]
    /\ UNCHANGED records

-----------------------------------------------------------------------------
(* Workers.                                                                *)

SetWorker(w, to) == worker' = [worker EXCEPT ![w] = to]
Leased(w) ==
    /\ worker[w] # Free
    /\ run[worker[w].turn].status = "active"
    /\ run[worker[w].turn].attempt = worker[w].attempt

\* Every Attempt that is requeued had a number below MaxAttempts.
ClaimNextRun(w, t) ==
    /\ worker[w] = Free /\ run[t].status = "queued"
    /\ run' = [run EXCEPT ![t] = [@ EXCEPT !.status = "active", !.attempt = run[t].made + 1,
                                           !.made = run[t].made + 1]]
    /\ SetWorker(w, [at |-> "claimed", turn |-> t, attempt |-> run[t].made + 1])
    /\ UNCHANGED records

\* mark_running, mark_external_starting, and the request to Hermes.
Dispatch(w) ==
    /\ Leased(w) /\ worker[w].at = "claimed"
    /\ run' = [run EXCEPT ![worker[w].turn].dispatched = TRUE]
    /\ worker' = [worker EXCEPT ![w].at = "posted"]
    /\ UNCHANGED records

HermesAnswers(w, answer) ==
    /\ worker[w].at = "posted"
    /\ answer = "stopped" => run[worker[w].turn].asked
    /\ worker' = [worker EXCEPT ![w].at = answer]
    /\ UNCHANGED <<records, run>>

\* finish_success, finish_failure_or_requeue, finish_terminal, in a commit that
\* may not be acknowledged.
Finish(w) ==
    LET t == worker[w].turn IN
    /\ Leased(w) /\ worker[w].at \in Answers
    /\ CASE worker[w].at \in {"reply", "empty"} ->
              EndRun(t, "evidence_accepted", worker[w].at = "reply", "none")
         [] worker[w].at = "safe" ->
              IF worker[w].attempt < MaxAttempts THEN Requeue(t)
              ELSE EndRun(t, "failed", FALSE, "safe")
         [] worker[w].at = "unsafe" -> EndRun(t, "failed", FALSE, "unsafe")
         [] worker[w].at = "stopped" -> EndRun(t, "cancelled", FALSE, "unsafe")
         [] worker[w].at = "lost" -> EndRun(t, "unknown", FALSE, "unsafe")
    /\ worker' \in {worker, [worker EXCEPT ![w] = Free]}

\* Mutant of LeaseLost: the answer is stored all the same.
LateReply(w) ==
    /\ worker[w] # Free /\ ~Leased(w)
    /\ IF worker[w].at = "reply" THEN Say("agent", worker[w].turn, worker[w].attempt)
                                 ELSE UNCHANGED conversation
    /\ SetWorker(w, Free)
    /\ UNCHANGED <<turn, failure, activity, run>>
\* StaleLease; the repetition of a commit that had arrived is one.
LeaseLost(w) ==
    /\ worker[w] # Free /\ ~Leased(w)
    /\ SetWorker(w, Free)
    /\ UNCHANGED <<records, run>>

WorkerCrash(w) ==
    /\ worker[w] # Free
    /\ SetWorker(w, Free)
    /\ UNCHANGED <<records, run>>

\* Mutant of RecoverExpired: only what was dispatched is looked for.
RecoverDispatched(t) ==
    /\ run[t].status = "active" /\ run[t].dispatched
    /\ EndRun(t, "unknown", FALSE, "unsafe")
    /\ UNCHANGED worker
\* recover_expired, for the Attempt of the turn.
RecoverExpired(t) ==
    /\ run[t].status = "active"
    /\ IF run[t].dispatched THEN EndRun(t, "unknown", FALSE, "unsafe")
       ELSE IF run[t].attempt < MaxAttempts THEN Requeue(t)
       ELSE EndRun(t, "failed", FALSE, "unsafe")
    /\ UNCHANGED worker

\* Mutant of CancelRun: the turn is not told.
CancelSilently(t) ==
    /\ \/ run[t].status = "queued" /\ run' = [run EXCEPT ![t].status = "cancelled"]
       \/ run[t].status = "active" /\ ~run[t].asked /\ run' = [run EXCEPT ![t].asked = TRUE]
    /\ UNCHANGED <<records, worker>>
\* POST /v1/runs/{id}/cancel: request_cancellation
CancelRun(t) ==
    /\ \/ run[t].status = "queued" /\ EndRun(t, "cancelled", FALSE, "unsafe")
       \/ /\ run[t].status = "active" /\ ~run[t].asked
          /\ run' = [run EXCEPT ![t].asked = TRUE]
          /\ UNCHANGED records
    /\ UNCHANGED worker

-----------------------------------------------------------------------------
Work(w) ==
    \/ \E t \in Turns : ClaimNextRun(w, t)
    \/ Dispatch(w) \/ Finish(w) \/ LeaseLost(w)
    \/ \E answer \in Answers : HermesAnswers(w, answer)

ChatNext ==
    \/ \E t \in Turns : CreateChatTurn(t) \/ RecoverExpired(t) \/ CancelRun(t)
    \/ \E w \in Workers : Work(w) \/ WorkerCrash(w)

Holds(w, t) == worker[w] # Free /\ worker[w].turn = t /\ Leased(w)
\* Workers work and look for expired leases; a lease nobody renews expires.
Orphaned(t) == (\A w \in Workers : ~Holds(w, t)) /\ RecoverExpired(t)
Fairness ==
    /\ \A w \in Workers : WF_chatVars(Work(w))
    /\ \A t \in Turns : WF_chatVars(Orphaned(t))

ChatSpec == ChatInit /\ [][ChatNext]_chatVars
FairChatSpec == ChatSpec /\ Fairness

-----------------------------------------------------------------------------
(* Properties.                                                             *)

ChatTypeOK ==
    /\ turn \in [Turns -> {"none", "queued"} \cup ClosedTurns]
    /\ failure \in [Turns -> {"none", "safe", "unsafe"}]
    /\ run \in [Turns -> Run]
    /\ worker \in [Workers -> {Free} \cup Holding]
    /\ conversation \in Seq(Message)
    /\ activity \in Seq(Activity)

\* What people see of a turn is what became of its Run, at every moment
\* (marketing_case.py:1621): a Run that has ended leaves no turn waiting, and a
\* turn is completed only by a reply of the Attempt that succeeded.
TurnFollowsRun ==
    \A t \in Turns :
        /\ run[t].status \in {"queued", "active"} <=> turn[t] = "queued"
        /\ turn[t] = "completed" => run[t].status = "evidence_accepted"
        /\ run[t].status \in {"cancelled", "unknown"} => turn[t] = run[t].status

\* The entries of a turn in a table, in the order of their creation, are these.
Lists(table, t, entries) ==
    \E place \in [1..Len(entries) -> DOMAIN table] :
        /\ \A i, j \in 1..Len(entries) : i < j => place[i] < place[j]
        /\ \A i \in 1..Len(entries) : table[place[i]] = entries[i]
        /\ \A n \in DOMAIN table : table[n].turn = t => \E i \in 1..Len(entries) : place[i] = n

Question(t) == [from |-> "human", turn |-> t, attempt |-> 0]
Reply(t) == [from |-> "agent", turn |-> t, attempt |-> run[t].attempt]
Event(event, t) == [event |-> event, turn |-> t]
Said(t) == IF turn[t] = "none" THEN <<>>
           ELSE IF turn[t] = "completed" THEN <<Question(t), Reply(t)>> ELSE <<Question(t)>>
Logged(t) == IF turn[t] = "none" THEN <<>>
             ELSE IF turn[t] = "queued" THEN <<Event("queued", t)>>
             ELSE <<Event("queued", t), Event(turn[t], t)>>
\* "Persist the terminal result of a real Agent chat Run exactly once"
\* (marketing_case.py:1622): whatever is repeated, lost or taken over, a turn is
\* closed once, as what it then is, and its question is followed by its one reply,
\* that of the Attempt which succeeded, or by none.
PersistedOnce ==
    \A t \in Turns : Lists(conversation, t, Said(t)) /\ Lists(activity, t, Logged(t))

\* Every turn ends, whichever Worker dies or loses its lease on the way
\* (worker.py:742, run_state.py:289): nobody waits for a reply for ever.
TurnsEnd == \A t \in Turns : turn[t] = "queued" ~> turn[t] \in ClosedTurns
=============================================================================
