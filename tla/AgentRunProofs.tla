--------------------------- MODULE AgentRunProofs ---------------------------
(***************************************************************************)
(* Proofs about AgentRun for any sets of Runs and Workers, any limit of     *)
(* Attempts, and whichever of them a Worker transaction straddles the end   *)
(* of the lease of.  The types first; then FencingInv, which is inductive;  *)
(* and what it is for: no unjustified second dispatch, one open Attempt,    *)
(* the limit of Attempts, truthful outcomes, one notice per ending, no stop *)
(* that nobody asked for, an Attempt history that stays, and the contract   *)
(* of RunContract.                                                          *)
(***************************************************************************)
EXTENDS AgentRunInv, SequenceTheorems, FiniteSetTheorems, TLAPS

-----------------------------------------------------------------------------
(* The tables.                                                             *)

\* Writing one row of the Attempt table leaves every other row as it was.
LEMMA SetAttemptEffect ==
    ASSUME TypeOK, NEW r \in Runs, NEW n \in DOMAIN attempts[r],
           NEW row \in Attempt, SetAttempt(r, n, row)
    PROVE  /\ attempts' \in [Runs -> Seq(Attempt)]
           /\ \A q \in Runs : Len(attempts'[q]) = Len(attempts[q])
           /\ \A q \in Runs : DOMAIN attempts'[q] = DOMAIN attempts[q]
           /\ attempts'[r][n] = row
           /\ \A q \in Runs : \A m \in DOMAIN attempts[q] :
                 q # r \/ m # n => attempts'[q][m] = attempts[q][m]
<1>1. attempts \in [Runs -> Seq(Attempt)]
  BY DEF TypeOK
<1>2. attempts[r] \in Seq(Attempt) /\ n \in 1 .. Len(attempts[r])
  BY <1>1, LenProperties
<1> DEFINE new == [attempts[r] EXCEPT ![n] = row]
<1>3. /\ new \in Seq(Attempt)
      /\ Len(new) = Len(attempts[r])
      /\ \A m \in 1 .. Len(attempts[r]) : new[m] = IF m = n THEN row ELSE attempts[r][m]
  BY <1>2, ExceptSeq
<1>4. attempts' = [attempts EXCEPT ![r] = new]
  BY DEF SetAttempt
<1>5. DOMAIN new = DOMAIN attempts[r] /\ DOMAIN attempts[r] = 1 .. Len(attempts[r])
  BY <1>2, <1>3, LenProperties
<1> HIDE DEF new
<1>6. attempts'[r] = new /\ \A q \in Runs : q # r => attempts'[q] = attempts[q]
  BY <1>1, <1>4
<1> QED
  BY <1>1, <1>2, <1>3, <1>4, <1>5, <1>6

\* Likewise for the work of Hermes.
LEMMA SetJobEffect ==
    ASSUME TypeOK, NEW r \in Runs, NEW n \in DOMAIN attempts[r],
           NEW to \in JobStatuses, SetJob(r, n, to)
    PROVE  /\ job' \in [Runs -> Seq(JobStatuses)]
           /\ \A q \in Runs : Len(job'[q]) = Len(job[q])
           /\ \A q \in Runs : DOMAIN job'[q] = DOMAIN job[q]
           /\ job'[r][n] = to
           /\ \A q \in Runs : \A m \in DOMAIN attempts[q] :
                 q # r \/ m # n => job'[q][m] = job[q][m]
<1>1. /\ job \in [Runs -> Seq(JobStatuses)]
      /\ attempts \in [Runs -> Seq(Attempt)]
      /\ \A q \in Runs : Len(job[q]) = Len(attempts[q])
  BY DEF TypeOK
<1>2. \A q \in Runs : DOMAIN job[q] = 1 .. Len(job[q]) /\ DOMAIN attempts[q] = DOMAIN job[q]
  BY <1>1, LenProperties
<1>3. job[r] \in Seq(JobStatuses) /\ n \in 1 .. Len(job[r])
  BY <1>1, <1>2
<1> DEFINE new == [job[r] EXCEPT ![n] = to]
<1>4. /\ new \in Seq(JobStatuses)
      /\ Len(new) = Len(job[r])
      /\ \A m \in 1 .. Len(job[r]) : new[m] = IF m = n THEN to ELSE job[r][m]
  BY <1>3, ExceptSeq
<1>5. job' = [job EXCEPT ![r] = new]
  BY DEF SetJob
<1>6. DOMAIN new = DOMAIN job[r]
  BY <1>2, <1>4, LenProperties
<1> HIDE DEF new
<1>7. job'[r] = new /\ \A q \in Runs : q # r => job'[q] = job[q]
  BY <1>1, <1>5
<1> QED
  BY <1>1, <1>2, <1>3, <1>4, <1>5, <1>6, <1>7

\* What the type invariant says of one row.
LEMMA RowTypes ==
    ASSUME TypeOK, NEW r \in Runs, NEW n \in DOMAIN attempts[r]
    PROVE  /\ attempts[r][n] \in Attempt
           /\ job[r][n] \in JobStatuses
           /\ DOMAIN attempts[r] = 1 .. Len(attempts[r])
           /\ DOMAIN job[r] = 1 .. Len(attempts[r])
           /\ Len(attempts[r]) \in Nat
           /\ n \in Nat \ {0} /\ n <= Len(attempts[r])
<1>1. /\ job[r] \in Seq(JobStatuses)
      /\ attempts[r] \in Seq(Attempt)
      /\ Len(job[r]) = Len(attempts[r])
  BY DEF TypeOK
<1>2. /\ DOMAIN attempts[r] = 1 .. Len(attempts[r])
      /\ DOMAIN job[r] = 1 .. Len(job[r])
      /\ Len(attempts[r]) \in Nat
  BY <1>1, LenProperties
<1>3. n \in 1 .. Len(attempts[r])
  BY <1>2
<1>4. attempts[r][n] \in Attempt
  BY <1>1, <1>3, ElementOfSeq
<1>5. job[r][n] \in JobStatuses
  BY <1>1, <1>3, ElementOfSeq
<1> QED
  BY <1>1, <1>2, <1>3, <1>4, <1>5

\* A Worker transaction writes one row, and leaves its lease without a
\* transaction on its way.
LEMMA WriteEffect ==
    ASSUME TypeOK, NEW r \in Runs, NEW n \in DOMAIN attempts[r],
           NEW to \in AttemptStatuses, NEW retry \in {"conditional", "safe", "unsafe"},
           NEW hermes \in BOOLEAN, Write(r, n, to, retry, hermes)
    PROVE  /\ attempts' \in [Runs -> Seq(Attempt)]
           /\ \A q \in Runs : Len(attempts'[q]) = Len(attempts[q])
           /\ \A q \in Runs : DOMAIN attempts'[q] = DOMAIN attempts[q]
           /\ attempts'[r][n].status = to
           /\ attempts'[r][n].hermes = hermes
           /\ attempts'[r][n].lease = Spent(attempts[r][n].lease)
           /\ attempts'[r][n].late = attempts[r][n].late
           /\ \A q \in Runs : \A m \in DOMAIN attempts[q] :
                 q # r \/ m # n => attempts'[q][m] = attempts[q][m]
<1> DEFINE row == [status |-> to, hermes |-> hermes, retry |-> retry,
                   lease |-> Spent(attempts[r][n].lease),
                   late |-> attempts[r][n].late]
<1>1. attempts[r][n] \in Attempt
  BY RowTypes
<1>2. /\ Spent(attempts[r][n].lease) \in {"valid", "inflight", "expired"}
      /\ attempts[r][n].late \in BOOLEAN
  BY <1>1 DEF Attempt, Spent
<1>3. row \in Attempt
  BY <1>2 DEF Attempt
<1>4. SetAttempt(r, n, row)
  BY DEF Write
<1>5. /\ row.status = to /\ row.hermes = hermes
      /\ row.lease = Spent(attempts[r][n].lease)
      /\ row.late = attempts[r][n].late
  OBVIOUS
<1> HIDE DEF row
<1> QED
  BY <1>3, <1>4, <1>5, SetAttemptEffect

\* Only the lease of one row changes.
LEMMA SetLeaseEffect ==
    ASSUME TypeOK, NEW r \in Runs, NEW n \in DOMAIN attempts[r],
           NEW to \in {"valid", "inflight", "expired"}, SetLease(r, n, to)
    PROVE  /\ attempts' \in [Runs -> Seq(Attempt)]
           /\ \A q \in Runs : Len(attempts'[q]) = Len(attempts[q])
           /\ \A q \in Runs : DOMAIN attempts'[q] = DOMAIN attempts[q]
           /\ attempts'[r][n].status = attempts[r][n].status
           /\ attempts'[r][n].hermes = attempts[r][n].hermes
           /\ attempts'[r][n].lease = to
           /\ attempts'[r][n].late = attempts[r][n].late
           /\ \A q \in Runs : \A m \in DOMAIN attempts[q] :
                 q # r \/ m # n => attempts'[q][m] = attempts[q][m]
<1> DEFINE row == [attempts[r][n] EXCEPT !.lease = to]
<1>1. attempts[r][n] \in Attempt
  BY RowTypes
<1>2. /\ row \in Attempt
      /\ row.status = attempts[r][n].status
      /\ row.hermes = attempts[r][n].hermes
      /\ row.lease = to
      /\ row.late = attempts[r][n].late
  BY <1>1 DEF Attempt
<1>3. SetAttempt(r, n, row)
  BY DEF SetLease
<1> HIDE DEF row
<1> QED
  BY <1>2, <1>3, SetAttemptEffect

\* Recovery writes the status and the retry safety of one row, not its lease.
LEMMA RecoverEffect ==
    ASSUME TypeOK, NEW r \in Runs, NEW n \in DOMAIN attempts[r],
           NEW to \in AttemptStatuses, NEW retry \in {"conditional", "safe", "unsafe"},
           Recover(r, n, to, retry)
    PROVE  /\ attempts' \in [Runs -> Seq(Attempt)]
           /\ \A q \in Runs : Len(attempts'[q]) = Len(attempts[q])
           /\ \A q \in Runs : DOMAIN attempts'[q] = DOMAIN attempts[q]
           /\ attempts'[r][n].status = to
           /\ attempts'[r][n].hermes = attempts[r][n].hermes
           /\ attempts'[r][n].lease = attempts[r][n].lease
           /\ attempts'[r][n].late = attempts[r][n].late
           /\ \A q \in Runs : \A m \in DOMAIN attempts[q] :
                 q # r \/ m # n => attempts'[q][m] = attempts[q][m]
<1> DEFINE row == [attempts[r][n] EXCEPT !.status = to, !.retry = retry]
<1>1. attempts[r][n] \in Attempt
  BY RowTypes
<1>2. /\ row \in Attempt
      /\ row.status = to
      /\ row.hermes = attempts[r][n].hermes
      /\ row.lease = attempts[r][n].lease
      /\ row.late = attempts[r][n].late
  BY <1>1 DEF Attempt
<1>3. SetAttempt(r, n, row)
  BY DEF Recover
<1> HIDE DEF row
<1> QED
  BY <1>2, <1>3, SetAttemptEffect

\* The end of a lease changes that, and whether a transaction is late.
LEMMA LapseEffect ==
    ASSUME TypeOK, NEW r \in Runs, NEW n \in DOMAIN attempts[r], LeaseExpires(r, n)
    PROVE  /\ attempts' \in [Runs -> Seq(Attempt)]
           /\ \A q \in Runs : Len(attempts'[q]) = Len(attempts[q])
           /\ \A q \in Runs : DOMAIN attempts'[q] = DOMAIN attempts[q]
           /\ attempts'[r][n].status = attempts[r][n].status
           /\ attempts'[r][n].hermes = attempts[r][n].hermes
           /\ attempts'[r][n].retry = attempts[r][n].retry
           /\ \/ attempts'[r][n].lease = "expired" /\ attempts'[r][n].late = attempts[r][n].late
              \/ attempts'[r][n].lease = "inflight" /\ attempts'[r][n].late = TRUE
           /\ \A q \in Runs : \A m \in DOMAIN attempts[q] :
                 q # r \/ m # n => attempts'[q][m] = attempts[q][m]
<1>1. attempts[r][n] \in Attempt
  BY RowTypes
<1>2. CASE SetLease(r, n, "expired")
  <2> DEFINE row == [attempts[r][n] EXCEPT !.lease = "expired"]
  <2>1. /\ row \in Attempt
        /\ row.status = attempts[r][n].status /\ row.hermes = attempts[r][n].hermes
        /\ row.retry = attempts[r][n].retry
        /\ row.lease = "expired" /\ row.late = attempts[r][n].late
    BY <1>1 DEF Attempt
  <2>2. SetAttempt(r, n, row)
    BY <1>2 DEF SetLease
  <2> HIDE DEF row
  <2> QED
    BY <2>1, <2>2, SetAttemptEffect
<1>3. CASE SetAttempt(r, n, [attempts[r][n] EXCEPT !.lease = "inflight", !.late = TRUE])
  <2> DEFINE row == [attempts[r][n] EXCEPT !.lease = "inflight", !.late = TRUE]
  <2>1. /\ row \in Attempt
        /\ row.status = attempts[r][n].status /\ row.hermes = attempts[r][n].hermes
        /\ row.retry = attempts[r][n].retry
        /\ row.lease = "inflight" /\ row.late = TRUE
    BY <1>1 DEF Attempt
  <2>2. SetAttempt(r, n, row)
    BY <1>3
  <2> HIDE DEF row
  <2> QED
    BY <2>1, <2>2, SetAttemptEffect
<1> QED
  BY <1>2, <1>3 DEF LeaseExpires

\* The claim appends a row, and Hermes has nothing for it yet.
LEMMA ClaimEffect ==
    ASSUME TypeOK, NEW r \in Runs, NEW w \in Workers, ClaimNextRun(w, r)
    PROVE  /\ attempts' \in [Runs -> Seq(Attempt)]
           /\ job' \in [Runs -> Seq(JobStatuses)]
           /\ \A q \in Runs : q # r => attempts'[q] = attempts[q] /\ job'[q] = job[q]
           /\ Len(attempts[r]) \in Nat
           /\ Len(attempts'[r]) = Len(attempts[r]) + 1
           /\ Len(job'[r]) = Len(attempts[r]) + 1
           /\ DOMAIN attempts[r] = 1 .. Len(attempts[r])
           /\ DOMAIN attempts'[r] = 1 .. (Len(attempts[r]) + 1)
           /\ attempts'[r][Len(attempts[r]) + 1] =
                 [status |-> "claimed", hermes |-> FALSE,
                  retry |-> "conditional", lease |-> "valid", late |-> FALSE]
           /\ job'[r][Len(attempts[r]) + 1] = "none"
           /\ \A m \in DOMAIN attempts[r] : /\ attempts'[r][m] = attempts[r][m]
                                           /\ job'[r][m] = job[r][m]
<1> DEFINE row == [status |-> "claimed", hermes |-> FALSE,
                   retry |-> "conditional", lease |-> "valid", late |-> FALSE]
<1>1. /\ job \in [Runs -> Seq(JobStatuses)]
      /\ attempts \in [Runs -> Seq(Attempt)]
      /\ Len(job[r]) = Len(attempts[r])
  BY DEF TypeOK
<1>2. row \in Attempt /\ "none" \in JobStatuses
  BY DEF Attempt, AttemptStatuses, OpenStatuses, JobStatuses
<1>3. /\ attempts' = [attempts EXCEPT ![r] = Append(attempts[r], row)]
      /\ job' = [job EXCEPT ![r] = Append(job[r], "none")]
  BY DEF ClaimNextRun
<1> HIDE DEF row
<1>4. /\ Append(attempts[r], row) \in Seq(Attempt)
      /\ Len(Append(attempts[r], row)) = Len(attempts[r]) + 1
      /\ \A m \in 1 .. Len(attempts[r]) : Append(attempts[r], row)[m] = attempts[r][m]
      /\ Append(attempts[r], row)[Len(attempts[r]) + 1] = row
  BY <1>1, <1>2, AppendProperties
<1>5. /\ Append(job[r], "none") \in Seq(JobStatuses)
      /\ Len(Append(job[r], "none")) = Len(job[r]) + 1
      /\ \A m \in 1 .. Len(job[r]) : Append(job[r], "none")[m] = job[r][m]
      /\ Append(job[r], "none")[Len(job[r]) + 1] = "none"
  BY <1>1, <1>2, AppendProperties
<1>6. /\ attempts'[r] = Append(attempts[r], row)
      /\ job'[r] = Append(job[r], "none")
      /\ \A q \in Runs : q # r => attempts'[q] = attempts[q] /\ job'[q] = job[q]
      /\ attempts' \in [Runs -> Seq(Attempt)]
      /\ job' \in [Runs -> Seq(JobStatuses)]
  BY <1>1, <1>3, <1>4, <1>5
<1>7. /\ DOMAIN attempts[r] = 1 .. Len(attempts[r]) /\ Len(attempts[r]) \in Nat
      /\ DOMAIN attempts'[r] = 1 .. Len(attempts'[r])
  BY <1>1, <1>6, LenProperties
<1> QED
  BY <1>1, <1>4, <1>5, <1>6, <1>7 DEF row

\* A transition of the table, and nothing else of the status columns.
LEMMA TransitionEffect ==
    ASSUME TypeOK, NEW r \in Runs, NEW to \in RunStatuses, Transition(r, to)
    PROVE  /\ status' \in [Runs -> RunStatuses]
           /\ status'[r] = to
           /\ \A q \in Runs : q # r => status'[q] = status[q]
           /\ notified' \in [Runs -> Nat]
           /\ reconcile' \in [Runs -> Nat]
           /\ status[r] \in {"queued", "accepted", "running"}
           /\ status[r] = "queued" => to \in {"accepted", "cancelled"}
           /\ status[r] = "accepted" =>
                 to \in {"queued", "running", "cancelled", "failed", "unknown"}
           /\ to # "none" /\ to # status[r]
<1>1. /\ status \in [Runs -> RunStatuses]
      /\ notified \in [Runs -> Nat]
      /\ reconcile \in [Runs -> Nat]
  BY DEF TypeOK
<1>2. /\ to \in RunTransitions[status[r]]
      /\ status' = [status EXCEPT ![r] = to]
      /\ notified' = [notified EXCEPT ![r] = @ + IF to \in TerminalRunStatuses THEN 1 ELSE 0]
      /\ reconcile' = [reconcile EXCEPT ![r] = @ + IF to = "unknown" THEN 1 ELSE 0]
  BY DEF Transition
<1>3. status[r] \in RunStatuses
  BY <1>1
<1>4. RunTransitions[status[r]] =
          CASE status[r] = "queued"   -> {"accepted", "cancelled"}
            [] status[r] = "accepted" -> {"queued", "running", "cancelled", "failed", "unknown"}
            [] status[r] = "running"  -> {"queued", "evidence_accepted", "failed", "cancelled", "unknown"}
            [] OTHER                  -> {}
  BY <1>3 DEF RunTransitions
<1>5. /\ notified' \in [Runs -> Nat] /\ reconcile' \in [Runs -> Nat]
  BY <1>1, <1>2
<1>6. status' \in [Runs -> RunStatuses] /\ status'[r] = to
      /\ \A q \in Runs : q # r => status'[q] = status[q]
  BY <1>1, <1>2
<1> QED
  BY <1>2, <1>3, <1>4, <1>5, <1>6 DEF RunStatuses, TerminalRunStatuses

\* The Worker goes on with the Attempt it has, or lets it go.
LEMMA GotoEffect ==
    ASSUME TypeOK, NEW w \in Workers, Busy(w), NEW step \in Steps, Goto(w, step)
    PROVE  /\ worker' \in [Workers -> Assignment \cup {Idle}]
           /\ worker'[w].step = step /\ Busy(w)'
           /\ worker'[w].run = worker[w].run /\ worker'[w].no = worker[w].no
           /\ \A v \in Workers : v # w => worker'[v] = worker[v]
<1>1. worker \in [Workers -> Assignment \cup {Idle}]
  BY DEF TypeOK
<1>2. worker[w] \in Assignment
  BY <1>1 DEF Busy, Idle
<1>3. worker' = [worker EXCEPT ![w] = [worker[w] EXCEPT !.step = step]]
  BY DEF Goto
<1> DEFINE place == [worker[w] EXCEPT !.step = step]
<1>4. /\ place \in Assignment
      /\ place.step = step /\ place.run = worker[w].run /\ place.no = worker[w].no
  BY <1>2 DEF Assignment
<1> HIDE DEF place
<1>5. worker'[w] = place /\ \A v \in Workers : v # w => worker'[v] = worker[v]
  BY <1>1, <1>3 DEF place
<1>6. worker' \in [Workers -> Assignment \cup {Idle}]
  BY <1>1, <1>3, <1>4 DEF place
<1>7. step # "idle"
  BY DEF Steps
<1> QED
  BY <1>4, <1>5, <1>6, <1>7 DEF Busy

\* A Worker lets its Attempt go.
LEMMA GoIdleEffect ==
    ASSUME TypeOK, NEW w \in Workers, GoIdle(w)
    PROVE  /\ worker' \in [Workers -> Assignment \cup {Idle}]
           /\ ~Busy(w)'
           /\ \A v \in Workers : v # w => worker'[v] = worker[v]
<1>1. worker \in [Workers -> Assignment \cup {Idle}]
  BY DEF TypeOK
<1> QED
  BY <1>1 DEF GoIdle, Busy, Idle

-----------------------------------------------------------------------------
(* Type correctness.                                                       *)

\* Steps that keep the rows in place: what is left to show for TypeOK'.
LEMMA TypeFrame ==
    ASSUME TypeOK,
           mode' \in [Runs -> Modes \cup {"none"}],
           status' \in [Runs -> RunStatuses],
           current' \in [Runs -> Nat],
           cancelAsked' \in [Runs -> BOOLEAN],
           attempts' \in [Runs -> Seq(Attempt)],
           job' \in [Runs -> Seq(JobStatuses)],
           notified' \in [Runs -> Nat],
           reconcile' \in [Runs -> Nat],
           worker' \in [Workers -> Assignment \cup {Idle}],
           scanned' \subseteq scanned,
           \A q \in Runs : Len(attempts'[q]) = Len(attempts[q]),
           \A q \in Runs : Len(job'[q]) = Len(job[q]),
           \A v \in Workers : Busy(v)' => /\ Busy(v)
                                         /\ worker'[v].run = worker[v].run
                                         /\ worker'[v].no = worker[v].no
    PROVE  TypeOK'
<1>1. \A q \in Runs : DOMAIN attempts'[q] = DOMAIN attempts[q]
  <2> TAKE q \in Runs
  <2>1. attempts[q] \in Seq(Attempt) /\ attempts'[q] \in Seq(Attempt)
    BY DEF TypeOK
  <2> QED
    BY <2>1, LenProperties
<1>2. \A v \in Workers : Busy(v) => worker[v].run \in Runs
  BY DEF TypeOK, Busy, Idle, Assignment
<1>3. \A s \in scanned : s.run \in Runs
  BY DEF TypeOK, Snapshot
<1> QED
  BY <1>1, <1>2, <1>3 DEF TypeOK

\* Every step keeps the types.
LEMMA TypeStep ==
    ASSUME TypeOK, [Next]_vars
    PROVE  TypeOK'
<1> USE DEF runVars
<1>0. /\ mode \in [Runs -> Modes \cup {"none"}] /\ status \in [Runs -> RunStatuses]
      /\ current \in [Runs -> Nat] /\ cancelAsked \in [Runs -> BOOLEAN]
      /\ attempts \in [Runs -> Seq(Attempt)] /\ job \in [Runs -> Seq(JobStatuses)]
      /\ notified \in [Runs -> Nat] /\ reconcile \in [Runs -> Nat]
      /\ worker \in [Workers -> Assignment \cup {Idle}]
  BY DEF TypeOK
<1>1. CASE UNCHANGED vars
  BY <1>1, TypeFrame, <1>0 DEF vars, Busy
<1>2. ASSUME NEW r \in Runs, NEW m \in Modes, CreateRun(r, m) PROVE TypeOK'
  <2>1. status' \in [Runs -> RunStatuses] /\ mode' \in [Runs -> Modes \cup {"none"}]
    BY <1>0, <1>2 DEF CreateRun, RunStatuses
  <2> QED
    BY <1>0, <1>2, <2>1, TypeFrame DEF CreateRun, Busy
<1>3. ASSUME NEW r \in Runs, RequestCancellation(r) PROVE TypeOK'
  <2>1. cancelAsked' \in [Runs -> BOOLEAN]
    BY <1>0, <1>3 DEF RequestCancellation
  <2>2. /\ status' \in [Runs -> RunStatuses]
        /\ notified' \in [Runs -> Nat] /\ reconcile' \in [Runs -> Nat]
    <3>1. CASE status[r] = "queued"
      BY <1>3, <3>1, TransitionEffect DEF RequestCancellation, RunStatuses, TerminalRunStatuses
    <3>2. CASE status[r] # "queued"
      BY <1>0, <1>3, <3>2 DEF RequestCancellation
    <3> QED
      BY <3>1, <3>2
  <2> QED
    BY <1>0, <1>3, <2>1, <2>2, TypeFrame DEF RequestCancellation, Busy
<1>4. ASSUME NEW r \in Runs, NEW w \in Workers, ClaimNextRun(w, r) PROVE TypeOK'
  <2>1. /\ status' \in [Runs -> RunStatuses]
        /\ notified' \in [Runs -> Nat] /\ reconcile' \in [Runs -> Nat]
    BY <1>4, TransitionEffect DEF ClaimNextRun, RunStatuses
  <2>2. /\ attempts' \in [Runs -> Seq(Attempt)] /\ job' \in [Runs -> Seq(JobStatuses)]
        /\ \A q \in Runs : q # r => attempts'[q] = attempts[q] /\ job'[q] = job[q]
        /\ Len(attempts[r]) \in Nat
        /\ Len(attempts'[r]) = Len(attempts[r]) + 1 /\ Len(job'[r]) = Len(attempts[r]) + 1
        /\ DOMAIN attempts[r] = 1 .. Len(attempts[r])
        /\ DOMAIN attempts'[r] = 1 .. (Len(attempts[r]) + 1)
    BY <1>4, ClaimEffect
  <2>3. current' \in [Runs -> Nat]
    BY <1>0, <1>4, <2>2 DEF ClaimNextRun
  <2> DEFINE place == [step |-> "claimed", run |-> r, no |-> Len(attempts[r]) + 1]
  <2>4. place \in Assignment
    BY <2>2 DEF Assignment, Steps
  <2>5. worker' = [worker EXCEPT ![w] = place]
    BY <1>4 DEF ClaimNextRun
  <2>6. worker' \in [Workers -> Assignment \cup {Idle}]
    BY <1>0, <2>4, <2>5
  <2>7. \A q \in Runs : DOMAIN attempts[q] \subseteq DOMAIN attempts'[q]
    <3> SUFFICES ASSUME NEW q \in Runs PROVE DOMAIN attempts[q] \subseteq DOMAIN attempts'[q]
      OBVIOUS
    <3>1. CASE q = r
      BY <2>2, <3>1
    <3>2. CASE q # r
      BY <2>2, <3>2
    <3> QED
      BY <3>1, <3>2
  <2>8. \A v \in Workers : Busy(v)' => worker'[v].no \in DOMAIN attempts'[worker'[v].run]
    <3> SUFFICES ASSUME NEW v \in Workers, Busy(v)'
                 PROVE  worker'[v].no \in DOMAIN attempts'[worker'[v].run]
      OBVIOUS
    <3>1. CASE v = w
      <4>1. worker'[v] = place
        BY <1>0, <2>5, <3>1
      <4> QED
        BY <2>2, <4>1
    <3>2. CASE v # w
      <4>1. worker'[v] = worker[v]
        BY <1>0, <2>5, <3>2
      <4>2. Busy(v)
        BY <4>1 DEF Busy
      <4>3. worker[v].run \in Runs /\ worker[v].no \in DOMAIN attempts[worker[v].run]
        BY <4>2 DEF TypeOK, Busy, Idle, Assignment
      <4> QED
        BY <2>7, <4>1, <4>3
    <3> QED
      BY <3>1, <3>2
  <2>9. \A s \in scanned' : s.no \in DOMAIN attempts'[s.run]
    BY <1>4, <2>7 DEF ClaimNextRun, TypeOK, Snapshot
  <2>10. \A q \in Runs : Len(job'[q]) = Len(attempts'[q])
    BY <2>2 DEF TypeOK
  <2> QED
    BY <1>0, <1>4, <2>1, <2>2, <2>3, <2>6, <2>8, <2>9, <2>10 DEF ClaimNextRun, TypeOK
<1>5. ASSUME NEW r \in Runs, NEW n \in DOMAIN attempts[r], NEW w \in Workers,
             WorkerStep(w, r, n) \/ WorkerCrash(w, r, n)
      PROVE  TypeOK'
  <2>0. /\ attempts[r][n] \in Attempt /\ job[r][n] \in JobStatuses
    BY RowTypes
  <2>00. /\ attempts[r][n].status \in AttemptStatuses
         /\ attempts[r][n].hermes \in BOOLEAN
         /\ attempts[r][n].retry \in {"conditional", "safe", "unsafe"}
         /\ attempts[r][n].lease \in {"valid", "inflight", "expired"}
    BY <2>0 DEF Attempt
  <2> USE <1>0, <2>00 DEF At, Works, Busy, Polled
  <2>a. ASSUME NEW step \in Steps, Busy(w), Goto(w, step)
        PROVE  /\ worker' \in [Workers -> Assignment \cup {Idle}]
               /\ \A v \in Workers : Busy(v)' => /\ Busy(v)
                                               /\ worker'[v].run = worker[v].run
                                               /\ worker'[v].no = worker[v].no
    BY <2>a, GotoEffect
  <2>b. ASSUME GoIdle(w)
        PROVE  /\ worker' \in [Workers -> Assignment \cup {Idle}]
               /\ \A v \in Workers : Busy(v)' => /\ Busy(v)
                                               /\ worker'[v].run = worker[v].run
                                               /\ worker'[v].no = worker[v].no
    BY <2>b, GoIdleEffect
  <2>c. ASSUME EndOfAttempt(w)
        PROVE  /\ worker' \in [Workers -> Assignment \cup {Idle}]
               /\ \A v \in Workers : Busy(v)' => /\ Busy(v)
                                               /\ worker'[v].run = worker[v].run
                                               /\ worker'[v].no = worker[v].no
    BY <2>b, <2>c DEF EndOfAttempt
  <2>d. ASSUME NEW to \in RunStatuses, Transition(r, to)
        PROVE  /\ status' \in [Runs -> RunStatuses]
               /\ notified' \in [Runs -> Nat] /\ reconcile' \in [Runs -> Nat]
    BY <2>d, TransitionEffect
  <2>e. {"claimed", "simulating", "started", "intent", "posted", "polling",
         "stopping", "failing"} \subseteq Steps /\ "idle" \notin Steps
    BY DEF Steps
  <2>f. {"queued", "accepted", "running", "evidence_accepted", "failed", "cancelled",
         "unknown"} \subseteq RunStatuses
    BY DEF RunStatuses, TerminalRunStatuses
  <2>g. {"claimed", "running", "external_starting", "succeeded", "failed", "cancelled",
         "unknown", "lost"} \subseteq AttemptStatuses
    BY DEF AttemptStatuses, OpenStatuses
  <2>h. {"none", "running", "stopping"} \subseteq JobStatuses
    BY DEF JobStatuses
  <2>1. CASE MarkRunning(w, r, n)
    <3>1. Write(r, n, "running", attempts[r][n].retry, attempts[r][n].hermes)
      BY <2>1 DEF MarkRunning, MarkAttempt
    <3>2. /\ attempts' \in [Runs -> Seq(Attempt)]
          /\ \A q \in Runs : Len(attempts'[q]) = Len(attempts[q])
      BY <2>g, <3>1, WriteEffect
    <3> QED
      BY <2>1, <2>a, <2>d, <2>e, <2>f, <3>2, TypeFrame DEF MarkRunning
  <2>2. CASE MarkExternalStarting(w, r, n)
    <3>1. Write(r, n, "external_starting", attempts[r][n].retry, attempts[r][n].hermes)
      BY <2>2 DEF MarkExternalStarting, MarkAttempt
    <3>2. /\ attempts' \in [Runs -> Seq(Attempt)]
          /\ \A q \in Runs : Len(attempts'[q]) = Len(attempts[q])
      BY <2>g, <3>1, WriteEffect
    <3> QED
      BY <2>2, <2>a, <2>e, <3>2, TypeFrame DEF MarkExternalStarting
  <2>3. CASE PostHermesRun(w, r, n)
    <3>1. /\ job' \in [Runs -> Seq(JobStatuses)]
          /\ \A q \in Runs : Len(job'[q]) = Len(job[q])
      BY <2>3, <2>h, SetJobEffect DEF PostHermesRun
    <3> QED
      BY <2>3, <2>a, <2>e, <3>1, TypeFrame DEF PostHermesRun
  <2>4. CASE SetHermesRun(w, r, n)
    <3>0. TRUE \in BOOLEAN /\ "running" \in AttemptStatuses
      BY <2>g
    <3>1. Write(r, n, "running", attempts[r][n].retry, TRUE)
      BY <2>4 DEF SetHermesRun
    <3>2. /\ attempts' \in [Runs -> Seq(Attempt)]
          /\ \A q \in Runs : Len(attempts'[q]) = Len(attempts[q])
      BY <3>0, <3>1, WriteEffect
    <3> QED
      BY <2>4, <2>a, <2>e, <3>2, TypeFrame DEF SetHermesRun
  <2>5. CASE StopHermesRun(w, r, n)
    <3>1. /\ job' \in [Runs -> Seq(JobStatuses)]
          /\ \A q \in Runs : Len(job'[q]) = Len(job[q])
      BY <2>5, <2>0, <2>h, SetJobEffect DEF StopHermesRun
    <3> QED
      BY <2>5, <2>a, <2>e, <3>1, TypeFrame DEF StopHermesRun
  <2>6. CASE ExecutionRaises(w, r, n)
    BY <2>6, <2>a, <2>e, TypeFrame DEF ExecutionRaises
  <2>7. CASE FinishSuccess(w, r, n)
    <3>1. Write(r, n, "succeeded", "safe", attempts[r][n].hermes)
      BY <2>7 DEF FinishSuccess, CloseAttempt
    <3>2. /\ attempts' \in [Runs -> Seq(Attempt)]
          /\ \A q \in Runs : Len(attempts'[q]) = Len(attempts[q])
      BY <2>g, <3>1, WriteEffect
    <3> QED
      BY <2>7, <2>c, <2>d, <2>f, <3>2, TypeFrame DEF FinishSuccess
  <2>8. CASE FinishFailureOrRequeue(w, r, n)
    <3> DEFINE safety == IF job[r][n] = "failed_safe" THEN "safe" ELSE "unsafe"
    <3>1. Write(r, n, "failed", safety, attempts[r][n].hermes)
      BY <2>8 DEF FinishFailureOrRequeue, CloseAttempt
    <3>0. safety \in {"safe", "unsafe"}
      OBVIOUS
    <3> HIDE DEF safety
    <3>2. /\ attempts' \in [Runs -> Seq(Attempt)]
          /\ \A q \in Runs : Len(attempts'[q]) = Len(attempts[q])
      BY <2>g, <3>1, <3>0, WriteEffect
    <3>a. UNCHANGED current \/ current' = [current EXCEPT ![r] = 0]
      BY <2>8 DEF FinishFailureOrRequeue
    <3>3. current' \in [Runs -> Nat]
      <4>1. CASE UNCHANGED current
        BY <4>1
      <4>2. CASE current' = [current EXCEPT ![r] = 0]
        BY <4>2
      <4> QED
        BY <3>a, <4>1, <4>2
    <3>4. Transition(r, "queued") \/ Transition(r, "failed")
      BY <2>8 DEF FinishFailureOrRequeue
    <3> QED
      BY <2>8, <2>c, <2>d, <2>f, <3>2, <3>3, <3>4, TypeFrame DEF FinishFailureOrRequeue
  <2>9. CASE FinishCancelled(w, r, n)
    <3>1. Write(r, n, "cancelled", "unsafe", attempts[r][n].hermes)
      BY <2>9 DEF FinishCancelled, CloseAttempt
    <3>2. /\ attempts' \in [Runs -> Seq(Attempt)]
          /\ \A q \in Runs : Len(attempts'[q]) = Len(attempts[q])
      BY <2>g, <3>1, WriteEffect
    <3> QED
      BY <2>9, <2>c, <2>d, <2>f, <3>2, TypeFrame DEF FinishCancelled
  <2>10. CASE PersistUnknown(w, r, n)
    <3>1. Write(r, n, "unknown", "unsafe", attempts[r][n].hermes)
      BY <2>10 DEF PersistUnknown, CloseAttempt
    <3>2. /\ attempts' \in [Runs -> Seq(Attempt)]
          /\ \A q \in Runs : Len(attempts'[q]) = Len(attempts[q])
      BY <2>g, <3>1, WriteEffect
    <3> QED
      BY <2>10, <2>c, <2>d, <2>f, <3>2, TypeFrame DEF PersistUnknown
  <2>11. CASE FinishSimulated(w, r, n)
    <3>1. Write(r, n, "succeeded", "safe", attempts[r][n].hermes)
      BY <2>11 DEF FinishSimulated, CloseAttempt
    <3>2. /\ attempts' \in [Runs -> Seq(Attempt)]
          /\ \A q \in Runs : Len(attempts'[q]) = Len(attempts[q])
      BY <2>g, <3>1, WriteEffect
    <3> QED
      BY <2>11, <2>c, <2>d, <2>f, <3>2, TypeFrame DEF FinishSimulated
  <2>12. CASE Heartbeat(w, r, n)
    <3>1. PICK to \in {"valid", "expired"} : SetLease(r, n, to)
      BY <2>12 DEF Heartbeat
    <3>2. /\ attempts' \in [Runs -> Seq(Attempt)]
          /\ \A q \in Runs : Len(attempts'[q]) = Len(attempts[q])
      BY <3>1, SetLeaseEffect
    <3> QED
      BY <2>12, <3>2, TypeFrame DEF Heartbeat
  <2>13. CASE Abandon(w, r, n)
    BY <2>13, <2>b, TypeFrame DEF Abandon
  <2>14. CASE WorkerCrash(w, r, n)
    <3>1. /\ attempts' \in [Runs -> Seq(Attempt)]
          /\ \A q \in Runs : Len(attempts'[q]) = Len(attempts[q])
      BY <2>14, SetLeaseEffect DEF WorkerCrash, Spent
    <3> QED
      BY <2>14, <2>b, <3>1, TypeFrame DEF WorkerCrash
  <2> QED
    BY <1>5, <2>1, <2>2, <2>3, <2>4, <2>5, <2>6, <2>7, <2>8, <2>9, <2>10, <2>11, <2>12,
       <2>13, <2>14 DEF WorkerStep
<1>6. ASSUME NEW r \in Runs, NEW n \in DOMAIN attempts[r], LeaseExpires(r, n) PROVE TypeOK'
  <2>1. /\ attempts' \in [Runs -> Seq(Attempt)]
        /\ \A q \in Runs : Len(attempts'[q]) = Len(attempts[q])
    BY <1>6, LapseEffect
  <2> QED
    BY <1>0, <1>6, <2>1, TypeFrame DEF LeaseExpires, Busy
<1>7. ASSUME NEW r \in Runs, NEW n \in DOMAIN attempts[r], RecoveryScan(r, n) PROVE TypeOK'
  <2> DEFINE s == [run |-> r, no |-> n, external |-> External(r, n)]
  <2>1. External(r, n) \in BOOLEAN /\ n \in Nat \ {0}
    BY RowTypes DEF External, Attempt
  <2>2. s \in Snapshot /\ s.run = r /\ s.no = n
    BY <2>1 DEF Snapshot
  <2>3. scanned' = scanned \cup {s}
    BY <1>7 DEF RecoveryScan
  <2> HIDE DEF s
  <2> QED
    BY <1>7, <2>2, <2>3 DEF RecoveryScan, TypeOK, Busy
<1>8. ASSUME NEW r \in Runs, NEW n \in DOMAIN attempts[r],
             NEW to \in {"completed", "failed_safe", "failed_unsafe", "cancelled"},
             HermesEnds(r, n, to)
      PROVE  TypeOK'
  <2>1. /\ job' \in [Runs -> Seq(JobStatuses)]
        /\ \A q \in Runs : Len(job'[q]) = Len(job[q])
    BY <1>8, SetJobEffect DEF HermesEnds, JobStatuses
  <2> QED
    BY <1>0, <1>8, <2>1, TypeFrame DEF HermesEnds, Busy
<1>9. ASSUME NEW s \in scanned, RecoverAttempt(s) PROVE TypeOK'
  <2>1. s.run \in Runs /\ s.no \in DOMAIN attempts[s.run]
    BY DEF TypeOK, Snapshot
  <2>2. CASE current[s.run] # s.no \/ ~Active(s.run)
    BY <1>0, <1>9, <2>2, TypeFrame DEF RecoverAttempt, Busy
  <2>3. CASE ~(current[s.run] # s.no \/ ~Active(s.run))
    <3>1. PICK to \in {"unknown", "lost", "failed"}, retry \in {"safe", "unsafe"} :
             Recover(s.run, s.no, to, retry)
      BY <1>9, <2>3 DEF RecoverAttempt
    <3>2. /\ attempts' \in [Runs -> Seq(Attempt)]
          /\ \A q \in Runs : Len(attempts'[q]) = Len(attempts[q])
      <4>1. to \in AttemptStatuses /\ retry \in {"conditional", "safe", "unsafe"}
        BY DEF AttemptStatuses
      <4> QED
        BY <2>1, <3>1, <4>1, RecoverEffect
    <3>3. PICK st \in {"unknown", "queued", "failed"} : Transition(s.run, st)
      BY <1>9, <2>3 DEF RecoverAttempt
    <3>4. /\ status' \in [Runs -> RunStatuses]
          /\ notified' \in [Runs -> Nat] /\ reconcile' \in [Runs -> Nat]
      <4>1. st \in RunStatuses
        BY DEF RunStatuses, TerminalRunStatuses
      <4> QED
        BY <2>1, <3>3, <4>1, TransitionEffect
    <3>a. UNCHANGED current \/ current' = [current EXCEPT ![s.run] = 0]
      BY <1>9, <2>3 DEF RecoverAttempt
    <3>5. current' \in [Runs -> Nat]
      <4>1. CASE UNCHANGED current
        BY <1>0, <4>1
      <4>2. CASE current' = [current EXCEPT ![s.run] = 0]
        BY <1>0, <4>2
      <4> QED
        BY <3>a, <4>1, <4>2
    <3> QED
      BY <1>0, <1>9, <2>3, <3>2, <3>4, <3>5, TypeFrame DEF RecoverAttempt, Busy
  <2> QED
    BY <2>2, <2>3
<1> QED
  BY <1>1, <1>2, <1>3, <1>4, <1>5, <1>6, <1>7, <1>8, <1>9 DEF Next

\* The empty database has the types.
LEMMA TypeInit == Init => TypeOK
<1> SUFFICES ASSUME Init PROVE TypeOK
  OBVIOUS
<1>1. << >> \in Seq(Attempt) /\ << >> \in Seq(JobStatuses)
  BY EmptySeq
<1>2. "none" \in RunStatuses
  BY DEF RunStatuses
<1> QED
  BY <1>1, <1>2 DEF Init, TypeOK, Busy, Idle

\* The columns, rows and Worker places of AgentRun always have their types.
THEOREM TypeCorrect == Spec => []TypeOK
<1>1. TypeOK /\ [Next]_vars => TypeOK'
  BY TypeStep
<1> QED
  BY <1>1, TypeInit, PTL DEF Spec
-----------------------------------------------------------------------------
(* The fencing invariant: steps that concern one Attempt.                  *)

\* A step on one Attempt: FencingInv' needs to be shown for its Run, its row
\* and the Workers on it only.
LEMMA LocalStep ==
    ASSUME FencingInv, TypeOK', NEW r \in Runs, NEW n \in DOMAIN attempts[r],
           \A q \in Runs : Len(attempts'[q]) = Len(attempts[q]),
           \A q \in Runs : DOMAIN attempts'[q] = DOMAIN attempts[q],
           \A q \in Runs : \A m \in DOMAIN attempts[q] :
               q # r \/ m # n => attempts'[q][m] = attempts[q][m] /\ job'[q][m] = job[q][m],
           \A q \in Runs : q # r => status'[q] = status[q] /\ current'[q] = current[q],
           \/ status'[r] = status[r] /\ current'[r] = current[r]
           \/ current'[r] \in {0, n},
           \A v \in Workers : Busy(v)' => /\ Busy(v)
                                         /\ worker'[v].run = worker[v].run
                                         /\ worker'[v].no = worker[v].no,
           \A v \in Workers : ~Works(v, r, n) => worker'[v] = worker[v],
           scanned' \subseteq scanned,
           RunShape(r)',
           \A m \in DOMAIN attempts[r] : AttemptShape(r, m)',
           \A v \in Workers : Works(v, r, n) => WorkerShape(v)',
           \A s \in scanned' : s.run = r => SnapshotTrue(s)'
    PROVE  FencingInv'
<1>1. \A q \in Runs : RunShape(q)'
  <2> SUFFICES ASSUME NEW q \in Runs, q # r PROVE RunShape(q)'
    OBVIOUS
  <2>1. RunShape(q)
    BY DEF FencingInv
  <2>2. Len(attempts[q]) = 0 <=> attempts[q] = <<>>
    BY EmptySeq DEF FencingInv, TypeOK
  <2>3. Len(attempts'[q]) = 0 <=> attempts'[q] = <<>>
    BY EmptySeq DEF TypeOK
  <2>4. current[q] = 0 \/ current[q] \in DOMAIN attempts[q]
    <3>1. attempts[q] \in Seq(Attempt) /\ current[q] \in Nat
      BY DEF FencingInv, TypeOK
    <3>2. DOMAIN attempts[q] = 1 .. Len(attempts[q]) /\ Len(attempts[q]) \in Nat
      BY <3>1, LenProperties
    <3> QED
      BY <2>1, <3>1, <3>2 DEF RunShape
  <2>5. CASE current[q] = 0
    BY <2>1, <2>2, <2>3, <2>5 DEF RunShape, Active
  <2>6. CASE current[q] \in DOMAIN attempts[q]
    BY <2>1, <2>2, <2>3, <2>6 DEF RunShape, Active
  <2> QED
    BY <2>4, <2>5, <2>6
<1>2. \A q \in Runs : \A m \in DOMAIN attempts'[q] : AttemptShape(q, m)'
  <2> SUFFICES ASSUME NEW q \in Runs, NEW m \in DOMAIN attempts[q], q # r
               PROVE  AttemptShape(q, m)'
    OBVIOUS
  <2>1. AttemptShape(q, m)
    BY DEF FencingInv
  <2> QED
    BY <2>1 DEF AttemptShape, LeftOpen, Open, Active, Released, Truthful
<1>3. \A v \in Workers : WorkerShape(v)'
  <2> SUFFICES ASSUME NEW v \in Workers, ~Works(v, r, n), Busy(v)' PROVE WorkerShape(v)'
    BY DEF WorkerShape
  <2>1. WorkerShape(v) /\ worker'[v] = worker[v] /\ Busy(v)
    BY DEF FencingInv
  <2>2. worker[v].run \in Runs /\ worker[v].no \in DOMAIN attempts[worker[v].run]
    BY <2>1 DEF FencingInv, TypeOK, Busy, Assignment, Idle
  <2>3. worker[v].run # r \/ worker[v].no # n
    BY <2>1 DEF Works
  <2>4. /\ attempts'[worker[v].run][worker[v].no] = attempts[worker[v].run][worker[v].no]
        /\ job'[worker[v].run][worker[v].no] = job[worker[v].run][worker[v].no]
    BY <2>2, <2>3
  <2>5. \/ status'[worker[v].run] = status[worker[v].run]
           /\ current'[worker[v].run] = current[worker[v].run]
        \/ current'[worker[v].run] # worker[v].no
    <3>1. CASE worker[v].run # r
      BY <2>2, <3>1
    <3>2. CASE worker[v].run = r
      <4>1. worker[v].no # 0 /\ worker[v].no # n
        BY <2>1, <2>2, <2>3, <3>2, RowTypes DEF FencingInv
      <4> QED
        BY <3>2, <4>1
    <3> QED
      BY <3>1, <3>2
  <2>6. PICK q, m, step : q = worker[v].run /\ m = worker[v].no /\ step = worker[v].step
    OBVIOUS
  <2>7. /\ worker'[v].run = q /\ worker'[v].no = m /\ worker'[v].step = step
        /\ attempts'[q][m] = attempts[q][m] /\ job'[q][m] = job[q][m]
        /\ \/ status'[q] = status[q] /\ current'[q] = current[q]
           \/ current'[q] # m
    BY <2>1, <2>4, <2>5, <2>6
  <2>8. /\ step \in {"claimed", "simulating", "started", "intent"} => job[q][m] = "none"
        /\ step # "claimed" => attempts[q][m].status # "claimed"
        /\ step \in {"polling", "stopping"} => attempts[q][m].hermes
        /\ step \in {"claimed", "started", "intent", "posted"} /\ current[q] = m =>
               Active(q) \/ status[q] \in {"unknown", "failed"}
        /\ ~attempts[q][m].late =>
               /\ step = "intent" =>
                      attempts[q][m].status \in {"external_starting", "unknown"}
               /\ step \in {"claimed", "started", "intent", "posted"} /\ ~Open(q, m) =>
                      attempts[q][m].lease = "expired"
    BY <2>1, <2>6 DEF WorkerShape
  <2>9. step \in {"claimed", "started", "intent", "posted"} /\ current'[q] = m =>
            Active(q)' \/ status'[q] \in {"unknown", "failed"}
    <3> SUFFICES ASSUME step \in {"claimed", "started", "intent", "posted"}, current'[q] = m
                 PROVE  Active(q)' \/ status'[q] \in {"unknown", "failed"}
      OBVIOUS
    <3>1. status'[q] = status[q] /\ current[q] = m
      BY <2>7
    <3> QED
      BY <2>8, <3>1 DEF Active
  <2>10. Open(q, m)' <=> Open(q, m)
    BY <2>7 DEF Open
  <2> QED
    BY <2>7, <2>8, <2>9, <2>10 DEF WorkerShape
<1>4. OneOwner'
  BY DEF FencingInv, OneOwner
<1>5. \A s \in scanned' : SnapshotTrue(s)'
  <2> SUFFICES ASSUME NEW s \in scanned', s.run # r PROVE SnapshotTrue(s)'
    OBVIOUS
  <2>1. SnapshotTrue(s)
    BY DEF FencingInv
  <2>2. s.run \in Runs /\ s.no \in DOMAIN attempts[s.run]
    BY DEF FencingInv, TypeOK, Snapshot
  <2>3. attempts'[s.run][s.no] = attempts[s.run][s.no]
    BY <2>2
  <2> QED
    BY <2>1, <2>2, <2>3 DEF SnapshotTrue, Active, External
<1> QED
  BY <1>1, <1>2, <1>3, <1>4, <1>5 DEF FencingInv

\* What FencingInv says of one Attempt of one Run.
LEMMA AttemptFacts ==
    ASSUME FencingInv, NEW r \in Runs, NEW n \in DOMAIN attempts[r]
    PROVE  /\ TypeOK
           /\ RunShape(r)
           /\ \A m \in DOMAIN attempts[r] : AttemptShape(r, m)
           /\ attempts[r] # <<>>
           /\ Len(attempts[r]) \in Nat /\ n \in Nat /\ 0 < n /\ n <= Len(attempts[r])
           /\ DOMAIN attempts[r] = 1 .. Len(attempts[r])
           /\ attempts[r][n] \in Attempt /\ job[r][n] \in JobStatuses
           /\ current[r] \in Nat /\ status[r] \in RunStatuses
<1>1. TypeOK
  BY DEF FencingInv
<1>2. attempts[r] # <<>>
  OBVIOUS
<1> QED
  BY <1>1, <1>2, RowTypes DEF FencingInv, TypeOK

\* However a Worker's step leaves it, it stays on its Attempt or goes idle.
LEMMA WorkerFrame ==
    ASSUME TypeOK, NEW w \in Workers, Busy(w),
           \/ GoIdle(w) \/ UNCHANGED worker
           \/ \E step \in Steps : Goto(w, step)
    PROVE  /\ \A v \in Workers : v # w => worker'[v] = worker[v]
           /\ \A v \in Workers : Busy(v)' => /\ Busy(v)
                                         /\ worker'[v].run = worker[v].run
                                         /\ worker'[v].no = worker[v].no
<1>1. CASE GoIdle(w)
  <2>1. ~Busy(w)' /\ \A v \in Workers : v # w => worker'[v] = worker[v]
    BY <1>1, GoIdleEffect
  <2> QED
    BY <2>1 DEF Busy
<1>2. CASE UNCHANGED worker
  BY <1>2 DEF Busy
<1>3. ASSUME NEW step \in Steps, Goto(w, step)
      PROVE  /\ \A v \in Workers : v # w => worker'[v] = worker[v]
             /\ worker'[w].run = worker[w].run /\ worker'[w].no = worker[w].no
  BY <1>3, GotoEffect
<1>4. CASE \E step \in Steps : Goto(w, step)
  BY <1>3, <1>4 DEF Busy
<1> QED
  BY <1>1, <1>2, <1>4

\* A Worker is alone on its Attempt.
LEMMA SoleWorker ==
    ASSUME FencingInv, NEW r \in Runs, NEW n \in DOMAIN attempts[r],
           NEW w \in Workers, Works(w, r, n)
    PROVE  /\ WorkerShape(w)
           /\ \A v \in Workers : Works(v, r, n) => v = w
BY DEF FencingInv, OneOwner, Works

\* LocalStep for the steps of a Worker.
LEMMA WorkerTurn ==
    ASSUME FencingInv, TypeOK', NEW r \in Runs, NEW n \in DOMAIN attempts[r],
           NEW w \in Workers, Works(w, r, n),
           \/ GoIdle(w) \/ UNCHANGED worker
           \/ \E step \in Steps : Goto(w, step),
           \A q \in Runs : Len(attempts'[q]) = Len(attempts[q]),
           \A q \in Runs : DOMAIN attempts'[q] = DOMAIN attempts[q],
           \A q \in Runs : \A m \in DOMAIN attempts[q] :
               q # r \/ m # n => attempts'[q][m] = attempts[q][m],
           \A q \in Runs : \A m \in DOMAIN attempts[q] :
               q # r \/ m # n => job'[q][m] = job[q][m],
           \A q \in Runs : q # r => status'[q] = status[q],
           \A q \in Runs : q # r => current'[q] = current[q],
           current'[r] = current[r], current[r] = n \/ status'[r] = status[r],
           scanned' = scanned,
           RunShape(r)',
           \A m \in DOMAIN attempts[r] : AttemptShape(r, m)',
           WorkerShape(w)',
           \A s \in scanned : s.run = r => SnapshotTrue(s)'
    PROVE  FencingInv'
<1>1. TypeOK /\ Busy(w)
  BY DEF FencingInv, Works
<1>2. /\ \A v \in Workers : v # w => worker'[v] = worker[v]
      /\ \A v \in Workers : Busy(v)' => /\ Busy(v)
                                    /\ worker'[v].run = worker[v].run
                                    /\ worker'[v].no = worker[v].no
  BY <1>1, WorkerFrame
<1>3. \A v \in Workers : Works(v, r, n) => v = w
  BY SoleWorker
<1>4. \A v \in Workers : ~Works(v, r, n) => worker'[v] = worker[v]
  BY <1>2
<1>5. \A v \in Workers : Works(v, r, n) => WorkerShape(v)'
  BY <1>3
<1>6. \A q \in Runs : \A m \in DOMAIN attempts[q] :
          q # r \/ m # n => attempts'[q][m] = attempts[q][m] /\ job'[q][m] = job[q][m]
  OBVIOUS
<1>7. \A q \in Runs : q # r => status'[q] = status[q] /\ current'[q] = current[q]
  OBVIOUS
<1>8. \A s \in scanned' : s.run = r => SnapshotTrue(s)'
  OBVIOUS
<1>9. scanned' \subseteq scanned
  OBVIOUS
<1> QED
  BY <1>2, <1>4, <1>5, <1>6, <1>7, <1>8, <1>9, LocalStep

\* A Worker that has the lease of the Attempt it works on, and is not at its
\* end, works on the one open Attempt of an active Run, or is late for a Run
\* that recovery has ended.
LEMMA HeldIsOpen ==
    ASSUME FencingInv, NEW r \in Runs, NEW n \in DOMAIN attempts[r],
           NEW w \in Workers, Works(w, r, n), LeaseHeld(r, n),
           worker[w].step \in {"claimed", "started", "intent", "posted"}
    PROVE  /\ current[r] = n /\ n = Len(attempts[r])
           /\ \/ Open(r, n) /\ Active(r)
              \/ attempts[r][n].late /\ status[r] \in {"unknown", "failed"}
<1>1. /\ WorkerShape(w) /\ AttemptShape(r, n) /\ RunShape(r)
      /\ n \in Nat /\ 0 < n
  BY SoleWorker, AttemptFacts
<1>2. current[r] = n /\ n = Len(attempts[r])
  BY <1>1 DEF RunShape, LeaseHeld
<1>3. Active(r) \/ status[r] \in {"unknown", "failed"}
  BY <1>1, <1>2 DEF WorkerShape, Works
<1>4. Active(r) => Open(r, n)
  BY <1>1, <1>2 DEF RunShape, Active, Open, OpenStatuses
<1>5. ~attempts[r][n].late => Open(r, n)
  BY <1>1 DEF WorkerShape, Works, LeaseHeld
<1>6. ~attempts[r][n].late => Active(r)
  BY <1>1, <1>5 DEF AttemptShape, LeftOpen
<1> QED
  BY <1>2, <1>3, <1>4, <1>6

\* No scan holds a row whose lease is valid, if its Worker is not late.
LEMMA ValidIsUnscanned ==
    ASSUME FencingInv, NEW r \in Runs, NEW n \in DOMAIN attempts[r],
           attempts[r][n].lease # "expired", Active(r), current[r] = n,
           NEW s \in scanned, s.run = r
    PROVE  s.no # n \/ attempts[r][n].late
BY DEF FencingInv, SnapshotTrue

\* The Attempt in hand stays open, and its Run is running; or the Worker is
\* late and opens an Attempt of a Run that is over.
LEMMA OpenStep ==
    ASSUME FencingInv, TypeOK', NEW r \in Runs, NEW n \in DOMAIN attempts[r],
           NEW w \in Workers, Works(w, r, n), current[r] = n,
           attempts[r][n].lease # "expired",
           \A q \in Runs : Len(attempts'[q]) = Len(attempts[q]),
           \A q \in Runs : DOMAIN attempts'[q] = DOMAIN attempts[q],
           \A q \in Runs : \A m \in DOMAIN attempts[q] :
               q # r \/ m # n => attempts'[q][m] = attempts[q][m],
           attempts'[r][n].status \in {"running", "external_starting"},
           attempts'[r][n].lease = Spent(attempts[r][n].lease),
           attempts'[r][n].late = attempts[r][n].late,
           attempts[r][n].hermes => attempts'[r][n].hermes,
           attempts[r][n].status = "external_starting" /\ job[r][n] # "none" =>
               attempts'[r][n].hermes \/ attempts'[r][n].status = "external_starting",
           \/ Active(r) /\ status'[r] = "running"
           \/ /\ attempts[r][n].late /\ status[r] \in {"unknown", "failed"}
              /\ status'[r] = status[r],
           \A q \in Runs : q # r => status'[q] = status[q],
           UNCHANGED <<current, job, scanned>>,
           UNCHANGED worker \/ \E step \in Steps : Goto(w, step),
           WorkerShape(w)'
    PROVE  FencingInv'
<1>1. /\ TypeOK /\ RunShape(r) /\ attempts[r][n] \in Attempt
      /\ \A m \in DOMAIN attempts[r] : AttemptShape(r, m)
      /\ attempts[r] # <<>> /\ Len(attempts[r]) \in Nat /\ n \in Nat /\ 0 < n
      /\ DOMAIN attempts[r] = 1 .. Len(attempts[r])
  BY AttemptFacts
<1>2. n = Len(attempts[r])
  BY <1>1 DEF RunShape
<1>3. RunShape(r)'
  BY <1>1, <1>2 DEF RunShape, Active
<1>4. ASSUME NEW m \in DOMAIN attempts[r] PROVE AttemptShape(r, m)'
  <2>1. AttemptShape(r, m)
    BY <1>1
  <2>2. CASE m = n
    <3>1. /\ Open(r, n)' => (Active(r)' /\ current'[r] = n) \/ LeftOpen(r, n)'
          /\ ~(n < Len(attempts'[r])) /\ status'[r] # "queued"
          /\ attempts'[r][n].status # "unknown"
      BY <1>1, <1>2 DEF Active, LeftOpen
    <3>2. attempts'[r][n].lease # "inflight"
      BY DEF Spent
    <3>3. CASE ~attempts[r][n].late
      <4>1. status[r] # "unknown" /\ attempts[r][n].status # "unknown"
        BY <2>1, <2>2, <3>3 DEF AttemptShape, Active
      <4>2. job'[r][n] # "none" =>
                attempts'[r][n].hermes \/ attempts'[r][n].status \in {"external_starting", "unknown"}
        BY <2>1, <2>2, <3>3, <4>1 DEF AttemptShape
      <4>3. Truthful(r, n)'
        BY <3>3 DEF Truthful
      <4> QED
        BY <2>2, <3>1, <3>2, <4>2, <4>3 DEF AttemptShape
    <3>4. CASE attempts[r][n].late
      BY <2>2, <3>1, <3>2, <3>4 DEF AttemptShape
    <3> QED
      BY <3>3, <3>4
  <2>3. CASE m # n
    <3>1. /\ Released(r, m) /\ attempts'[r][m] = attempts[r][m] /\ job'[r][m] = job[r][m]
          /\ ~Open(r, m) /\ attempts[r][m].status # "unknown"
      BY <1>1, <1>2, <2>1, <2>3 DEF AttemptShape, Released, Open, OpenStatuses
    <3> QED
      BY <2>1, <3>1 DEF AttemptShape, LeftOpen, Open, Released, Truthful
  <2> QED
    BY <2>2, <2>3
<1>5. ASSUME NEW s \in scanned, s.run = r PROVE SnapshotTrue(s)'
  <2>1. CASE Active(r)
    <3>1. s.no # n \/ attempts'[r][n].late
      BY <1>5, <2>1, ValidIsUnscanned
    <3> QED
      BY <1>5, <3>1 DEF SnapshotTrue
  <2>2. CASE attempts[r][n].late
    BY <1>5, <2>2 DEF SnapshotTrue
  <2> QED
    BY <2>1, <2>2
<1>6. /\ \A q \in Runs : \A m \in DOMAIN attempts[q] :
            q # r \/ m # n => job'[q][m] = job[q][m]
      /\ \A q \in Runs : q # r => current'[q] = current[q]
      /\ scanned' = scanned /\ current'[r] = current[r]
  OBVIOUS
<1> QED
  BY <1>3, <1>4, <1>5, <1>6, WorkerTurn

\* The Attempt in hand is closed, and its Run with it.
LEMMA CloseStep ==
    ASSUME FencingInv, TypeOK', NEW r \in Runs, NEW n \in DOMAIN attempts[r],
           NEW to, NEW final, Active(r), current[r] = n,
           \A q \in Runs : Len(attempts'[q]) = Len(attempts[q]),
           \A q \in Runs : DOMAIN attempts'[q] = DOMAIN attempts[q],
           \A q \in Runs : \A m \in DOMAIN attempts[q] :
               q # r \/ m # n => attempts'[q][m] = attempts[q][m],
           attempts'[r][n].status = to,
           attempts'[r][n].hermes = attempts[r][n].hermes,
           attempts'[r][n].late = attempts[r][n].late,
           attempts'[r][n].lease = "inflight" => attempts[r][n].late,
           status'[r] = final,
           \A q \in Runs : q # r => status'[q] = status[q],
           UNCHANGED <<current, job>>, scanned' \subseteq scanned,
           \/ to = "succeeded" /\ final = "evidence_accepted" /\ job[r][n] \in {"none", "completed"}
           \/ /\ to = "failed" /\ final = "failed"
              /\ job[r][n] \in {"none", "failed_safe", "failed_unsafe"} \/ attempts[r][n].late
           \/ to = "cancelled" /\ final = "cancelled" /\ job[r][n] = "cancelled"
           \/ to = "unknown" /\ final = "unknown",
           job[r][n] # "none" => attempts[r][n].hermes \/ to = "unknown" \/ attempts[r][n].late,
           \A v \in Workers : Busy(v)' => /\ Busy(v)
                                         /\ worker'[v].run = worker[v].run
                                         /\ worker'[v].no = worker[v].no,
           \A v \in Workers : ~Works(v, r, n) => worker'[v] = worker[v],
           \A v \in Workers : Works(v, r, n) => WorkerShape(v)'
    PROVE  FencingInv'
<1>1. /\ TypeOK /\ RunShape(r) /\ attempts[r][n] \in Attempt
      /\ \A m \in DOMAIN attempts[r] : AttemptShape(r, m)
      /\ attempts[r] # <<>> /\ Len(attempts[r]) \in Nat /\ n \in Nat /\ 0 < n
      /\ DOMAIN attempts[r] = 1 .. Len(attempts[r])
  BY AttemptFacts
<1>2. n = Len(attempts[r])
  BY <1>1 DEF RunShape
<1>3. RunShape(r)'
  BY <1>1, <1>2 DEF RunShape, Active
<1>4. ASSUME NEW m \in DOMAIN attempts[r] PROVE AttemptShape(r, m)'
  <2>1. AttemptShape(r, m)
    BY <1>1
  <2>2. CASE m = n
    BY <1>1, <1>2, <2>1, <2>2
       DEF AttemptShape, LeftOpen, Open, Active, OpenStatuses, Truthful
  <2>3. CASE m # n
    <3>1. Released(r, m) /\ m < Len(attempts[r])
      BY <1>1, <1>2, <2>1, <2>3 DEF AttemptShape
    <3> QED
      BY <1>1, <1>2, <2>1, <2>3, <3>1
         DEF AttemptShape, LeftOpen, Open, OpenStatuses, Active, Released, Truthful
  <2> QED
    BY <2>2, <2>3
<1>5. ASSUME NEW s \in scanned', s.run = r PROVE SnapshotTrue(s)'
  BY <1>5 DEF SnapshotTrue, Active
<1>6. /\ \A q \in Runs : \A m \in DOMAIN attempts[q] :
            q # r \/ m # n => attempts'[q][m] = attempts[q][m] /\ job'[q][m] = job[q][m]
      /\ \A q \in Runs : q # r => status'[q] = status[q] /\ current'[q] = current[q]
      /\ current'[r] \in {0, n}
  OBVIOUS
<1> QED
  BY <1>3, <1>4, <1>5, <1>6, LocalStep

\* The Attempt in hand is given up, and its Run is queued again.
LEMMA RequeueStep ==
    ASSUME FencingInv, TypeOK', NEW r \in Runs, NEW n \in DOMAIN attempts[r],
           NEW to, Active(r), current[r] = n, n < MaxAttempts,
           \A q \in Runs : Len(attempts'[q]) = Len(attempts[q]),
           \A q \in Runs : DOMAIN attempts'[q] = DOMAIN attempts[q],
           \A q \in Runs : \A m \in DOMAIN attempts[q] :
               q # r \/ m # n => attempts'[q][m] = attempts[q][m],
           attempts'[r][n].status = to,
           attempts'[r][n].hermes = attempts[r][n].hermes,
           attempts'[r][n].late = attempts[r][n].late,
           attempts'[r][n].lease = "inflight" => attempts[r][n].late,
           status'[r] = "queued",
           \A q \in Runs : q # r => status'[q] = status[q],
           current' = [current EXCEPT ![r] = 0],
           UNCHANGED job, scanned' \subseteq scanned,
           \/ to = "lost" /\ (job[r][n] = "none" \/ attempts[r][n].late)
           \/ to = "failed" /\ job[r][n] = "failed_safe" /\ attempts[r][n].hermes,
           \A v \in Workers : Busy(v)' => /\ Busy(v)
                                         /\ worker'[v].run = worker[v].run
                                         /\ worker'[v].no = worker[v].no,
           \A v \in Workers : ~Works(v, r, n) => worker'[v] = worker[v],
           \A v \in Workers : Works(v, r, n) => WorkerShape(v)'
    PROVE  FencingInv'
<1>1. /\ TypeOK /\ RunShape(r) /\ attempts[r][n] \in Attempt
      /\ \A m \in DOMAIN attempts[r] : AttemptShape(r, m)
      /\ attempts[r] # <<>> /\ Len(attempts[r]) \in Nat /\ n \in Nat /\ 0 < n
      /\ DOMAIN attempts[r] = 1 .. Len(attempts[r])
  BY AttemptFacts
<1>2. n = Len(attempts[r])
  BY <1>1 DEF RunShape
<1>3. current'[r] = 0 /\ \A q \in Runs : q # r => current'[q] = current[q]
  BY <1>1 DEF TypeOK
<1>4. RunShape(r)'
  BY <1>1, <1>2, <1>3 DEF RunShape, Active
<1>5. ASSUME NEW m \in DOMAIN attempts[r] PROVE AttemptShape(r, m)'
  <2>1. AttemptShape(r, m)
    BY <1>1
  <2>2. CASE m = n
    BY <1>1, <1>2, <2>1, <2>2
       DEF AttemptShape, LeftOpen, Open, Active, OpenStatuses, Released, Truthful
  <2>3. CASE m # n
    <3>1. Released(r, m) /\ m < Len(attempts[r])
      BY <1>1, <1>2, <2>1, <2>3 DEF AttemptShape
    <3> QED
      BY <1>1, <1>2, <2>1, <2>3, <3>1
         DEF AttemptShape, LeftOpen, Open, OpenStatuses, Active, Released, Truthful
  <2> QED
    BY <2>2, <2>3
<1>6. ASSUME NEW s \in scanned', s.run = r PROVE SnapshotTrue(s)'
  BY <1>6 DEF SnapshotTrue, Active
<1>7. /\ \A q \in Runs : \A m \in DOMAIN attempts[q] :
            q # r \/ m # n => attempts'[q][m] = attempts[q][m] /\ job'[q][m] = job[q][m]
      /\ \A q \in Runs : q # r => status'[q] = status[q] /\ current'[q] = current[q]
      /\ current'[r] \in {0, n}
  BY <1>3
<1> QED
  BY <1>4, <1>5, <1>6, <1>7, LocalStep

-----------------------------------------------------------------------------
(* One lemma for each action.                                              *)

\* mark_running keeps the fencing invariant.
LEMMA MarkRunningStep ==
    ASSUME FencingInv, TypeOK', NEW r \in Runs, NEW n \in DOMAIN attempts[r],
           NEW w \in Workers, MarkRunning(w, r, n)
    PROVE  FencingInv'
<1>1. Works(w, r, n) /\ LeaseHeld(r, n) /\ worker[w].step = "claimed" /\ TypeOK
  BY DEF MarkRunning, At, Works, Busy, FencingInv
<1>2. Active(r) /\ current[r] = n
  <2>1. current[r] = n /\ (Active(r) \/ status[r] \in {"unknown", "failed"})
    BY <1>1, HeldIsOpen
  <2>2. "running" \in RunStatuses
    BY DEF RunStatuses
  <2>3. status[r] \in {"queued", "accepted", "running"}
    BY <1>1, <2>2, TransitionEffect DEF MarkRunning
  <2> QED
    BY <2>1, <2>3
<1>3. WorkerShape(w) /\ attempts[r][n] \in Attempt
  BY <1>1, SoleWorker, AttemptFacts
<1>4. /\ \A q \in Runs : Len(attempts'[q]) = Len(attempts[q])
      /\ \A q \in Runs : DOMAIN attempts'[q] = DOMAIN attempts[q]
      /\ attempts'[r][n].status = "running"
      /\ attempts'[r][n].hermes = attempts[r][n].hermes
      /\ attempts'[r][n].lease = Spent(attempts[r][n].lease)
      /\ attempts'[r][n].late = attempts[r][n].late
      /\ \A q \in Runs : \A m \in DOMAIN attempts[q] :
            q # r \/ m # n => attempts'[q][m] = attempts[q][m]
  <2>1. /\ "running" \in AttemptStatuses
        /\ attempts[r][n].retry \in {"conditional", "safe", "unsafe"}
        /\ attempts[r][n].hermes \in BOOLEAN
    BY <1>3 DEF AttemptStatuses, OpenStatuses, Attempt
  <2> QED
    BY <1>1, <2>1, WriteEffect DEF MarkRunning, MarkAttempt
<1>5. status'[r] = "running" /\ \A q \in Runs : q # r => status'[q] = status[q]
  <2>1. "running" \in RunStatuses
    BY DEF RunStatuses
  <2> QED
    BY <1>1, <2>1, TransitionEffect DEF MarkRunning
<1>6. PICK step \in {"started", "simulating"} : Goto(w, step)
  BY DEF MarkRunning
<1>7. /\ Busy(w)' /\ worker'[w].step = step
      /\ worker'[w].run = r /\ worker'[w].no = n
  <2>1. step \in Steps /\ Busy(w)
    BY <1>1 DEF Steps, Works
  <2> QED
    BY <1>1, <1>6, <2>1, GotoEffect DEF Works
<1>8. UNCHANGED <<current, job, scanned>>
  BY DEF MarkRunning
<1>9. WorkerShape(w)'
  BY <1>1, <1>3, <1>4, <1>5, <1>7, <1>8 DEF WorkerShape, Works, Open, OpenStatuses, Active
<1>10. UNCHANGED worker \/ \E st \in Steps : Goto(w, st)
  BY <1>6 DEF Steps
<1>11. job[r][n] = "none" /\ attempts[r][n].lease # "expired"
  BY <1>1, <1>3 DEF WorkerShape, Works, LeaseHeld
<1> QED
  BY <1>1, <1>2, <1>4, <1>5, <1>8, <1>9, <1>10, <1>11, OpenStep

\* mark_external_starting keeps the fencing invariant.
LEMMA MarkExternalStartingStep ==
    ASSUME FencingInv, TypeOK', NEW r \in Runs, NEW n \in DOMAIN attempts[r],
           NEW w \in Workers, MarkExternalStarting(w, r, n)
    PROVE  FencingInv'
<1>1. Works(w, r, n) /\ LeaseHeld(r, n) /\ worker[w].step = "started" /\ TypeOK
  BY DEF MarkExternalStarting, At, Works, Busy, FencingInv
<1>2. /\ current[r] = n
      /\ \/ Open(r, n) /\ Active(r)
         \/ attempts[r][n].late /\ status[r] \in {"unknown", "failed"}
  BY <1>1, HeldIsOpen
<1>3. WorkerShape(w) /\ RunShape(r) /\ attempts[r][n] \in Attempt
  BY <1>1, SoleWorker, AttemptFacts
<1>4. /\ \A q \in Runs : Len(attempts'[q]) = Len(attempts[q])
      /\ \A q \in Runs : DOMAIN attempts'[q] = DOMAIN attempts[q]
      /\ attempts'[r][n].status = "external_starting"
      /\ attempts'[r][n].hermes = attempts[r][n].hermes
      /\ attempts'[r][n].lease = Spent(attempts[r][n].lease)
      /\ attempts'[r][n].late = attempts[r][n].late
      /\ \A q \in Runs : \A m \in DOMAIN attempts[q] :
            q # r \/ m # n => attempts'[q][m] = attempts[q][m]
  <2>1. /\ "external_starting" \in AttemptStatuses
        /\ attempts[r][n].retry \in {"conditional", "safe", "unsafe"}
        /\ attempts[r][n].hermes \in BOOLEAN
    BY <1>3 DEF AttemptStatuses, OpenStatuses, Attempt
  <2> QED
    BY <1>1, <2>1, WriteEffect DEF MarkExternalStarting, MarkAttempt
<1>5. UNCHANGED <<status, current, job, scanned>>
  BY DEF MarkExternalStarting, runVars
<1>6. /\ UNCHANGED worker \/ Goto(w, "intent")
      /\ Busy(w)' /\ worker'[w].step \in {"started", "intent"}
      /\ worker'[w].run = r /\ worker'[w].no = n
  <2>1. CASE Goto(w, "intent")
    <3>1. Busy(w) /\ "intent" \in Steps /\ worker[w].run = r /\ worker[w].no = n
      BY <1>1 DEF Works, Steps
    <3> QED
      BY <1>1, <2>1, <3>1, GotoEffect
  <2>2. CASE UNCHANGED worker
    BY <1>1, <2>2 DEF Works, Busy
  <2> QED
    BY <2>1, <2>2 DEF MarkExternalStarting
<1>7. \/ Active(r) /\ status'[r] = "running"
      \/ /\ attempts[r][n].late /\ status[r] \in {"unknown", "failed"}
         /\ status'[r] = status[r]
  BY <1>1, <1>2, <1>3, <1>5 DEF RunShape, WorkerShape, Works, Active
<1>8. WorkerShape(w)'
  BY <1>1, <1>3, <1>4, <1>5, <1>6, <1>7 DEF WorkerShape, Works, Open, OpenStatuses, Active
<1>9. UNCHANGED worker \/ \E step \in Steps : Goto(w, step)
  BY <1>6 DEF Steps
<1>10. attempts[r][n].lease # "expired"
  BY <1>1 DEF LeaseHeld
<1> QED
  BY <1>1, <1>2, <1>4, <1>5, <1>7, <1>8, <1>9, <1>10, OpenStep

\* set_hermes_run keeps the fencing invariant.
LEMMA SetHermesRunStep ==
    ASSUME FencingInv, TypeOK', NEW r \in Runs, NEW n \in DOMAIN attempts[r],
           NEW w \in Workers, SetHermesRun(w, r, n)
    PROVE  FencingInv'
<1>1. Works(w, r, n) /\ LeaseHeld(r, n) /\ worker[w].step = "posted" /\ TypeOK
  BY DEF SetHermesRun, At, Works, Busy, FencingInv
<1>2. /\ current[r] = n
      /\ \/ Open(r, n) /\ Active(r)
         \/ attempts[r][n].late /\ status[r] \in {"unknown", "failed"}
  BY <1>1, HeldIsOpen
<1>3. WorkerShape(w) /\ RunShape(r) /\ attempts[r][n] \in Attempt
  BY <1>1, SoleWorker, AttemptFacts
<1>4. /\ \A q \in Runs : Len(attempts'[q]) = Len(attempts[q])
      /\ \A q \in Runs : DOMAIN attempts'[q] = DOMAIN attempts[q]
      /\ attempts'[r][n].status = "running"
      /\ attempts'[r][n].hermes
      /\ attempts'[r][n].lease = Spent(attempts[r][n].lease)
      /\ attempts'[r][n].late = attempts[r][n].late
      /\ \A q \in Runs : \A m \in DOMAIN attempts[q] :
            q # r \/ m # n => attempts'[q][m] = attempts[q][m]
  <2>1. /\ "running" \in AttemptStatuses
        /\ attempts[r][n].retry \in {"conditional", "safe", "unsafe"}
    BY <1>3 DEF AttemptStatuses, OpenStatuses, Attempt
  <2> DEFINE recorded == TRUE
  <2>2. Write(r, n, "running", attempts[r][n].retry, recorded)
    BY DEF SetHermesRun
  <2>3. recorded \in BOOLEAN
    OBVIOUS
  <2>5. recorded
    OBVIOUS
  <2> HIDE DEF recorded
  <2>4. /\ \A q \in Runs : Len(attempts'[q]) = Len(attempts[q])
        /\ \A q \in Runs : DOMAIN attempts'[q] = DOMAIN attempts[q]
        /\ attempts'[r][n].status = "running"
        /\ attempts'[r][n].hermes = recorded
        /\ attempts'[r][n].lease = Spent(attempts[r][n].lease)
        /\ attempts'[r][n].late = attempts[r][n].late
        /\ \A q \in Runs : \A m \in DOMAIN attempts[q] :
              q # r \/ m # n => attempts'[q][m] = attempts[q][m]
    BY <1>1, <2>1, <2>2, <2>3, WriteEffect
  <2> QED
    BY <2>4, <2>5
<1>5. UNCHANGED <<status, current, job, scanned>>
  BY DEF SetHermesRun, runVars
<1>6. /\ UNCHANGED worker \/ Goto(w, "polling")
      /\ Busy(w)' /\ worker'[w].step \in {"posted", "polling"}
      /\ worker'[w].run = r /\ worker'[w].no = n
  <2>1. CASE Goto(w, "polling")
    <3>1. Busy(w) /\ "polling" \in Steps /\ worker[w].run = r /\ worker[w].no = n
      BY <1>1 DEF Works, Steps
    <3> QED
      BY <1>1, <2>1, <3>1, GotoEffect
  <2>2. CASE UNCHANGED worker
    BY <1>1, <2>2 DEF Works, Busy
  <2> QED
    BY <2>1, <2>2 DEF SetHermesRun
<1>7. \/ Active(r) /\ status'[r] = "running"
      \/ /\ attempts[r][n].late /\ status[r] \in {"unknown", "failed"}
         /\ status'[r] = status[r]
  BY <1>1, <1>2, <1>3, <1>5 DEF RunShape, WorkerShape, Works, Active
<1>8. WorkerShape(w)'
  BY <1>1, <1>3, <1>4, <1>5, <1>6, <1>7 DEF WorkerShape, Works, Open, OpenStatuses, Active
<1>9. UNCHANGED worker \/ \E step \in Steps : Goto(w, step)
  BY <1>6 DEF Steps
<1>10. attempts[r][n].lease # "expired"
  BY <1>1 DEF LeaseHeld
<1> QED
  BY <1>1, <1>2, <1>4, <1>5, <1>7, <1>8, <1>9, <1>10, OpenStep

\* A change of what Hermes does for one Attempt, where it matters to nobody
\* who could still call the Run over or start it again, or is lost track of.
LEMMA JobStep ==
    ASSUME FencingInv, TypeOK', NEW r \in Runs, NEW n \in DOMAIN attempts[r],
           UNCHANGED <<attempts, status, current, scanned>>,
           \A q \in Runs : \A m \in DOMAIN attempts[q] :
               q # r \/ m # n => job'[q][m] = job[q][m],
           \/ job'[r][n] = job[r][n]
           \/ /\ job[r][n] # "failed_safe"
              /\ ~attempts[r][n].late =>
                    /\ ~Released(r, n)
                    /\ status[r] \notin {"evidence_accepted", "failed", "cancelled"}
                    /\ \/ attempts[r][n].hermes
                       \/ attempts[r][n].status \in {"external_starting", "unknown"},
           \A v \in Workers : Busy(v)' => /\ Busy(v)
                                         /\ worker'[v].run = worker[v].run
                                         /\ worker'[v].no = worker[v].no,
           \A v \in Workers : ~Works(v, r, n) => worker'[v] = worker[v],
           \A v \in Workers : Works(v, r, n) => WorkerShape(v)'
    PROVE  FencingInv'
<1>1. /\ TypeOK /\ RunShape(r) /\ attempts[r][n] \in Attempt
      /\ \A m \in DOMAIN attempts[r] : AttemptShape(r, m)
  BY AttemptFacts
<1>2. RunShape(r)'
  BY <1>1 DEF RunShape, Active
<1>3. ASSUME NEW m \in DOMAIN attempts[r] PROVE AttemptShape(r, m)'
  <2>1. AttemptShape(r, m)
    BY <1>1
  <2>2. CASE m = n /\ job'[r][n] # job[r][n]
    <3>1. ~attempts[r][n].late => Truthful(r, n)'
      BY <2>1, <2>2 DEF AttemptShape, Truthful
    <3>2. Released(r, n) => Released(r, n)'
      BY <2>2 DEF Released
    <3> QED
      BY <2>1, <2>2, <3>1, <3>2 DEF AttemptShape, LeftOpen, Open, Active
  <2>3. CASE m # n \/ job'[r][n] = job[r][n]
    BY <2>1, <2>3 DEF AttemptShape, LeftOpen, Open, Active, Released, Truthful
  <2> QED
    BY <2>2, <2>3
<1>4. ASSUME NEW s \in scanned', s.run = r PROVE SnapshotTrue(s)'
  BY DEF FencingInv, SnapshotTrue, Active, External
<1>5. /\ \A q \in Runs : Len(attempts'[q]) = Len(attempts[q])
      /\ \A q \in Runs : DOMAIN attempts'[q] = DOMAIN attempts[q]
      /\ \A q \in Runs : \A m \in DOMAIN attempts[q] :
            q # r \/ m # n => attempts'[q][m] = attempts[q][m] /\ job'[q][m] = job[q][m]
      /\ \A q \in Runs : q # r => status'[q] = status[q] /\ current'[q] = current[q]
      /\ status'[r] = status[r] /\ current'[r] = current[r]
      /\ scanned' \subseteq scanned
  OBVIOUS
<1> QED
  BY <1>2, <1>3, <1>4, <1>5, LocalStep

\* The request to Hermes keeps the fencing invariant.
LEMMA PostHermesRunStep ==
    ASSUME FencingInv, TypeOK', NEW r \in Runs, NEW n \in DOMAIN attempts[r],
           NEW w \in Workers, PostHermesRun(w, r, n)
    PROVE  FencingInv'
<1>1. Works(w, r, n) /\ worker[w].step = "intent" /\ TypeOK /\ Busy(w)
  BY DEF PostHermesRun, At, Works, Busy, FencingInv
<1>2. WorkerShape(w) /\ AttemptShape(r, n) /\ RunShape(r)
  BY <1>1, SoleWorker, AttemptFacts
<1>3. /\ job[r][n] = "none"
      /\ ~attempts[r][n].late => attempts[r][n].status \in {"external_starting", "unknown"}
  BY <1>1, <1>2 DEF WorkerShape, Works
<1>4. ~attempts[r][n].late =>
          /\ ~Released(r, n)
          /\ status[r] \notin {"evidence_accepted", "failed", "cancelled"}
  BY <1>2, <1>3 DEF Released, AttemptShape, LeftOpen, Open, OpenStatuses, Active
<1>5. UNCHANGED <<attempts, status, current, scanned>>
  BY DEF PostHermesRun, runVars
<1>6. \A q \in Runs : \A m \in DOMAIN attempts[q] : q # r \/ m # n => job'[q][m] = job[q][m]
  <2>1. CASE SetJob(r, n, "running")
    <3>1. "running" \in JobStatuses
      BY DEF JobStatuses
    <3> QED
      BY <1>1, <2>1, <3>1, SetJobEffect
  <2>2. CASE job' = job
    BY <2>2
  <2> QED
    BY <2>1, <2>2 DEF PostHermesRun
<1>7. PICK step \in {"posted", "failing"} : Goto(w, step)
  BY DEF PostHermesRun
<1>8. /\ Busy(w)' /\ worker'[w].step = step
      /\ worker'[w].run = r /\ worker'[w].no = n
      /\ \E st \in Steps : Goto(w, st)
  <2>1. step \in Steps
    BY DEF Steps
  <2> QED
    BY <1>1, <1>7, <2>1, GotoEffect DEF Works
<1>9. WorkerShape(w)'
  BY <1>1, <1>2, <1>3, <1>5, <1>8 DEF WorkerShape, Works, Open, OpenStatuses, Active
<1>10. \A v \in Workers : Works(v, r, n) => WorkerShape(v)'
  BY <1>1, <1>9, SoleWorker
<1>11. /\ \A v \in Workers : ~Works(v, r, n) => worker'[v] = worker[v]
       /\ \A v \in Workers : Busy(v)' => /\ Busy(v)
                                     /\ worker'[v].run = worker[v].run
                                     /\ worker'[v].no = worker[v].no
  BY <1>1, <1>8, WorkerFrame
<1> QED
  BY <1>3, <1>4, <1>5, <1>6, <1>10, <1>11, JobStep

\* The stop request keeps the fencing invariant.
LEMMA StopHermesRunStep ==
    ASSUME FencingInv, TypeOK', NEW r \in Runs, NEW n \in DOMAIN attempts[r],
           NEW w \in Workers, StopHermesRun(w, r, n)
    PROVE  FencingInv'
<1>1. Works(w, r, n) /\ worker[w].step = "polling" /\ TypeOK /\ Busy(w)
  BY DEF StopHermesRun, At, Works, Busy, FencingInv
<1>2. WorkerShape(w) /\ AttemptShape(r, n) /\ RunShape(r) /\ job[r][n] \in JobStatuses
  BY <1>1, SoleWorker, AttemptFacts
<1>3. UNCHANGED <<attempts, status, current, scanned>>
  BY DEF StopHermesRun, runVars
<1> DEFINE to == IF job[r][n] = "running" THEN "stopping" ELSE job[r][n]
<1>4. PICK step \in {"stopping", "failing"} : Goto(w, step)
  BY DEF StopHermesRun
<1>5. /\ Busy(w)' /\ worker'[w].step = step
      /\ worker'[w].run = r /\ worker'[w].no = n
      /\ \E st \in Steps : Goto(w, st)
  <2>1. step \in Steps
    BY DEF Steps
  <2> QED
    BY <1>1, <1>4, <2>1, GotoEffect DEF Works
<1>6. /\ attempts[r][n].hermes /\ attempts[r][n].status # "claimed"
      /\ attempts'[r][n] = attempts[r][n]
  BY <1>1, <1>2, <1>3 DEF WorkerShape, Works
<1>7. WorkerShape(w)'
  BY <1>5, <1>6 DEF WorkerShape
<1>8. \A v \in Workers : Works(v, r, n) => WorkerShape(v)'
  BY <1>1, <1>7, SoleWorker
<1>9. /\ \A v \in Workers : ~Works(v, r, n) => worker'[v] = worker[v]
      /\ \A v \in Workers : Busy(v)' => /\ Busy(v)
                                    /\ worker'[v].run = worker[v].run
                                    /\ worker'[v].no = worker[v].no
  BY <1>1, <1>5, WorkerFrame
<1>10. /\ \A q \in Runs : \A m \in DOMAIN attempts[q] :
             q # r \/ m # n => job'[q][m] = job[q][m]
       /\ job'[r][n] \in {to, job[r][n]}
  <2>1. CASE SetJob(r, n, to)
    <3>1. to \in JobStatuses
      BY <1>2 DEF JobStatuses
    <3> HIDE DEF to
    <3> QED
      BY <1>1, <2>1, <3>1, SetJobEffect
  <2>2. CASE UNCHANGED job
    BY <2>2
  <2> QED
    BY <2>1, <2>2 DEF StopHermesRun
<1>11. CASE job[r][n] = "running"
  <2>1. ~attempts[r][n].late =>
            /\ ~Released(r, n)
            /\ status[r] \notin {"evidence_accepted", "failed", "cancelled"}
    BY <1>2, <1>11 DEF AttemptShape, Released, Truthful
  <2> QED
    BY <1>3, <1>6, <1>8, <1>9, <1>10, <2>1, JobStep
<1>12. CASE job[r][n] # "running"
  <2>1. job'[r][n] = job[r][n]
    BY <1>10, <1>12
  <2> QED
    BY <1>3, <1>8, <1>9, <1>10, <2>1, JobStep
<1> QED
  BY <1>11, <1>12

\* What the transactions that end an Attempt have in common.
LEMMA FinishEffect ==
    ASSUME FencingInv, NEW r \in Runs, NEW n \in DOMAIN attempts[r],
           NEW w \in Workers, Works(w, r, n), LeaseHeld(r, n),
           worker[w].step \in {"simulating", "polling", "stopping", "failing"},
           NEW to \in {"succeeded", "failed", "cancelled", "unknown"},
           NEW retry \in {"safe", "unsafe"}, CloseAttempt(r, n, to, retry),
           NEW final \in RunStatuses, Transition(r, final),
           EndOfAttempt(w), UNCHANGED <<job, scanned>>
    PROVE  /\ Active(r) /\ current[r] = n
           /\ \A q \in Runs : Len(attempts'[q]) = Len(attempts[q])
           /\ \A q \in Runs : DOMAIN attempts'[q] = DOMAIN attempts[q]
           /\ \A q \in Runs : \A m \in DOMAIN attempts[q] :
                 q # r \/ m # n => attempts'[q][m] = attempts[q][m]
           /\ attempts'[r][n].status = to
           /\ attempts'[r][n].hermes = attempts[r][n].hermes
           /\ attempts'[r][n].lease # "inflight"
           /\ attempts'[r][n].late = attempts[r][n].late
           /\ status'[r] = final
           /\ \A q \in Runs : q # r => status'[q] = status[q]
           /\ \A v \in Workers : Busy(v)' => /\ Busy(v)
                                         /\ worker'[v].run = worker[v].run
                                         /\ worker'[v].no = worker[v].no
           /\ \A v \in Workers : ~Works(v, r, n) => worker'[v] = worker[v]
           /\ \A v \in Workers : Works(v, r, n) => WorkerShape(v)'
           /\ worker[w].step \in {"polling", "stopping"} => attempts[r][n].hermes
           /\ worker[w].step = "simulating" => job[r][n] = "none"
           /\ job[r][n] # "none" => attempts[r][n].hermes \/ to = "unknown"
                                   \/ worker[w].step \in {"failing"}
           /\ job[r][n] \in JobStatuses
<1>1. /\ TypeOK /\ RunShape(r) /\ AttemptShape(r, n) /\ attempts[r][n] \in Attempt
      /\ n \in Nat /\ 0 < n /\ Busy(w) /\ WorkerShape(w)
      /\ job[r][n] \in JobStatuses
  BY AttemptFacts, SoleWorker DEF Works
<1>2. /\ status'[r] = final
      /\ \A q \in Runs : q # r => status'[q] = status[q]
      /\ status[r] \in {"queued", "accepted", "running"}
  BY <1>1, TransitionEffect
<1>3. Active(r) /\ current[r] = n
  BY <1>1, <1>2 DEF RunShape, LeaseHeld, Active
<1>4. /\ \A q \in Runs : Len(attempts'[q]) = Len(attempts[q])
      /\ \A q \in Runs : DOMAIN attempts'[q] = DOMAIN attempts[q]
      /\ attempts'[r][n].status = to
      /\ attempts'[r][n].hermes = attempts[r][n].hermes
      /\ attempts'[r][n].lease = Spent(attempts[r][n].lease)
      /\ attempts'[r][n].late = attempts[r][n].late
      /\ \A q \in Runs : \A m \in DOMAIN attempts[q] :
            q # r \/ m # n => attempts'[q][m] = attempts[q][m]
  <2>1. /\ to \in AttemptStatuses
        /\ retry \in {"conditional", "safe", "unsafe"}
        /\ attempts[r][n].hermes \in BOOLEAN
    BY <1>1 DEF AttemptStatuses, Attempt
  <2> QED
    BY <1>1, <2>1, WriteEffect DEF CloseAttempt
<1>5. attempts'[r][n].lease # "inflight"
  BY <1>4 DEF Spent
<1>6. /\ \A v \in Workers : v # w => worker'[v] = worker[v]
      /\ \A v \in Workers : Busy(v)' => /\ Busy(v)
                                    /\ worker'[v].run = worker[v].run
                                    /\ worker'[v].no = worker[v].no
  BY <1>1, WorkerFrame DEF EndOfAttempt
<1>7. \A v \in Workers : ~Works(v, r, n) => worker'[v] = worker[v]
  BY <1>6
<1>8. WorkerShape(w)'
  <2>1. CASE GoIdle(w)
    BY <1>1, <2>1, GoIdleEffect DEF WorkerShape
  <2>2. CASE UNCHANGED worker
    BY <1>1, <1>4, <2>2 DEF WorkerShape, Works
  <2> QED
    BY <2>1, <2>2 DEF EndOfAttempt
<1>9. \A v \in Workers : Works(v, r, n) => WorkerShape(v)'
  BY <1>8, SoleWorker
<1>10. /\ worker[w].step \in {"polling", "stopping"} => attempts[r][n].hermes
       /\ worker[w].step = "simulating" => job[r][n] = "none"
  BY <1>1 DEF WorkerShape, Works
<1> QED
  BY <1>1, <1>2, <1>3, <1>4, <1>5, <1>6, <1>7, <1>9, <1>10

\* finish_success keeps the fencing invariant.
LEMMA FinishSuccessStep ==
    ASSUME FencingInv, TypeOK', NEW r \in Runs, NEW n \in DOMAIN attempts[r],
           NEW w \in Workers, FinishSuccess(w, r, n)
    PROVE  FencingInv'
<1>1. /\ Works(w, r, n) /\ LeaseHeld(r, n) /\ worker[w].step \in {"polling", "stopping"}
      /\ job[r][n] = "completed"
  BY DEF FinishSuccess, Polled, At, Works, Busy
<1>2. "evidence_accepted" \in RunStatuses
  BY DEF RunStatuses, TerminalRunStatuses
<1>3. /\ CloseAttempt(r, n, "succeeded", "safe") /\ Transition(r, "evidence_accepted")
      /\ EndOfAttempt(w) /\ UNCHANGED <<current, job, scanned>>
  BY DEF FinishSuccess
<1> QED
  BY <1>1, <1>2, <1>3, FinishEffect, CloseStep

\* finish_failure_or_requeue keeps the fencing invariant.
LEMMA FinishFailureOrRequeueStep ==
    ASSUME FencingInv, TypeOK', NEW r \in Runs, NEW n \in DOMAIN attempts[r],
           NEW w \in Workers, FinishFailureOrRequeue(w, r, n)
    PROVE  FencingInv'
<1>1. /\ Works(w, r, n) /\ LeaseHeld(r, n) /\ worker[w].step \in {"polling", "stopping"}
      /\ job[r][n] \in {"failed_safe", "failed_unsafe"}
  BY DEF FinishFailureOrRequeue, Polled, At, Works, Busy
<1>2. "failed" \in RunStatuses /\ "queued" \in RunStatuses
  BY DEF RunStatuses, TerminalRunStatuses
<1> DEFINE retry == IF job[r][n] = "failed_safe" THEN "safe" ELSE "unsafe"
<1>3. /\ CloseAttempt(r, n, "failed", retry)
      /\ EndOfAttempt(w) /\ UNCHANGED <<job, scanned>>
  BY DEF FinishFailureOrRequeue
<1>4. retry \in {"safe", "unsafe"}
  OBVIOUS
<1> HIDE DEF retry
<1>5. CASE job[r][n] = "failed_safe" /\ n < MaxAttempts
  <2>1. Transition(r, "queued") /\ current' = [current EXCEPT ![r] = 0]
    BY <1>5 DEF FinishFailureOrRequeue
  <2>2. /\ Active(r) /\ current[r] = n
        /\ \A q \in Runs : Len(attempts'[q]) = Len(attempts[q])
        /\ \A q \in Runs : DOMAIN attempts'[q] = DOMAIN attempts[q]
        /\ \A q \in Runs : \A m \in DOMAIN attempts[q] :
              q # r \/ m # n => attempts'[q][m] = attempts[q][m]
        /\ attempts'[r][n].status = "failed"
        /\ attempts'[r][n].hermes = attempts[r][n].hermes
        /\ attempts'[r][n].lease # "inflight"
        /\ attempts'[r][n].late = attempts[r][n].late
        /\ status'[r] = "queued"
        /\ \A q \in Runs : q # r => status'[q] = status[q]
        /\ \A v \in Workers : Busy(v)' => /\ Busy(v)
                                      /\ worker'[v].run = worker[v].run
                                      /\ worker'[v].no = worker[v].no
        /\ \A v \in Workers : ~Works(v, r, n) => worker'[v] = worker[v]
        /\ \A v \in Workers : Works(v, r, n) => WorkerShape(v)'
        /\ attempts[r][n].hermes
    BY <1>1, <1>2, <1>3, <1>4, <2>1, FinishEffect
  <2>3. UNCHANGED job /\ scanned' \subseteq scanned
    BY <1>3
  <2> QED
    BY <1>5, <2>1, <2>2, <2>3, RequeueStep
<1>6. CASE ~(job[r][n] = "failed_safe" /\ n < MaxAttempts)
  <2>1. Transition(r, "failed") /\ UNCHANGED current
    BY <1>6 DEF FinishFailureOrRequeue
  <2> QED
    BY <1>1, <1>2, <1>3, <1>4, <2>1, FinishEffect, CloseStep
<1> QED
  BY <1>5, <1>6

\* finish_terminal(cancelled) keeps the fencing invariant.
LEMMA FinishCancelledStep ==
    ASSUME FencingInv, TypeOK', NEW r \in Runs, NEW n \in DOMAIN attempts[r],
           NEW w \in Workers, FinishCancelled(w, r, n)
    PROVE  FencingInv'
<1>1. /\ Works(w, r, n) /\ LeaseHeld(r, n) /\ worker[w].step \in {"polling", "stopping"}
      /\ job[r][n] = "cancelled"
  BY DEF FinishCancelled, Polled, At, Works, Busy
<1>2. "cancelled" \in RunStatuses
  BY DEF RunStatuses, TerminalRunStatuses
<1>3. /\ CloseAttempt(r, n, "cancelled", "unsafe") /\ Transition(r, "cancelled")
      /\ EndOfAttempt(w) /\ UNCHANGED <<current, job, scanned>>
  BY DEF FinishCancelled
<1> QED
  BY <1>1, <1>2, <1>3, FinishEffect, CloseStep

\* finish_terminal(unknown) keeps the fencing invariant.
LEMMA PersistUnknownStep ==
    ASSUME FencingInv, TypeOK', NEW r \in Runs, NEW n \in DOMAIN attempts[r],
           NEW w \in Workers, PersistUnknown(w, r, n)
    PROVE  FencingInv'
<1>1. Works(w, r, n) /\ LeaseHeld(r, n) /\ worker[w].step = "failing"
  BY DEF PersistUnknown, At, Works, Busy
<1>2. "unknown" \in RunStatuses
  BY DEF RunStatuses, TerminalRunStatuses
<1>3. /\ CloseAttempt(r, n, "unknown", "unsafe") /\ Transition(r, "unknown")
      /\ EndOfAttempt(w) /\ UNCHANGED <<current, job, scanned>>
  BY DEF PersistUnknown
<1> QED
  BY <1>1, <1>2, <1>3, FinishEffect, CloseStep

\* finish_simulated keeps the fencing invariant.
LEMMA FinishSimulatedStep ==
    ASSUME FencingInv, TypeOK', NEW r \in Runs, NEW n \in DOMAIN attempts[r],
           NEW w \in Workers, FinishSimulated(w, r, n)
    PROVE  FencingInv'
<1>1. Works(w, r, n) /\ LeaseHeld(r, n) /\ worker[w].step = "simulating"
  BY DEF FinishSimulated, At, Works, Busy
<1>2. "evidence_accepted" \in RunStatuses
  BY DEF RunStatuses, TerminalRunStatuses
<1>3. /\ CloseAttempt(r, n, "succeeded", "safe") /\ Transition(r, "evidence_accepted")
      /\ EndOfAttempt(w) /\ UNCHANGED <<current, job, scanned>>
  BY DEF FinishSimulated
<1> QED
  BY <1>1, <1>2, <1>3, FinishEffect, CloseStep

\* Steps that only move a Worker, or renew or use up the lease of a late one,
\* keep the fencing invariant.
LEMMA WorkerOnlyStep ==
    ASSUME FencingInv, TypeOK', NEW r \in Runs, NEW n \in DOMAIN attempts[r],
           NEW w \in Workers,
           ExecutionRaises(w, r, n) \/ Abandon(w, r, n) \/ WorkerCrash(w, r, n)
               \/ Heartbeat(w, r, n)
    PROVE  FencingInv'
<1>1. /\ TypeOK /\ RunShape(r) /\ attempts[r][n] \in Attempt
      /\ \A m \in DOMAIN attempts[r] : AttemptShape(r, m)
  BY AttemptFacts
<1>2. attempts[r][n].lease = "inflight" => attempts[r][n].late
  BY <1>1 DEF AttemptShape
<1>4. Works(w, r, n) /\ Busy(w) /\ WorkerShape(w)
  BY SoleWorker DEF ExecutionRaises, Abandon, WorkerCrash, Heartbeat, At, Works, Busy
<1>5. UNCHANGED <<status, current, job, scanned>>
  BY DEF ExecutionRaises, Abandon, WorkerCrash, Heartbeat, runVars
<1> DEFINE Kept ==
      /\ \A q \in Runs : Len(attempts'[q]) = Len(attempts[q])
      /\ \A q \in Runs : DOMAIN attempts'[q] = DOMAIN attempts[q]
      /\ \A q \in Runs : \A m \in DOMAIN attempts[q] :
            /\ q # r \/ m # n => attempts'[q][m] = attempts[q][m]
            /\ attempts'[q][m].status = attempts[q][m].status
            /\ attempts'[q][m].hermes = attempts[q][m].hermes
            /\ attempts'[q][m].late = attempts[q][m].late
            /\ \/ attempts'[q][m].lease = attempts[q][m].lease
               \/ q = r /\ m = n /\ attempts[r][n].late /\ attempts'[r][n].lease # "inflight"
<1>6. Kept
  <2>1. CASE UNCHANGED attempts
    BY <2>1
  <2>2. ASSUME NEW to \in {"valid", "expired"}, SetLease(r, n, to),
               to = attempts[r][n].lease \/ attempts[r][n].late
        PROVE  Kept
    <3>1. /\ \A q \in Runs : Len(attempts'[q]) = Len(attempts[q])
          /\ \A q \in Runs : DOMAIN attempts'[q] = DOMAIN attempts[q]
          /\ attempts'[r][n].status = attempts[r][n].status
          /\ attempts'[r][n].hermes = attempts[r][n].hermes
          /\ attempts'[r][n].late = attempts[r][n].late
          /\ attempts'[r][n].lease = to
          /\ \A q \in Runs : \A m \in DOMAIN attempts[q] :
                q # r \/ m # n => attempts'[q][m] = attempts[q][m]
      BY <1>1, <2>2, SetLeaseEffect
    <3> QED
      BY <2>2, <3>1
  <2>3. CASE WorkerCrash(w, r, n)
    <3>1. PICK to : to = Spent(attempts[r][n].lease)
      OBVIOUS
    <3>2. /\ to \in {"valid", "expired"} /\ SetLease(r, n, to)
          /\ to = attempts[r][n].lease \/ attempts[r][n].late
      BY <1>1, <1>2, <2>3, <3>1 DEF WorkerCrash, Spent, Attempt
    <3> QED
      BY <2>2, <3>2
  <2>4. CASE Heartbeat(w, r, n)
    <3>1. PICK to \in {"valid", "expired"} : SetLease(r, n, to)
      BY <2>4 DEF Heartbeat
    <3>2. attempts[r][n].late
      BY <1>2, <2>4 DEF Heartbeat
    <3> QED
      BY <2>2, <3>1, <3>2
  <2> QED
    BY <2>1, <2>3, <2>4 DEF ExecutionRaises, Abandon
<1>7. \/ GoIdle(w) \/ UNCHANGED worker
      \/ Goto(w, "failing") /\ worker[w].step # "claimed"
  BY DEF ExecutionRaises, Abandon, WorkerCrash, Heartbeat, At
<1>8. GoIdle(w) \/ UNCHANGED worker \/ \E step \in Steps : Goto(w, step)
  BY <1>7 DEF Steps
<1>9. RunShape(r)'
  <2>1. Active(r) => current[r] \in DOMAIN attempts[r]
    BY <1>1, AttemptFacts DEF RunShape
  <2>2. attempts[r] # <<>> /\ status[r] # "none"
    BY <1>1, AttemptFacts DEF RunShape
  <2> QED
    BY <1>1, <1>5, <1>6, <2>1, <2>2 DEF RunShape, Active
<1>10. ASSUME NEW m \in DOMAIN attempts[r] PROVE AttemptShape(r, m)'
  <2>1. AttemptShape(r, m)
    BY <1>1
  <2> QED
    BY <1>5, <1>6, <2>1 DEF AttemptShape, LeftOpen, Open, Active, Released, Truthful
<1>11. WorkerShape(w)'
  <2>1. CASE GoIdle(w)
    BY <1>1, <2>1, GoIdleEffect DEF WorkerShape
  <2>2. CASE Goto(w, "failing") /\ worker[w].step # "claimed"
    <3>1. /\ worker'[w].step = "failing"
          /\ worker'[w].run = r /\ worker'[w].no = n
      BY <1>1, <1>4, <2>2, GotoEffect DEF Steps, Works
    <3>2. attempts[r][n].status # "claimed"
      BY <1>4, <2>2 DEF WorkerShape, Works
    <3> QED
      BY <1>6, <3>1, <3>2 DEF WorkerShape
  <2>3. CASE UNCHANGED worker
    BY <1>4, <1>5, <1>6, <2>3 DEF WorkerShape, Works, Busy, Open, Active
  <2> QED
    BY <1>7, <2>1, <2>2, <2>3
<1>12. ASSUME NEW s \in scanned, s.run = r PROVE SnapshotTrue(s)'
  <2>1. SnapshotTrue(s) /\ s.no \in DOMAIN attempts[r]
    BY <1>1, <1>12 DEF FencingInv, TypeOK
  <2> QED
    BY <1>5, <1>6, <1>12, <2>1 DEF SnapshotTrue, Active, External
<1>13. /\ \A q \in Runs : \A m \in DOMAIN attempts[q] :
             q # r \/ m # n => attempts'[q][m] = attempts[q][m]
       /\ \A q \in Runs : \A m \in DOMAIN attempts[q] :
             q # r \/ m # n => job'[q][m] = job[q][m]
       /\ \A q \in Runs : q # r => status'[q] = status[q]
       /\ \A q \in Runs : q # r => current'[q] = current[q]
       /\ scanned' = scanned
       /\ current'[r] = current[r] /\ status'[r] = status[r]
  BY <1>5, <1>6
<1> QED
  BY <1>4, <1>6, <1>8, <1>9, <1>10, <1>11, <1>12, <1>13, WorkerTurn

\* The end of a lease keeps the fencing invariant, under a transaction of the
\* Worker or not.
LEMMA LeaseExpiresStep ==
    ASSUME FencingInv, TypeOK', NEW r \in Runs, NEW n \in DOMAIN attempts[r],
           LeaseExpires(r, n)
    PROVE  FencingInv'
<1>1. /\ TypeOK /\ RunShape(r) /\ attempts[r][n] \in Attempt
      /\ \A m \in DOMAIN attempts[r] : AttemptShape(r, m)
  BY AttemptFacts
<1>2. /\ Open(r, n) /\ current[r] = n
      /\ Active(r) \/ attempts[r][n].late
      /\ attempts[r][n].lease = "valid"
  BY <1>1 DEF LeaseExpires, AttemptShape, LeftOpen
<1>3. /\ \A q \in Runs : Len(attempts'[q]) = Len(attempts[q])
      /\ \A q \in Runs : DOMAIN attempts'[q] = DOMAIN attempts[q]
      /\ attempts'[r][n].status = attempts[r][n].status
      /\ attempts'[r][n].hermes = attempts[r][n].hermes
      /\ \/ attempts'[r][n].lease = "expired" /\ attempts'[r][n].late = attempts[r][n].late
         \/ attempts'[r][n].lease = "inflight" /\ attempts'[r][n].late = TRUE
      /\ \A q \in Runs : \A m \in DOMAIN attempts[q] :
            q # r \/ m # n => attempts'[q][m] = attempts[q][m]
  BY <1>1, LapseEffect
<1>4. UNCHANGED <<status, current, job, worker, scanned>>
  BY DEF LeaseExpires, runVars
<1>5. RunShape(r)'
  BY <1>1, <1>2, <1>3, <1>4 DEF RunShape, Active
<1>6. ASSUME NEW m \in DOMAIN attempts[r] PROVE AttemptShape(r, m)'
  <2>1. AttemptShape(r, m)
    BY <1>1
  <2>2. CASE m = n
    BY <1>1, <1>2, <1>3, <1>4, <2>1, <2>2
       DEF AttemptShape, LeftOpen, Open, Active, OpenStatuses, Released, Truthful
  <2>3. CASE m # n
    BY <1>3, <1>4, <2>1, <2>3 DEF AttemptShape, LeftOpen, Open, Active, Released, Truthful
  <2> QED
    BY <2>2, <2>3
<1>7. ASSUME NEW v \in Workers, Works(v, r, n) PROVE WorkerShape(v)'
  <2>1. WorkerShape(v)
    BY DEF FencingInv
  <2> QED
    BY <1>3, <1>4, <1>7, <2>1 DEF WorkerShape, Works, Busy, Open, Active
<1>8. ASSUME NEW s \in scanned', s.run = r PROVE SnapshotTrue(s)'
  <2>1. s.no # n \/ attempts'[r][n].late
    BY <1>2, <1>3, <1>4, <1>8, ValidIsUnscanned
  <2> QED
    BY <1>2, <1>3, <1>4, <1>8, <2>1 DEF SnapshotTrue
<1>9. /\ \A q \in Runs : \A m \in DOMAIN attempts[q] :
            q # r \/ m # n => attempts'[q][m] = attempts[q][m] /\ job'[q][m] = job[q][m]
      /\ \A q \in Runs : q # r => status'[q] = status[q] /\ current'[q] = current[q]
      /\ status'[r] = status[r] /\ current'[r] = current[r]
      /\ scanned' \subseteq scanned
      /\ \A v \in Workers : Busy(v)' => /\ Busy(v)
                                    /\ worker'[v].run = worker[v].run
                                    /\ worker'[v].no = worker[v].no
      /\ \A v \in Workers : ~Works(v, r, n) => worker'[v] = worker[v]
  BY <1>3, <1>4 DEF Busy
<1> QED
  BY <1>3, <1>5, <1>6, <1>7, <1>8, <1>9, LocalStep

\* The scan reads rows that only a late Worker can change behind its back.
LEMMA RecoveryScanStep ==
    ASSUME FencingInv, TypeOK', NEW r \in Runs, NEW n \in DOMAIN attempts[r],
           RecoveryScan(r, n)
    PROVE  FencingInv'
<1>0. PICK s : s = [run |-> r, no |-> n, external |-> External(r, n)]
  OBVIOUS
<1>1. /\ UNCHANGED <<mode, status, current, attempts, job, worker>>
      /\ scanned' = scanned \cup {s}
  BY <1>0 DEF RecoveryScan, runVars
<1>2. s.run = r /\ s.no = n /\ s.external = External(r, n)
  BY <1>0
<1>3. attempts[r][n].lease = "expired" \/ attempts[r][n].late
  <2>1. attempts[r][n] \in Attempt /\ AttemptShape(r, n)
    BY AttemptFacts
  <2> QED
    BY <2>1 DEF RecoveryScan, AttemptShape, Attempt
<1>4. SnapshotTrue(s)'
  BY <1>1, <1>2, <1>3 DEF SnapshotTrue, External
<1>5. \A t \in scanned : SnapshotTrue(t)'
  BY <1>1 DEF FencingInv, SnapshotTrue, External, Active
<1>6. \A q \in Runs : RunShape(q)'
  BY <1>1 DEF FencingInv, RunShape, Active
<1>7. \A q \in Runs : \A m \in DOMAIN attempts'[q] : AttemptShape(q, m)'
  BY <1>1 DEF FencingInv, AttemptShape, LeftOpen, Active, Open, Released, Truthful
<1>8. \A v \in Workers : WorkerShape(v)'
  BY <1>1 DEF FencingInv, WorkerShape, Busy, Open, Active
<1>9. OneOwner'
  BY <1>1 DEF FencingInv, OneOwner, Busy
<1> QED
  BY <1>1, <1>4, <1>5, <1>6, <1>7, <1>8, <1>9 DEF FencingInv

\* Recovery of one row keeps the fencing invariant.
LEMMA RecoverAttemptStep ==
    ASSUME FencingInv, TypeOK', NEW s \in scanned, RecoverAttempt(s)
    PROVE  FencingInv'
<1> DEFINE r == s.run  n == s.no
<1>1. TypeOK /\ r \in Runs /\ n \in DOMAIN attempts[r]
  BY DEF FencingInv, TypeOK, Snapshot
<1>2. /\ RunShape(r) /\ attempts[r][n] \in Attempt /\ job[r][n] \in JobStatuses
      /\ \A m \in DOMAIN attempts[r] : AttemptShape(r, m)
      /\ n \in Nat
  BY <1>1, AttemptFacts
<1>3. UNCHANGED <<job, worker>> /\ scanned' \subseteq scanned
  BY DEF RecoverAttempt
<1>4. /\ \A v \in Workers : Busy(v)' => /\ Busy(v)
                                    /\ worker'[v].run = worker[v].run
                                    /\ worker'[v].no = worker[v].no
      /\ \A v \in Workers : ~Works(v, r, n) => worker'[v] = worker[v]
  BY <1>3 DEF Busy
<1>5. CASE current[r] # n \/ ~Active(r)
  <2>1. UNCHANGED <<status, current, attempts>>
    BY <1>5 DEF RecoverAttempt, runVars
  <2>2. \A q \in Runs : RunShape(q)'
    BY <2>1 DEF FencingInv, RunShape, Active
  <2>3. \A q \in Runs : \A m \in DOMAIN attempts'[q] : AttemptShape(q, m)'
    BY <1>3, <2>1 DEF FencingInv, AttemptShape, LeftOpen, Active, Open, Released, Truthful
  <2>4. \A v \in Workers : WorkerShape(v)'
    BY <1>3, <2>1 DEF FencingInv, WorkerShape, Busy, Open, Active
  <2>5. OneOwner'
    BY <1>3 DEF FencingInv, OneOwner, Busy
  <2>6. \A t \in scanned' : SnapshotTrue(t)'
    BY <1>3, <2>1 DEF FencingInv, SnapshotTrue, External, Active
  <2> QED
    BY <2>2, <2>3, <2>4, <2>5, <2>6 DEF FencingInv
<1>6. CASE current[r] = n /\ Active(r)
  <2>1. \/ attempts[r][n].late
        \/ attempts[r][n].lease = "expired" /\ s.external = External(r, n)
    BY <1>6 DEF FencingInv, SnapshotTrue
  <2>0. attempts[r][n].lease = "inflight" => attempts[r][n].late
    BY <1>1, <1>2 DEF AttemptShape
  <2>2. Open(r, n)
    BY <1>1, <1>2, <1>6 DEF RunShape, Active, Open, OpenStatuses
  <2>3. ASSUME NEW to \in {"unknown", "lost", "failed"}, NEW retry \in {"safe", "unsafe"},
               Recover(r, n, to, retry)
        PROVE  /\ \A q \in Runs : Len(attempts'[q]) = Len(attempts[q])
               /\ \A q \in Runs : DOMAIN attempts'[q] = DOMAIN attempts[q]
               /\ \A q \in Runs : \A m \in DOMAIN attempts[q] :
                     q # r \/ m # n => attempts'[q][m] = attempts[q][m]
               /\ attempts'[r][n].status = to
               /\ attempts'[r][n].hermes = attempts[r][n].hermes
               /\ attempts'[r][n].lease = attempts[r][n].lease
               /\ attempts'[r][n].late = attempts[r][n].late
    <3>1. to \in AttemptStatuses /\ retry \in {"conditional", "safe", "unsafe"}
      BY DEF AttemptStatuses
    <3> HIDE DEF r, n
    <3> QED
      BY <1>1, <2>3, <3>1, RecoverEffect
  <2>4. ASSUME NEW final \in {"unknown", "queued", "failed"}, Transition(r, final)
        PROVE  status'[r] = final /\ \A q \in Runs : q # r => status'[q] = status[q]
    <3>1. final \in RunStatuses
      BY DEF RunStatuses, TerminalRunStatuses
    <3> HIDE DEF r, n
    <3> QED
      BY <1>1, <2>4, <3>1, TransitionEffect
  <2>5. CASE s.external
    <3>1. Recover(r, n, "unknown", "unsafe") /\ Transition(r, "unknown") /\ UNCHANGED current
      BY <1>6, <2>5 DEF RecoverAttempt
    <3> HIDE DEF r, n
    <3>2. /\ \A q \in Runs : Len(attempts'[q]) = Len(attempts[q])
          /\ \A q \in Runs : DOMAIN attempts'[q] = DOMAIN attempts[q]
          /\ \A q \in Runs : \A m \in DOMAIN attempts[q] :
                q # r \/ m # n => attempts'[q][m] = attempts[q][m]
          /\ attempts'[r][n].status = "unknown"
          /\ attempts'[r][n].hermes = attempts[r][n].hermes
          /\ attempts'[r][n].lease = attempts[r][n].lease
          /\ attempts'[r][n].late = attempts[r][n].late
          /\ status'[r] = "unknown"
          /\ \A q \in Runs : q # r => status'[q] = status[q]
      BY <2>3, <2>4, <3>1
    <3>3. ASSUME NEW v \in Workers, Works(v, r, n) PROVE WorkerShape(v)'
      <4>1. WorkerShape(v)
        BY DEF FencingInv
      <4> QED
        BY <1>3, <2>1, <3>2, <3>3, <4>1 DEF WorkerShape, Works, Busy
    <3> QED
      BY <1>1, <1>3, <1>4, <1>6, <2>0, <3>1, <3>2, <3>3, CloseStep
  <2>6. CASE ~s.external
    <3> HIDE DEF r, n
    <3>1. \/ attempts[r][n].late
          \/ /\ job[r][n] = "none"
             /\ attempts[r][n].status \notin {"external_starting", "unknown"}
      BY <1>1, <1>2, <2>1, <2>2, <2>6
         DEF External, AttemptShape, Attempt, Open, OpenStatuses
    <3>2. ASSUME NEW v \in Workers, Works(v, r, n),
                 attempts'[r][n].status \in {"lost", "failed"},
                 attempts'[r][n].hermes = attempts[r][n].hermes,
                 attempts'[r][n].lease = attempts[r][n].lease,
                 attempts'[r][n].late = attempts[r][n].late,
                 current'[r] = 0 \/ status'[r] = "failed"
          PROVE  WorkerShape(v)'
      <4>1. WorkerShape(v)
        BY DEF FencingInv
      <4>2. n # 0
        BY <1>1, RowTypes
      <4> QED
        BY <1>2, <1>3, <2>1, <2>2, <3>1, <3>2, <4>1, <4>2 DEF WorkerShape, Works, Busy
    <3>3. CASE n < MaxAttempts
      <4>1. /\ Recover(r, n, "lost", "safe") /\ Transition(r, "queued")
            /\ current' = [current EXCEPT ![r] = 0]
        BY <1>6, <2>6, <3>3, <1>2, MaxAttemptsAssumption DEF RecoverAttempt, r, n
      <4>2. /\ \A q \in Runs : Len(attempts'[q]) = Len(attempts[q])
            /\ \A q \in Runs : DOMAIN attempts'[q] = DOMAIN attempts[q]
            /\ \A q \in Runs : \A m \in DOMAIN attempts[q] :
                  q # r \/ m # n => attempts'[q][m] = attempts[q][m]
            /\ attempts'[r][n].status = "lost"
            /\ attempts'[r][n].hermes = attempts[r][n].hermes
            /\ attempts'[r][n].lease = attempts[r][n].lease
            /\ attempts'[r][n].late = attempts[r][n].late
            /\ status'[r] = "queued"
            /\ \A q \in Runs : q # r => status'[q] = status[q]
        BY <2>3, <2>4, <4>1
      <4>4. current'[r] = 0 \/ status'[r] = "failed"
        BY <1>1, <4>1, <4>2 DEF TypeOK
      <4>3. \A v \in Workers : Works(v, r, n) => WorkerShape(v)'
        BY <3>2, <4>2, <4>4
      <4> QED
        BY <1>1, <1>3, <1>4, <1>6, <2>0, <3>1, <3>3, <4>1, <4>2, <4>3, RequeueStep
    <3>4. CASE ~(n < MaxAttempts)
      <4>1. Recover(r, n, "failed", "unsafe") /\ Transition(r, "failed") /\ UNCHANGED current
        BY <1>6, <2>6, <3>4, <1>2, MaxAttemptsAssumption DEF RecoverAttempt, r, n
      <4>2. /\ \A q \in Runs : Len(attempts'[q]) = Len(attempts[q])
            /\ \A q \in Runs : DOMAIN attempts'[q] = DOMAIN attempts[q]
            /\ \A q \in Runs : \A m \in DOMAIN attempts[q] :
                  q # r \/ m # n => attempts'[q][m] = attempts[q][m]
            /\ attempts'[r][n].status = "failed"
            /\ attempts'[r][n].hermes = attempts[r][n].hermes
            /\ attempts'[r][n].lease = attempts[r][n].lease
            /\ attempts'[r][n].late = attempts[r][n].late
            /\ status'[r] = "failed"
            /\ \A q \in Runs : q # r => status'[q] = status[q]
        BY <2>3, <2>4, <4>1
      <4>4. current'[r] = 0 \/ status'[r] = "failed"
        BY <1>1, <4>1, <4>2 DEF TypeOK
      <4>3. \A v \in Workers : Works(v, r, n) => WorkerShape(v)'
        BY <3>2, <4>2, <4>4
      <4> QED
        BY <1>1, <1>3, <1>4, <1>6, <2>0, <3>1, <4>1, <4>2, <4>3, CloseStep
    <3> QED
      BY <3>3, <3>4
  <2> QED
    BY <2>5, <2>6
<1> QED
  BY <1>5, <1>6

\* Hermes ends what it was given: the Run is not yet called over by anyone who
\* has not lost track of it.
LEMMA HermesEndsStep ==
    ASSUME FencingInv, TypeOK', NEW r \in Runs, NEW n \in DOMAIN attempts[r],
           NEW to \in {"completed", "failed_safe", "failed_unsafe", "cancelled"},
           HermesEnds(r, n, to)
    PROVE  FencingInv'
<1>1. TypeOK /\ AttemptShape(r, n)
  BY AttemptFacts
<1>2. /\ UNCHANGED <<status, current, attempts, worker, scanned>>
      /\ job[r][n] \in {"running", "stopping"}
  BY DEF HermesEnds, runVars
<1>3. ~attempts[r][n].late =>
          /\ ~Released(r, n) /\ status[r] \notin {"evidence_accepted", "failed", "cancelled"}
          /\ attempts[r][n].hermes \/ attempts[r][n].status \in {"external_starting", "unknown"}
  BY <1>1, <1>2 DEF AttemptShape, Released, Truthful
<1>4. \A q \in Runs : \A m \in DOMAIN attempts[q] : q # r \/ m # n => job'[q][m] = job[q][m]
  <2>1. to \in JobStatuses
    BY DEF JobStatuses
  <2> QED
    BY <1>1, <2>1, SetJobEffect DEF HermesEnds
<1>5. ASSUME NEW v \in Workers, Works(v, r, n) PROVE WorkerShape(v)'
  <2>1. WorkerShape(v)
    BY DEF FencingInv
  <2> QED
    BY <1>2, <1>5, <2>1 DEF WorkerShape, Works, Busy, Open, Active
<1>6. /\ \A v \in Workers : Busy(v)' => /\ Busy(v)
                                    /\ worker'[v].run = worker[v].run
                                    /\ worker'[v].no = worker[v].no
      /\ \A v \in Workers : ~Works(v, r, n) => worker'[v] = worker[v]
  BY <1>2 DEF Busy
<1> QED
  BY <1>2, <1>3, <1>4, <1>5, <1>6, JobStep

\* Steps on the Run alone, which leave it without an active Attempt.
LEMMA RunOnlyStep ==
    ASSUME FencingInv, TypeOK', NEW r \in Runs,
           UNCHANGED <<current, attempts, job, worker, scanned>>,
           \A q \in Runs : q # r => status'[q] = status[q],
           ~Active(r)',
           ~Active(r) /\ status[r] \notin {"unknown", "failed"},
           RunShape(r)',
           \A m \in DOMAIN attempts[r] : AttemptShape(r, m)'
    PROVE  FencingInv'
<1>1. ASSUME NEW q \in Runs PROVE RunShape(q)'
  BY DEF FencingInv, RunShape, Active
<1>2. ASSUME NEW q \in Runs, NEW m \in DOMAIN attempts'[q] PROVE AttemptShape(q, m)'
  BY DEF FencingInv, AttemptShape, LeftOpen, Active, Open, Released, Truthful
<1>3. ASSUME NEW v \in Workers PROVE WorkerShape(v)'
  <2>1. WorkerShape(v) /\ (Busy(v) => worker[v].run \in Runs)
    BY DEF FencingInv, TypeOK, Busy, Idle, Assignment
  <2> QED
    BY <2>1 DEF WorkerShape, Busy, Open, Active
<1>4. OneOwner'
  BY DEF FencingInv, OneOwner, Busy
<1>5. ASSUME NEW t \in scanned' PROVE SnapshotTrue(t)'
  <2>1. t.run \in Runs /\ SnapshotTrue(t)
    BY DEF FencingInv, TypeOK, Snapshot
  <2> QED
    BY <2>1 DEF SnapshotTrue, External, Active
<1> QED
  BY <1>1, <1>2, <1>3, <1>4, <1>5 DEF FencingInv

\* A new Run keeps the fencing invariant.
LEMMA CreateRunStep ==
    ASSUME FencingInv, TypeOK', NEW r \in Runs, NEW m \in Modes, CreateRun(r, m)
    PROVE  FencingInv'
<1>1. TypeOK /\ RunShape(r)
  BY DEF FencingInv
<1>2. /\ UNCHANGED <<current, attempts, job, worker, scanned>>
      /\ status[r] = "none" /\ status'[r] = "queued"
      /\ \A q \in Runs : q # r => status'[q] = status[q]
  BY <1>1 DEF CreateRun, TypeOK
<1>3. attempts[r] = << >> /\ current[r] = 0 /\ Len(attempts[r]) = 0
  BY <1>1, <1>2 DEF RunShape
<1>4. RunShape(r)'
  BY <1>2, <1>3, MaxAttemptsAssumption DEF RunShape, Active
<1>5. DOMAIN attempts[r] = {}
  BY <1>3
<1>6. ~Active(r)' /\ ~Active(r) /\ status[r] \notin {"unknown", "failed"}
  BY <1>2 DEF Active
<1> QED
  BY <1>2, <1>4, <1>5, <1>6, RunOnlyStep

\* A request to cancel keeps the fencing invariant.
LEMMA RequestCancellationStep ==
    ASSUME FencingInv, TypeOK', NEW r \in Runs, RequestCancellation(r)
    PROVE  FencingInv'
<1>1. TypeOK /\ RunShape(r)
  BY DEF FencingInv
<1>2. UNCHANGED <<current, attempts, job, worker, scanned>>
  BY DEF RequestCancellation
<1>3. CASE status[r] = "queued"
  <2>1. status'[r] = "cancelled" /\ \A q \in Runs : q # r => status'[q] = status[q]
    <3>1. "cancelled" \in RunStatuses
      BY DEF RunStatuses, TerminalRunStatuses
    <3> QED
      BY <1>1, <1>3, <3>1, TransitionEffect DEF RequestCancellation
  <2>2. RunShape(r)'
    BY <1>1, <1>2, <1>3, <2>1 DEF RunShape, Active
  <2>3. ASSUME NEW m \in DOMAIN attempts[r] PROVE AttemptShape(r, m)'
    <3>1. AttemptShape(r, m) /\ Released(r, m)
      BY <1>3 DEF FencingInv, AttemptShape
    <3> QED
      BY <1>2, <2>1, <3>1 DEF AttemptShape, LeftOpen, Open, OpenStatuses, Active, Released, Truthful
  <2>4. ~Active(r)' /\ ~Active(r) /\ status[r] \notin {"unknown", "failed"}
    BY <1>3, <2>1 DEF Active
  <2> QED
    BY <1>2, <2>1, <2>2, <2>3, <2>4, RunOnlyStep
<1>4. CASE status[r] # "queued"
  <2>1. UNCHANGED status
    BY <1>4 DEF RequestCancellation
  <2>2. \A q \in Runs : RunShape(q)'
    BY <1>2, <2>1 DEF FencingInv, RunShape, Active
  <2>3. \A q \in Runs : \A m \in DOMAIN attempts'[q] : AttemptShape(q, m)'
    BY <1>2, <2>1 DEF FencingInv, AttemptShape, LeftOpen, Active, Open, Released, Truthful
  <2>4. \A v \in Workers : WorkerShape(v)'
    BY <1>2, <2>1 DEF FencingInv, WorkerShape, Busy, Open, Active
  <2>5. OneOwner'
    BY <1>2 DEF FencingInv, OneOwner, Busy
  <2>6. \A t \in scanned' : SnapshotTrue(t)'
    BY <1>2, <2>1 DEF FencingInv, SnapshotTrue, External, Active
  <2> QED
    BY <2>2, <2>3, <2>4, <2>5, <2>6 DEF FencingInv
<1> QED
  BY <1>3, <1>4

\* The claim keeps the fencing invariant: all earlier Attempts are released,
\* and nobody works on, or has scanned, the new one.
LEMMA ClaimNextRunStep ==
    ASSUME FencingInv, TypeOK', NEW r \in Runs, NEW w \in Workers, ClaimNextRun(w, r)
    PROVE  FencingInv'
<1> DEFINE k == Len(attempts[r]) + 1
<1>1. TypeOK /\ RunShape(r)
  BY DEF FencingInv
<1>2. /\ \A q \in Runs : q # r => attempts'[q] = attempts[q] /\ job'[q] = job[q]
      /\ Len(attempts[r]) \in Nat
      /\ Len(attempts'[r]) = k
      /\ DOMAIN attempts[r] = 1 .. Len(attempts[r])
      /\ DOMAIN attempts'[r] = 1 .. k
      /\ attempts'[r][k] = [status |-> "claimed", hermes |-> FALSE,
                            retry |-> "conditional", lease |-> "valid", late |-> FALSE]
      /\ job'[r][k] = "none"
      /\ \A m \in DOMAIN attempts[r] : /\ attempts'[r][m] = attempts[r][m]
                                      /\ job'[r][m] = job[r][m]
  BY <1>1, ClaimEffect
<1>3. /\ attempts'[r][k].status = "claimed" /\ attempts'[r][k].lease = "valid"
      /\ attempts'[r][k].hermes = FALSE /\ attempts'[r][k].late = FALSE
  BY <1>2
<1>4. /\ status[r] = "queued" /\ status'[r] = "accepted"
      /\ \A q \in Runs : q # r => status'[q] = status[q]
  <2>1. "accepted" \in RunStatuses
    BY DEF RunStatuses
  <2> QED
    BY <1>1, <2>1, TransitionEffect DEF ClaimNextRun
<1>5. current'[r] = k /\ \A q \in Runs : q # r => current'[q] = current[q]
  BY <1>1 DEF ClaimNextRun, TypeOK
<1>6. /\ worker'[w] = [step |-> "claimed", run |-> r, no |-> k]
      /\ \A v \in Workers : v # w => worker'[v] = worker[v]
      /\ scanned' = scanned /\ ~Busy(w)
  BY <1>1 DEF ClaimNextRun, TypeOK
<1>7. Len(attempts[r]) < MaxAttempts /\ \A m \in DOMAIN attempts[r] : Released(r, m)
  BY <1>1, <1>4 DEF RunShape, FencingInv, AttemptShape
<1>8. k \in Nat /\ k > Len(attempts[r]) /\ k > 0 /\ k <= MaxAttempts
      /\ k \notin DOMAIN attempts[r]
  BY <1>2, <1>7, MaxAttemptsAssumption
<1> HIDE DEF k
<1>9. ASSUME NEW q \in Runs PROVE RunShape(q)'
  <2>1. CASE q = r
    <3>1. attempts'[r] # << >>
      BY <1>2, <1>8
    <3> QED
      BY <1>2, <1>3, <1>4, <1>5, <1>8, <2>1, <3>1 DEF RunShape, Active
  <2>2. CASE q # r
    BY <1>2, <1>4, <1>5, <2>2 DEF FencingInv, RunShape, Active
  <2> QED
    BY <2>1, <2>2
<1>10. ASSUME NEW q \in Runs, NEW m \in DOMAIN attempts'[q] PROVE AttemptShape(q, m)'
  <2>1. CASE q # r
    BY <1>2, <1>4, <1>5, <2>1
       DEF FencingInv, AttemptShape, LeftOpen, Active, Open, Released, Truthful
  <2>2. CASE q = r /\ m = k
    BY <1>2, <1>3, <1>4, <1>5, <1>8, <2>2
       DEF AttemptShape, LeftOpen, Active, Open, Released, Truthful
  <2>3. CASE q = r /\ m # k
    <3>1. m \in DOMAIN attempts[r] /\ m < k
      BY <1>2, <1>8, <2>3 DEF k
    <3>2. Released(r, m) /\ AttemptShape(r, m)
      BY <1>7, <3>1 DEF FencingInv
    <3> QED
      BY <1>2, <1>4, <1>5, <2>3, <3>1, <3>2
         DEF AttemptShape, LeftOpen, Active, Open, OpenStatuses, Released, Truthful
  <2> QED
    BY <2>1, <2>2, <2>3
<1>11. ASSUME NEW v \in Workers PROVE WorkerShape(v)'
  <2>1. CASE v = w
    BY <1>2, <1>3, <1>4, <1>6, <2>1 DEF WorkerShape, Open, OpenStatuses, Active
  <2>2. CASE v # w
    <3>1. WorkerShape(v) /\ worker'[v] = worker[v]
      BY <1>6, <2>2 DEF FencingInv
    <3>2. Busy(v) => /\ worker[v].run \in Runs
                     /\ worker[v].no \in DOMAIN attempts[worker[v].run]
      BY <1>1 DEF TypeOK, Busy, Idle, Assignment
    <3>3. Busy(v) => /\ attempts'[worker[v].run][worker[v].no] =
                           attempts[worker[v].run][worker[v].no]
                     /\ job'[worker[v].run][worker[v].no] = job[worker[v].run][worker[v].no]
      BY <1>2, <3>2
    <3>4. Busy(v) => \/ current'[worker[v].run] # worker[v].no
                     \/ /\ current'[worker[v].run] = current[worker[v].run]
                        /\ status'[worker[v].run] = status[worker[v].run]
      BY <1>4, <1>5, <1>8, <3>2
    <3> QED
      BY <3>1, <3>3, <3>4 DEF WorkerShape, Open, Busy, Active
  <2> QED
    BY <2>1, <2>2
<1>12. OneOwner'
  <2> SUFFICES ASSUME NEW u \in Workers, NEW v \in Workers, Busy(u)', Busy(v)', u # v
               PROVE  worker'[u].run # worker'[v].run \/ worker'[u].no # worker'[v].no
    BY DEF OneOwner
  <2>1. ASSUME NEW x \in Workers, x # w, Busy(x)'
        PROVE  worker'[x].run # r \/ worker'[x].no # k
    <3>1. worker'[x] = worker[x] /\ Busy(x)
      BY <1>6, <2>1 DEF Busy
    <3>2. worker[x].no \in DOMAIN attempts[worker[x].run]
      BY <1>1, <3>1 DEF TypeOK
    <3> QED
      BY <1>8, <3>1, <3>2
  <2>2. worker'[w].run = r /\ worker'[w].no = k
    BY <1>6
  <2>3. CASE u # w /\ v # w
    BY <1>6, <2>3 DEF FencingInv, OneOwner, Busy
  <2>4. CASE u = w \/ v = w
    BY <2>1, <2>2, <2>4
  <2> QED
    BY <2>3, <2>4
<1>13. ASSUME NEW s \in scanned' PROVE SnapshotTrue(s)'
  <2>1. /\ SnapshotTrue(s) /\ s.run \in Runs
        /\ s.no \in DOMAIN attempts[s.run]
    BY <1>1, <1>6 DEF FencingInv, TypeOK, Snapshot
  <2>2. CASE s.run = r
    BY <1>5, <1>8, <2>1, <2>2 DEF SnapshotTrue
  <2>3. CASE s.run # r
    BY <1>2, <1>4, <1>5, <2>1, <2>3 DEF SnapshotTrue, External, Active
  <2> QED
    BY <2>2, <2>3
<1> QED
  BY <1>9, <1>10, <1>11, <1>12, <1>13 DEF FencingInv

-----------------------------------------------------------------------------
(* The invariant, and what it is for.                                      *)

\* At first there is nothing to fence.
LEMMA FencingInit == Init => FencingInv
<1> SUFFICES ASSUME Init PROVE FencingInv
  OBVIOUS
<1>1. TypeOK
  BY TypeInit
<1>2. \A r \in Runs : /\ attempts[r] = << >> /\ status[r] = "none" /\ current[r] = 0
                      /\ Len(attempts[r]) = 0
  BY DEF Init
<1>3. \A r \in Runs : RunShape(r)
  BY <1>2, MaxAttemptsAssumption DEF RunShape, Active
<1>4. \A r \in Runs : DOMAIN attempts[r] = {}
  BY <1>2
<1>5. \A w \in Workers : ~Busy(w)
  BY DEF Init, Busy, Idle
<1> QED
  BY <1>1, <1>3, <1>4, <1>5 DEF Init, FencingInv, WorkerShape, OneOwner

\* FencingInv is inductive.
LEMMA FencingStep ==
    ASSUME FencingInv, [Next]_vars
    PROVE  FencingInv'
<1>1. TypeOK /\ TypeOK'
  BY TypeStep DEF FencingInv
<1>2. CASE UNCHANGED vars
  <2>1. UNCHANGED <<status, current, attempts, job, worker, scanned>>
    BY <1>2 DEF vars
  <2>2. \A q \in Runs : RunShape(q)'
    BY <2>1 DEF FencingInv, RunShape, Active
  <2>3. \A q \in Runs : \A m \in DOMAIN attempts'[q] : AttemptShape(q, m)'
    BY <2>1 DEF FencingInv, AttemptShape, LeftOpen, Active, Open, Released, Truthful
  <2>4. \A v \in Workers : WorkerShape(v)'
    BY <2>1 DEF FencingInv, WorkerShape, Busy, Open, Active
  <2>5. OneOwner'
    BY <2>1 DEF FencingInv, OneOwner, Busy
  <2>6. \A t \in scanned' : SnapshotTrue(t)'
    BY <2>1 DEF FencingInv, SnapshotTrue, External, Active
  <2> QED
    BY <1>1, <2>2, <2>3, <2>4, <2>5, <2>6 DEF FencingInv
<1>3. ASSUME NEW r \in Runs, NEW m \in Modes, CreateRun(r, m) PROVE FencingInv'
  BY <1>1, <1>3, CreateRunStep
<1>4. ASSUME NEW r \in Runs, RequestCancellation(r) PROVE FencingInv'
  BY <1>1, <1>4, RequestCancellationStep
<1>5. ASSUME NEW r \in Runs, NEW w \in Workers, ClaimNextRun(w, r) PROVE FencingInv'
  BY <1>1, <1>5, ClaimNextRunStep
<1>6. ASSUME NEW r \in Runs, NEW n \in DOMAIN attempts[r], NEW w \in Workers,
             WorkerStep(w, r, n) \/ WorkerCrash(w, r, n)
      PROVE  FencingInv'
  BY <1>1, <1>6, MarkRunningStep, MarkExternalStartingStep, PostHermesRunStep,
     SetHermesRunStep, StopHermesRunStep, FinishSuccessStep, FinishFailureOrRequeueStep,
     FinishCancelledStep, PersistUnknownStep, FinishSimulatedStep, WorkerOnlyStep
     DEF WorkerStep
<1>7. ASSUME NEW r \in Runs, NEW n \in DOMAIN attempts[r], LeaseExpires(r, n)
      PROVE  FencingInv'
  BY <1>1, <1>7, LeaseExpiresStep
<1>8. ASSUME NEW r \in Runs, NEW n \in DOMAIN attempts[r], RecoveryScan(r, n)
      PROVE  FencingInv'
  BY <1>1, <1>8, RecoveryScanStep
<1>9. ASSUME NEW r \in Runs, NEW n \in DOMAIN attempts[r],
             NEW to \in {"completed", "failed_safe", "failed_unsafe", "cancelled"},
             HermesEnds(r, n, to)
      PROVE  FencingInv'
  BY <1>1, <1>9, HermesEndsStep
<1>10. ASSUME NEW s \in scanned, RecoverAttempt(s) PROVE FencingInv'
  BY <1>1, <1>10, RecoverAttemptStep
<1> QED
  BY <1>2, <1>3, <1>4, <1>5, <1>6, <1>7, <1>8, <1>9, <1>10 DEF Next

\* The rows, the Workers and the scans stay consistent with each other for
\* ever, as far as the code itself sees to it when the lease does not.
THEOREM Fencing == Spec => []FencingInv
<1>1. FencingInv /\ [Next]_vars => FencingInv'
  BY FencingStep
<1> QED
  BY <1>1, FencingInit, PTL DEF Spec

\* A second execution is started only after a failure that Hermes has declared
\* safe, or after recovery gave up an Attempt whose Worker still had a
\* transaction on its way, whatever dies, lapses or is repeated.
THEOREM SecondDispatchJustified == Spec => []RedispatchJustified
<1>1. FencingInv => RedispatchJustified
  <2> SUFFICES ASSUME FencingInv, NEW r \in Runs, NEW n \in DOMAIN job[r],
                      NEW m \in DOMAIN job[r], n < m, job[r][n] # "none"
               PROVE  \/ job[r][n] = "failed_safe"
                      \/ attempts[r][n].status = "lost" /\ attempts[r][n].late
    BY DEF RedispatchJustified
  <2>1. /\ attempts[r] \in Seq(Attempt) /\ job[r] \in Seq(JobStatuses)
        /\ Len(job[r]) = Len(attempts[r])
    BY DEF FencingInv, TypeOK
  <2>2. n \in DOMAIN attempts[r] /\ n < Len(attempts[r])
    BY <2>1, LenProperties
  <2>3. AttemptShape(r, n)
    BY <2>2 DEF FencingInv
  <2> QED
    BY <2>2, <2>3 DEF AttemptShape, Released
<1> QED
  BY <1>1, Fencing, PTL

\* At most one execution of a Run is open, and it is the one that is fenced;
\* a Run that is over has one open only when a late transaction has left it.
THEOREM OneOpenAttempt == Spec => []SingleOpenAttempt
<1>1. FencingInv => SingleOpenAttempt
  <2> SUFFICES ASSUME FencingInv, NEW r \in Runs
               PROVE  /\ \A n \in DOMAIN attempts[r] : Open(r, n) =>
                            /\ current[r] = n
                            /\ \/ Active(r)
                               \/ attempts[r][n].late /\ status[r] \in {"unknown", "failed"}
                      /\ Active(r) => /\ current[r] \in DOMAIN attempts[r]
                                      /\ Open(r, current[r])
    BY DEF SingleOpenAttempt
  <2>1. ASSUME NEW n \in DOMAIN attempts[r], Open(r, n)
        PROVE  /\ current[r] = n
               /\ \/ Active(r)
                  \/ attempts[r][n].late /\ status[r] \in {"unknown", "failed"}
    BY <2>1 DEF FencingInv, AttemptShape, LeftOpen
  <2>2. RunShape(r) /\ attempts[r] \in Seq(Attempt) /\ current[r] \in Nat
    BY DEF FencingInv, TypeOK
  <2>3. Active(r) => current[r] \in DOMAIN attempts[r]
    BY <2>2, LenProperties DEF RunShape
  <2> QED
    BY <2>1, <2>2, <2>3 DEF RunShape, Active, Open, OpenStatuses
<1> QED
  BY <1>1, Fencing, PTL

\* A terminal status says of the work at Hermes what is so, for every Attempt
\* without a late transaction.
THEOREM TruthfulOutcome == Spec => []OutcomeTruthful
<1>1. FencingInv => OutcomeTruthful
  <2> SUFFICES ASSUME FencingInv, NEW r \in Runs, NEW n \in DOMAIN job[r]
               PROVE  attempts[r][n].late \/ Truthful(r, n)
    BY DEF OutcomeTruthful
  <2>1. /\ attempts[r] \in Seq(Attempt) /\ job[r] \in Seq(JobStatuses)
        /\ Len(job[r]) = Len(attempts[r])
    BY DEF FencingInv, TypeOK
  <2>2. n \in DOMAIN attempts[r]
    BY <2>1, LenProperties
  <2> QED
    BY <2>2 DEF FencingInv, AttemptShape
<1> QED
  BY <1>1, Fencing, PTL

\* No Run gets more Attempts than AGENT_RUN_MAX_ATTEMPTS, although the claim
\* does not look at the limit.
THEOREM BoundedAttempts == Spec => []AttemptBound
<1>1. FencingInv => AttemptBound
  BY DEF FencingInv, RunShape, AttemptBound
<1> QED
  BY <1>1, Fencing, PTL

-----------------------------------------------------------------------------
(* Notices, and stops.                                                     *)

\* One notice for each terminal status, and one call for "unknown".
LEMMA TransitionTells ==
    ASSUME TypeOK, ToldOnce, NEW r \in Runs, NEW to \in RunStatuses, Transition(r, to)
    PROVE  ToldOnce'
<1>1. /\ status'[r] = to /\ \A q \in Runs : q # r => status'[q] = status[q]
      /\ status[r] \in {"queued", "accepted", "running"}
  BY TransitionEffect
<1>2. /\ notified \in [Runs -> Nat] /\ reconcile \in [Runs -> Nat]
  BY DEF TypeOK
<1>3. /\ notified' = [notified EXCEPT ![r] = @ + IF to \in TerminalRunStatuses THEN 1 ELSE 0]
      /\ reconcile' = [reconcile EXCEPT ![r] = @ + IF to = "unknown" THEN 1 ELSE 0]
  BY DEF Transition
<1>4. notified[r] = 0 /\ reconcile[r] = 0
  BY <1>1 DEF ToldOnce, Terminal, TerminalRunStatuses
<1>5. /\ notified'[r] = IF to \in TerminalRunStatuses THEN 1 ELSE 0
      /\ reconcile'[r] = IF to = "unknown" THEN 1 ELSE 0
  BY <1>2, <1>3, <1>4
<1>6. \A q \in Runs : q # r => notified'[q] = notified[q] /\ reconcile'[q] = reconcile[q]
  BY <1>2, <1>3
<1> QED
  BY <1>1, <1>5, <1>6 DEF ToldOnce, Terminal

\* A step tells of a Run when it ends it, and otherwise of none.
LEMMA ToldStep ==
    ASSUME TypeOK, ToldOnce, [Next]_vars
    PROVE  ToldOnce'
<1>1. CASE UNCHANGED <<status, notified, reconcile>>
  BY <1>1 DEF ToldOnce, Terminal
<1>2. {"queued", "accepted", "running", "evidence_accepted", "failed", "cancelled", "unknown"}
          \subseteq RunStatuses
  BY DEF RunStatuses, TerminalRunStatuses
<1>3. ASSUME NEW r \in Runs, NEW m \in Modes, CreateRun(r, m) PROVE ToldOnce'
  <2>1. /\ status[r] = "none" /\ status'[r] = "queued"
        /\ \A q \in Runs : q # r => status'[q] = status[q]
        /\ UNCHANGED <<notified, reconcile>>
    BY <1>3 DEF CreateRun, TypeOK
  <2> QED
    BY <2>1 DEF ToldOnce, Terminal, TerminalRunStatuses
<1>4. ASSUME NEW r \in Runs, RequestCancellation(r) PROVE ToldOnce'
  <2>1. CASE status[r] = "queued"
    BY <1>2, <1>4, <2>1, TransitionTells DEF RequestCancellation
  <2>2. CASE status[r] # "queued"
    BY <1>1, <1>4, <2>2 DEF RequestCancellation
  <2> QED
    BY <2>1, <2>2
<1>5. ASSUME NEW r \in Runs, NEW w \in Workers, ClaimNextRun(w, r) PROVE ToldOnce'
  BY <1>2, <1>5, TransitionTells DEF ClaimNextRun
<1>6. ASSUME NEW r \in Runs, NEW n \in DOMAIN attempts[r], NEW w \in Workers,
             WorkerStep(w, r, n) \/ WorkerCrash(w, r, n)
      PROVE  ToldOnce'
  <2>1. CASE MarkRunning(w, r, n) \/ FinishSuccess(w, r, n) \/ FinishFailureOrRequeue(w, r, n)
             \/ FinishCancelled(w, r, n) \/ PersistUnknown(w, r, n) \/ FinishSimulated(w, r, n)
    <3>1. PICK to \in RunStatuses : Transition(r, to)
      BY <1>2, <2>1 DEF MarkRunning, FinishSuccess, FinishFailureOrRequeue, FinishCancelled,
                        PersistUnknown, FinishSimulated
    <3> QED
      BY <3>1, TransitionTells
  <2>2. CASE MarkExternalStarting(w, r, n) \/ PostHermesRun(w, r, n) \/ SetHermesRun(w, r, n)
             \/ StopHermesRun(w, r, n) \/ ExecutionRaises(w, r, n) \/ Heartbeat(w, r, n)
             \/ Abandon(w, r, n) \/ WorkerCrash(w, r, n)
    BY <1>1, <2>2 DEF MarkExternalStarting, PostHermesRun, SetHermesRun, StopHermesRun,
                      ExecutionRaises, Heartbeat, Abandon, WorkerCrash, runVars
  <2> QED
    BY <1>6, <2>1, <2>2 DEF WorkerStep
<1>7. ASSUME NEW r \in Runs, NEW n \in DOMAIN attempts[r],
             LeaseExpires(r, n) \/ RecoveryScan(r, n)
                 \/ \E to \in {"completed", "failed_safe", "failed_unsafe", "cancelled"} :
                        HermesEnds(r, n, to)
      PROVE  ToldOnce'
  BY <1>1, <1>7 DEF LeaseExpires, RecoveryScan, HermesEnds, runVars
<1>8. ASSUME NEW s \in scanned, RecoverAttempt(s) PROVE ToldOnce'
  <2>1. s.run \in Runs
    BY DEF TypeOK, Snapshot
  <2>2. CASE current[s.run] # s.no \/ ~Active(s.run)
    BY <1>1, <1>8, <2>2 DEF RecoverAttempt, runVars
  <2>3. CASE current[s.run] = s.no /\ Active(s.run)
    <3>1. PICK to \in RunStatuses : Transition(s.run, to)
      BY <1>2, <1>8, <2>3 DEF RecoverAttempt
    <3> QED
      BY <2>1, <3>1, TransitionTells
  <2> QED
    BY <2>2, <2>3
<1>9. CASE UNCHANGED vars
  BY <1>1, <1>9 DEF vars
<1> QED
  BY <1>3, <1>4, <1>5, <1>6, <1>7, <1>8, <1>9 DEF Next

\* The case of a Run is told once of its end, and people are called in once.
THEOREM ToldExactlyOnce == Spec => []ToldOnce
<1>1. Init => ToldOnce
  BY DEF Init, ToldOnce, Terminal, TerminalRunStatuses
<1>2. TypeOK /\ ToldOnce /\ [Next]_vars => ToldOnce'
  BY ToldStep
<1> QED
  BY <1>1, <1>2, TypeCorrect, PTL DEF Spec

\* A step that concerns one Run.
LEMMA StopsFrame ==
    ASSUME TypeOK, StopsOnRequest, NEW r \in Runs,
           \A q \in Runs : cancelAsked[q] => cancelAsked'[q],
           \A q \in Runs : q # r => /\ status'[q] = status[q] /\ current'[q] = current[q]
                                    /\ job'[q] = job[q],
           \A m \in DOMAIN job'[r] : job'[r][m] = "stopping" => cancelAsked'[r],
           status'[r] = "cancelled" =>
               \/ cancelAsked'[r]
               \/ current'[r] # 0 /\ job'[r][current'[r]] = "cancelled"
    PROVE  StopsOnRequest'
BY DEF StopsOnRequest

\* A step that Hermes takes, or is told to take, for one Attempt.
LEMMA JobStops ==
    ASSUME TypeOK, StopsOnRequest, NEW r \in Runs, NEW n \in DOMAIN attempts[r],
           UNCHANGED <<status, current, cancelAsked>>,
           NEW to \in JobStatuses, SetJob(r, n, to),
           to = "stopping" => cancelAsked[r],
           job[r][n] = "cancelled" => to = "cancelled"
    PROVE  StopsOnRequest'
<1>1. job \in [Runs -> Seq(JobStatuses)]
  BY DEF TypeOK
<1>2. \A q \in Runs : q # r => job'[q] = job[q]
  BY <1>1 DEF SetJob
<1>3. job'[r] = [job[r] EXCEPT ![n] = to]
  BY <1>1 DEF SetJob
<1>4. \A m \in DOMAIN job'[r] : job'[r][m] = "stopping" => cancelAsked'[r]
  BY <1>3 DEF StopsOnRequest
<1>5. ASSUME status'[r] = "cancelled", ~cancelAsked'[r]
      PROVE  current'[r] # 0 /\ job'[r][current'[r]] = "cancelled"
  <2>1. current[r] # 0 /\ job[r][current[r]] = "cancelled"
    BY <1>5 DEF StopsOnRequest
  <2>2. CASE current[r] = n
    <3>1. job'[r][n] = to
      BY SetJobEffect
    <3> QED
      BY <2>1, <2>2, <3>1
  <2>3. CASE current[r] # n
    <3>1. job'[r][current[r]] = job[r][current[r]]
      BY <1>3, <2>3
    <3> QED
      BY <2>1, <3>1
  <2> QED
    BY <2>2, <2>3
<1> QED
  BY <1>2, <1>4, <1>5, StopsFrame

\* A transition of a Run ends it as cancelled only when Hermes says so.
LEMMA TransitionStops ==
    ASSUME TypeOK, StopsOnRequest, NEW r \in Runs, NEW to \in RunStatuses, Transition(r, to),
           UNCHANGED <<cancelAsked, job>>,
           \A q \in Runs : q # r => current'[q] = current[q],
           to = "cancelled" => current'[r] # 0 /\ job[r][current'[r]] = "cancelled"
    PROVE  StopsOnRequest'
<1>1. status'[r] = to /\ \A q \in Runs : q # r => status'[q] = status[q]
  BY TransitionEffect
<1>2. \A m \in DOMAIN job'[r] : job'[r][m] = "stopping" => cancelAsked'[r]
  BY DEF StopsOnRequest
<1> QED
  BY <1>1, <1>2, StopsFrame

\* Every step keeps stops and cancellations to what was asked, or said.
LEMMA StopsStep ==
    ASSUME FencingInv, StopsOnRequest, [Next]_vars
    PROVE  StopsOnRequest'
<1>1. TypeOK
  BY DEF FencingInv
<1>2. CASE UNCHANGED <<status, current, cancelAsked, job>>
  BY <1>2 DEF StopsOnRequest
<1>3. {"queued", "accepted", "running", "evidence_accepted", "failed", "cancelled", "unknown"}
          \subseteq RunStatuses
  BY DEF RunStatuses, TerminalRunStatuses
<1>4. ASSUME NEW r \in Runs, NEW m \in Modes, CreateRun(r, m) PROVE StopsOnRequest'
  <2>1. /\ status'[r] = "queued" /\ \A q \in Runs : q # r => status'[q] = status[q]
        /\ UNCHANGED <<current, cancelAsked, job>>
    BY <1>1, <1>4 DEF CreateRun, TypeOK
  <2> QED
    BY <2>1 DEF StopsOnRequest
<1>5. ASSUME NEW r \in Runs, RequestCancellation(r) PROVE StopsOnRequest'
  <2>1. /\ UNCHANGED <<current, job>> /\ cancelAsked'[r] = TRUE
        /\ \A q \in Runs : cancelAsked[q] => cancelAsked'[q]
    BY <1>1, <1>5 DEF RequestCancellation, TypeOK
  <2>2. \A q \in Runs : q # r => status'[q] = status[q]
    BY <1>1, <1>3, <1>5, TransitionEffect DEF RequestCancellation
  <2> QED
    BY <1>1, <2>1, <2>2, StopsFrame
<1>6. ASSUME NEW r \in Runs, NEW w \in Workers, ClaimNextRun(w, r) PROVE StopsOnRequest'
  <2>1. /\ \A q \in Runs : q # r => job'[q] = job[q]
        /\ job'[r] = Append(job[r], "none") /\ job[r] \in Seq(JobStatuses)
        /\ \A q \in Runs : q # r => current'[q] = current[q]
        /\ UNCHANGED cancelAsked
    BY <1>1, <1>6 DEF ClaimNextRun, TypeOK
  <2>2. status'[r] = "accepted" /\ \A q \in Runs : q # r => status'[q] = status[q]
    BY <1>1, <1>3, <1>6, TransitionEffect DEF ClaimNextRun
  <2>3. ASSUME NEW m \in DOMAIN job'[r], job'[r][m] = "stopping" PROVE cancelAsked'[r]
    <3>1. "none" \in JobStatuses
      BY DEF JobStatuses
    <3>2. /\ Len(job'[r]) = Len(job[r]) + 1 /\ Len(job[r]) \in Nat
          /\ job'[r] \in Seq(JobStatuses)
          /\ \A i \in 1 .. Len(job[r]) : job'[r][i] = job[r][i]
          /\ job'[r][Len(job[r]) + 1] = "none"
      BY <2>1, <3>1, AppendProperties, LenProperties
    <3>3. DOMAIN job'[r] = 1 .. Len(job'[r]) /\ DOMAIN job[r] = 1 .. Len(job[r])
      BY <2>1, <3>2, LenProperties
    <3>4. m \in DOMAIN job[r] /\ job[r][m] = "stopping"
      BY <2>3, <3>2, <3>3
    <3> QED
      BY <2>1, <3>4 DEF StopsOnRequest
  <2> QED
    BY <1>1, <2>1, <2>2, <2>3, StopsFrame
<1>7. ASSUME NEW r \in Runs, NEW n \in DOMAIN attempts[r], NEW w \in Workers,
             WorkerStep(w, r, n) \/ WorkerCrash(w, r, n)
      PROVE  StopsOnRequest'
  <2>0. n \in Nat /\ n # 0 /\ job[r][n] \in JobStatuses
    BY <1>1, RowTypes
  <2>1. CASE MarkRunning(w, r, n)
    BY <1>1, <1>3, <2>1, TransitionStops DEF MarkRunning
  <2>2. CASE FinishSuccess(w, r, n)
    BY <1>1, <1>3, <2>2, TransitionStops DEF FinishSuccess
  <2>3. CASE FinishFailureOrRequeue(w, r, n)
    <3>1. UNCHANGED <<cancelAsked, job>> /\ \A q \in Runs : q # r => current'[q] = current[q]
      BY <1>1, <2>3 DEF FinishFailureOrRequeue, TypeOK
    <3>2. Transition(r, "queued") \/ Transition(r, "failed")
      BY <2>3 DEF FinishFailureOrRequeue
    <3> QED
      BY <1>1, <1>3, <3>1, <3>2, TransitionStops
  <2>4. CASE FinishCancelled(w, r, n)
    <3>1. /\ current'[r] = n /\ job[r][n] = "cancelled" /\ Transition(r, "cancelled")
          /\ UNCHANGED <<cancelAsked, job, current>>
      BY <2>4 DEF FinishCancelled, Polled, LeaseHeld
    <3> QED
      BY <1>1, <1>3, <2>0, <3>1, TransitionStops
  <2>5. CASE PersistUnknown(w, r, n)
    BY <1>1, <1>3, <2>5, TransitionStops DEF PersistUnknown
  <2>6. CASE FinishSimulated(w, r, n)
    BY <1>1, <1>3, <2>6, TransitionStops DEF FinishSimulated
  <2>7. CASE PostHermesRun(w, r, n)
    <3>1. job[r][n] = "none"
      BY <2>7, SoleWorker DEF PostHermesRun, At, Works, Busy, WorkerShape
    <3>2. UNCHANGED <<status, current, cancelAsked>> /\ "running" \in JobStatuses
      BY <2>7 DEF PostHermesRun, runVars, JobStatuses
    <3>3. CASE SetJob(r, n, "running")
      BY <1>1, <3>1, <3>2, <3>3, JobStops
    <3>4. CASE UNCHANGED job
      BY <1>2, <3>2, <3>4
    <3> QED
      BY <2>7, <3>3, <3>4 DEF PostHermesRun
  <2>8. CASE StopHermesRun(w, r, n)
    <3> DEFINE to == IF job[r][n] = "running" THEN "stopping" ELSE job[r][n]
    <3>1. /\ to \in JobStatuses /\ (job[r][n] = "cancelled" => to = "cancelled")
      BY <2>0 DEF JobStatuses
    <3>2. UNCHANGED <<status, current, cancelAsked>> /\ cancelAsked[r]
      BY <2>8 DEF StopHermesRun, runVars
    <3>3. SetJob(r, n, to) \/ UNCHANGED job
      BY <2>8 DEF StopHermesRun
    <3> HIDE DEF to
    <3>4. CASE SetJob(r, n, to)
      BY <1>1, <3>1, <3>2, <3>4, JobStops
    <3> QED
      BY <1>2, <3>2, <3>3, <3>4
  <2>9. CASE MarkExternalStarting(w, r, n) \/ SetHermesRun(w, r, n) \/ ExecutionRaises(w, r, n)
             \/ Heartbeat(w, r, n) \/ Abandon(w, r, n) \/ WorkerCrash(w, r, n)
    BY <1>2, <2>9 DEF MarkExternalStarting, SetHermesRun, ExecutionRaises, Heartbeat, Abandon,
                      WorkerCrash, runVars
  <2> QED
    BY <1>7, <2>1, <2>2, <2>3, <2>4, <2>5, <2>6, <2>7, <2>8, <2>9 DEF WorkerStep
<1>8. ASSUME NEW r \in Runs, NEW n \in DOMAIN attempts[r],
             LeaseExpires(r, n) \/ RecoveryScan(r, n)
      PROVE  StopsOnRequest'
  BY <1>2, <1>8 DEF LeaseExpires, RecoveryScan, runVars
<1>9. ASSUME NEW r \in Runs, NEW n \in DOMAIN attempts[r],
             NEW to \in {"completed", "failed_safe", "failed_unsafe", "cancelled"},
             HermesEnds(r, n, to)
      PROVE  StopsOnRequest'
  <2>1. /\ UNCHANGED <<status, current, cancelAsked>> /\ SetJob(r, n, to)
        /\ job[r][n] # "cancelled" /\ to \in JobStatuses /\ to # "stopping"
    BY <1>9 DEF HermesEnds, runVars, JobStatuses
  <2> QED
    BY <1>1, <2>1, JobStops
<1>10. ASSUME NEW s \in scanned, RecoverAttempt(s) PROVE StopsOnRequest'
  <2>1. s.run \in Runs /\ UNCHANGED job
    BY <1>1, <1>10 DEF TypeOK, Snapshot, RecoverAttempt
  <2>2. CASE current[s.run] # s.no \/ ~Active(s.run)
    BY <1>2, <1>10, <2>1, <2>2 DEF RecoverAttempt, runVars
  <2>3. CASE current[s.run] = s.no /\ Active(s.run)
    <3>1. PICK to \in {"unknown", "queued", "failed"} : Transition(s.run, to)
      BY <1>10, <2>3 DEF RecoverAttempt
    <3>2. /\ \A q \in Runs : q # s.run => current'[q] = current[q]
          /\ UNCHANGED cancelAsked
      BY <1>1, <1>10, <2>3 DEF RecoverAttempt, TypeOK
    <3> QED
      BY <1>1, <1>3, <2>1, <3>1, <3>2, TransitionStops
  <2> QED
    BY <2>2, <2>3
<1>11. CASE UNCHANGED vars
  BY <1>2, <1>11 DEF vars
<1> QED
  BY <1>4, <1>5, <1>6, <1>7, <1>8, <1>9, <1>10, <1>11 DEF Next

\* Hermes is told to stop only what somebody has asked to cancel, and a Run is
\* cancelled only for that or because Hermes says so of its last Attempt.
THEOREM NoStrayStop == Spec => []StopsOnRequest
<1>1. Init => StopsOnRequest
  <2> SUFFICES ASSUME Init PROVE StopsOnRequest
    OBVIOUS
  <2>1. \A r \in Runs : job[r] = << >> /\ status[r] = "none"
    BY DEF Init
  <2>2. \A r \in Runs : DOMAIN job[r] = {}
    BY <2>1
  <2> QED
    BY <2>1, <2>2 DEF StopsOnRequest
<1>2. FencingInv /\ StopsOnRequest /\ [Next]_vars => StopsOnRequest'
  BY StopsStep
<1> QED
  BY <1>1, <1>2, Fencing, PTL DEF Spec

-----------------------------------------------------------------------------
(* Attempts are history.                                                   *)

\* What a step may do to the Attempt table: add rows, and write open ones, or
\* those of a Run that is over when a transaction was late.
RowsKept ==
    \A r \in Runs : \A n \in DOMAIN attempts[r] :
        /\ n \in DOMAIN attempts'[r]
        /\ ~Open(r, n) =>
               \/ /\ attempts'[r][n].status = attempts[r][n].status
                  /\ attempts'[r][n].retry = attempts[r][n].retry
                  /\ attempts'[r][n].hermes = attempts[r][n].hermes
               \/ attempts[r][n].late /\ Terminal(r)

\* One row is written: an open one, no more than the lease of another, or by
\* a late transaction after the end of the Run.
LEMMA RowWritten ==
    ASSUME TypeOK, NEW r \in Runs, NEW n \in DOMAIN attempts[r], NEW row,
           SetAttempt(r, n, row),
           \/ Open(r, n)
           \/ attempts[r][n].late /\ Terminal(r)
           \/ /\ row.status = attempts[r][n].status
              /\ row.retry = attempts[r][n].retry
              /\ row.hermes = attempts[r][n].hermes
    PROVE  RowsKept
<1>1. attempts \in [Runs -> Seq(Attempt)]
  BY DEF TypeOK
<1>2. attempts'[r] = [attempts[r] EXCEPT ![n] = row]
  BY <1>1 DEF SetAttempt
<1>3. \A q \in Runs : q # r => attempts'[q] = attempts[q]
  BY <1>1 DEF SetAttempt
<1>4. /\ DOMAIN attempts'[r] = DOMAIN attempts[r]
      /\ attempts'[r][n] = row
      /\ \A m \in DOMAIN attempts[r] : m # n => attempts'[r][m] = attempts[r][m]
  BY <1>2
<1> QED
  BY <1>3, <1>4 DEF RowsKept

\* The lease of one row is written.
LEMMA LeaseWritten ==
    ASSUME TypeOK, NEW r \in Runs, NEW n \in DOMAIN attempts[r], NEW to,
           SetLease(r, n, to)
    PROVE  RowsKept
<1> DEFINE row == [attempts[r][n] EXCEPT !.lease = to]
<1>1. attempts[r][n] \in Attempt
  BY RowTypes
<1>2. /\ row.status = attempts[r][n].status
      /\ row.retry = attempts[r][n].retry
      /\ row.hermes = attempts[r][n].hermes
  BY <1>1 DEF Attempt
<1>3. SetAttempt(r, n, row)
  BY DEF SetLease
<1> HIDE DEF row
<1> QED
  BY <1>2, <1>3, RowWritten

\* The current Attempt of an active Run is open.
LEMMA CurrentIsOpen ==
    ASSUME FencingInv, NEW r \in Runs, NEW n \in DOMAIN attempts[r], Active(r), current[r] = n
    PROVE  Open(r, n) /\ n = Len(attempts[r])
<1>1. RunShape(r)
  BY AttemptFacts
<1> QED
  BY <1>1 DEF RunShape, Active, Open, OpenStatuses

\* A transaction that ends an Attempt finds it open: the transition is refused
\* to any Run that is not active.
LEMMA FinishFindsOpen ==
    ASSUME FencingInv, NEW r \in Runs, NEW n \in DOMAIN attempts[r], LeaseHeld(r, n),
           NEW final \in RunStatuses, Transition(r, final)
    PROVE  Open(r, n) /\ Active(r) /\ n = Len(attempts[r])
<1>1. TypeOK /\ RunShape(r) /\ n \in Nat /\ 0 < n
  BY AttemptFacts
<1>2. status[r] \in {"queued", "accepted", "running"}
  BY <1>1, TransitionEffect
<1>3. Active(r) /\ current[r] = n
  BY <1>1, <1>2 DEF RunShape, LeaseHeld, Active
<1> QED
  BY <1>3, CurrentIsOpen

\* Every step of a Worker writes the open row it holds, or a lease; those that
\* look at no status may be late.
LEMMA WorkerKeepsRows ==
    ASSUME FencingInv, NEW r \in Runs, NEW n \in DOMAIN attempts[r], NEW w \in Workers,
           WorkerStep(w, r, n) \/ WorkerCrash(w, r, n)
    PROVE  RowsKept \/ UNCHANGED attempts
<1>1. TypeOK
  BY DEF FencingInv
<1>2. ASSUME NEW to, NEW retry, NEW hermes, Write(r, n, to, retry, hermes),
             Open(r, n) \/ (attempts[r][n].late /\ Terminal(r))
      PROVE  RowsKept
  BY <1>1, <1>2, RowWritten DEF Write
<1>3. /\ "running" \in RunStatuses /\ "queued" \in RunStatuses
      /\ TerminalRunStatuses \subseteq RunStatuses
  BY DEF RunStatuses
<1>4. CASE MarkRunning(w, r, n)
  <2>1. LeaseHeld(r, n) /\ Transition(r, "running")
    BY <1>4 DEF MarkRunning
  <2>2. Open(r, n)
    BY <1>3, <2>1, FinishFindsOpen
  <2> QED
    BY <1>2, <1>4, <2>2 DEF MarkRunning, MarkAttempt
<1>5. CASE MarkExternalStarting(w, r, n)
  <2>1. Works(w, r, n) /\ LeaseHeld(r, n) /\ worker[w].step = "started"
    BY <1>5 DEF MarkExternalStarting, At, Works, Busy
  <2>2. Open(r, n) \/ (attempts[r][n].late /\ Terminal(r))
    BY <2>1, HeldIsOpen DEF Terminal, TerminalRunStatuses
  <2> QED
    BY <1>2, <1>5, <2>2 DEF MarkExternalStarting, MarkAttempt
<1>6. CASE SetHermesRun(w, r, n)
  <2>1. Works(w, r, n) /\ LeaseHeld(r, n) /\ worker[w].step = "posted"
    BY <1>6 DEF SetHermesRun, At, Works, Busy
  <2>2. Open(r, n) \/ (attempts[r][n].late /\ Terminal(r))
    BY <2>1, HeldIsOpen DEF Terminal, TerminalRunStatuses
  <2> DEFINE recorded == TRUE
  <2>3. Write(r, n, "running", attempts[r][n].retry, recorded)
    BY <1>6 DEF SetHermesRun
  <2> HIDE DEF recorded
  <2> QED
    BY <1>2, <2>2, <2>3
<1>7. ASSUME NEW to, NEW retry, CloseAttempt(r, n, to, retry), LeaseHeld(r, n),
             NEW final \in RunStatuses, Transition(r, final)
      PROVE  RowsKept
  <2>1. Open(r, n)
    BY <1>7, FinishFindsOpen
  <2> QED
    BY <1>2, <1>7, <2>1 DEF CloseAttempt
<1>8. "evidence_accepted" \in RunStatuses /\ "failed" \in RunStatuses
      /\ "cancelled" \in RunStatuses /\ "unknown" \in RunStatuses
  BY DEF RunStatuses, TerminalRunStatuses
<1>9. CASE FinishSuccess(w, r, n)
  BY <1>7, <1>8, <1>9 DEF FinishSuccess, Polled
<1>10. CASE FinishFailureOrRequeue(w, r, n)
  <2>1. PICK retry : CloseAttempt(r, n, "failed", retry)
    BY <1>10 DEF FinishFailureOrRequeue
  <2>2. LeaseHeld(r, n) /\ (Transition(r, "queued") \/ Transition(r, "failed"))
    BY <1>10 DEF FinishFailureOrRequeue, Polled
  <2> QED
    BY <1>3, <1>7, <1>8, <2>1, <2>2
<1>11. CASE FinishCancelled(w, r, n)
  BY <1>7, <1>8, <1>11 DEF FinishCancelled, Polled
<1>12. CASE PersistUnknown(w, r, n)
  BY <1>7, <1>8, <1>12 DEF PersistUnknown
<1>13. CASE FinishSimulated(w, r, n)
  BY <1>7, <1>8, <1>13 DEF FinishSimulated
<1>14. CASE Heartbeat(w, r, n)
  <2>1. PICK to : SetLease(r, n, to)
    BY <1>14 DEF Heartbeat
  <2> QED
    BY <1>1, <2>1, LeaseWritten
<1>15. CASE WorkerCrash(w, r, n)
  BY <1>1, <1>15, LeaseWritten DEF WorkerCrash
<1>16. CASE PostHermesRun(w, r, n) \/ StopHermesRun(w, r, n) \/ ExecutionRaises(w, r, n)
            \/ Abandon(w, r, n)
  BY <1>16 DEF PostHermesRun, StopHermesRun, ExecutionRaises, Abandon
<1> QED
  BY <1>4, <1>5, <1>6, <1>9, <1>10, <1>11, <1>12, <1>13, <1>14, <1>15, <1>16 DEF WorkerStep

\* Every step keeps the rows that are over.
LEMMA StepKeepsRows ==
    ASSUME FencingInv, [Next]_vars
    PROVE  RowsKept \/ UNCHANGED attempts
<1>1. TypeOK
  BY DEF FencingInv
<1>2. CASE UNCHANGED vars
  BY <1>2 DEF vars
<1>3. ASSUME NEW r \in Runs, NEW m \in Modes, CreateRun(r, m) PROVE UNCHANGED attempts
  BY <1>3 DEF CreateRun
<1>4. ASSUME NEW r \in Runs, RequestCancellation(r) PROVE UNCHANGED attempts
  BY <1>4 DEF RequestCancellation
<1>5. ASSUME NEW r \in Runs, NEW w \in Workers, ClaimNextRun(w, r) PROVE RowsKept
  <2>1. /\ \A q \in Runs : q # r => attempts'[q] = attempts[q]
        /\ Len(attempts[r]) \in Nat
        /\ DOMAIN attempts[r] = 1 .. Len(attempts[r])
        /\ DOMAIN attempts'[r] = 1 .. (Len(attempts[r]) + 1)
        /\ \A m \in DOMAIN attempts[r] : attempts'[r][m] = attempts[r][m]
    BY <1>1, <1>5, ClaimEffect
  <2>2. DOMAIN attempts[r] \subseteq DOMAIN attempts'[r]
    BY <2>1
  <2>3. \A q \in Runs : \A m \in DOMAIN attempts[q] :
            m \in DOMAIN attempts'[q] /\ attempts'[q][m] = attempts[q][m]
    BY <2>1, <2>2
  <2> QED
    BY <2>3 DEF RowsKept
<1>6. ASSUME NEW r \in Runs, NEW n \in DOMAIN attempts[r], NEW w \in Workers,
             WorkerStep(w, r, n) \/ WorkerCrash(w, r, n)
      PROVE  RowsKept \/ UNCHANGED attempts
  BY <1>6, WorkerKeepsRows
<1>7. ASSUME NEW r \in Runs, NEW n \in DOMAIN attempts[r], LeaseExpires(r, n)
      PROVE  RowsKept
  <2>1. /\ attempts'[r][n].status = attempts[r][n].status
        /\ attempts'[r][n].retry = attempts[r][n].retry
        /\ attempts'[r][n].hermes = attempts[r][n].hermes
        /\ \A q \in Runs : DOMAIN attempts'[q] = DOMAIN attempts[q]
        /\ \A q \in Runs : \A m \in DOMAIN attempts[q] :
              q # r \/ m # n => attempts'[q][m] = attempts[q][m]
    BY <1>1, <1>7, LapseEffect
  <2> QED
    BY <2>1 DEF RowsKept
<1>8. ASSUME NEW r \in Runs, NEW n \in DOMAIN attempts[r], RecoveryScan(r, n)
      PROVE  UNCHANGED attempts
  BY <1>8 DEF RecoveryScan
<1>9. ASSUME NEW r \in Runs, NEW n \in DOMAIN attempts[r],
             NEW to \in {"completed", "failed_safe", "failed_unsafe", "cancelled"},
             HermesEnds(r, n, to)
      PROVE  UNCHANGED attempts
  BY <1>9 DEF HermesEnds
<1>10. ASSUME NEW s \in scanned, RecoverAttempt(s) PROVE RowsKept \/ UNCHANGED attempts
  <2>1. s.run \in Runs /\ s.no \in DOMAIN attempts[s.run]
    BY <1>1 DEF TypeOK, Snapshot
  <2>2. CASE current[s.run] # s.no \/ ~Active(s.run)
    BY <1>10, <2>2 DEF RecoverAttempt
  <2>3. CASE current[s.run] = s.no /\ Active(s.run)
    <3>1. PICK row : SetAttempt(s.run, s.no, row)
      BY <1>10, <2>3 DEF RecoverAttempt, Recover
    <3>2. Open(s.run, s.no)
      BY <2>1, <2>3, CurrentIsOpen
    <3> QED
      BY <1>1, <2>1, <3>1, <3>2, RowWritten
  <2> QED
    BY <2>2, <2>3
<1> QED
  BY <1>2, <1>3, <1>4, <1>5, <1>6, <1>7, <1>8, <1>9, <1>10 DEF Next

\* An Attempt that is over is never rewritten, but by a late transaction when
\* its Run is over too: a Worker without the lease is refused, and a second
\* scan finds the Run moved on.
THEOREM AttemptsStay == Spec => AttemptsKept
<1>1. FencingInv /\ [Next]_vars => [RowsKept]_attempts
  BY StepKeepsRows
<1>2. AttemptsKept <=> [][RowsKept]_attempts
  BY DEF AttemptsKept, RowsKept
<1> QED
  BY <1>1, <1>2, Fencing, PTL DEF Spec

-----------------------------------------------------------------------------
(* The contract of RunContract.                                            *)

LiveJobs == {"running", "stopping"}
StandingJobs == {"completed", "failed_unsafe", "cancelled"}
Live(r) == JobsIn(r, LiveJobs)
Standing(r) == JobsIn(r, StandingJobs)
Astray(r) == Cardinality(Late(r))
Outcome(r) == IF status[r] \in {"queued", "accepted", "running"} THEN "pending" ELSE status[r]

\* When, of those that count, only the last job of a Run can be in a set of
\* statuses, at most one is.
LEMMA LastJobCounts ==
    ASSUME NEW j, NEW k \in Nat \ {0}, DOMAIN j = 1 .. k, NEW S, NEW L, k \notin L,
           \A n \in 1 .. k : n < k => j[n] \notin S \/ n \in L
    PROVE  Cardinality({n \in DOMAIN j : j[n] \in S /\ n \notin L}) =
               IF j[k] \in S THEN 1 ELSE 0
<1>1. CASE j[k] \in S
  <2>1. {n \in DOMAIN j : j[n] \in S /\ n \notin L} = {k}
    BY <1>1
  <2> QED
    BY <1>1, <2>1, FS_Singleton
<1>2. CASE j[k] \notin S
  <2>1. {n \in DOMAIN j : j[n] \in S /\ n \notin L} = {}
    BY <1>2
  <2> QED
    BY <1>2, <2>1, FS_EmptySet
<1> QED
  BY <1>1, <1>2

\* Jobs that are told apart by nothing but a set of statuses count the same.
LEMMA SameCount ==
    ASSUME NEW r \in Runs, NEW S, Late(r)' = Late(r),
           \A n : n \notin Late(r) =>
                      ((n \in DOMAIN job[r] /\ job[r][n] \in S) <=>
                       (n \in DOMAIN job'[r] /\ job'[r][n] \in S))
    PROVE  JobsIn(r, S)' = JobsIn(r, S)
<1> DEFINE L == Late(r)
<1>1. {n \in DOMAIN job[r] : job[r][n] \in S /\ n \notin L} =
          {n \in DOMAIN job'[r] : job'[r][n] \in S /\ n \notin L}
  OBVIOUS
<1>2. JobsIn(r, S)' = Cardinality({n \in DOMAIN job'[r] : job'[r][n] \in S /\ n \notin L'})
  BY DEF JobsIn
<1>3. L' = L
  OBVIOUS
<1> HIDE DEF L
<1> QED
  BY <1>1, <1>2, <1>3 DEF JobsIn, L

\* The Attempts with a late transaction are the same as before.
LateKept == \A r \in Runs : Late(r)' = Late(r)

LEMMA LateFrame ==
    ASSUME \A r \in Runs : DOMAIN attempts'[r] = DOMAIN attempts[r],
           \A r \in Runs : \A n \in DOMAIN attempts[r] :
               attempts'[r][n].late = attempts[r][n].late
    PROVE  LateKept
<1> SUFFICES ASSUME NEW r \in Runs PROVE Late(r)' = Late(r)
  BY DEF LateKept
<1>1. {n \in DOMAIN attempts'[r] : attempts'[r][n].late} =
          {n \in DOMAIN attempts[r] : attempts[r][n].late}
  OBVIOUS
<1> QED
  BY <1>1 DEF Late

LEMMA LateWritten ==
    ASSUME TypeOK, NEW r \in Runs, NEW n \in DOMAIN attempts[r], NEW row,
           SetAttempt(r, n, row), row.late = attempts[r][n].late
    PROVE  LateKept
<1>1. attempts \in [Runs -> Seq(Attempt)]
  BY DEF TypeOK
<1>2. attempts'[r] = [attempts[r] EXCEPT ![n] = row]
  BY <1>1 DEF SetAttempt
<1>3. \A q \in Runs : q # r => attempts'[q] = attempts[q]
  BY <1>1 DEF SetAttempt
<1>4. /\ DOMAIN attempts'[r] = DOMAIN attempts[r]
      /\ \A m \in DOMAIN attempts[r] : attempts'[r][m].late = attempts[r][m].late
  BY <1>2
<1>5. \A q \in Runs : DOMAIN attempts'[q] = DOMAIN attempts[q]
  BY <1>3, <1>4
<1>6. \A q \in Runs : \A m \in DOMAIN attempts[q] :
          attempts'[q][m].late = attempts[q][m].late
  BY <1>3, <1>4
<1> QED
  BY <1>5, <1>6, LateFrame

\* No step of a Worker makes an Attempt late: only the clock does.
LEMMA WorkerKeepsLate ==
    ASSUME TypeOK, NEW r \in Runs, NEW n \in DOMAIN attempts[r], NEW w \in Workers,
           WorkerStep(w, r, n) \/ WorkerCrash(w, r, n)
    PROVE  LateKept
<1>1. attempts[r][n] \in Attempt
  BY RowTypes
<1>2. ASSUME NEW to, NEW retry, NEW hermes, Write(r, n, to, retry, hermes) PROVE LateKept
  BY <1>2, LateWritten DEF Write
<1>3. ASSUME NEW to, SetLease(r, n, to) PROVE LateKept
  <2> DEFINE row == [attempts[r][n] EXCEPT !.lease = to]
  <2>1. row.late = attempts[r][n].late
    BY <1>1 DEF Attempt
  <2>2. SetAttempt(r, n, row)
    BY <1>3 DEF SetLease
  <2> HIDE DEF row
  <2> QED
    BY <2>1, <2>2, LateWritten
<1>4. ASSUME UNCHANGED attempts PROVE LateKept
  BY <1>4 DEF LateKept, Late
<1>5. CASE MarkRunning(w, r, n)
  BY <1>2, <1>5 DEF MarkRunning, MarkAttempt
<1>6. CASE MarkExternalStarting(w, r, n)
  BY <1>2, <1>6 DEF MarkExternalStarting, MarkAttempt
<1>7. CASE SetHermesRun(w, r, n)
  <2> DEFINE recorded == TRUE
  <2>1. Write(r, n, "running", attempts[r][n].retry, recorded)
    BY <1>7 DEF SetHermesRun
  <2> HIDE DEF recorded
  <2> QED
    BY <1>2, <2>1
<1>8. CASE FinishSuccess(w, r, n)
  BY <1>2, <1>8 DEF FinishSuccess, CloseAttempt
<1>9. CASE FinishFailureOrRequeue(w, r, n)
  <2>1. PICK retry : CloseAttempt(r, n, "failed", retry)
    BY <1>9 DEF FinishFailureOrRequeue
  <2> QED
    BY <1>2, <2>1 DEF CloseAttempt
<1>10. CASE FinishCancelled(w, r, n)
  BY <1>2, <1>10 DEF FinishCancelled, CloseAttempt
<1>11. CASE PersistUnknown(w, r, n)
  BY <1>2, <1>11 DEF PersistUnknown, CloseAttempt
<1>12. CASE FinishSimulated(w, r, n)
  BY <1>2, <1>12 DEF FinishSimulated, CloseAttempt
<1>13. CASE Heartbeat(w, r, n)
  <2>1. PICK to : SetLease(r, n, to)
    BY <1>13 DEF Heartbeat
  <2> QED
    BY <1>3, <2>1
<1>14. CASE WorkerCrash(w, r, n)
  BY <1>3, <1>14 DEF WorkerCrash
<1>15. CASE PostHermesRun(w, r, n) \/ StopHermesRun(w, r, n) \/ ExecutionRaises(w, r, n)
            \/ Abandon(w, r, n)
  BY <1>4, <1>15 DEF PostHermesRun, StopHermesRun, ExecutionRaises, Abandon
<1> QED
  BY <1>5, <1>6, <1>7, <1>8, <1>9, <1>10, <1>11, <1>12, <1>13, <1>14, <1>15 DEF WorkerStep

\* What the contract sees of Hermes stays when nothing is late, or at Hermes,
\* that was not before.
LEMMA CountsFrame ==
    ASSUME LateKept, job' = job
    PROVE  \A q \in Runs : Live(q)' = Live(q) /\ Standing(q)' = Standing(q)
<1> SUFFICES ASSUME NEW q \in Runs PROVE Live(q)' = Live(q) /\ Standing(q)' = Standing(q)
  OBVIOUS
<1>1. Late(q)' = Late(q)
  BY DEF LateKept
<1> QED
  BY <1>1, SameCount DEF Live, Standing

\* The executions of a Run before and after Hermes has, for its last Attempt,
\* another status: no earlier one counts.
LEMMA LastJobWritten ==
    ASSUME FencingInv, NEW r \in Runs, NEW n \in DOMAIN attempts[r], LateKept,
           NEW to \in JobStatuses, SetJob(r, n, to), n = Len(attempts[r]),
           ~attempts[r][n].late
    PROVE  /\ Live(r) = IF job[r][n] \in LiveJobs THEN 1 ELSE 0
           /\ Standing(r) = IF job[r][n] \in StandingJobs THEN 1 ELSE 0
           /\ Live(r)' = IF to \in LiveJobs THEN 1 ELSE 0
           /\ Standing(r)' = IF to \in StandingJobs THEN 1 ELSE 0
           /\ \A q \in Runs : q # r => Live(q)' = Live(q) /\ Standing(q)' = Standing(q)
<1>1. /\ TypeOK /\ n \in Nat \ {0} /\ DOMAIN job[r] = 1 .. n /\ DOMAIN attempts[r] = 1 .. n
      /\ \A m \in DOMAIN attempts[r] : AttemptShape(r, m)
  BY AttemptFacts, RowTypes
<1>2. \A m \in 1 .. n : m < n => job[r][m] \in {"none", "failed_safe"} \/ m \in Late(r)
  BY <1>1 DEF AttemptShape, Released, Late
<1>3. /\ DOMAIN job'[r] = 1 .. n /\ job'[r][n] = to
      /\ \A m \in 1 .. n : m < n => job'[r][m] = job[r][m]
  BY <1>1, SetJobEffect
<1>4. \A q \in Runs : q # r => job'[q] = job[q]
  BY <1>1 DEF TypeOK, SetJob
<1>5. n \notin Late(r) /\ Late(r)' = Late(r)
  BY DEF Late, LateKept
<1>6. ASSUME NEW S, S \cap {"none", "failed_safe"} = {}
      PROVE  /\ JobsIn(r, S) = IF job[r][n] \in S THEN 1 ELSE 0
             /\ JobsIn(r, S)' = IF to \in S THEN 1 ELSE 0
  <2>1. \A m \in 1 .. n : m < n => job[r][m] \notin S \/ m \in Late(r)
    BY <1>2, <1>6
  <2>2. \A m \in 1 .. n : m < n => job'[r][m] \notin S \/ m \in Late(r)
    BY <1>3, <2>1
  <2>3. JobsIn(r, S) = IF job[r][n] \in S THEN 1 ELSE 0
    BY <1>1, <1>5, <2>1, LastJobCounts DEF JobsIn
  <2> DEFINE L == Late(r)
             j == job'[r]
  <2>4. JobsIn(r, S)' = Cardinality({m \in DOMAIN j : j[m] \in S /\ m \notin L})
    BY <1>5 DEF JobsIn
  <2>5. /\ DOMAIN j = 1 .. n /\ j[n] = to /\ n \notin L
        /\ \A m \in 1 .. n : m < n => j[m] \notin S \/ m \in L
    BY <1>3, <1>5, <2>2
  <2> HIDE DEF L, j
  <2>6. JobsIn(r, S)' = IF to \in S THEN 1 ELSE 0
    BY <1>1, <2>4, <2>5, LastJobCounts
  <2> QED
    BY <2>3, <2>6
<1>7. /\ LiveJobs \cap {"none", "failed_safe"} = {}
      /\ StandingJobs \cap {"none", "failed_safe"} = {}
  BY DEF LiveJobs, StandingJobs
<1>8. ASSUME NEW q \in Runs, q # r PROVE Live(q)' = Live(q) /\ Standing(q)' = Standing(q)
  <2>1. Late(q)' = Late(q) /\ job'[q] = job[q]
    BY <1>4, <1>8 DEF LateKept
  <2> QED
    BY <2>1, SameCount DEF Live, Standing
<1> QED
  BY <1>6, <1>7, <1>8 DEF Live, Standing

\* What Hermes does for an Attempt with a late transaction does not count.
LEMMA LateJobWritten ==
    ASSUME TypeOK, NEW r \in Runs, NEW n \in DOMAIN attempts[r], LateKept,
           NEW to \in JobStatuses, SetJob(r, n, to), attempts[r][n].late
    PROVE  \A q \in Runs : Live(q)' = Live(q) /\ Standing(q)' = Standing(q)
<1> SUFFICES ASSUME NEW q \in Runs PROVE Live(q)' = Live(q) /\ Standing(q)' = Standing(q)
  OBVIOUS
<1>1. Late(q)' = Late(q) /\ DOMAIN job'[q] = DOMAIN job[q]
  BY SetJobEffect DEF LateKept
<1>2. DOMAIN job[q] = DOMAIN attempts[q]
  <2>1. /\ job[q] \in Seq(JobStatuses) /\ attempts[q] \in Seq(Attempt)
        /\ Len(job[q]) = Len(attempts[q])
    BY DEF TypeOK
  <2> QED
    BY <2>1, LenProperties
<1>3. ASSUME NEW m \in DOMAIN job[q], m \notin Late(q) PROVE job'[q][m] = job[q][m]
  <2>1. m \in DOMAIN attempts[q] /\ (q # r \/ m # n)
    BY <1>2, <1>3 DEF Late
  <2> QED
    BY <2>1, SetJobEffect
<1> QED
  BY <1>1, <1>3, SameCount DEF Live, Standing

\* An Attempt that its Run has not been released from is its last.
LEMMA StartedIsLast ==
    ASSUME FencingInv, NEW r \in Runs, NEW n \in DOMAIN attempts[r], ~Released(r, n)
    PROVE  n = Len(attempts[r]) /\ status[r] # "queued"
<1>1. AttemptShape(r, n) /\ n \in Nat /\ Len(attempts[r]) \in Nat /\ n <= Len(attempts[r])
  BY AttemptFacts
<1> QED
  BY <1>1 DEF AttemptShape

\* A step on one Run keeps the contract when what the contract sees of the
\* Run changes as one of its actions says, or not at all.
LEMMA ContractStep ==
    ASSUME TypeOK, NEW r \in Runs,
           LateKept,
           \A q \in Runs : q # r => /\ Outcome(q)' = Outcome(q)
                                    /\ Live(q)' = Live(q) /\ Standing(q)' = Standing(q),
           \/ Outcome(r)' = Outcome(r) /\ Live(r)' = Live(r) /\ Standing(r)' = Standing(r)
              /\ reconcile' = reconcile
           \/ Outcome(r) = "none" /\ Outcome(r)' = "pending"
              /\ Live(r)' = Live(r) /\ Standing(r)' = Standing(r) /\ reconcile' = reconcile
           \/ Outcome(r) \in {"pending", "unknown"} /\ Outcome(r)' = Outcome(r)
              /\ Live(r) = 0 /\ Standing(r) = 0 /\ Live(r)' = 1 /\ Standing(r)' = 0
              /\ reconcile' = reconcile
           \/ Outcome(r)' = Outcome(r) /\ Live(r) = 1 /\ Live(r)' = 0
              /\ Standing(r) = 0 /\ Standing(r)' \in {0, 1} /\ reconcile' = reconcile
           \/ Outcome(r) = "pending" /\ Outcome(r)' \in TerminalRunStatuses
              /\ Live(r)' = Live(r) /\ Standing(r)' = Standing(r)
              /\ (Outcome(r)' # "unknown" => Live(r) = 0)
              /\ reconcile' = [reconcile EXCEPT
                                   ![r] = @ + IF Outcome(r)' = "unknown" THEN 1 ELSE 0]
    PROVE  [Contract!Next]_(Contract!vars)
<1> USE DEF Outcome, Live, Standing, LiveJobs, StandingJobs
<1>0. /\ \A q \in Runs : Cardinality(Late(q))' = Cardinality(Late(q))
      /\ [q \in Runs |-> Cardinality(Late(q))]' = [q \in Runs |-> Cardinality(Late(q))]
  BY DEF LateKept
<1>1. CASE Outcome(r)' = Outcome(r) /\ Live(r)' = Live(r) /\ Standing(r)' = Standing(r)
           /\ reconcile' = reconcile
  BY <1>0, <1>1 DEF Contract!vars
<1>2. CASE Outcome(r) = "none" /\ Outcome(r)' = "pending"
           /\ Live(r)' = Live(r) /\ Standing(r)' = Standing(r) /\ reconcile' = reconcile
  <2>1. Contract!Submit(r)
    BY <1>0, <1>2 DEF Contract!Submit
  <2> QED
    BY <2>1 DEF Contract!Next
<1>3. CASE Outcome(r) \in {"pending", "unknown"} /\ Outcome(r)' = Outcome(r)
           /\ Live(r) = 0 /\ Standing(r) = 0 /\ Live(r)' = 1 /\ Standing(r)' = 0
           /\ reconcile' = reconcile
  <2>1. Contract!Dispatch(r)
    BY <1>0, <1>3 DEF Contract!Dispatch
  <2> QED
    BY <2>1 DEF Contract!Next
<1>4. CASE Outcome(r)' = Outcome(r) /\ Live(r) = 1 /\ Live(r)' = 0
           /\ Standing(r) = 0 /\ Standing(r)' \in {0, 1} /\ reconcile' = reconcile
  <2>1. PICK effect \in BOOLEAN : Standing(r)' = IF effect THEN 1 ELSE 0
    <3>1. CASE Standing(r)' = 1
      BY <3>1
    <3>2. CASE Standing(r)' = 0
      BY <3>2
    <3> QED
      BY <1>4, <3>1, <3>2
  <2> DEFINE live == [q \in Runs |-> JobsIn(q, {"running", "stopping"})]
             standing == [q \in Runs |-> JobsIn(q, {"completed", "failed_unsafe", "cancelled"})]
             outcome == [q \in Runs |-> IF status[q] \in {"queued", "accepted", "running"}
                                        THEN "pending" ELSE status[q]]
             astray == [q \in Runs |-> Cardinality(Late(q))]
  <2>2. live[r] = 1 /\ standing[r] = 0 /\ outcome' = outcome /\ astray' = astray
    BY <1>0, <1>4
  <2>3. /\ live' = [live EXCEPT ![r] = 0]
        /\ standing' = [standing EXCEPT ![r] = IF effect THEN 1 ELSE 0]
    BY <1>4, <2>1
  <2>4. Contract!ExecutionEnds(r, effect) <=>
            /\ live[r] > 0
            /\ live' = [live EXCEPT ![r] = live[r] - 1]
            /\ standing' = [standing EXCEPT ![r] = standing[r] + IF effect THEN 1 ELSE 0]
            /\ outcome' = outcome /\ astray' = astray /\ reconcile' = reconcile
    BY Zenon DEF Contract!ExecutionEnds
  <2> HIDE DEF live, standing, outcome, astray
  <2>5. Contract!ExecutionEnds(r, effect)
    BY <1>4, <2>2, <2>3, <2>4
  <2> QED
    BY <2>5, Zenon DEF Contract!Next
<1>5. CASE Outcome(r) = "pending" /\ Outcome(r)' \in TerminalRunStatuses
           /\ Live(r)' = Live(r) /\ Standing(r)' = Standing(r)
           /\ (Outcome(r)' # "unknown" => Live(r) = 0)
           /\ reconcile' = [reconcile EXCEPT
                                ![r] = @ + IF Outcome(r)' = "unknown" THEN 1 ELSE 0]
  <2>1. PICK o \in TerminalRunStatuses : o = Outcome(r)'
    BY <1>5
  <2>2. Contract!End(r, o)
    BY <1>0, <1>5, <2>1 DEF Contract!End
  <2>3. o \in Contract!Ends
    BY DEF Contract!Ends, TerminalRunStatuses
  <2> QED
    BY <2>2, <2>3, Zenon DEF Contract!Next
<1> HIDE DEF Outcome, Live, Standing
<1> QED
  BY <1>1, <1>2, <1>3, <1>4, <1>5

\* A step that the contract does not see.
LEMMA NothingSeen ==
    ASSUME LateKept, reconcile' = reconcile,
           \A q \in Runs : /\ Outcome(q)' = Outcome(q)
                           /\ Live(q)' = Live(q) /\ Standing(q)' = Standing(q)
    PROVE  [Contract!Next]_(Contract!vars)
<1>1. [q \in Runs |-> Outcome(q)]' = [q \in Runs |-> Outcome(q)]
  OBVIOUS
<1>2. /\ [q \in Runs |-> Live(q)]' = [q \in Runs |-> Live(q)]
      /\ [q \in Runs |-> Standing(q)]' = [q \in Runs |-> Standing(q)]
  OBVIOUS
<1>3. [q \in Runs |-> Cardinality(Late(q))]' = [q \in Runs |-> Cardinality(Late(q))]
  BY DEF LateKept
<1> QED
  BY <1>1, <1>2, <1>3
  DEF Outcome, Live, Standing, LiveJobs, StandingJobs, Contract!vars

\* A step that writes none of the columns that the contract sees.
LEMMA ColumnsKept ==
    ASSUME LateKept, UNCHANGED <<status, job, reconcile>>
    PROVE  [Contract!Next]_(Contract!vars)
<1>1. \A q \in Runs : Outcome(q)' = Outcome(q)
  BY DEF Outcome
<1> QED
  BY <1>1, CountsFrame, NothingSeen

\* Nothing of a Run is with Hermes when its last Attempt is not.
LEMMA NothingLive ==
    ASSUME FencingInv, NEW r \in Runs,
           \A n \in DOMAIN attempts[r] :
               n = Len(attempts[r]) /\ status[r] # "queued" /\ ~attempts[r][n].late =>
                   job[r][n] \notin LiveJobs
    PROVE  Live(r) = 0
<1>1. ASSUME NEW n \in DOMAIN job[r], n \notin Late(r) PROVE job[r][n] \notin LiveJobs
  <2>1. /\ job[r] \in Seq(JobStatuses) /\ attempts[r] \in Seq(Attempt)
        /\ Len(job[r]) = Len(attempts[r])
    BY DEF FencingInv, TypeOK
  <2>2. n \in DOMAIN attempts[r]
    BY <2>1, LenProperties
  <2>3. AttemptShape(r, n) /\ n \in Nat /\ Len(attempts[r]) \in Nat /\ n <= Len(attempts[r])
    BY <2>2, AttemptFacts
  <2>4. ~attempts[r][n].late
    BY <1>1, <2>2 DEF Late
  <2> QED
    BY <2>2, <2>3, <2>4 DEF AttemptShape, Released, LiveJobs
<1>2. {n \in DOMAIN job[r] : job[r][n] \in LiveJobs /\ n \notin Late(r)} = {}
  BY <1>1
<1> QED
  BY <1>2, FS_EmptySet DEF Live, JobsIn

\* A transition of a Run, as the contract sees it.
LEMMA TransitionSeen ==
    ASSUME TypeOK, NEW r \in Runs, NEW to \in RunStatuses, Transition(r, to), job' = job,
           LateKept, to \in {"evidence_accepted", "failed", "cancelled"} => Live(r) = 0
    PROVE  [Contract!Next]_(Contract!vars)
<1>1. /\ status'[r] = to
      /\ \A q \in Runs : q # r => status'[q] = status[q]
      /\ status[r] \in {"queued", "accepted", "running"}
      /\ to # "none"
  BY TransitionEffect
<1>2. reconcile' = [reconcile EXCEPT ![r] = @ + IF to = "unknown" THEN 1 ELSE 0]
  BY DEF Transition
<1>3. \A q \in Runs : q # r => Outcome(q)' = Outcome(q)
  BY <1>1 DEF Outcome
<1>4. \A q \in Runs : Live(q)' = Live(q) /\ Standing(q)' = Standing(q)
  BY CountsFrame
<1>5. CASE to \in TerminalRunStatuses
  <2>1. Outcome(r) = "pending" /\ Outcome(r)' = to
    BY <1>1, <1>5 DEF Outcome, TerminalRunStatuses
  <2>2. Outcome(r)' # "unknown" => Live(r) = 0
    BY <1>5, <2>1 DEF TerminalRunStatuses
  <2> QED
    BY <1>2, <1>3, <1>4, <1>5, <2>1, <2>2, ContractStep
<1>6. CASE to \notin TerminalRunStatuses
  <2>1. to \in {"queued", "accepted", "running"}
    BY <1>1, <1>6 DEF RunStatuses
  <2>2. Outcome(r)' = Outcome(r)
    BY <1>1, <2>1 DEF Outcome
  <2>3. reconcile \in [Runs -> Nat] /\ to # "unknown"
    BY <2>1 DEF TypeOK
  <2>4. reconcile' = reconcile
    BY <1>2, <2>3
  <2> QED
    BY <1>3, <1>4, <2>2, <2>4, NothingSeen
<1> QED
  BY <1>5, <1>6

\* A transaction that ends an Attempt ends the Run, or queues it again, when
\* the last execution is not with Hermes any more, or nobody knows.
LEMMA FinishSeen ==
    ASSUME FencingInv, NEW r \in Runs, NEW n \in DOMAIN attempts[r], LeaseHeld(r, n),
           NEW final \in RunStatuses, Transition(r, final), job' = job, LateKept,
           final = "unknown" \/ job[r][n] \notin LiveJobs
    PROVE  [Contract!Next]_(Contract!vars)
<1>1. TypeOK /\ n = Len(attempts[r])
  BY FinishFindsOpen, AttemptFacts
<1>2. CASE final = "unknown"
  BY <1>1, <1>2, TransitionSeen
<1>3. CASE job[r][n] \notin LiveJobs
  <2>1. Live(r) = 0
    BY <1>1, <1>3, NothingLive
  <2> QED
    BY <1>1, <2>1, TransitionSeen
<1> QED
  BY <1>2, <1>3

\* What Hermes does for an Attempt, as the contract sees it.
LEMMA JobSeen ==
    ASSUME FencingInv, NEW r \in Runs, NEW n \in DOMAIN attempts[r],
           NEW to \in JobStatuses, SetJob(r, n, to), LateKept,
           UNCHANGED <<status, reconcile>>,
           attempts[r][n].late \/ n = Len(attempts[r]),
           \/ attempts[r][n].late
           \/ job[r][n] = "none" /\ to = "running" /\ Outcome(r) \in {"pending", "unknown"}
           \/ job[r][n] \in LiveJobs /\ to \notin {"none"}
    PROVE  [Contract!Next]_(Contract!vars)
<1>1. TypeOK /\ \A q \in Runs : Outcome(q)' = Outcome(q)
  BY DEF FencingInv, Outcome
<1>2. CASE attempts[r][n].late
  <2>1. \A q \in Runs : Live(q)' = Live(q) /\ Standing(q)' = Standing(q)
    BY <1>1, <1>2, LateJobWritten
  <2> QED
    BY <1>1, <2>1, NothingSeen
<1>3. CASE ~attempts[r][n].late
  <2>1. /\ Live(r) = IF job[r][n] \in LiveJobs THEN 1 ELSE 0
        /\ Standing(r) = IF job[r][n] \in StandingJobs THEN 1 ELSE 0
        /\ Live(r)' = IF to \in LiveJobs THEN 1 ELSE 0
        /\ Standing(r)' = IF to \in StandingJobs THEN 1 ELSE 0
        /\ \A q \in Runs : q # r => Live(q)' = Live(q) /\ Standing(q)' = Standing(q)
    BY <1>3, LastJobWritten
  <2>2. CASE job[r][n] = "none" /\ to = "running" /\ Outcome(r) \in {"pending", "unknown"}
    <3>1. Live(r) = 0 /\ Standing(r) = 0 /\ Live(r)' = 1 /\ Standing(r)' = 0
      BY <2>1, <2>2 DEF LiveJobs, StandingJobs
    <3> QED
      BY <1>1, <2>1, <2>2, <3>1, ContractStep
  <2>3. CASE job[r][n] \in LiveJobs /\ to \in LiveJobs
    <3>1. Live(r)' = Live(r) /\ Standing(r)' = Standing(r)
      BY <2>1, <2>3 DEF LiveJobs, StandingJobs
    <3> QED
      BY <1>1, <2>1, <3>1, ContractStep
  <2>4. CASE job[r][n] \in LiveJobs /\ to \notin LiveJobs
    <3>1. Live(r) = 1 /\ Live(r)' = 0 /\ Standing(r) = 0 /\ Standing(r)' \in {0, 1}
      BY <2>1, <2>4 DEF LiveJobs, StandingJobs
    <3> QED
      BY <1>1, <2>1, <3>1, ContractStep
  <2> QED
    BY <1>3, <2>2, <2>3, <2>4
<1> QED
  BY <1>2, <1>3

\* The request to Hermes is a dispatch of a Run that has none standing, and is
\* pending or already called unknown; or it is on nobody's account any more.
LEMMA PostSeen ==
    ASSUME FencingInv, NEW r \in Runs, NEW n \in DOMAIN attempts[r], NEW w \in Workers,
           PostHermesRun(w, r, n)
    PROVE  [Contract!Next]_(Contract!vars)
<1>1. Works(w, r, n) /\ worker[w].step = "intent"
  BY DEF PostHermesRun, At, Works, Busy
<1>2. WorkerShape(w) /\ AttemptShape(r, n) /\ attempts[r][n] \in Attempt
  BY <1>1, SoleWorker, AttemptFacts
<1>3. LateKept /\ UNCHANGED <<status, reconcile>>
  BY DEF PostHermesRun, runVars, LateKept, Late
<1>4. CASE job' = job
  BY <1>3, <1>4, ColumnsKept
<1>5. CASE SetJob(r, n, "running")
  <2>1. "running" \in JobStatuses
    BY DEF JobStatuses
  <2>2. CASE attempts[r][n].late
    BY <1>3, <1>5, <2>1, <2>2, JobSeen
  <2>3. CASE ~attempts[r][n].late
    <3>1. attempts[r][n].status \in {"external_starting", "unknown"} /\ job[r][n] = "none"
      BY <1>1, <1>2, <2>3 DEF WorkerShape, Works
    <3>2. n = Len(attempts[r])
      BY <3>1, StartedIsLast DEF Released
    <3>3. Outcome(r) \in {"pending", "unknown"}
      BY <1>2, <2>3, <3>1 DEF AttemptShape, LeftOpen, Open, OpenStatuses, Active, Outcome
    <3> QED
      BY <1>3, <1>5, <2>1, <3>1, <3>2, <3>3, JobSeen
  <2> QED
    BY <2>2, <2>3
<1> QED
  BY <1>4, <1>5 DEF PostHermesRun

\* An execution that is with Hermes is the last of its Run, or astray.
LEMMA LiveIsLast ==
    ASSUME FencingInv, NEW r \in Runs, NEW n \in DOMAIN attempts[r], job[r][n] \in LiveJobs
    PROVE  attempts[r][n].late \/ n = Len(attempts[r])
<1>1. CASE attempts[r][n].late
  BY <1>1
<1>2. CASE ~attempts[r][n].late
  <2>1. ~Released(r, n)
    BY <1>2 DEF Released, LiveJobs
  <2> QED
    BY <2>1, StartedIsLast
<1> QED
  BY <1>1, <1>2

\* A stop leaves the execution with Hermes.
LEMMA StopSeen ==
    ASSUME FencingInv, NEW r \in Runs, NEW n \in DOMAIN attempts[r], NEW w \in Workers,
           StopHermesRun(w, r, n)
    PROVE  [Contract!Next]_(Contract!vars)
<1>1. TypeOK /\ job[r][n] \in JobStatuses
  BY AttemptFacts
<1>2. LateKept /\ UNCHANGED <<status, reconcile>>
  BY DEF StopHermesRun, runVars, LateKept, Late
<1>3. CASE job[r][n] = "running" /\ SetJob(r, n, "stopping")
  <2>1. job[r][n] \in LiveJobs /\ "stopping" \in JobStatuses
    BY <1>3 DEF LiveJobs, JobStatuses
  <2>2. attempts[r][n].late \/ n = Len(attempts[r])
    BY <2>1, LiveIsLast
  <2> QED
    BY <1>2, <1>3, <2>1, <2>2, JobSeen
<1>4. CASE job[r][n] # "running" /\ SetJob(r, n, job[r][n])
  <2>1. job' = job
    <3>1. job \in [Runs -> Seq(JobStatuses)]
      BY <1>1 DEF TypeOK
    <3>2. [job[r] EXCEPT ![n] = job[r][n]] = job[r]
      BY <3>1
    <3>3. job' = [job EXCEPT ![r] = job[r]]
      BY <1>4, <3>2 DEF SetJob
    <3> QED
      BY <3>1, <3>3
  <2> QED
    BY <1>2, <2>1, ColumnsKept
<1>5. CASE UNCHANGED job
  BY <1>2, <1>5, ColumnsKept
<1> QED
  BY <1>3, <1>4, <1>5 DEF StopHermesRun

\* Every step of a Worker keeps the contract.
LEMMA WorkerSeen ==
    ASSUME FencingInv, NEW r \in Runs, NEW n \in DOMAIN attempts[r], NEW w \in Workers,
           WorkerStep(w, r, n) \/ WorkerCrash(w, r, n)
    PROVE  [Contract!Next]_(Contract!vars)
<1>1. TypeOK /\ LateKept
  BY WorkerKeepsLate DEF FencingInv
<1>2. /\ "running" \in RunStatuses /\ "queued" \in RunStatuses
      /\ "evidence_accepted" \in RunStatuses /\ "failed" \in RunStatuses
      /\ "cancelled" \in RunStatuses /\ "unknown" \in RunStatuses
  BY DEF RunStatuses, TerminalRunStatuses
<1>3. CASE MarkRunning(w, r, n)
  <2>1. Transition(r, "running") /\ job' = job
    BY <1>3 DEF MarkRunning
  <2> QED
    BY <1>1, <1>2, <2>1, TransitionSeen
<1>4. CASE PostHermesRun(w, r, n)
  BY <1>4, PostSeen
<1>5. CASE StopHermesRun(w, r, n)
  BY <1>5, StopSeen
<1>6. CASE FinishSuccess(w, r, n)
  <2>1. /\ LeaseHeld(r, n) /\ Transition(r, "evidence_accepted") /\ job' = job
        /\ job[r][n] \notin LiveJobs
    BY <1>6 DEF FinishSuccess, Polled, LiveJobs
  <2> QED
    BY <1>1, <1>2, <2>1, FinishSeen
<1>7. CASE FinishFailureOrRequeue(w, r, n)
  <2>1. /\ LeaseHeld(r, n) /\ (Transition(r, "queued") \/ Transition(r, "failed")) /\ job' = job
        /\ job[r][n] \notin LiveJobs
    BY <1>7 DEF FinishFailureOrRequeue, Polled, LiveJobs
  <2> QED
    BY <1>1, <1>2, <2>1, FinishSeen
<1>8. CASE FinishCancelled(w, r, n)
  <2>1. /\ LeaseHeld(r, n) /\ Transition(r, "cancelled") /\ job' = job
        /\ job[r][n] \notin LiveJobs
    BY <1>8 DEF FinishCancelled, Polled, LiveJobs
  <2> QED
    BY <1>1, <1>2, <2>1, FinishSeen
<1>9. CASE PersistUnknown(w, r, n)
  <2>1. LeaseHeld(r, n) /\ Transition(r, "unknown") /\ job' = job
    BY <1>9 DEF PersistUnknown
  <2> QED
    BY <1>1, <1>2, <2>1, FinishSeen
<1>10. CASE FinishSimulated(w, r, n)
  <2>1. /\ LeaseHeld(r, n) /\ Transition(r, "evidence_accepted") /\ job' = job
        /\ Works(w, r, n) /\ worker[w].step = "simulating"
    BY <1>10 DEF FinishSimulated, At, Works, Busy
  <2>2. job[r][n] \notin LiveJobs
    BY <2>1, SoleWorker DEF WorkerShape, Works, LiveJobs
  <2> QED
    BY <1>1, <1>2, <2>1, <2>2, FinishSeen
<1>11. CASE MarkExternalStarting(w, r, n) \/ SetHermesRun(w, r, n) \/ ExecutionRaises(w, r, n)
            \/ Heartbeat(w, r, n) \/ Abandon(w, r, n) \/ WorkerCrash(w, r, n)
  <2>1. UNCHANGED <<status, reconcile, job>>
    BY <1>11 DEF MarkExternalStarting, SetHermesRun, ExecutionRaises, Heartbeat, Abandon,
                 WorkerCrash, runVars
  <2> QED
    BY <1>1, <2>1, ColumnsKept
<1> QED
  BY <1>3, <1>4, <1>5, <1>6, <1>7, <1>8, <1>9, <1>10, <1>11 DEF WorkerStep

\* The runtime has lost track of no more than a finite number of Attempts.
LEMMA LateIsFinite ==
    ASSUME TypeOK, NEW r \in Runs
    PROVE  IsFiniteSet(Late(r))
<1>1. DOMAIN attempts[r] = 1 .. Len(attempts[r]) /\ Len(attempts[r]) \in Int
  <2>1. attempts[r] \in Seq(Attempt)
    BY DEF TypeOK
  <2> QED
    BY <2>1, LenProperties
<1> DEFINE k == Len(attempts[r])
<1>2. k \in Int /\ 1 \in Int
  BY <1>1
<1>3. Late(r) \in SUBSET (1 .. k)
  BY <1>1 DEF Late
<1> HIDE DEF k
<1>4. IsFiniteSet(1 .. k)
  BY <1>2, FS_Interval
<1> QED
  BY <1>3, <1>4, FS_Subset

\* A lease that ends under a transaction is the loss of track of an execution,
\* unless that is lost already.
LEMMA LapseSeen ==
    ASSUME FencingInv, NEW r \in Runs, NEW n \in DOMAIN attempts[r], LeaseExpires(r, n)
    PROVE  [Contract!Next]_(Contract!vars)
<1>1. /\ TypeOK /\ attempts[r][n] \in Attempt /\ AttemptShape(r, n)
      /\ DOMAIN attempts[r] = 1 .. Len(attempts[r]) /\ Len(attempts[r]) \in Nat
  BY AttemptFacts
<1>2. /\ \A q \in Runs : DOMAIN attempts'[q] = DOMAIN attempts[q]
      /\ \/ attempts'[r][n].late = attempts[r][n].late
         \/ attempts'[r][n].late = TRUE
      /\ \A q \in Runs : \A m \in DOMAIN attempts[q] :
            q # r \/ m # n => attempts'[q][m] = attempts[q][m]
  BY <1>1, LapseEffect
<1>3. Open(r, n) /\ UNCHANGED <<status, job, reconcile>>
  BY DEF LeaseExpires, runVars
<1>4. CASE attempts'[r][n].late = attempts[r][n].late
  <2>1. \A q \in Runs : \A m \in DOMAIN attempts[q] :
            attempts'[q][m].late = attempts[q][m].late
    BY <1>2, <1>4
  <2>2. LateKept
    BY <1>2, <2>1, LateFrame
  <2> QED
    BY <1>3, <2>2, ColumnsKept
<1>5. CASE attempts'[r][n].late # attempts[r][n].late
  <2>1. attempts'[r][n].late = TRUE /\ attempts[r][n].late = FALSE
    BY <1>1, <1>2, <1>5 DEF Attempt
  <2>2. Active(r) /\ n = Len(attempts[r])
    <3>1. Active(r) /\ current[r] = n
      BY <1>1, <1>3, <2>1 DEF AttemptShape, LeftOpen
    <3> QED
      BY <3>1, CurrentIsOpen
  <2>3. Late(r)' = Late(r) \cup {n} /\ n \notin Late(r)
    BY <1>2, <2>1 DEF Late
  <2>4. \A q \in Runs : q # r => Late(q)' = Late(q)
    <3> SUFFICES ASSUME NEW q \in Runs, q # r PROVE Late(q)' = Late(q)
      OBVIOUS
    <3>1. {m \in DOMAIN attempts'[q] : attempts'[q][m].late} =
              {m \in DOMAIN attempts[q] : attempts[q][m].late}
      BY <1>2
    <3> QED
      BY <3>1 DEF Late
  <2>5. Astray(r)' = Astray(r) + 1
    <3>1. Cardinality(Late(r) \cup {n}) = Cardinality(Late(r)) + 1
      BY <1>1, <2>3, LateIsFinite, FS_AddElement
    <3>2. Astray(r)' = Cardinality(Late(r)')
      BY DEF Astray
    <3> QED
      BY <2>3, <3>1, <3>2 DEF Astray
  <2>6. ASSUME NEW S, S \cap {"none", "failed_safe"} = {} PROVE JobsIn(r, S)' = 0
    <3>1. DOMAIN job[r] = DOMAIN attempts[r]
      BY <1>1, RowTypes
    <3>2. ASSUME NEW m \in DOMAIN attempts[r], m \notin Late(r)' PROVE job[r][m] \notin S
      <4>1. m \in 1 .. Len(attempts[r]) /\ m < Len(attempts[r])
        BY <1>1, <2>2, <2>3, <3>2
      <4>2. AttemptShape(r, m) /\ ~attempts[r][m].late
        BY <2>3, <3>2, AttemptFacts DEF Late
      <4> QED
        BY <2>6, <4>1, <4>2 DEF AttemptShape, Released
    <3> DEFINE L == Late(r)'
    <3>3. JobsIn(r, S)' = Cardinality({m \in DOMAIN job[r] : job[r][m] \in S /\ m \notin L})
      BY <1>3 DEF JobsIn
    <3>4. {m \in DOMAIN job[r] : job[r][m] \in S /\ m \notin L} = {}
      BY <3>1, <3>2
    <3> HIDE DEF L
    <3> QED
      BY <3>3, <3>4, FS_EmptySet
  <2>7. Live(r)' = 0 /\ Standing(r)' = 0
    <3>1. /\ LiveJobs \cap {"none", "failed_safe"} = {}
          /\ StandingJobs \cap {"none", "failed_safe"} = {}
      BY DEF LiveJobs, StandingJobs
    <3> QED
      BY <2>6, <3>1 DEF Live, Standing
  <2>8. \A q \in Runs : q # r => /\ Live(q)' = Live(q) /\ Standing(q)' = Standing(q)
                                 /\ Astray(q)' = Astray(q)
    <3> SUFFICES ASSUME NEW q \in Runs, q # r
                 PROVE  /\ Live(q)' = Live(q) /\ Standing(q)' = Standing(q)
                        /\ Astray(q)' = Astray(q)
      OBVIOUS
    <3>1. Late(q)' = Late(q) /\ job'[q] = job[q]
      BY <1>3, <2>4
    <3> QED
      BY <3>1, SameCount DEF Live, Standing, Astray
  <2>9. Outcome(r) = "pending" /\ \A q \in Runs : Outcome(q)' = Outcome(q)
    BY <1>3, <2>2 DEF Outcome, Active
  <2>10. Contract!LoseTrack(r)
    BY <1>3, <2>5, <2>7, <2>8, <2>9
    DEF Contract!LoseTrack, Outcome, Live, Standing, Astray, LiveJobs, StandingJobs
  <2> QED
    BY <2>10 DEF Contract!Next
<1> QED
  BY <1>4, <1>5

\* Every step keeps the contract.
LEMMA StepSeen ==
    ASSUME FencingInv, [Next]_vars
    PROVE  [Contract!Next]_(Contract!vars)
<1>1. TypeOK
  BY DEF FencingInv
<1>0. ASSUME UNCHANGED attempts PROVE LateKept
  BY <1>0 DEF LateKept, Late
<1>2. CASE UNCHANGED vars
  BY <1>0, <1>2, ColumnsKept DEF vars
<1>3. ASSUME NEW r \in Runs, NEW m \in Modes, CreateRun(r, m)
      PROVE  [Contract!Next]_(Contract!vars)
  <2>1. /\ status[r] = "none" /\ status'[r] = "queued"
        /\ \A q \in Runs : q # r => status'[q] = status[q]
        /\ UNCHANGED <<job, reconcile>> /\ LateKept
    BY <1>0, <1>1, <1>3 DEF CreateRun, TypeOK
  <2>2. /\ Outcome(r) = "none" /\ Outcome(r)' = "pending"
        /\ \A q \in Runs : q # r => Outcome(q)' = Outcome(q)
    BY <2>1 DEF Outcome
  <2>3. \A q \in Runs : Live(q)' = Live(q) /\ Standing(q)' = Standing(q)
    BY <2>1, CountsFrame
  <2> QED
    BY <1>1, <2>1, <2>2, <2>3, ContractStep
<1>4. ASSUME NEW r \in Runs, RequestCancellation(r)
      PROVE  [Contract!Next]_(Contract!vars)
  <2>0. LateKept
    BY <1>0, <1>4 DEF RequestCancellation
  <2>1. CASE status[r] = "queued"
    <3>1. Transition(r, "cancelled") /\ job' = job /\ "cancelled" \in RunStatuses
      BY <1>4, <2>1 DEF RequestCancellation, RunStatuses, TerminalRunStatuses
    <3>2. Live(r) = 0
      BY <2>1, NothingLive
    <3> QED
      BY <1>1, <2>0, <3>1, <3>2, TransitionSeen
  <2>2. CASE status[r] # "queued"
    BY <1>4, <2>0, <2>2, ColumnsKept DEF RequestCancellation
  <2> QED
    BY <2>1, <2>2
<1>5. ASSUME NEW r \in Runs, NEW w \in Workers, ClaimNextRun(w, r)
      PROVE  [Contract!Next]_(Contract!vars)
  <2>1. /\ \A q \in Runs : q # r => job'[q] = job[q]
        /\ Len(attempts[r]) \in Nat
        /\ Len(job'[r]) = Len(attempts[r]) + 1
        /\ job' \in [Runs -> Seq(JobStatuses)]
        /\ DOMAIN attempts[r] = 1 .. Len(attempts[r])
        /\ job'[r][Len(attempts[r]) + 1] = "none"
        /\ \A m \in DOMAIN attempts[r] : job'[r][m] = job[r][m]
    BY <1>1, <1>5, ClaimEffect
  <2>0. LateKept
    <3>1. /\ \A q \in Runs : q # r => attempts'[q] = attempts[q]
          /\ DOMAIN attempts'[r] = DOMAIN attempts[r] \cup {Len(attempts[r]) + 1}
          /\ attempts'[r][Len(attempts[r]) + 1].late = FALSE
          /\ \A m \in DOMAIN attempts[r] : attempts'[r][m] = attempts[r][m]
      <4>1. /\ \A q \in Runs : q # r => attempts'[q] = attempts[q]
            /\ attempts'[r][Len(attempts[r]) + 1] =
                   [status |-> "claimed", hermes |-> FALSE,
                    retry |-> "conditional", lease |-> "valid", late |-> FALSE]
            /\ \A m \in DOMAIN attempts[r] : attempts'[r][m] = attempts[r][m]
            /\ DOMAIN attempts'[r] = 1 .. (Len(attempts[r]) + 1)
        BY <1>1, <1>5, ClaimEffect
      <4> QED
        BY <2>1, <4>1
    <3>2. ASSUME NEW q \in Runs PROVE Late(q)' = Late(q)
      <4>1. {m \in DOMAIN attempts'[q] : attempts'[q][m].late} =
                {m \in DOMAIN attempts[q] : attempts[q][m].late}
        BY <3>1
      <4> QED
        BY <4>1 DEF Late
    <3> QED
      BY <3>2 DEF LateKept
  <2>2. DOMAIN job'[r] = 1 .. (Len(attempts[r]) + 1) /\ DOMAIN job[r] = 1 .. Len(attempts[r])
    <3>1. job[r] \in Seq(JobStatuses) /\ Len(job[r]) = Len(attempts[r])
      BY <1>1 DEF TypeOK
    <3> QED
      BY <2>1, <3>1, LenProperties
  <2>3. ASSUME NEW S, "none" \notin S PROVE JobsIn(r, S)' = JobsIn(r, S)
    <3>1. \A m : (m \in DOMAIN job[r] /\ job[r][m] \in S) <=>
                     (m \in DOMAIN job'[r] /\ job'[r][m] \in S)
      BY <2>1, <2>2, <2>3
    <3>2. Late(r)' = Late(r)
      BY <2>0 DEF LateKept
    <3> QED
      BY <3>1, <3>2, SameCount
  <2>4. \A q \in Runs : Live(q)' = Live(q) /\ Standing(q)' = Standing(q)
    <3>1. Live(r)' = Live(r) /\ Standing(r)' = Standing(r)
      BY <2>3 DEF Live, Standing, LiveJobs, StandingJobs
    <3>2. ASSUME NEW q \in Runs, q # r
          PROVE  Live(q)' = Live(q) /\ Standing(q)' = Standing(q)
      <4>1. Late(q)' = Late(q) /\ job'[q] = job[q]
        BY <2>0, <2>1, <3>2 DEF LateKept
      <4> QED
        BY <4>1, SameCount DEF Live, Standing
    <3> QED
      BY <3>1, <3>2
  <2>5. /\ status[r] = "queued" /\ status'[r] = "accepted"
        /\ \A q \in Runs : q # r => status'[q] = status[q]
        /\ reconcile' = reconcile
    <3>1. Transition(r, "accepted") /\ "accepted" \in RunStatuses /\ status[r] = "queued"
      BY <1>5 DEF ClaimNextRun, RunStatuses
    <3>2. reconcile' = [reconcile EXCEPT ![r] = @ + 0] /\ reconcile \in [Runs -> Nat]
      BY <1>1, <3>1 DEF Transition, TypeOK
    <3>3. reconcile' = reconcile
      BY <3>2
    <3> QED
      BY <1>1, <3>1, <3>3, TransitionEffect
  <2>6. \A q \in Runs : Outcome(q)' = Outcome(q)
    BY <2>5 DEF Outcome
  <2> QED
    BY <1>1, <2>0, <2>4, <2>5, <2>6, ContractStep
<1>6. ASSUME NEW r \in Runs, NEW n \in DOMAIN attempts[r], NEW w \in Workers,
             WorkerStep(w, r, n) \/ WorkerCrash(w, r, n)
      PROVE  [Contract!Next]_(Contract!vars)
  BY <1>6, WorkerSeen
<1>7. ASSUME NEW r \in Runs, NEW n \in DOMAIN attempts[r],
             LeaseExpires(r, n) \/ RecoveryScan(r, n)
      PROVE  [Contract!Next]_(Contract!vars)
  <2>1. CASE LeaseExpires(r, n)
    BY <2>1, LapseSeen
  <2>2. CASE RecoveryScan(r, n)
    <3>1. UNCHANGED <<status, reconcile, job, attempts>>
      BY <2>2 DEF RecoveryScan, runVars
    <3> QED
      BY <1>0, <3>1, ColumnsKept
  <2> QED
    BY <1>7, <2>1, <2>2
<1>8. ASSUME NEW r \in Runs, NEW n \in DOMAIN attempts[r],
             NEW to \in {"completed", "failed_safe", "failed_unsafe", "cancelled"},
             HermesEnds(r, n, to)
      PROVE  [Contract!Next]_(Contract!vars)
  <2>1. /\ job[r][n] \in LiveJobs /\ SetJob(r, n, to) /\ UNCHANGED <<status, reconcile>>
        /\ to \in JobStatuses /\ to # "none" /\ LateKept
    BY <1>0, <1>8 DEF HermesEnds, runVars, LiveJobs, JobStatuses
  <2>2. attempts[r][n].late \/ n = Len(attempts[r])
    BY <2>1, LiveIsLast
  <2> QED
    BY <2>1, <2>2, JobSeen
<1>9. ASSUME NEW s \in scanned, RecoverAttempt(s)
      PROVE  [Contract!Next]_(Contract!vars)
  <2>1. s.run \in Runs /\ s.no \in DOMAIN attempts[s.run] /\ job' = job
    BY <1>1, <1>9 DEF TypeOK, Snapshot, RecoverAttempt
  <2>2. CASE current[s.run] # s.no \/ ~Active(s.run)
    <3>1. UNCHANGED <<status, reconcile, attempts>>
      BY <1>9, <2>2 DEF RecoverAttempt, runVars
    <3> QED
      BY <1>0, <2>1, <3>1, ColumnsKept
  <2>3. CASE current[s.run] = s.no /\ Active(s.run)
    <3>1. "unknown" \in RunStatuses /\ "queued" \in RunStatuses /\ "failed" \in RunStatuses
      BY DEF RunStatuses, TerminalRunStatuses
    <3>4. LateKept
      <4>1. PICK to, retry : Recover(s.run, s.no, to, retry)
        BY <1>9, <2>3 DEF RecoverAttempt
      <4> DEFINE row == [attempts[s.run][s.no] EXCEPT !.status = to, !.retry = retry]
      <4>2. attempts[s.run][s.no] \in Attempt
        BY <1>1, <2>1, RowTypes
      <4>3. row.late = attempts[s.run][s.no].late
        BY <4>2 DEF Attempt
      <4>4. SetAttempt(s.run, s.no, row)
        BY <4>1 DEF Recover
      <4> HIDE DEF row
      <4> QED
        BY <1>1, <2>1, <4>3, <4>4, LateWritten
    <3>2. CASE s.external
      <4>1. Transition(s.run, "unknown")
        BY <1>9, <2>3, <3>2 DEF RecoverAttempt
      <4> QED
        BY <1>1, <2>1, <3>1, <3>4, <4>1, TransitionSeen
    <3>3. CASE ~s.external
      <4>1. Transition(s.run, "queued") \/ Transition(s.run, "failed")
        BY <1>9, <2>3, <3>3 DEF RecoverAttempt
      <4>2. Open(s.run, s.no) /\ s.no = Len(attempts[s.run])
        BY <2>1, <2>3, CurrentIsOpen
      <4>3. AttemptShape(s.run, s.no) /\ SnapshotTrue(s)
        BY <2>1 DEF FencingInv
      <4>4. ~attempts[s.run][s.no].late => job[s.run][s.no] = "none"
        BY <2>3, <3>3, <4>2, <4>3
        DEF SnapshotTrue, AttemptShape, External, Open, OpenStatuses
      <4>5. Live(s.run) = 0
        BY <2>1, <4>2, <4>4, NothingLive DEF LiveJobs
      <4> QED
        BY <1>1, <2>1, <3>1, <3>4, <4>1, <4>5, TransitionSeen
    <3> QED
      BY <3>2, <3>3
  <2> QED
    BY <2>2, <2>3
<1> QED
  BY <1>2, <1>3, <1>4, <1>5, <1>6, <1>7, <1>8, <1>9 DEF Next

\* The runtime keeps the contract of RunContract: executions are counted over
\* the Attempts, those with a late transaction apart, and every step of the
\* API, of the Workers, of recovery, of the clock and of Hermes is a step of
\* the contract or none that it sees.
THEOREM RunContractKept == Spec => KeepsContract
<1>1. Init => Contract!Init
  <2> SUFFICES ASSUME Init PROVE Contract!Init
    OBVIOUS
  <2>1. \A r \in Runs : status[r] = "none" /\ job[r] = << >> /\ attempts[r] = << >>
    BY DEF Init
  <2>2. ASSUME NEW r \in Runs, NEW S PROVE JobsIn(r, S) = 0
    <3>1. {n \in DOMAIN job[r] : job[r][n] \in S /\ n \notin Late(r)} = {}
      BY <2>1
    <3> QED
      BY <3>1, FS_EmptySet DEF JobsIn
  <2>3. ASSUME NEW r \in Runs PROVE Cardinality(Late(r)) = 0
    <3>1. Late(r) = {}
      BY <2>1 DEF Late
    <3> QED
      BY <3>1, FS_EmptySet
  <2> QED
    BY <2>1, <2>2, <2>3 DEF Init, Contract!Init
<1>2. FencingInv /\ [Next]_vars => [Contract!Next]_(Contract!vars)
  BY StepSeen
<1> QED
  BY <1>1, <1>2, Fencing, PTL DEF Spec, KeepsContract, Contract!Spec
=============
