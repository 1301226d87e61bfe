-------------------------- MODULE CaseAndRunProofs --------------------------
(***************************************************************************)
(* Proofs about CaseAndRun for any processes and bounds: the timeline of a  *)
(* Run is a chain, although rows are written from what was read before they *)
(* were locked, and the case and its Run change as if commands and ends of  *)
(* Runs were indivisible (CaseContract).                                    *)
(***************************************************************************)
EXTENDS CaseAndRun, TLAPS

-----------------------------------------------------------------------------
(* The inductive invariant.                                                *)

\* A row that was read is older than the present one or has its status, and
\* whoever is about to write the Run holds its lock and the present row.
RowsRead ==
    \A p \in Processes : tx[p] # Idle =>
        /\ tx[p].run.seq <= run.seq
        /\ tx[p].run.seq = run.seq => tx[p].run.status = run.status
        /\ tx[p].at = "locked" => runLock = p /\ tx[p].run.seq = run.seq

TimelineInv == TypeOK /\ TimelineChained /\ RowsRead

-----------------------------------------------------------------------------
(* The two kinds of steps.                                                 *)

\* p does not write the Run: it reads, locks, releases or ends.
Quiet(p) ==
    /\ UNCHANGED <<run, timeline>>
    /\ \A q \in Processes : q # p => tx'[q] = tx[q]
    /\ \A q \in Processes : q # p /\ runLock = q => runLock' = q
    /\ tx'[p] # Idle =>
           /\ tx'[p].run.seq <= run.seq
           /\ tx'[p].run.seq = run.seq => tx'[p].run.status = run.status
           /\ tx'[p].at = "locked" => runLock' = p /\ tx'[p].run.seq = run.seq

\* p writes the Run, which nobody else has locked: one more transition, from
\* the present status.
Moving(p) ==
    /\ runLock \in {Nobody, p}
    /\ \A q \in Processes : q # p => tx'[q] = tx[q]
    /\ tx'[p] = Idle
    /\ \E row \in RunRow :
           /\ run' = [row EXCEPT !.seq = run.seq + 1]
           /\ timeline' = Append(timeline, [from |-> run.status, to |-> row.status])

LEMMA QuietKeeps ==
    ASSUME TimelineInv, TypeOK', NEW p \in Processes, Quiet(p)
    PROVE  TimelineInv'
<1>1. TimelineChained'
  BY DEF TimelineInv, TimelineChained, Quiet
<1>2. RowsRead'
  BY DEF TimelineInv, RowsRead, Quiet
<1> QED
  BY <1>1, <1>2 DEF TimelineInv

LEMMA MovingKeeps ==
    ASSUME TimelineInv, TypeOK', NEW p \in Processes, Moving(p)
    PROVE  TimelineInv'
<1>1. PICK row \in RunRow :
          /\ run' = [row EXCEPT !.seq = run.seq + 1]
          /\ timeline' = Append(timeline, [from |-> run.status, to |-> row.status])
  BY DEF Moving
<1>2. /\ run \in RunRow /\ run.seq = Len(timeline) /\ run.seq \in Nat
      /\ timeline \in Seq([from : RunStatuses, to : RunStatuses])
  BY DEF TimelineInv, TypeOK, TimelineChained, RunRow
<1>3. run'.seq = run.seq + 1 /\ run'.status = row.status
  BY <1>1, <1>2 DEF RunRow
<1> DEFINE new == [from |-> run.status, to |-> row.status]
<1>4. /\ Len(timeline') = Len(timeline) + 1
      /\ timeline'[Len(timeline) + 1] = new
      /\ \A i \in 1..Len(timeline) : timeline'[i] = timeline[i]
  <2>1. new \in [from : RunStatuses, to : RunStatuses]
    BY <1>2 DEF RunRow
  <2> QED
    BY <1>1, <1>2, <2>1
<1>5. TimelineChained'
  <2>1. run'.seq = Len(timeline') /\ run'.status = timeline'[run'.seq].to
    BY <1>2, <1>3, <1>4
  <2>2. ASSUME NEW i \in 2..Len(timeline') PROVE timeline'[i].from = timeline'[i - 1].to
    <3>1. CASE i = Len(timeline) + 1
      <4>1. i - 1 = Len(timeline) /\ i - 1 \in 1..Len(timeline)
        BY <1>2, <3>1, <2>2
      <4>2. timeline[Len(timeline)].to = run.status
        BY <1>2 DEF TimelineInv, TimelineChained
      <4> QED
        BY <1>4, <3>1, <4>1, <4>2
    <3>2. CASE i \in 2..Len(timeline)
      BY <1>2, <1>4, <3>2 DEF TimelineInv, TimelineChained
    <3> QED
      BY <1>2, <1>4, <3>1, <3>2
  <2> QED
    BY <2>1, <2>2 DEF TimelineChained
<1>6. RowsRead'
  <2> SUFFICES ASSUME NEW q \in Processes, tx'[q] # Idle
               PROVE  /\ tx'[q].run.seq <= run'.seq
                      /\ tx'[q].run.seq = run'.seq => tx'[q].run.status = run'.status
                      /\ tx'[q].at = "locked" => runLock' = q /\ tx'[q].run.seq = run'.seq
    BY DEF RowsRead
  <2>1. q # p /\ tx'[q] = tx[q] /\ tx[q] \in Transaction
    BY DEF Moving, TimelineInv, TypeOK
  <2>2. tx[q].run.seq <= run.seq /\ tx[q].run.seq \in Nat
    BY <2>1 DEF TimelineInv, RowsRead, Transaction, RunRow
  <2>3. tx[q].at # "locked"
    BY <2>1, NobodyAssumption DEF Moving, TimelineInv, RowsRead
  <2> QED
    BY <1>2, <1>3, <2>1, <2>2, <2>3
<1> QED
  BY <1>5, <1>6 DEF TimelineInv

-----------------------------------------------------------------------------
(* What steps are made of.                                                 *)

\* What a transaction reads has the types of the rows.
LEMMA ReadingType ==
    ASSUME TypeOK,
           NEW at \in {"starting", "finishing", "linked", "locked", "command", "message"},
           NEW to \in RunStatuses, NEW attempt \in Nat
    PROVE  Reading(at, to, attempt) \in Transaction
BY DEF TypeOK, Reading, Transaction

\* A transition computed from a row of the present number is one more link.
LEMMA AppendMoves ==
    ASSUME TypeOK, NEW old \in RunRow, NEW row \in RunRow, old.seq = run.seq,
           AppendTransition(old, row, run.status)
    PROVE  /\ run' \in RunRow
           /\ timeline' \in Seq([from : RunStatuses, to : RunStatuses])
           /\ \E r \in RunRow :
                  /\ run' = [r EXCEPT !.seq = run.seq + 1]
                  /\ timeline' = Append(timeline, [from |-> run.status, to |-> r.status])
<1>1. run' = [row EXCEPT !.seq = run.seq + 1]
  BY DEF AppendTransition
<1>2. timeline' = Append(timeline, [from |-> run.status, to |-> row.status])
  BY DEF AppendTransition
<1>3. run' \in RunRow
  BY <1>1 DEF TypeOK, RunRow
<1>4. [from |-> run.status, to |-> row.status] \in [from : RunStatuses, to : RunStatuses]
  BY DEF TypeOK, RunRow
<1>5. timeline' \in Seq([from : RunStatuses, to : RunStatuses])
  BY <1>2, <1>4 DEF TypeOK
<1> QED
  BY <1>1, <1>2, <1>3, <1>5

LEMMA StatusMoves ==
    ASSUME TypeOK, NEW old \in RunRow, old.seq = run.seq, old.status = run.status,
           NEW to \in RunStatuses, SetStatus(old, to)
    PROVE  /\ run' \in RunRow
           /\ timeline' \in Seq([from : RunStatuses, to : RunStatuses])
           /\ \E r \in RunRow :
                  /\ run' = [r EXCEPT !.seq = run.seq + 1]
                  /\ timeline' = Append(timeline, [from |-> run.status, to |-> r.status])
<1>1. [old EXCEPT !.status = to] \in RunRow
  BY DEF RunRow
<1> QED
  BY <1>1, AppendMoves DEF SetStatus

\* Telling the case, and releasing locks, keep the types.
LEMMA TellType ==
    ASSUME TypeOK, NEW t \in Transaction, NEW to \in RunStatuses, Tell(t, to)
    PROVE  step' \in StepStatuses /\ case' \in CaseRow
<1>1. t.case \in CaseRow /\ t.step \in StepStatuses /\ step \in StepStatuses /\ case \in CaseRow
  BY DEF TypeOK, Transaction
<1> QED
  BY <1>1 DEF Tell, Column, CaseRow, StepStatuses

LEMMA ReleaseType ==
    ASSUME TypeOK, NEW p \in Processes, Release(p)
    PROVE  /\ runLock' \in Processes \cup {Nobody} /\ caseLock' \in Processes \cup {Nobody}
           /\ caseShare' \subseteq Coordinators
           /\ \A q \in Processes : q # p /\ runLock = q => runLock' = q
BY NobodyAssumption DEF TypeOK, Release

LEMMA DoneType ==
    ASSUME TypeOK, NEW p \in Processes, Done(p)
    PROVE  /\ tx' \in [Processes -> {Idle} \cup Transaction]
           /\ tx'[p] = Idle /\ \A q \in Processes : q # p => tx'[q] = tx[q]
BY DEF TypeOK, Done

LEMMA DropType ==
    ASSUME TypeOK, NEW c \in Coordinators, Drop(c)
    PROVE  holds' \in [Coordinators -> Nat]
BY DEF TypeOK, Drop

\* A transaction that begins by locking the Run.
LEMMA LockRunKeeps ==
    ASSUME TimelineInv, NEW p \in Processes, NEW to \in RunStatuses, NEW attempt \in Nat,
           NEW row \in RunRow, row.seq = run.seq, row.status = run.status,
           LockRun(p, to, row, attempt)
    PROVE  TimelineInv'
<1> DEFINE t == [Reading("locked", to, attempt) EXCEPT !.run = row]
<1>1. Reading("locked", to, attempt) \in Transaction
  BY ReadingType DEF TimelineInv
<1>2. t \in Transaction /\ t.run = row /\ t.at = "locked"
  BY <1>1 DEF Transaction, Reading
<1>3. tx' = [tx EXCEPT ![p] = t] /\ runLock = Nobody /\ runLock' = p
  BY DEF LockRun, RunFree
<1> HIDE DEF t
<1>4. TypeOK'
  BY <1>2, <1>3 DEF TimelineInv, TypeOK, LockRun
<1>5. Quiet(p)
  BY <1>2, <1>3, NobodyAssumption DEF TimelineInv, TypeOK, RunRow, LockRun, Quiet
<1> QED
  BY <1>4, <1>5, QuietKeeps

\* A transaction that begins by reading.
LEMMA ReadKeeps ==
    ASSUME TimelineInv, NEW p \in Processes, NEW at \in {"starting", "finishing", "command", "message"},
           NEW to \in RunStatuses, NEW attempt \in Nat,
           tx' = [tx EXCEPT ![p] = Reading(at, to, attempt)],
           runLock = runLock', caseLock' \in {caseLock, p},
           UNCHANGED <<run, timeline, step, case, caseShare, holds, seen>>
    PROVE  TimelineInv'
<1> DEFINE t == Reading(at, to, attempt)
<1>1. t \in Transaction
  BY ReadingType DEF TimelineInv
<1>2. t.run = run /\ t.at = at
  BY DEF Reading
<1> HIDE DEF t
<1>3. tx' = [tx EXCEPT ![p] = t]
  BY DEF t
<1>4. TypeOK'
  BY <1>1, <1>3 DEF TimelineInv, TypeOK
<1>5. Quiet(p)
  BY <1>1, <1>2, <1>3 DEF TimelineInv, TypeOK, RunRow, Quiet
<1> QED
  BY <1>4, <1>5, QuietKeeps

\* Columns of the rows other than the Run have their types after a step.
RowsTyped ==
    /\ step' \in StepStatuses /\ case' \in CaseRow
    /\ holds' \in [Coordinators -> Nat] /\ seen' \in [People -> CaseRow]

\* A transaction that ends and releases what it had locked.
LEMMA EndKeeps ==
    ASSUME TimelineInv, NEW p \in Processes, Done(p), Release(p),
           UNCHANGED <<run, timeline>>, RowsTyped
    PROVE  TimelineInv'
<1>1. /\ tx' \in [Processes -> {Idle} \cup Transaction]
      /\ tx'[p] = Idle /\ \A q \in Processes : q # p => tx'[q] = tx[q]
  BY DoneType DEF TimelineInv
<1>2. /\ runLock' \in Processes \cup {Nobody} /\ caseLock' \in Processes \cup {Nobody}
      /\ caseShare' \subseteq Coordinators
      /\ \A q \in Processes : q # p /\ runLock = q => runLock' = q
  BY ReleaseType DEF TimelineInv
<1>3. TypeOK'
  BY <1>1, <1>2 DEF TimelineInv, TypeOK, RowsTyped
<1>4. Quiet(p)
  BY <1>1, <1>2 DEF Quiet
<1> QED
  BY <1>3, <1>4, QuietKeeps

\* A step that locks and releases nothing: p reads no row that it keeps.
LEMMA RowsKeep ==
    ASSUME TimelineInv, NEW p \in Processes, Done(p) \/ UNCHANGED tx,
           UNCHANGED <<run, timeline, runLock, caseLock, caseShare>>, RowsTyped
    PROVE  TimelineInv'
<1>1. /\ tx' \in [Processes -> {Idle} \cup Transaction]
      /\ tx'[p] \in {Idle, tx[p]} /\ \A q \in Processes : q # p => tx'[q] = tx[q]
  BY DoneType DEF TimelineInv, TypeOK
<1>2. TypeOK'
  BY <1>1 DEF TimelineInv, TypeOK, RowsTyped
<1>3. Quiet(p)
  BY <1>1 DEF Quiet, TimelineInv, RowsRead
<1> QED
  BY <1>2, <1>3, QuietKeeps

-----------------------------------------------------------------------------
\* The end of the Run, by whoever has locked it.
LEMMA EndStep ==
    ASSUME TimelineInv, NEW p \in Processes, EndRun(p)
    PROVE  TimelineInv'
<1>1. tx[p] # Idle /\ tx[p] \in Transaction
  BY DEF TimelineInv, TypeOK, EndRun, Idle
<1>2. /\ tx[p].run \in RunRow /\ tx[p].to \in RunStatuses
      /\ runLock = p /\ tx[p].run.seq = run.seq /\ tx[p].run.status = run.status
  BY <1>1 DEF TimelineInv, RowsRead, EndRun, Transaction
<1>3. /\ run' \in RunRow
      /\ timeline' \in Seq([from : RunStatuses, to : RunStatuses])
      /\ \E r \in RunRow :
             /\ run' = [r EXCEPT !.seq = run.seq + 1]
             /\ timeline' = Append(timeline, [from |-> run.status, to |-> r.status])
  BY <1>2, StatusMoves DEF TimelineInv, EndRun
<1>4. step' \in StepStatuses /\ case' \in CaseRow
  BY <1>1, <1>2, TellType DEF TimelineInv, EndRun
<1>5. /\ tx' \in [Processes -> {Idle} \cup Transaction]
      /\ tx'[p] = Idle /\ \A q \in Processes : q # p => tx'[q] = tx[q]
  BY DoneType DEF TimelineInv, EndRun
<1>6. /\ runLock' \in Processes \cup {Nobody} /\ caseLock' \in Processes \cup {Nobody}
      /\ caseShare' \subseteq Coordinators
  BY ReleaseType DEF TimelineInv, EndRun
<1>7. holds' \in [Coordinators -> Nat] /\ seen' \in [People -> CaseRow]
  <2>1. CASE p \in Coordinators
    BY <2>1, DropType DEF TimelineInv, TypeOK, EndRun
  <2>2. CASE p \notin Coordinators
    BY <2>2 DEF TimelineInv, TypeOK, EndRun
  <2> QED
    BY <2>1, <2>2
<1>8. TypeOK'
  BY <1>3, <1>4, <1>5, <1>6, <1>7 DEF TypeOK
<1>9. Moving(p)
  BY <1>2, <1>3, <1>5 DEF Moving
<1> QED
  BY <1>8, <1>9, MovingKeeps

-----------------------------------------------------------------------------
LEMMA TimelineInit == Init => TimelineInv
<1> SUFFICES ASSUME Init PROVE TimelineInv
  OBVIOUS
<1>1. /\ timeline = <<[from |-> "queued", to |-> "queued"]>>
      /\ run.status = "queued" /\ run.seq = 1 /\ run \in RunRow
  BY DEF Init, RunRow, RunStatuses
<1>2. timeline \in Seq([from : RunStatuses, to : RunStatuses])
  BY <1>1 DEF RunStatuses
<1>3. case \in CaseRow /\ step \in StepStatuses
  BY DEF Init, CaseRow, StepStatuses
<1>4. TypeOK
  BY <1>1, <1>2, <1>3 DEF Init, TypeOK
<1>5. TimelineChained
  BY <1>1 DEF TimelineChained
<1> QED
  BY <1>4, <1>5 DEF TimelineInv, RowsRead, Init

LEMMA WorkerStep == ASSUME TimelineInv, NEW c \in Coordinators, Work(c) PROVE TimelineInv'
<1>p. c \in Processes
  BY DEF Processes
<1>t. tx[c] \in {Idle} \cup Transaction /\ run \in RunRow /\ holds[c] \in Nat
  BY <1>p DEF TimelineInv, TypeOK
<1>o. ASSUME tx[c] # Idle
      PROVE  /\ tx[c].run \in RunRow /\ tx[c].to \in RunStatuses /\ tx[c] \in Transaction
             /\ Unmoved(tx[c].run) => tx[c].run.status = run.status
  BY <1>p, <1>t, <1>o DEF TimelineInv, RowsRead, Transaction, Unmoved
<1>1. CASE Claim(c)
  <2> DEFINE row == [run EXCEPT !.status = "accepted", !.current = Len(timeline)]
  <2>0. Len(timeline) \in Nat
    BY DEF TimelineInv, TypeOK
  <2>1. row \in RunRow
    BY <1>t, <2>0 DEF RunRow, RunStatuses
  <2> HIDE DEF row
  <2>2. AppendTransition(run, row, run.status)
    BY <1>1 DEF Claim, row
  <2>3. /\ run' \in RunRow
        /\ timeline' \in Seq([from : RunStatuses, to : RunStatuses])
        /\ \E r \in RunRow :
               /\ run' = [r EXCEPT !.seq = run.seq + 1]
               /\ timeline' = Append(timeline, [from |-> run.status, to |-> r.status])
    BY <1>t, <2>1, <2>2, AppendMoves DEF TimelineInv
  <2>4. TypeOK'
    BY <1>1, <2>0, <2>3 DEF TimelineInv, TypeOK, Claim, locks
  <2>5. Moving(c)
    BY <1>1, <2>3 DEF Moving, Claim, RunFree, locks
  <2> QED
    BY <1>p, <2>4, <2>5, MovingKeeps
<1>2. CASE StartRead(c)
  BY <1>p, <1>t, <1>2, ReadKeeps DEF StartRead, locks, RunStatuses
<1>3. CASE GiveUp(c)
  <2>1. holds' \in [Coordinators -> Nat]
    BY <1>3, DropType DEF GiveUp, TimelineInv
  <2>2. RowsTyped
    BY <1>3, <2>1 DEF RowsTyped, GiveUp, TimelineInv, TypeOK
  <2>3. Done(c) /\ Release(c) /\ UNCHANGED <<run, timeline>>
    BY <1>3 DEF GiveUp
  <2> QED
    BY <1>p, <2>2, <2>3, EndKeeps
<1>4. CASE MarkRunning(c)
  <2>1. tx[c] # Idle /\ Unmoved(tx[c].run) /\ SetStatus(tx[c].run, "running")
    BY <1>4 DEF MarkRunning, Idle
  <2>2. tx[c].run \in RunRow /\ tx[c].run.seq = run.seq /\ tx[c].run.status = run.status
    BY <1>o, <2>1 DEF Unmoved
  <2>3. /\ run' \in RunRow
        /\ timeline' \in Seq([from : RunStatuses, to : RunStatuses])
        /\ \E r \in RunRow :
               /\ run' = [r EXCEPT !.seq = run.seq + 1]
               /\ timeline' = Append(timeline, [from |-> run.status, to |-> r.status])
    BY <2>1, <2>2, StatusMoves DEF TimelineInv, RunStatuses
  <2>4. /\ tx' \in [Processes -> {Idle} \cup Transaction]
        /\ tx'[c] = Idle /\ \A q \in Processes : q # c => tx'[q] = tx[q]
    BY <1>p, <1>4, DoneType DEF TimelineInv, MarkRunning
  <2>5. TypeOK' /\ Moving(c)
    BY <1>4, <2>3, <2>4 DEF TimelineInv, TypeOK, Moving, MarkRunning, RunFree, locks
  <2> QED
    BY <1>p, <2>5, MovingKeeps
<1>5. CASE LeaseLost(c)
  <2>1. holds' \in [Coordinators -> Nat]
    BY <1>5, DropType DEF LeaseLost, TimelineInv
  <2>2. RowsTyped
    BY <1>5, <2>1 DEF RowsTyped, LeaseLost, TimelineInv, TypeOK
  <2>3. UNCHANGED <<run, timeline, runLock, caseLock, caseShare>> /\ UNCHANGED tx
    BY <1>5 DEF LeaseLost, locks
  <2> QED
    BY <1>p, <2>2, <2>3, RowsKeep
<1>6. CASE FinishRead(c)
  BY <1>p, <1>t, <1>6, ReadKeeps DEF FinishRead, locks, RunStatuses, Ends
<1>7. CASE FinishLink(c)
  <2>1. tx[c] # Idle /\ tx[c] \in Transaction
    BY <1>t, <1>7 DEF FinishLink, Idle
  <2> DEFINE t == [tx[c] EXCEPT !.at = "linked"]
  <2>2. t \in Transaction /\ t.run = tx[c].run /\ t.at = "linked"
    BY <2>1 DEF Transaction
  <2> HIDE DEF t
  <2>3. tx' = [tx EXCEPT ![c] = t]
    BY <1>p, <1>7 DEF FinishLink, TimelineInv, TypeOK, t
  <2>4. TypeOK'
    BY <1>7, <2>2, <2>3 DEF TimelineInv, TypeOK, FinishLink
  <2>5. Quiet(c)
    BY <1>p, <1>7, <2>1, <2>2, <2>3 DEF Quiet, TimelineInv, TypeOK, RowsRead, FinishLink
  <2> QED
    BY <1>p, <2>4, <2>5, QuietKeeps
<1>8. CASE FinishLock(c)
  <2>1. tx[c] # Idle /\ tx[c] \in Transaction /\ tx[c].run.seq = run.seq
    BY <1>t, <1>8 DEF FinishLock, Idle, Unmoved
  <2> DEFINE t == [tx[c] EXCEPT !.at = "locked"]
  <2>2. t \in Transaction /\ t.run = tx[c].run /\ t.at = "locked"
    BY <2>1 DEF Transaction
  <2> HIDE DEF t
  <2>3. tx' = [tx EXCEPT ![c] = t] /\ runLock = Nobody /\ runLock' = c
    BY <1>p, <1>8 DEF FinishLock, TimelineInv, TypeOK, RunFree, t
  <2>4. TypeOK'
    BY <1>p, <1>8, <2>2, <2>3 DEF TimelineInv, TypeOK, FinishLock
  <2>5. Quiet(c)
    BY <1>p, <1>8, <2>1, <2>2, <2>3, NobodyAssumption
    DEF Quiet, TimelineInv, TypeOK, RowsRead, FinishLock
  <2> QED
    BY <1>p, <2>4, <2>5, QuietKeeps
<1>9. CASE Requeue(c)
  <2> DEFINE old == [run EXCEPT !.current = 0]
  <2>1. old \in RunRow /\ old.seq = run.seq /\ old.status = run.status
    BY <1>t DEF RunRow
  <2> HIDE DEF old
  <2>2. SetStatus(old, "queued")
    BY <1>9 DEF Requeue, old
  <2>3. /\ run' \in RunRow
        /\ timeline' \in Seq([from : RunStatuses, to : RunStatuses])
        /\ \E r \in RunRow :
               /\ run' = [r EXCEPT !.seq = run.seq + 1]
               /\ timeline' = Append(timeline, [from |-> run.status, to |-> r.status])
    BY <2>1, <2>2, StatusMoves DEF TimelineInv, RunStatuses
  <2>4. holds' \in [Coordinators -> Nat]
    BY <1>9, DropType DEF Requeue, TimelineInv
  <2>5. TypeOK' /\ Moving(c)
    BY <1>p, <1>9, <2>3, <2>4 DEF TimelineInv, TypeOK, Moving, Requeue, RunFree, locks
  <2> QED
    BY <1>p, <2>5, MovingKeeps
<1>10. CASE EndRun(c)
  BY <1>p, <1>10, EndStep
<1>11. ASSUME NEW to \in Ends, FinishReal(c, to) PROVE TimelineInv'
  BY <1>p, <1>t, <1>11, LockRunKeeps DEF FinishReal, RunStatuses
<1>12. ASSUME NEW to \in {"failed", "unknown"}, RecoverEnd(c, to) PROVE TimelineInv'
  <2>1. run.current \in Nat
    BY <1>t DEF RunRow
  <2> QED
    BY <1>p, <1>t, <1>12, <2>1, LockRunKeeps DEF RecoverEnd, RunStatuses, Ends
<1> QED
  BY <1>1, <1>2, <1>3, <1>4, <1>5, <1>6, <1>7, <1>8, <1>9, <1>10, <1>11, <1>12 DEF Work

LEMMA OperatorStep ==
    ASSUME TimelineInv, NEW k \in Operators, CancelActive(k) \/ CancelQueued(k) \/ EndRun(k)
    PROVE  TimelineInv'
<1>p. k \in Processes /\ run \in RunRow
  BY DEF Processes, TimelineInv, TypeOK
<1> DEFINE row == [run EXCEPT !.asked = TRUE]
<1>r. row \in RunRow /\ row.seq = run.seq /\ row.status = run.status
  BY <1>p DEF RunRow
<1> HIDE DEF row
<1>1. CASE CancelActive(k)
  <2>1. AppendTransition(run, row, run.status)
    BY <1>1 DEF CancelActive, row
  <2>2. /\ run' \in RunRow
        /\ timeline' \in Seq([from : RunStatuses, to : RunStatuses])
        /\ \E r \in RunRow :
               /\ run' = [r EXCEPT !.seq = run.seq + 1]
               /\ timeline' = Append(timeline, [from |-> run.status, to |-> r.status])
    BY <1>p, <1>r, <2>1, AppendMoves DEF TimelineInv
  <2>3. TypeOK' /\ Moving(k)
    BY <1>p, <1>1, <2>2 DEF TimelineInv, TypeOK, Moving, CancelActive, RunFree, locks
  <2> QED
    BY <1>p, <2>3, MovingKeeps
<1>2. CASE CancelQueued(k)
  <2>1. LockRun(k, "cancelled", row, 0) /\ "cancelled" \in RunStatuses
    BY <1>2 DEF CancelQueued, row, RunStatuses, Ends
  <2> QED
    BY <1>p, <1>r, <2>1, LockRunKeeps
<1>3. CASE EndRun(k)
  BY <1>p, <1>3, EndStep
<1> QED
  BY <1>1, <1>2, <1>3

LEMMA PersonStep ==
    ASSUME TimelineInv, NEW p \in People, Send(p) \/ Serve(p)
    PROVE  TimelineInv'
<1>p. /\ p \in Processes /\ run \in RunRow /\ run.status \in RunStatuses
      /\ case \in CaseRow /\ step \in StepStatuses
      /\ seen \in [People -> CaseRow] /\ holds \in [Coordinators -> Nat]
      /\ tx[p] \in {Idle} \cup Transaction
  BY DEF Processes, TimelineInv, TypeOK, RunRow
<1>1. CASE Look(p)
  <2>1. RowsTyped
    BY <1>p, <1>1 DEF RowsTyped, Look
  <2> QED
    BY <1>p, <1>1, <2>1, RowsKeep DEF Look, locks
<1>2. CASE CommandLock(p)
  BY <1>p, <1>2, ReadKeeps DEF CommandLock, RunStatuses, Ends
<1>3. CASE MessageRead(p)
  BY <1>p, <1>3, ReadKeeps DEF MessageRead, locks
<1>4. CASE RequestChange(p)
  <2>1. case' \in CaseRow
    BY <1>p, <1>4 DEF RequestChange, CaseRow
  <2>2. RowsTyped
    BY <1>p, <1>4, <2>1 DEF RowsTyped, RequestChange
  <2> QED
    BY <1>p, <1>4, <2>2, RowsKeep DEF RequestChange, locks
<1>5. CASE CommandCancels(p)
  <2>1. tx[p] # Idle /\ tx[p] \in Transaction
    BY <1>p, <1>5 DEF CommandCancels, Idle
  <2>2. case' \in CaseRow
    BY <1>p, <1>5, <2>1 DEF CommandCancels, TouchCase, Column, Transaction, CaseRow
  <2>3. RowsTyped
    BY <1>p, <1>5, <2>2 DEF RowsTyped, CommandCancels
  <2>4. Done(p) /\ Release(p) /\ UNCHANGED <<run, timeline>>
    BY <1>5 DEF CommandCancels
  <2> QED
    BY <1>p, <2>3, <2>4, EndKeeps
<1>6. CASE CommandAsks(p)
  <2>1. tx[p] # Idle /\ tx[p] \in Transaction
    BY <1>p, <1>6 DEF CommandAsks, Idle
  <2>2. /\ tx[p].run \in RunRow /\ tx[p].run.seq = run.seq /\ tx[p].run.status = run.status
    BY <1>p, <1>6, <2>1 DEF CommandAsks, Unmoved, TimelineInv, RowsRead, Transaction
  <2> DEFINE old == [tx[p].run EXCEPT !.asked = TRUE]
  <2>3. old \in RunRow /\ old.seq = run.seq /\ old.status = run.status
    BY <2>2 DEF RunRow
  <2>4. (SetStatus(old, "cancelled") /\ Tell(tx[p], "cancelled"))
        \/ (AppendTransition(old, old, old.status) /\ step' = "blocked" /\ TouchCase(tx[p], "blocked"))
    BY <1>6 DEF CommandAsks
  <2> HIDE DEF old
  <2>5. /\ run' \in RunRow
        /\ timeline' \in Seq([from : RunStatuses, to : RunStatuses])
        /\ \E r \in RunRow :
               /\ run' = [r EXCEPT !.seq = run.seq + 1]
               /\ timeline' = Append(timeline, [from |-> run.status, to |-> r.status])
    BY <2>3, <2>4, StatusMoves, AppendMoves DEF TimelineInv, RunStatuses, Ends
  <2>6. step' \in StepStatuses /\ case' \in CaseRow
    <3>1. CASE Tell(tx[p], "cancelled")
      BY <2>1, <3>1, TellType DEF TimelineInv, RunStatuses, Ends
    <3>2. CASE step' = "blocked" /\ TouchCase(tx[p], "blocked")
      BY <1>p, <2>1, <3>2 DEF TouchCase, Column, Transaction, CaseRow, StepStatuses
    <3> QED
      BY <2>4, <3>1, <3>2
  <2>7. /\ tx' \in [Processes -> {Idle} \cup Transaction]
        /\ tx'[p] = Idle /\ \A q \in Processes : q # p => tx'[q] = tx[q]
    BY <1>p, <1>6, DoneType DEF TimelineInv, CommandAsks
  <2>8. /\ runLock' \in Processes \cup {Nobody} /\ caseLock' \in Processes \cup {Nobody}
        /\ caseShare' \subseteq Coordinators
    BY <1>p, <1>6, ReleaseType DEF TimelineInv, CommandAsks
  <2>9. UNCHANGED <<holds, seen>> /\ RunFree
    BY <1>6 DEF CommandAsks
  <2>10. TypeOK'
    BY <1>p, <2>5, <2>6, <2>7, <2>8, <2>9 DEF TypeOK
  <2>11. Moving(p)
    BY <2>5, <2>7, <2>9 DEF Moving, RunFree
  <2> QED
    BY <1>p, <2>10, <2>11, MovingKeeps
<1>7. CASE CommandFails(p)
  <2>1. RowsTyped
    BY <1>p, <1>7 DEF RowsTyped, CommandFails
  <2>2. Done(p) /\ Release(p) /\ UNCHANGED <<run, timeline>>
    BY <1>7 DEF CommandFails
  <2> QED
    BY <1>p, <2>1, <2>2, EndKeeps
<1>8. CASE MessageWrite(p)
  <2>1. tx[p] # Idle /\ tx[p] \in Transaction
    BY <1>p, <1>8 DEF MessageWrite, Idle
  <2>2. case' \in CaseRow
    BY <1>p, <1>8, <2>1 DEF MessageWrite, Transaction, CaseRow
  <2>3. RowsTyped
    BY <1>p, <1>8, <2>2 DEF RowsTyped, MessageWrite
  <2>4. Done(p) /\ UNCHANGED <<run, timeline, runLock, caseLock, caseShare>>
    BY <1>8 DEF MessageWrite, locks
  <2> QED
    BY <1>p, <2>3, <2>4, RowsKeep
<1> QED
  BY <1>1, <1>2, <1>3, <1>4, <1>5, <1>6, <1>7, <1>8 DEF Send, Serve

LEMMA DeadlockStep ==
    ASSUME TimelineInv, NEW p \in People, NEW q \in Coordinators \cup Operators, Deadlock(p, q)
    PROVE  TimelineInv'
<1>1. PICK victim \in {p, q} : Done(victim) /\ Release(victim)
  BY DEF Deadlock
<1>2. victim \in Processes /\ tx[victim] # Idle
  BY <1>1 DEF Processes, Deadlock, Cycle, Idle
<1>3. UNCHANGED <<run, timeline>> /\ RowsTyped
  BY DEF RowsTyped, Deadlock, TimelineInv, TypeOK
<1> QED
  BY <1>1, <1>2, <1>3, EndKeeps

LEMMA TimelineStep == TimelineInv /\ [Next]_vars => TimelineInv'
<1> SUFFICES ASSUME TimelineInv, [Next]_vars PROVE TimelineInv'
  OBVIOUS
<1>1. CASE UNCHANGED vars
  BY <1>1 DEF vars, locks, TimelineInv, TypeOK, TimelineChained, RowsRead
<1>2. CASE Next
  BY <1>2, WorkerStep, OperatorStep, PersonStep, DeadlockStep DEF Next
<1> QED
  BY <1>1, <1>2

-----------------------------------------------------------------------------
(* The refinement of CaseContract.                                         *)

Alive == {"accepted", "running"}

\* As long as the Run is not over its step has work or is blocked, and the case
\* shows it.
Shown == ~Ended => step \in {"running", "blocked"} /\ case.status = step

\* What a transaction is about to do is legal for the Run it has read.
Meant(t) ==
    /\ t.at \in {"starting", "finishing", "linked"} => t.run.status \in Alive
    /\ t.at \in {"finishing", "linked"} => t.to = "evidence_accepted"
    /\ t.at = "locked" => t.to \in Ends
    /\ t.at = "locked" => \/ t.run.status \in Alive
                          \/ t.run.status = "queued" /\ t.to = "cancelled" /\ t.run.asked
    /\ t.at = "command" => t.case.status # "cancelled"

\* What it has read is so: the end of a Run for ever, the other columns of Run,
\* step and case until the Run has another transition, for nobody writes them
\* without one before the Run is over.
Present(t) ==
    /\ t.run.status \in Ends => Ended
    /\ t.run.seq = run.seq /\ t.run.status # "queued" => t.run.asked = run.asked
    /\ t.run.seq = run.seq /\ ~Ended => t.step = step /\ t.case.status = case.status

AsRead == \A p \in Processes : tx[p] # Idle => Meant(tx[p]) /\ Present(tx[p])

ContractInv == TimelineInv /\ Shown /\ AsRead

\* p leaves the Run alone, and the case as well unless the Run is over.
Stays(p) ==
    /\ UNCHANGED run
    /\ \A q \in Processes : q # p => tx'[q] = tx[q]
    /\ ~Ended => step' = step /\ case'.status = case.status
    /\ tx'[p] # Idle => Meant(tx'[p]) /\ Present(tx'[p])

\* p adds a transition to a Run that is not over.
Moves(p) ==
    /\ ~Ended /\ run'.seq = run.seq + 1
    /\ \A q \in Processes : q # p => tx'[q] = tx[q]
    /\ tx'[p] = Idle

LEMMA StaysKeeps ==
    ASSUME ContractInv, TimelineInv', NEW p \in Processes, Stays(p)
    PROVE  ContractInv'
<1>1. Shown'
  BY DEF ContractInv, Shown, Stays, Ended
<1>2. AsRead'
  <2> SUFFICES ASSUME NEW q \in Processes, tx'[q] # Idle
               PROVE  Meant(tx'[q]) /\ Present(tx[q])'
    BY DEF AsRead, Meant
  <2>1. Meant(tx'[q]) /\ Present(tx'[q])
    BY DEF ContractInv, AsRead, Stays
  <2> QED
    BY <2>1 DEF Stays, Present, Ended
<1> QED
  BY <1>1, <1>2 DEF ContractInv

LEMMA MovesKeeps ==
    ASSUME ContractInv, TimelineInv', NEW p \in Processes, Moves(p), Shown'
    PROVE  ContractInv'
<1>1. AsRead'
  <2> SUFFICES ASSUME NEW q \in Processes, tx'[q] # Idle
               PROVE  Meant(tx'[q]) /\ Present(tx[q])'
    BY DEF AsRead, Meant
  <2>1. q # p /\ tx'[q] = tx[q] /\ tx[q] \in Transaction
    BY DEF Moves, ContractInv, TimelineInv, TypeOK
  <2>2. Meant(tx[q]) /\ Present(tx[q])
    BY <2>1 DEF ContractInv, AsRead
  <2>3. tx[q].run.seq <= run.seq /\ tx[q].run.seq \in Nat /\ run.seq \in Nat
    BY <2>1 DEF ContractInv, TimelineInv, RowsRead, TypeOK, Transaction, RunRow
  <2>4. tx[q].run.seq # run'.seq
    BY <2>3 DEF Moves
  <2>5. tx[q].run.status \notin Ends
    BY <2>2 DEF Present, Moves
  <2> QED
    BY <2>1, <2>2, <2>4, <2>5 DEF Present
<1> QED
  BY <1>1 DEF ContractInv

\* The row that a transition leaves.
LEMMA RowAfter ==
    ASSUME NEW old \in RunRow, NEW to \in RunStatuses, SetStatus(old, to)
    PROVE  run'.status = to /\ run'.asked = old.asked /\ run'.seq = old.seq + 1
BY DEF SetStatus, AppendTransition, RunRow

\* A transaction that has read the present case tells it as the contract does.
LEMMA ToldNow ==
    ASSUME ContractInv, ~Ended, NEW t \in Transaction, t.step = step, t.case.status = case.status,
           NEW to \in Ends, Tell(t, to)
    PROVE  /\ step' \in IF to = "evidence_accepted" THEN {"awaiting_human", "blocked"}
                                                   ELSE {"blocked"}
           /\ case'.status = step'
<1>1. step \in {"running", "blocked"} /\ case.status = step
  BY DEF ContractInv, Shown
<1>2. PICK result \in IF to = "evidence_accepted" THEN {"awaiting_human", "blocked"} ELSE {"blocked"} :
          /\ step' = Column(step, t.step, result)
          /\ case' = [status |-> Column(case.status, t.case.status, result),
                      version |-> t.case.version + 1]
  BY <1>1 DEF Tell
<1>3. step' = result /\ case'.status = result
  BY <1>2 DEF Column
<1> QED
  BY <1>2, <1>3

LEMMA ContractInit == Init => ContractInv
<1>1. Init => Shown
  BY DEF Init, Shown
<1>2. Init => AsRead
  BY DEF Init, AsRead
<1> QED
  BY <1>1, <1>2, TimelineInit DEF ContractInv

-----------------------------------------------------------------------------
(* The steps as steps of the contract.                                     *)

Mapped == ContractInv' /\ [AsIfAtomic!Next]_AsIfAtomic!vars

\* Steps that show neither in the Run nor in the case.
LEMMA Unseen ==
    ASSUME ContractInv, TimelineInv', NEW p \in Processes, Stays(p),
           step' = step, case'.status = case.status
    PROVE  Mapped
<1>1. ContractInv'
  BY StaysKeeps
<1>2. UNCHANGED AsIfAtomic!vars
  BY DEF Stays, AsIfAtomic!vars, Active
<1> QED
  BY <1>1, <1>2 DEF Mapped

\* The end of the Run, by whoever has locked it.
LEMMA EndMapped ==
    ASSUME ContractInv, TimelineInv', NEW p \in Processes, EndRun(p)
    PROVE  Mapped
<1> DEFINE t == tx[p]
<1>1. t # Idle /\ t \in Transaction /\ t.at = "locked"
  BY DEF ContractInv, TimelineInv, TypeOK, EndRun, Idle
<1>2. t.run \in RunRow /\ t.to \in RunStatuses /\ t.run.seq = run.seq /\ t.run.status = run.status
  BY <1>1 DEF ContractInv, TimelineInv, RowsRead, Transaction
<1>3. Meant(t) /\ Present(t)
  BY <1>1 DEF ContractInv, AsRead
<1>4. /\ t.to \in Ends
      /\ run.status \in Alive \/ (run.status = "queued" /\ t.to = "cancelled" /\ t.run.asked)
  BY <1>1, <1>2, <1>3 DEF Meant
<1>5. ~Ended
  BY <1>4 DEF Ended, Alive, Ends
<1>6. t.step = step /\ t.case.status = case.status
      /\ (run.status \in Alive => t.run.asked = run.asked)
  BY <1>2, <1>3, <1>5 DEF Present, Alive
<1>7. SetStatus(t.run, t.to) /\ Tell(t, t.to) /\ Done(p)
  BY DEF EndRun
<1>8. run'.status = t.to /\ run'.asked = t.run.asked /\ run'.seq = run.seq + 1
  BY <1>2, <1>7, RowAfter
<1>9. /\ step' \in IF t.to = "evidence_accepted" THEN {"awaiting_human", "blocked"}
                                                ELSE {"blocked"}
      /\ case'.status = step'
  BY <1>1, <1>4, <1>5, <1>6, <1>7, ToldNow
<1>10. tx'[p] = Idle /\ \A q \in Processes : q # p => tx'[q] = tx[q]
  BY <1>7, DoneType DEF ContractInv, TimelineInv
<1>11. ContractInv'
  <2>1. Moves(p)
    BY <1>5, <1>8, <1>10 DEF Moves
  <2>2. Shown'
    BY <1>4, <1>8 DEF Shown, Ended
  <2> QED
    BY <2>1, <2>2, MovesKeeps
<1>12. AsIfAtomic!Next
  <2> DEFINE to == t.to
  <2>0. to \in AsIfAtomic!Ends
    BY <1>4 DEF Ends, AsIfAtomic!Ends
  <2>1. AsIfAtomic!Told(to)
    BY <1>9 DEF AsIfAtomic!Told
  <2>2. (IF Active THEN "active" ELSE run.status)' = to
    BY <1>4, <1>8 DEF Active, Ends
  <2>3. CASE run.status \in Alive
    <3>1. AsIfAtomic!End(to)
      BY <1>6, <1>8, <2>1, <2>2, <2>3 DEF AsIfAtomic!End, Active, Alive
    <3> QED
      BY Zenon, <2>0, <3>1 DEF AsIfAtomic!Next
  <2>4. CASE run.status = "queued" /\ to = "cancelled" /\ t.run.asked
    <3>1. AsIfAtomic!Cancel
      BY <1>2, <1>8, <2>1, <2>2, <2>4 DEF AsIfAtomic!Cancel, Active, RunRow
    <3> QED
      BY Zenon, <3>1 DEF AsIfAtomic!Next
  <2> QED
    BY <1>4, <2>3, <2>4
<1> QED
  BY <1>11, <1>12 DEF Mapped

LEMMA WorkerMapped ==
    ASSUME ContractInv, TimelineInv', NEW c \in Coordinators, Work(c)
    PROVE  Mapped
<1>p. c \in Processes
  BY DEF Processes
<1>t. /\ tx \in [Processes -> {Idle} \cup Transaction] /\ run \in RunRow /\ run.seq \in Nat
      /\ run.status \in RunStatuses
  BY DEF ContractInv, TimelineInv, TypeOK, RunRow
<1>o. ASSUME tx[c] # Idle
      PROVE  /\ tx[c] \in Transaction /\ tx[c].run \in RunRow
             /\ Unmoved(tx[c].run) => tx[c].run.status = run.status
             /\ Meant(tx[c]) /\ Present(tx[c])
  BY <1>p, <1>t, <1>o DEF ContractInv, TimelineInv, RowsRead, AsRead, Transaction, Unmoved
<1>r. ASSUME NEW at \in {"starting", "finishing", "locked"}, NEW to \in Ends \cup {"running"},
             NEW attempt, run.status \in Alive, at = "finishing" => to = "evidence_accepted",
             at = "locked" => to \in Ends,
             tx' = [tx EXCEPT ![c] = Reading(at, to, attempt)]
      PROVE  /\ tx'[c] # Idle => Meant(tx'[c]) /\ Present(tx'[c])
             /\ \A q \in Processes : q # c => tx'[q] = tx[q]
  <2>1. tx'[c] = Reading(at, to, attempt)
    BY <1>p, <1>t, <1>r
  <2>2. Meant(Reading(at, to, attempt)) /\ Present(Reading(at, to, attempt))
    BY <1>r DEF Meant, Present, Reading, Ended, Ends, Alive
  <2> QED
    BY <1>p, <1>t, <1>r, <2>1, <2>2
<1>1. CASE Claim(c)
  <2>1. /\ run'.seq = run.seq + 1 /\ run'.status = "accepted" /\ run'.asked = run.asked
        /\ run.status = "queued"
    BY <1>1, <1>t DEF Claim, AppendTransition, RunRow
  <2>2. tx' = tx /\ tx[c] = Idle /\ UNCHANGED <<step, case>>
    BY <1>1 DEF Claim
  <2>3. Moves(c) /\ Shown'
    BY <2>1, <2>2 DEF Moves, Shown, Ended, Ends, ContractInv
  <2>4. AsIfAtomic!Take
    BY <2>1, <2>2 DEF AsIfAtomic!Take, Active
  <2>5. AsIfAtomic!Next
    BY Zenon, <2>4 DEF AsIfAtomic!Next
  <2> QED
    BY <1>p, <2>3, <2>5, MovesKeeps DEF Mapped
<1>2. CASE StartRead(c)
  <2>1. UNCHANGED <<run, step, case>> /\ run.status \in Alive
        /\ tx' = [tx EXCEPT ![c] = Reading("starting", "running", holds[c])]
    BY <1>2 DEF StartRead, Alive
  <2>2. Stays(c)
    BY <1>r, <2>1 DEF Stays
  <2> QED
    BY <1>p, <2>1, <2>2, Unseen
<1>3. CASE GiveUp(c)
  <2>1. UNCHANGED <<run, step, case>> /\ Done(c)
    BY <1>3 DEF GiveUp
  <2>2. Stays(c)
    BY <1>p, <2>1, DoneType DEF Stays, ContractInv, TimelineInv
  <2> QED
    BY <1>p, <2>1, <2>2, Unseen
<1>4. CASE MarkRunning(c)
  <2>1. /\ tx[c] # Idle /\ Unmoved(tx[c].run) /\ SetStatus(tx[c].run, "running")
        /\ Active /\ Done(c) /\ UNCHANGED <<step, case>> /\ tx[c].at = "starting"
    BY <1>4 DEF MarkRunning, Idle
  <2>2. run'.seq = run.seq + 1 /\ run'.status = "running" /\ run'.asked = tx[c].run.asked
    BY <1>o, <2>1, RowAfter DEF Unmoved, RunStatuses
  <2>3. tx[c].run.asked = run.asked
    BY <1>o, <2>1 DEF Present, Unmoved, Active
  <2>4. tx'[c] = Idle /\ \A q \in Processes : q # c => tx'[q] = tx[q]
    BY <1>p, <2>1, DoneType DEF ContractInv, TimelineInv
  <2>5. Moves(c) /\ Shown'
    BY <2>1, <2>2, <2>4 DEF Moves, Shown, Ended, Ends, Active, ContractInv
  <2>6. UNCHANGED AsIfAtomic!vars
    BY <2>1, <2>2, <2>3 DEF AsIfAtomic!vars, Active
  <2> QED
    BY <1>p, <2>5, <2>6, MovesKeeps DEF Mapped
<1>5. CASE LeaseLost(c)
  <2>1. UNCHANGED <<run, step, case, tx>> /\ tx[c] = Idle
    BY <1>5 DEF LeaseLost
  <2>2. Stays(c)
    BY <2>1 DEF Stays
  <2> QED
    BY <1>p, <2>1, <2>2, Unseen
<1>6. CASE FinishRead(c)
  <2>1. UNCHANGED <<run, step, case>> /\ run.status \in Alive
        /\ tx' = [tx EXCEPT ![c] = Reading("finishing", "evidence_accepted", holds[c])]
    BY <1>6 DEF FinishRead, Alive
  <2>2. Stays(c)
    BY <1>r, <2>1 DEF Stays, Ends
  <2> QED
    BY <1>p, <2>1, <2>2, Unseen
<1>7. CASE FinishLink(c) \/ FinishLock(c)
  <2>1. PICK at \in {"linked", "locked"} :
            /\ UNCHANGED <<run, step, case>> /\ tx[c].at \in {"finishing", "linked"}
            /\ tx' = [tx EXCEPT ![c] = [tx[c] EXCEPT !.at = at]]
    BY <1>7, <1>p, <1>t DEF FinishLink, FinishLock
  <2>2. tx[c] # Idle
    BY <2>1 DEF Idle
  <2> DEFINE t == [tx[c] EXCEPT !.at = at]
  <2>3. /\ t.at = at /\ t.run = tx[c].run /\ t.case = tx[c].case /\ t.step = tx[c].step
        /\ t.to = tx[c].to
    BY <1>o, <2>2 DEF Transaction
  <2> HIDE DEF t
  <2>4. tx'[c] = t /\ \A q \in Processes : q # c => tx'[q] = tx[q]
    BY <1>p, <1>t, <2>1 DEF t
  <2>5. Meant(t) /\ Present(t)
    BY <1>o, <2>1, <2>2, <2>3 DEF Meant, Present, Ends
  <2>6. Stays(c)
    BY <2>1, <2>4, <2>5 DEF Stays
  <2> QED
    BY <1>p, <2>1, <2>6, Unseen
<1>8. CASE Requeue(c)
  <2> DEFINE old == [run EXCEPT !.current = 0]
  <2>1. old \in RunRow /\ old.seq = run.seq /\ old.asked = run.asked
    BY <1>t DEF RunRow
  <2> HIDE DEF old
  <2>2. /\ SetStatus(old, "queued") /\ Active /\ UNCHANGED <<step, case, tx>> /\ tx[c] = Idle
    BY <1>8 DEF Requeue, old, Active
  <2>3. run'.seq = run.seq + 1 /\ run'.status = "queued" /\ run'.asked = run.asked
    BY <2>1, <2>2, RowAfter DEF RunStatuses
  <2>4. Moves(c) /\ Shown'
    BY <2>2, <2>3 DEF Moves, Shown, Ended, Ends, Active, ContractInv
  <2>5. AsIfAtomic!PutBack
    BY <2>2, <2>3 DEF AsIfAtomic!PutBack, Active
  <2>6. AsIfAtomic!Next
    BY Zenon, <2>5 DEF AsIfAtomic!Next
  <2> QED
    BY <1>p, <2>4, <2>6, MovesKeeps DEF Mapped
<1>9. CASE EndRun(c)
  BY <1>p, <1>9, EndMapped
<1>10. CASE (\E to \in Ends : FinishReal(c, to)) \/ \E to \in {"failed", "unknown"} : RecoverEnd(c, to)
  <2>1. PICK to \in Ends, attempt \in Nat : LockRun(c, to, run, attempt) /\ run.status \in Alive
    <3>1. CASE \E to \in Ends : FinishReal(c, to)
      BY <1>t, <3>1 DEF FinishReal, Alive, ContractInv, TimelineInv, TypeOK
    <3>2. CASE \E to \in {"failed", "unknown"} : RecoverEnd(c, to)
      BY <1>t, <3>2 DEF RecoverEnd, Active, Alive, Ends, RunRow
    <3> QED
      BY <1>10, <3>1, <3>2
  <2>2. tx' = [tx EXCEPT ![c] = Reading("locked", to, attempt)] /\ UNCHANGED <<run, step, case>>
    <3>1. [Reading("locked", to, attempt) EXCEPT !.run = run] = Reading("locked", to, attempt)
      BY DEF Reading
    <3> QED
      BY <2>1, <3>1 DEF LockRun
  <2>3. Stays(c)
    BY <1>r, <2>1, <2>2 DEF Stays
  <2> QED
    BY <1>p, <2>2, <2>3, Unseen
<1> QED
  BY <1>1, <1>2, <1>3, <1>4, <1>5, <1>6, <1>7, <1>8, <1>9, <1>10 DEF Work

LEMMA OperatorMapped ==
    ASSUME ContractInv, TimelineInv', NEW k \in Operators,
           CancelActive(k) \/ CancelQueued(k) \/ EndRun(k)
    PROVE  Mapped
<1>p. k \in Processes /\ run \in RunRow /\ run.seq \in Nat /\ tx \in [Processes -> {Idle} \cup Transaction]
  BY DEF Processes, ContractInv, TimelineInv, TypeOK, RunRow
<1> DEFINE row == [run EXCEPT !.asked = TRUE]
<1>r. row \in RunRow /\ row.seq = run.seq /\ row.status = run.status /\ row.asked = TRUE
  BY <1>p DEF RunRow
<1> HIDE DEF row
<1>1. CASE CancelActive(k)
  <2>1. AppendTransition(run, row, run.status) /\ Active /\ UNCHANGED <<step, case, tx>> /\ tx[k] = Idle
    BY <1>1 DEF CancelActive, row
  <2>2. run'.seq = run.seq + 1 /\ run'.status = run.status /\ run'.asked = TRUE
    BY <1>p, <1>r, <2>1 DEF AppendTransition, RunRow
  <2>3. Moves(k) /\ Shown'
    BY <2>1, <2>2 DEF Moves, Shown, Ended, Ends, Active, ContractInv
  <2>4. AsIfAtomic!Cancel
    BY <2>1, <2>2 DEF AsIfAtomic!Cancel, Active
  <2>5. AsIfAtomic!Next
    BY Zenon, <2>4 DEF AsIfAtomic!Next
  <2> QED
    BY <1>p, <2>3, <2>5, MovesKeeps DEF Mapped
<1>2. CASE CancelQueued(k)
  <2> DEFINE t == [Reading("locked", "cancelled", 0) EXCEPT !.run = row]
  <2>1. UNCHANGED <<run, step, case>> /\ tx' = [tx EXCEPT ![k] = t] /\ run.status = "queued"
    BY <1>2 DEF CancelQueued, LockRun, row
  <2>2. /\ t.at = "locked" /\ t.to = "cancelled" /\ t.run = row
        /\ t.step = step /\ t.case = case
    BY DEF Reading
  <2> HIDE DEF t
  <2>3. Meant(t) /\ Present(t)
    BY <1>r, <2>1, <2>2 DEF Meant, Present, Ended, Ends
  <2>4. tx'[k] = t /\ \A q \in Processes : q # k => tx'[q] = tx[q]
    BY <1>p, <2>1
  <2>5. Stays(k)
    BY <2>1, <2>3, <2>4 DEF Stays
  <2> QED
    BY <1>p, <2>1, <2>5, Unseen
<1>3. CASE EndRun(k)
  BY <1>p, <1>3, EndMapped
<1> QED
  BY <1>1, <1>2, <1>3

\* A person's transaction that ends and has left the Run alone, and the status
\* of the case as well.
LEMMA LeavesUnseen ==
    ASSUME ContractInv, TimelineInv', NEW p \in Processes, Done(p) \/ UNCHANGED tx,
           UNCHANGED <<run, step>>, case'.status = case.status
    PROVE  Mapped
<1>1. tx'[p] \in {Idle, tx[p]} /\ \A q \in Processes : q # p => tx'[q] = tx[q]
  BY DoneType DEF ContractInv, TimelineInv
<1>2. Stays(p)
  BY <1>1 DEF Stays, ContractInv, AsRead
<1> QED
  BY <1>2, Unseen

LEMMA PersonMapped ==
    ASSUME ContractInv, TimelineInv', NEW p \in People, Send(p) \/ Serve(p)
    PROVE  Mapped
<1>p. /\ p \in Processes /\ run \in RunRow /\ run.seq \in Nat /\ run.status \in RunStatuses
      /\ tx \in [Processes -> {Idle} \cup Transaction] /\ case \in CaseRow
  BY DEF Processes, ContractInv, TimelineInv, TypeOK, RunRow
<1>o. ASSUME tx[p] # Idle
      PROVE  /\ tx[p] \in Transaction /\ tx[p].run \in RunRow
             /\ Unmoved(tx[p].run) => tx[p].run.status = run.status
             /\ Meant(tx[p]) /\ Present(tx[p])
  BY <1>p, <1>o DEF ContractInv, TimelineInv, RowsRead, AsRead, Transaction, Unmoved
<1>r. ASSUME NEW at \in {"command", "message"}, NEW to,
             at = "command" => case.status # "cancelled",
             UNCHANGED <<run, step, case>>,
             tx' = [tx EXCEPT ![p] = Reading(at, to, 0)]
      PROVE  Mapped
  <2>1. tx'[p] = Reading(at, to, 0)
    BY <1>p, <1>r
  <2>2. Meant(Reading(at, to, 0)) /\ Present(Reading(at, to, 0))
    BY <1>r DEF Meant, Present, Reading, Ended
  <2>3. Stays(p)
    BY <1>p, <1>r, <2>1, <2>2 DEF Stays
  <2> QED
    BY <1>p, <1>r, <2>3, Unseen
<1>1. CASE Look(p)
  BY <1>p, <1>1, LeavesUnseen DEF Look
<1>2. CASE CommandLock(p)
  BY <1>r, <1>2 DEF CommandLock
<1>3. CASE MessageRead(p)
  BY <1>r, <1>3 DEF MessageRead
<1>4. CASE RequestChange(p)
  <2>1. case'.status = case.status
    BY <1>p, <1>4 DEF RequestChange, CaseRow
  <2> QED
    BY <1>p, <1>4, <2>1, LeavesUnseen DEF RequestChange
<1>5. CASE CommandCancels(p)
  <2>1. /\ tx[p].at = "command" /\ tx[p] # Idle /\ tx[p].run.status \in Ends
        /\ TouchCase(tx[p], "cancelled") /\ Done(p) /\ UNCHANGED <<run, step>>
    BY <1>5 DEF CommandCancels, Idle
  <2>2. Ended /\ tx[p].case.status # "cancelled"
    BY <1>o, <2>1 DEF Meant, Present
  <2>3. case'.status = "cancelled"
    BY <2>1, <2>2 DEF TouchCase, Column
  <2>4. tx'[p] = Idle /\ \A q \in Processes : q # p => tx'[q] = tx[q]
    BY <1>p, <2>1, DoneType DEF ContractInv, TimelineInv
  <2>5. Stays(p)
    BY <2>1, <2>2, <2>4 DEF Stays
  <2>6. AsIfAtomic!CancelCase
    BY <2>1, <2>2, <2>3 DEF AsIfAtomic!CancelCase, AsIfAtomic!Ends, Ended, Ends, Active
  <2>7. AsIfAtomic!Next
    BY Zenon, <2>6 DEF AsIfAtomic!Next
  <2> QED
    BY <1>p, <2>5, <2>7, StaysKeeps DEF Mapped
<1>6. CASE CommandAsks(p)
  <2> DEFINE t == tx[p]
             old == [t.run EXCEPT !.asked = TRUE]
  <2>1. /\ t.at = "command" /\ t # Idle /\ t.run.status \notin Ends /\ Unmoved(t.run) /\ Done(p)
        /\ IF t.run.status = "queued"
           THEN SetStatus(old, "cancelled") /\ Tell(t, "cancelled")
           ELSE /\ AppendTransition(old, old, old.status)
                /\ step' = "blocked"
                /\ TouchCase(t, "blocked")
    BY <1>6 DEF CommandAsks, Idle
  <2>2. t \in Transaction /\ t.run \in RunRow /\ t.run.seq = run.seq /\ t.run.status = run.status
    BY <1>o, <2>1 DEF Unmoved
  <2>3. old \in RunRow /\ old.seq = run.seq /\ old.status = run.status /\ old.asked = TRUE
    BY <2>2 DEF RunRow
  <2>4. ~Ended /\ t.step = step /\ t.case.status = case.status
    BY <1>o, <2>1, <2>2 DEF Present, Ended
  <2>5. tx'[p] = Idle /\ \A q \in Processes : q # p => tx'[q] = tx[q]
    BY <1>p, <2>1, DoneType DEF ContractInv, TimelineInv
  <2>6. CASE run.status = "queued"
    <3>1. SetStatus(old, "cancelled") /\ Tell(t, "cancelled")
      BY <2>1, <2>2, <2>6
    <3> HIDE DEF old, t
    <3>2. run'.status = "cancelled" /\ run'.asked = TRUE /\ run'.seq = run.seq + 1
      BY <2>3, <3>1, RowAfter DEF RunStatuses, Ends
    <3>3. step' = "blocked" /\ case'.status = step'
      BY <2>2, <2>4, <3>1, ToldNow DEF Ends
    <3>4. Moves(p) /\ Shown'
      BY <2>4, <2>5, <3>2 DEF Moves, Shown, Ended, Ends
    <3>5. AsIfAtomic!Cancel
      BY <2>6, <3>2, <3>3 DEF AsIfAtomic!Cancel, AsIfAtomic!Told, Active
    <3>6. AsIfAtomic!Next
      BY Zenon, <3>5 DEF AsIfAtomic!Next
    <3> QED
      BY <1>p, <3>4, <3>6, MovesKeeps DEF Mapped
  <2>7. CASE run.status # "queued"
    <3>1. AppendTransition(old, old, old.status) /\ step' = "blocked" /\ TouchCase(t, "blocked")
      BY <2>1, <2>2, <2>7
    <3> HIDE DEF old, t
    <3>2. run'.status = run.status /\ run'.asked = TRUE /\ run'.seq = run.seq + 1
      BY <2>3, <3>1 DEF AppendTransition, RunRow
    <3>3. case'.status = "blocked"
      BY <2>4, <3>1 DEF TouchCase, Column
    <3>4. run.status \in Alive /\ Active
      BY <1>p, <2>4, <2>7 DEF Active, Alive, Ended, RunStatuses
    <3>5. Moves(p) /\ Shown'
      BY <2>4, <2>5, <3>1, <3>2, <3>3 DEF Moves, Shown, Ended
    <3>6. AsIfAtomic!CancelActiveCase
      BY <3>1, <3>2, <3>3, <3>4 DEF AsIfAtomic!CancelActiveCase, Active
    <3>7. AsIfAtomic!Next
      BY Zenon, <3>6 DEF AsIfAtomic!Next
    <3> QED
      BY <1>p, <3>5, <3>7, MovesKeeps DEF Mapped
  <2> QED
    BY <2>6, <2>7
<1>7. CASE CommandFails(p)
  BY <1>p, <1>7, LeavesUnseen DEF CommandFails
<1>8. CASE MessageWrite(p)
  <2>1. case'.status = case.status
    BY <1>p, <1>8 DEF MessageWrite, CaseRow
  <2> QED
    BY <1>p, <1>8, <2>1, LeavesUnseen DEF MessageWrite
<1> QED
  BY <1>1, <1>2, <1>3, <1>4, <1>5, <1>6, <1>7, <1>8 DEF Send, Serve

LEMMA DeadlockMapped ==
    ASSUME ContractInv, TimelineInv', NEW p \in People, NEW q \in Coordinators \cup Operators,
           Deadlock(p, q)
    PROVE  Mapped
<1>1. PICK victim \in {p, q} : Done(victim)
  BY DEF Deadlock
<1>2. victim \in Processes
  BY <1>1 DEF Processes
<1> QED
  BY <1>1, <1>2, LeavesUnseen DEF Deadlock

LEMMA ContractStep == ContractInv /\ [Next]_vars => Mapped
<1> SUFFICES ASSUME ContractInv, [Next]_vars PROVE Mapped
  OBVIOUS
<1>1. TimelineInv'
  BY TimelineStep DEF ContractInv
<1>2. CASE UNCHANGED vars
  <2>1. ContractInv'
    BY <1>1, <1>2 DEF vars, ContractInv, Shown, AsRead, Meant, Present, Ended
  <2>2. UNCHANGED AsIfAtomic!vars
    BY <1>2 DEF vars, AsIfAtomic!vars, Active
  <2> QED
    BY <2>1, <2>2 DEF Mapped
<1>3. CASE Next
  BY <1>1, <1>3, WorkerMapped, OperatorMapped, PersonMapped, DeadlockMapped DEF Next
<1> QED
  BY <1>2, <1>3

-----------------------------------------------------------------------------
(* Theorems.                                                               *)

\* Rows and transactions keep their types.
THEOREM TypeCorrect == Spec => []TypeOK
<1>1. TimelineInv => TypeOK
  BY DEF TimelineInv
<1> QED
  BY <1>1, TimelineInit, TimelineStep, PTL DEF Spec

\* For any number of Workers, operators and people, and any number of deadlocks
\* and failed transactions, the timeline of a Run has no gap, no fork and no jump
\* (run_state.py:66-92).
THEOREM ChainedTimeline == Spec => []TimelineChained
<1>1. TimelineInv => TimelineChained
  BY DEF TimelineInv
<1> QED
  BY <1>1, TimelineInit, TimelineStep, PTL DEF Spec

\* For any number of Workers, operators and people: whatever the transactions
\* have read before they got their locks, and whichever of them is aborted, the
\* case and its Run change as if commands and ends of Runs were indivisible
\* (run_state.py:49, main.py:916).
THEOREM CaseContractKept == Spec => KeepsCaseContract
<1>1. Init => AsIfAtomic!Init
  BY DEF Init, AsIfAtomic!Init, Active
<1>2. ContractInv /\ [Next]_vars => ContractInv' /\ [AsIfAtomic!Next]_AsIfAtomic!vars
  BY ContractStep DEF Mapped
<1> QED
  BY <1>1, <1>2, ContractInit, PTL DEF Spec, KeepsCaseContract, AsIfAtomic!Spec
=============================================================================
