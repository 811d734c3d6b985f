--------------------------- MODULE SyncOps_proofs ---------------------------
(***************************************************************************)
(* Theorems about SyncOps, for every value of its constants.               *)
(***************************************************************************)
EXTENDS SyncOps, TLAPS

USE DEF Validation, Inventory, MetricPoll, StatePoll, History, Problems

-----------------------------------------------------------------------------
(* Row operators keep rows well typed                                      *)

LEMMA AgesTyped == 0 \in Ages /\ \A a \in Ages : a < Horizon => a + 1 \in Ages
  BY LimitAssumption DEF Ages

LEMMA NewOpTyped ==
  ASSUME NEW k \in AllKinds, NEW a \in Nat, NEW g \in Nat
  PROVE  NewOp(k, a, g) \in OpRow
  BY AgesTyped DEF NewOp, OpRow, OpState

LEMMA NoRowTyped == NoRow \in OpRow
<1>1. NewOp(Validation, 0, 0) \in OpRow
  BY NewOpTyped DEF AllKinds
<1>2. QED
  BY <1>1 DEF NoRow, OpRow

LEMMA FinishedTyped ==
  ASSUME NEW row \in OpRow, NEW s \in OpState, NEW n \in Nat
  PROVE  Finished(row, s, n) \in OpRow
<1>1. row.accepted + 1 \in Nat /\ row.meters + n \in Nat
  BY DEF OpRow
<1>2. QED
  BY <1>1, AgesTyped DEF Finished, OpRow

LEMMA RecoveryTyped == \A row \in OpRow : row.recovery + 1 \in Nat
  BY DEF OpRow

LEMMA ReapedTyped ==
  ASSUME NEW row \in OpRow
  PROVE  Reaped(row) \in OpRow
<1>1. ASSUME row.recovery < RecoveryMax, Orphaned(row)
      PROVE  Reaped(row) \in OpRow
  BY <1>1, AgesTyped, RecoveryTyped DEF Reaped, OpRow, OpState
<1>2. ASSUME ~(row.recovery < RecoveryMax) \/ ~Orphaned(row)
      PROVE  Reaped(row) \in OpRow
  BY <1>2, AgesTyped DEF Reaped, OpRow, OpState
<1>3. QED
  BY <1>1, <1>2

LEMMA SweptTyped ==
  ASSUME NEW row \in OpRow
  PROVE  Swept(row) \in OpRow
  BY AgesTyped DEF Swept, OpRow, OpState

LEMMA RequeuedTyped ==
  ASSUME NEW row \in OpRow
  PROVE  Requeued(row) \in OpRow
  BY AgesTyped, RecoveryTyped DEF Requeued, OpRow, OpState

LEMMA AgedTyped ==
  ASSUME NEW row \in OpRow
  PROVE  Aged(row) \in OpRow
<1> DEFINE older(a, last) == IF a < last THEN a + 1 ELSE a
<1>1. \A a \in Ages : older(a, Dedup) \in Ages /\ older(a, Horizon) \in Ages
  BY LimitAssumption DEF Ages
<1>2. row.created \in Ages /\ row.started \in Ages /\ row.completed \in Ages
  BY DEF OpRow
<1>3. CASE row.state # "none"
  <2>1. Aged(row) =
          [row EXCEPT
             !.created = older(@, Dedup),
             !.started = IF row.state = "running" THEN older(@, Horizon) ELSE @,
             !.completed = IF row.state \in Terminal THEN older(@, Horizon) ELSE @]
    BY <1>3, Zenon DEF Aged
  <2> HIDE DEF older
  <2>2. QED
    BY <1>1, <1>2, <2>1 DEF OpRow
<1>4. CASE row.state = "none"
  BY <1>4 DEF Aged
<1>5. QED
  BY <1>3, <1>4

-----------------------------------------------------------------------------
(* Type correctness                                                        *)

SchedRow == [phase : {"idle", "open", "checked", "locked"}, kind : AllKinds,
             auth : Nat, gen : Nat, old : SUBSET OpIds, ripe : SUBSET OpIds]

LEMMA SchedIdleTyped == SchedIdle \in SchedRow
  BY DEF SchedIdle, SchedRow, AllKinds

LEMMA LockedTyped == \A t \in SchedRow : [t EXCEPT !.phase = "locked"] \in SchedRow
  BY DEF SchedRow

LEMMA OutdatedTyped == \A t \in SchedRow : Outdated(t) \in SchedRow
<1> TAKE t \in SchedRow
<1>1. t.old \cap OldRows \in SUBSET OpIds /\ t.ripe \cap RipeRows \in SUBSET OpIds
  BY DEF SchedRow
<1>2. QED
  BY <1>1 DEF Outdated, SchedRow

LEMMA InitTyped == Init => TypeOK
<1> SUFFICES ASSUME Init PROVE TypeOK
  OBVIOUS
<1>1. ops \in [OpIds -> OpRow]
  BY NewOpTyped, NoRowTyped DEF Init, AllKinds
<1>2. sched \in [Schedulers -> SchedRow]
  BY SchedIdleTyped DEF Init
<1>3. QED
  BY <1>1, <1>2 DEF Init, TypeOK, SchedRow, Idle, Evidence, GenKinds, SlotKinds, AllKinds

\* What an answer about unknown hosts amounts to.
LEMMA UnassociatedIs ==
  ASSUME NEW k, NEW r \in Unassociated(k)
  PROVE  /\ r.state = "reconciliation_required" /\ r.complete = TRUE
         /\ r.evidence \in {"incomplete", "reconciliation_required"}
         /\ k \in {MetricPoll, Problems}
<1>1. CASE k = MetricPoll
  BY <1>1 DEF Unassociated
<1>2. CASE k = Problems
  BY <1>2 DEF Unassociated
<1>3. CASE k # MetricPoll /\ k # Problems
  <2>1. Unassociated(k) = [state : {"reconciliation_required"}, complete : {TRUE},
                           evidence : {}]
    BY <1>3 DEF Unassociated
  <2>2. QED
    BY <2>1
<1>4. QED
  BY <1>1, <1>2, <1>3

\* The answers of the domain package are states and evidence of the tables.
LEMMA ResultsTyped ==
  ASSUME NEW k \in AllKinds, NEW r \in Results(k)
  PROVE  /\ r.state \in OpState
         /\ r.evidence \in Evidence
         /\ Usage(r) \in Nat
<1>1. Usage(r) \in Nat
  BY DEF Usage
<1>2. CASE healthy
  <2>1. CASE r = Success
    BY <1>1, <2>1 DEF Success, OpState, Evidence
  <2>2. CASE r \in Unassociated(k)
    BY <1>1, <2>2, UnassociatedIs DEF OpState, Evidence
  <2>3. QED
    BY <1>2, <2>1, <2>2 DEF Results
<1>3. CASE ~healthy
  <2>1. FailureEvidence(k) \subseteq Evidence
    BY FailingAssumption DEF FailureEvidence, Evidence
  <2>2. CASE r \in [state : {"reconciliation_required"},
                    evidence : FailureEvidence(k), complete : {TRUE}]
    BY <1>1, <2>1, <2>2 DEF OpState
  <2>3. CASE r \in [state : {"succeeded"}, complete : {FALSE},
              evidence : FailureEvidence(k) \cap {"reconciliation_required"}]
    BY <1>1, <2>1, <2>3 DEF OpState
  <2>4. QED
    BY <1>3, <2>2, <2>3 DEF Results, Failures
<1>4. QED
  BY <1>2, <1>3

LEMMA ClaimTyped ==
  ASSUME TypeOK, NEW w \in Workers, NEW o \in OpIds, NEW g \in Nat,
         Claim(w, o, g)
  PROVE  /\ ops' \in [OpIds -> OpRow]
         /\ work' \in [Workers -> [op : OpIds \cup {NoOp}, gen : Nat]]
<1>1. ops[o] \in OpRow
  BY DEF TypeOK
<1>2. Claimed(ops[o], w, g) \in OpRow
  BY <1>1, AgesTyped DEF OpRow, OpState, Claimed
<1>3. QED
  BY <1>2 DEF Claim, TypeOK

LEMMA ReleaseTyped ==
  ASSUME TypeOK, NEW w \in Workers, Release(w)
  PROVE  work' \in [Workers -> [op : OpIds \cup {NoOp}, gen : Nat]]
  BY DEF Release, TypeOK, Idle

LEMMA ReportedTyped ==
  ASSUME TypeOK, NEW k \in AllKinds, NEW r \in Results(k)
  PROVE  Reported(r) \in [auth : Nat, evidence : Evidence, gen : [GenKinds -> Nat]]
  BY ResultsTyped DEF TypeOK, Reported

LEMMA CompleteTyped ==
  ASSUME TypeOK, NEW w \in Workers, NEW k \in AllKinds, NEW r \in Results(k),
         work[w].op # NoOp, Complete(w, r)
  PROVE  /\ ops' \in [OpIds -> OpRow]
         /\ work' \in [Workers -> [op : OpIds \cup {NoOp}, gen : Nat]]
         /\ earned' \in BOOLEAN
<1>1. work[w].op \in OpIds
  BY DEF TypeOK
<1>2. Finished(ops[work[w].op], r.state, Usage(r)) \in OpRow
  BY <1>1, FinishedTyped, ResultsTyped DEF TypeOK
<1>3. ops' \in [OpIds -> OpRow]
  BY <1>1, <1>2 DEF TypeOK, Complete
<1>4. QED
  BY <1>3, ReleaseTyped DEF Complete

LEMMA NextGenTyped ==
  ASSUME TypeOK, NEW k \in AllKinds
  PROVE  NextGen(src, k) \in Nat
  BY DEF TypeOK, NextGen, GenKinds

LEMMA EnqueuedTyped ==
  ASSUME TypeOK, NEW n \in Free, NEW row \in OpRow
  PROVE  [ops EXCEPT ![n] = row] \in [OpIds -> OpRow]
  BY DEF TypeOK, Free

\* Of all its steps, only the insert of a scheduler reaches the tables.
LEMMA SchedulerSteps ==
  ASSUME NEW s \in Schedulers, SchedulerStep(s)
  PROVE  /\ UNCHANGED <<src, work, healthy, manual, earned, lastProblem>>
         /\ UNCHANGED ops \/ SchedulerEnqueues(s)
  BY DEF SchedulerStep, SchedulerRuns, SchedulerReadsDue, SchedulerFindsNothing,
       SchedulerTriesLock, SchedulerEnqueues, SchedulerStops

LEMMA TypeStep == TypeOK /\ [Next]_vars => TypeOK'
<1> SUFFICES ASSUME TypeOK, [Next]_vars PROVE TypeOK'
  OBVIOUS
<1>1. ASSUME NEW w \in Workers, ClaimAny(w) PROVE TypeOK'
  <2> PICK o \in OpIds :
         \/ ClaimInitialValidation(w, o) \/ ClaimHostInventory(w, o)
         \/ ClaimMetricDefinitions(w, o) \/ ClaimMetricCurrentState(w, o)
         \/ ClaimMetricHistory(w, o) \/ ClaimEmptyHistory(w, o)
         \/ ClaimProblemState(w, o)
    BY <1>1 DEF ClaimAny
  <2> ops[o] \in OpRow /\ ops[o].gen \in Nat
    BY DEF TypeOK, OpRow
  <2>1. CASE \/ ClaimInitialValidation(w, o) \/ ClaimHostInventory(w, o)
             \/ ClaimMetricDefinitions(w, o) \/ ClaimMetricCurrentState(w, o)
             \/ ClaimMetricHistory(w, o)
    <3>1. Claim(w, o, ops[o].gen) /\ UNCHANGED src
      BY <2>1 DEF ClaimInitialValidation, ClaimHostInventory,
           ClaimMetricDefinitions, ClaimMetricCurrentState, ClaimMetricHistory
    <3>2. UNCHANGED <<src, sched, healthy, manual, earned, lastProblem>>
      BY <3>1 DEF Claim
    <3>3. QED
      BY <3>1, <3>2, ClaimTyped DEF TypeOK
  <2>2. CASE ClaimEmptyHistory(w, o)
    <3>1. Emptied(ops[o], w) \in OpRow
      BY AgesTyped DEF OpRow, OpState, Emptied
    <3>2. QED
      BY <2>2, <3>1 DEF ClaimEmptyHistory, TypeOK
  <2>3. CASE ClaimProblemState(w, o)
    <3>1. src.gen[Problems] + 1 \in Nat
      BY DEF TypeOK, GenKinds
    <3>2. ops' \in [OpIds -> OpRow]
          /\ work' \in [Workers -> [op : OpIds \cup {NoOp}, gen : Nat]]
      BY <2>3, <3>1, ClaimTyped DEF ClaimProblemState
    <3>3. src' \in [auth : Nat, evidence : Evidence, gen : [GenKinds -> Nat]]
      BY <2>3, <3>1 DEF ClaimProblemState, TypeOK
    <3>4. QED
      BY <2>3, <3>2, <3>3 DEF ClaimProblemState, Claim, TypeOK
  <2>4. QED
    BY <2>1, <2>2, <2>3
<1>2. ASSUME NEW w \in Workers, CompleteAny(w) PROVE TypeOK'
  <2> DEFINE o == work[w].op
  <2>1. o \in OpIds /\ ops[o] \in OpRow
    BY <1>2 DEF CompleteAny, CompleteInitialValidation, CompleteHostInventory,
         CompleteMetricDefinitions, CompleteMetricCurrentState, CompleteSlot,
         CompleteMetricHistory, CompleteHistoryPage, CompleteProblemState,
         CompleteProblemUnassociated, ClaimHeld, TypeOK
  <2> HIDE DEF o
  <2>2. ASSUME NEW k \in AllKinds, NEW r \in Results(k),
               Complete(w, r), src' = Reported(r)
        PROVE  TypeOK'
    <3>1. /\ ops' \in [OpIds -> OpRow]
          /\ work' \in [Workers -> [op : OpIds \cup {NoOp}, gen : Nat]]
          /\ earned' \in BOOLEAN
      BY <2>1, <2>2, CompleteTyped, AbsentAssumption DEF o
    <3>2. src' \in [auth : Nat, evidence : Evidence, gen : [GenKinds -> Nat]]
      BY <2>2, ReportedTyped
    <3>3. UNCHANGED <<sched, healthy, manual, lastProblem>>
      BY <2>2 DEF Complete
    <3>4. QED
      BY <3>1, <3>2, <3>3 DEF TypeOK
  <2>3. ASSUME NEW k \in SlotKinds, NEW r \in Results(k), Complete(w, r),
               src' = [Reported(r) EXCEPT !.gen[k] = work[w].gen]
        PROVE  TypeOK'
    <3>1. k \in AllKinds /\ k \in GenKinds /\ work[w].gen \in Nat
      BY DEF SlotKinds, AllKinds, GenKinds, TypeOK
    <3>2. Reported(r) \in [auth : Nat, evidence : Evidence, gen : [GenKinds -> Nat]]
      BY <3>1, ReportedTyped
    <3>3. src' \in [auth : Nat, evidence : Evidence, gen : [GenKinds -> Nat]]
      BY <2>3, <3>1, <3>2
    <3>4. /\ ops' \in [OpIds -> OpRow]
          /\ work' \in [Workers -> [op : OpIds \cup {NoOp}, gen : Nat]]
          /\ earned' \in BOOLEAN
      BY <2>1, <2>3, <3>1, CompleteTyped, AbsentAssumption DEF o
    <3>5. UNCHANGED <<sched, healthy, manual, lastProblem>>
      BY <2>3 DEF Complete
    <3>6. QED
      BY <3>3, <3>4, <3>5 DEF TypeOK
  <2>4. CASE CompleteHistoryPage(w)
    <3>1. PICK n \in Free :
            ops' = [ops EXCEPT ![o] = Finished(@, "succeeded", 1),
                               ![n] = NewOp(History, ops[o].auth, 0)]
      BY <2>4 DEF CompleteHistoryPage, o
    <3>2. /\ Finished(ops[o], "succeeded", 1) \in OpRow
          /\ NewOp(History, ops[o].auth, 0) \in OpRow
      BY <2>1, FinishedTyped, NewOpTyped DEF OpRow, OpState, AllKinds
    <3>3. ops' \in [OpIds -> OpRow]
      BY <2>1, <3>1, <3>2 DEF TypeOK, Free
    <3>4. src' \in [auth : Nat, evidence : Evidence, gen : [GenKinds -> Nat]]
      BY <2>4 DEF CompleteHistoryPage, Reported, Success, TypeOK, Evidence
    <3>5. QED
      BY <2>4, <3>3, <3>4, ReleaseTyped DEF CompleteHistoryPage, TypeOK
  <2>5. CASE CompleteProblemState(w)
    <3>1. PICK r \in Results(Problems) :
            /\ ops' = [ops EXCEPT ![o] = ProblemRow(@, r)]
            /\ src' = Reported(r)
            /\ earned' = (r.evidence = "current")
            /\ lastProblem' = IF r.state = "succeeded" THEN work[w].gen
                                                       ELSE lastProblem
      BY <2>5 DEF CompleteProblemState, o
    <3>2. Problems \in AllKinds
      BY DEF AllKinds
    <3>3. ProblemRow(ops[o], r) \in OpRow
      BY <2>1, <3>2, FinishedTyped, ResultsTyped DEF ProblemRow, OpRow, OpState
    <3>4. lastProblem' \in Nat
      BY <3>1 DEF TypeOK
    <3>5. earned' \in BOOLEAN
      BY <3>1
    <3>6. QED
      BY <2>1, <2>5, <3>1, <3>2, <3>3, <3>4, <3>5, ReleaseTyped, ReportedTyped
         DEF CompleteProblemState, TypeOK
  <2>6. CASE CompleteProblemUnassociated(w)
    <3>1. PICK r \in Unassociated(Problems), n \in Free :
            /\ ops' = [ops EXCEPT ![o] = ProblemRow(@, r),
                                  ![n] = NewOp(Inventory, ops[o].auth, 0)]
            /\ src' = Reported(r)
      BY <2>6 DEF CompleteProblemUnassociated, o
    <3>2. Problems \in AllKinds /\ r \in Results(Problems)
      BY <2>6 DEF AllKinds, CompleteProblemUnassociated, Results
    <3>3. ProblemRow(ops[o], r) \in OpRow
      BY <2>1, <3>2, FinishedTyped, ResultsTyped DEF ProblemRow, OpRow, OpState
    <3>4. NewOp(Inventory, ops[o].auth, 0) \in OpRow
      BY <2>1, NewOpTyped DEF OpRow, AllKinds
    <3>5. ops' \in [OpIds -> OpRow]
      BY <2>1, <3>1, <3>3, <3>4 DEF TypeOK, Free
    <3>6. src' = Reported(r) /\ UNCHANGED <<sched, healthy, manual, lastProblem>>
          /\ earned' = FALSE /\ Release(w)
      BY <2>6, <3>1 DEF CompleteProblemUnassociated
    <3>7. QED
      BY <3>2, <3>5, <3>6, ReleaseTyped, ReportedTyped DEF TypeOK
  <2>7. QED
    BY <1>2, <2>2, <2>3, <2>4, <2>5, <2>6
       DEF CompleteAny, CompleteInitialValidation, CompleteHostInventory,
         CompleteMetricDefinitions, CompleteMetricCurrentState, CompleteSlot,
         CompleteMetricHistory, AllKinds, SlotKinds
<1>3. ASSUME NEW w \in Workers, CompletionFails(w) \/ WorkerFails(w) PROVE TypeOK'
  BY <1>3, ReleaseTyped
     DEF CompletionFails, ClaimLost, CompletionRefused, WorkerFails, TypeOK
<1>4. ASSUME NEW s \in Schedulers, SchedulerStep(s) PROVE TypeOK'
  <2> USE DEF SchedRow
  <2>1. ASSUME NEW t \in SchedRow, sched' = [sched EXCEPT ![s] = t],
               ops' \in [OpIds -> OpRow],
               UNCHANGED <<src, work, healthy, manual, earned, lastProblem>>
        PROVE  TypeOK'
    BY <2>1 DEF TypeOK
  <2>2. ASSUME NEW k \in Kinds \cap ScheduledKinds, SchedulerReadsDue(s, k)
        PROVE  TypeOK'
    <3>1. [SchedIdle EXCEPT !.phase = "checked", !.kind = k, !.auth = src.auth,
                            !.gen = NextGen(src, k)] \in SchedRow
      BY SchedIdleTyped, NextGenTyped, KindsAssumption DEF TypeOK
    <3>2. QED
      BY <2>1, <2>2, <3>1 DEF SchedulerReadsDue, TypeOK
  <2>3. ASSUME NEW k \in Kinds \cap ScheduledKinds, SchedulerFindsNothing(s, k)
        PROVE  TypeOK'
    <3>1. [SchedIdle EXCEPT !.phase = "open", !.old = OldRows, !.ripe = RipeRows]
             \in SchedRow
      BY SchedIdleTyped DEF OldRows, RipeRows
    <3>2. QED
      BY <2>1, <2>3, <3>1 DEF SchedulerFindsNothing, TypeOK
  <2>4. CASE SchedulerTriesLock(s)
    <3>1. [sched[s] EXCEPT !.phase = "locked"] \in SchedRow
      <4>1. sched[s] \in SchedRow
        BY DEF TypeOK
      <4> HIDE DEF SchedRow
      <4>2. QED
        BY <4>1, LockedTyped
    <3>2. QED
      BY <2>1, <2>4, <3>1, SchedIdleTyped DEF SchedulerTriesLock, TypeOK
  <2>5. CASE SchedulerEnqueues(s)
    <3>1. NewOp(sched[s].kind, sched[s].auth, sched[s].gen) \in OpRow
      BY NewOpTyped DEF TypeOK
    <3>2. ops' \in [OpIds -> OpRow]
      BY <2>5, <3>1, EnqueuedTyped DEF SchedulerEnqueues
    <3>3. QED
      BY <2>1, <2>5, <3>2, SchedIdleTyped DEF SchedulerEnqueues
  <2>6. CASE SchedulerStops(s)
    BY <2>1, <2>6, SchedIdleTyped DEF SchedulerStops, TypeOK
  <2>7. QED
    BY <1>4, <2>2, <2>3, <2>4, <2>5, <2>6 DEF SchedulerStep, SchedulerRuns
<1>5. ASSUME EvidenceRestored
      PROVE  /\ src' \in [auth : Nat, evidence : Evidence, gen : [GenKinds -> Nat]]
             /\ earned' \in BOOLEAN
  <2>1. [src EXCEPT !.evidence = "current"] \in
           [auth : Nat, evidence : Evidence, gen : [GenKinds -> Nat]]
    BY DEF TypeOK, Evidence
  <2>2. QED
    BY <1>5, <2>1 DEF EvidenceRestored, TypeOK
<1>6. CASE OperatorStep
  <2>1. ASSUME NEW k \in Kinds, OperatorEnqueues(k) PROVE TypeOK'
    <3>1. k \in AllKinds
      BY KindsAssumption
    <3>2. NewOp(k, src.auth, NextGen(src, k)) \in OpRow
      BY <3>1, NextGenTyped, NewOpTyped DEF TypeOK
    <3>3. ops' \in [OpIds -> OpRow]
      BY <2>1, <3>2, EnqueuedTyped DEF OperatorEnqueues
    <3>4. QED
      BY <2>1, <3>3 DEF OperatorEnqueues, TypeOK
  <2>2. ASSUME NEW o \in OpIds, OperatorRequeues(o) PROVE TypeOK'
    <3>1. ops' \in [OpIds -> OpRow]
      BY <2>2, RequeuedTyped DEF OperatorRequeues, TypeOK
    <3>2. QED
      BY <1>5, <2>2, <3>1 DEF OperatorRequeues, TypeOK
  <2>3. QED
    BY <1>6, <2>1, <2>2 DEF OperatorStep
<1>7. CASE ReconcilePass
  <2> DEFINE table == [o \in OpIds |-> Swept(Reaped(ops[o]))]
  <2>1. table \in [OpIds -> OpRow]
    BY ReapedTyped, SweptTyped DEF TypeOK
  <2>2. PICK rows : ops' = [o \in OpIds |-> IF o \in rows THEN Requeued(table[o])
                                                         ELSE table[o]]
    BY <1>7 DEF ReconcilePass
  <2>3. ops' \in [OpIds -> OpRow]
    <3> HIDE DEF table
    <3> QED BY <2>1, <2>2, RequeuedTyped
  <2>4. (EvidenceRestored \/ UNCHANGED <<src, earned>>)
        /\ UNCHANGED <<work, sched, healthy, manual, lastProblem>>
    BY <1>7 DEF ReconcilePass
  <2>5. QED
    BY <1>5, <2>3, <2>4 DEF TypeOK
<1>8. CASE Tick
  <2>1. ops' \in [OpIds -> OpRow]
    BY <1>8, AgedTyped DEF Tick, TypeOK
  <2>2. \A s \in Schedulers : sched[s] \in SchedRow
    BY DEF TypeOK, SchedRow
  <2>3. \A s \in Schedulers : Outdated(sched[s]) \in SchedRow
    BY <2>2, OutdatedTyped
  <2>4. QED
    BY <1>8, <2>1, <2>3 DEF Tick, TypeOK, SchedRow
<1>9. CASE ProviderChanges
  BY <1>9 DEF ProviderChanges, TypeOK
<1>10. CASE AuthorityMoves
  BY <1>10 DEF AuthorityMoves, TypeOK
<1>11. CASE UNCHANGED vars
  BY <1>11 DEF vars, TypeOK
<1>12. QED
  BY <1>1, <1>2, <1>3, <1>4, <1>6, <1>7, <1>8, <1>9, <1>10, <1>11
     DEF Next, WorkerStep

\* Every table keeps the states, tokens and counters its CHECK constraints
\* allow, in every interleaving of workers, schedulers, reaper and operators.
THEOREM TypeCorrect == Spec => []TypeOK
  BY InitTyped, TypeStep, PTL DEF Spec
-----------------------------------------------------------------------------
(* What one step may do to one row                                         *)

\* A reconciliation pass on a row: reaped, swept, and requeued if failed.
PassedOver(row) ==
  {Swept(Reaped(row))}
    \cup (IF /\ Swept(Reaped(row)).state \in Failed
             /\ Swept(Reaped(row)).recovery < RecoveryMax
          THEN {Requeued(Swept(Reaped(row)))} ELSE {})

\* A worker's accepted completion of the row it holds.
Accepted(row) ==
  {Finished(row, "succeeded", 1), Finished(row, "reconciliation_required", 0)}

RowStep(o) ==
  LET row == ops[o] IN
  \/ ops'[o] = row /\ manual' >= manual
  \/ /\ row.state = "none"
     /\ \E k \in AllKinds, a, g \in Nat : ops'[o] = NewOp(k, a, g)
     /\ manual' >= manual
  \/ /\ row.state = "pending"
     /\ \E w \in Workers, g \in Nat :
          /\ ops'[o] = Claimed(row, w, g)
          /\ row.kind # Problems => g = row.gen
     /\ manual' = manual
  \/ /\ row.state = "pending"
     /\ \E w \in Workers : ops'[o] = Emptied(row, w)
     /\ manual' = manual
  \/ /\ row.state = "running"
     /\ ops'[o] \in Accepted(row)
     /\ row.kind \in SlotKinds => \E w \in Workers : CompleteSlot(w, row.kind)
     /\ manual' = manual
  \/ /\ row.state = "running" /\ row.kind = Problems
     /\ \E r \in Results(Problems) : ops'[o] = ProblemRow(row, r)
     /\ manual' = manual
  \/ ops'[o] \in PassedOver(row) /\ manual' = manual
  \/ /\ row.state \in Failed
     /\ ops'[o] = Requeued(row)
     /\ manual' = manual + 1
  \/ ops'[o] = Aged(row) /\ manual' = manual

LEMMA CompletionAccepts ==
  ASSUME TypeOK, NEW k \in AllKinds \ {Problems}, NEW r \in Results(k),
         NEW row \in OpRow
  PROVE  Finished(row, r.state, Usage(r)) \in Accepted(row)
<1>1. \/ r.state = "succeeded" /\ Usage(r) = 1
      \/ r.state = "reconciliation_required" /\ Usage(r) = 0
  <2>1. CASE healthy
    <3>1. CASE r = Success
      BY <3>1 DEF Success, Usage
    <3>2. CASE r \in Unassociated(k)
      BY <3>2, UnassociatedIs DEF Usage
    <3>3. QED
      BY <2>1, <3>1, <3>2 DEF Results
  <2>2. CASE ~healthy
    <3>1. r \in [state : {"reconciliation_required"},
                 evidence : FailureEvidence(k), complete : {TRUE}]
      BY <2>2 DEF Results, Failures
    <3>2. QED
      BY <3>1 DEF Usage
  <2>3. QED
    BY <2>1, <2>2
<1>2. QED
  BY <1>1 DEF Accepted

LEMMA RowSteps ==
  ASSUME TypeOK, [Next]_vars, NEW p \in OpIds
  PROVE  RowStep(p)
<1> manual \in Nat /\ ops[p] \in OpRow
  BY DEF TypeOK
<1>1. ASSUME NEW w \in Workers, ClaimAny(w) PROVE RowStep(p)
  <2> PICK o \in OpIds :
         \/ ClaimInitialValidation(w, o) \/ ClaimHostInventory(w, o)
         \/ ClaimMetricDefinitions(w, o) \/ ClaimMetricCurrentState(w, o)
         \/ ClaimMetricHistory(w, o) \/ ClaimEmptyHistory(w, o)
         \/ ClaimProblemState(w, o)
    BY <1>1 DEF ClaimAny
  <2>1. ops[o].gen \in Nat /\ src.gen[Problems] + 1 \in Nat
    BY DEF TypeOK, OpRow, GenKinds
  <2>2. ops[o].state = "pending" /\ manual' = manual
    BY DEF Claimable, Claim, ClaimInitialValidation, ClaimHostInventory,
         ClaimMetricDefinitions, ClaimMetricCurrentState, ClaimMetricHistory,
         ClaimEmptyHistory, ClaimProblemState
  <2>3. \/ \E g \in Nat : /\ ops' = [ops EXCEPT ![o] = Claimed(@, w, g)]
                          /\ ops[o].kind # Problems => g = ops[o].gen
        \/ ops' = [ops EXCEPT ![o] = Emptied(@, w)]
    BY <2>1 DEF Claimable, Claim, ClaimInitialValidation, ClaimHostInventory,
         ClaimMetricDefinitions, ClaimMetricCurrentState, ClaimMetricHistory,
         ClaimEmptyHistory, ClaimProblemState
  <2>4. ops \in [OpIds -> OpRow]
    BY DEF TypeOK
  <2>5. ASSUME NEW row, ops' = [ops EXCEPT ![o] = row]
        PROVE  IF p = o THEN ops'[p] = row ELSE ops'[p] = ops[p]
    BY <2>4, <2>5
  <2>6. CASE p # o
    BY <2>2, <2>3, <2>5, <2>6 DEF RowStep
  <2>7. CASE p = o /\ ops' = [ops EXCEPT ![o] = Emptied(@, w)]
    <3>1. ops'[p] = Emptied(ops[p], w)
      BY <2>5, <2>7
    <3>2. QED
      BY <2>2, <2>7, <3>1 DEF RowStep
  <2>8. ASSUME p = o, NEW g \in Nat, ops' = [ops EXCEPT ![o] = Claimed(@, w, g)],
               ops[o].kind # Problems => g = ops[o].gen
        PROVE  RowStep(p)
    <3>1. ops'[p] = Claimed(ops[p], w, g)
      BY <2>5, <2>8
    <3>2. QED
      BY <2>2, <2>8, <3>1 DEF RowStep
  <2>9. QED
    BY <2>3, <2>6, <2>7, <2>8
<1>2. ASSUME NEW w \in Workers, CompleteAny(w) PROVE RowStep(p)
  <2> DEFINE o == work[w].op
  <2>1. /\ o \in OpIds /\ ops[o] \in OpRow /\ ops[o].state = "running"
        /\ manual' = manual
    BY <1>2 DEF CompleteAny, CompleteInitialValidation, CompleteHostInventory,
         CompleteMetricDefinitions, CompleteMetricCurrentState, CompleteSlot,
         CompleteMetricHistory, CompleteHistoryPage, CompleteProblemState,
         CompleteProblemUnassociated, ClaimHeld, Complete, TypeOK
  <2> HIDE DEF o
  <2>2. ASSUME NEW k \in AllKinds \ {Problems}, NEW r \in Results(k), Complete(w, r),
               ClaimHeld(w, k), k \in SlotKinds => CompleteSlot(w, k)
        PROVE  RowStep(p)
    <3>1. ops' = [ops EXCEPT ![o] = Finished(@, r.state, Usage(r))]
      BY <2>2 DEF Complete, o
    <3>2. Finished(ops[o], r.state, Usage(r)) \in Accepted(ops[o])
      BY <2>1, CompletionAccepts
    <3>3. ops[o].kind = k
      BY <2>2 DEF ClaimHeld, o
    <3>4. QED
      BY <2>1, <2>2, <3>1, <3>2, <3>3 DEF TypeOK, RowStep
  <2>3. CASE CompleteHistoryPage(w)
    <3>1. PICK n \in Free :
            ops' = [ops EXCEPT ![o] = Finished(@, "succeeded", 1),
                               ![n] = NewOp(History, ops[o].auth, 0)]
      BY <2>3 DEF CompleteHistoryPage, o
    <3>2. /\ n # o /\ History \in AllKinds /\ ops[o].auth \in Nat
          /\ ops[n].state = "none"
      BY <2>1 DEF Free, AllKinds, OpRow
    <3>3. CASE p = n
      <4>1. ops'[p] = NewOp(History, ops[o].auth, 0) /\ ops[p].state = "none"
        BY <3>1, <3>2, <3>3 DEF TypeOK
      <4>2. QED
        BY <2>1, <3>2, <4>1 DEF RowStep
    <3>4. CASE p # n
      <4>1. ops[o].kind = History /\ History \notin SlotKinds
        BY <2>3 DEF CompleteHistoryPage, ClaimHeld, SlotKinds, o
      <4>2. QED
        BY <2>1, <3>1, <3>2, <3>4, <4>1 DEF TypeOK, RowStep, Accepted
    <3>5. QED
      BY <3>3, <3>4
  <2>4. CASE CompleteProblemState(w)
    <3>1. PICK r \in Results(Problems) : ops' = [ops EXCEPT ![o] = ProblemRow(@, r)]
      BY <2>4 DEF CompleteProblemState, o
    <3>2. ops[o].kind = Problems
      BY <2>4 DEF CompleteProblemState, ClaimHeld, o
    <3>3. QED
      BY <2>1, <3>1, <3>2 DEF TypeOK, RowStep
  <2>5. CASE CompleteProblemUnassociated(w)
    <3>1. PICK r \in Unassociated(Problems), n \in Free :
            ops' = [ops EXCEPT ![o] = ProblemRow(@, r),
                               ![n] = NewOp(Inventory, ops[o].auth, 0)]
      BY <2>5 DEF CompleteProblemUnassociated, o
    <3>2. /\ n # o /\ Inventory \in AllKinds /\ ops[o].auth \in Nat
          /\ ops[n].state = "none"
      BY <2>1 DEF Free, AllKinds, OpRow
    <3>3. ops[o].kind = Problems /\ r \in Results(Problems)
      BY <2>5 DEF CompleteProblemUnassociated, ClaimHeld, Results, o
    <3>4. CASE p = n
      <4>1. ops'[p] = NewOp(Inventory, ops[o].auth, 0) /\ ops[p].state = "none"
        BY <3>1, <3>2, <3>4 DEF TypeOK
      <4>2. QED
        BY <2>1, <3>2, <4>1 DEF RowStep
    <3>5. CASE p # n
      BY <2>1, <3>1, <3>2, <3>3, <3>5 DEF TypeOK, RowStep
    <3>6. QED
      BY <3>4, <3>5
  <2>6. CASE \E k \in SlotKinds : CompleteSlot(w, k)
    <3>1. PICK k \in SlotKinds : CompleteSlot(w, k)
      BY <2>6
    <3>2. k \in AllKinds \ {Problems}
      BY DEF SlotKinds, AllKinds
    <3>3. PICK r \in Results(k) : Complete(w, r) /\ ClaimHeld(w, k)
      BY <3>1 DEF CompleteSlot
    <3>4. QED
      BY <2>2, <3>1, <3>2, <3>3
  <2>7. CASE \/ CompleteInitialValidation(w) \/ CompleteHostInventory(w)
             \/ CompleteMetricHistory(w)
    <3>1. PICK k \in {Validation, Inventory, History} :
            ClaimHeld(w, k) /\ \E r \in Results(k) : Complete(w, r)
      BY <2>7 DEF CompleteInitialValidation, CompleteHostInventory, CompleteMetricHistory
    <3>2. k \in AllKinds \ {Problems} /\ k \notin SlotKinds
      BY DEF AllKinds, SlotKinds
    <3>3. QED
      BY <2>2, <3>1, <3>2
  <2>8. QED
    BY <1>2, <2>3, <2>4, <2>5, <2>6, <2>7
       DEF CompleteAny, CompleteMetricDefinitions, CompleteMetricCurrentState, SlotKinds
<1>3. ASSUME NEW w \in Workers, CompletionFails(w) \/ WorkerFails(w)
      PROVE  RowStep(p)
  BY <1>3 DEF CompletionFails, ClaimLost, CompletionRefused, WorkerFails, RowStep
<1>4. ASSUME NEW s \in Schedulers, SchedulerStep(s) PROVE RowStep(p)
  <2>1. CASE SchedulerEnqueues(s)
    <3>1. sched[s].kind \in AllKinds /\ sched[s].auth \in Nat /\ sched[s].gen \in Nat
      BY DEF TypeOK
    <3>2. PICK n \in Free :
            ops' = [ops EXCEPT ![n] = NewOp(sched[s].kind, sched[s].auth, sched[s].gen)]
      BY <2>1 DEF SchedulerEnqueues
    <3>3. QED
      BY <2>1, <3>1, <3>2 DEF SchedulerEnqueues, Free, TypeOK, RowStep
  <2>2. CASE UNCHANGED <<ops, manual>>
    BY <2>2 DEF TypeOK, RowStep
  <2>3. QED
    BY <1>4, <2>1, <2>2, SchedulerSteps
<1>5. CASE OperatorStep
  <2>1. ASSUME NEW k \in Kinds, OperatorEnqueues(k) PROVE RowStep(p)
    <3>1. k \in AllKinds /\ src.auth \in Nat /\ NextGen(src, k) \in Nat
      BY KindsAssumption, NextGenTyped DEF TypeOK
    <3>2. PICK n \in Free : ops' = [ops EXCEPT ![n] = NewOp(k, src.auth, NextGen(src, k))]
      BY <2>1 DEF OperatorEnqueues
    <3>3. QED
      BY <2>1, <3>1, <3>2 DEF OperatorEnqueues, Free, TypeOK, RowStep
  <2>2. ASSUME NEW o \in OpIds, OperatorRequeues(o) PROVE RowStep(p)
    BY <2>2 DEF OperatorRequeues, TypeOK, RowStep
  <2>3. QED
    BY <1>5, <2>1, <2>2 DEF OperatorStep
<1>6. CASE ReconcilePass
  <2> DEFINE table == [o \in OpIds |-> Swept(Reaped(ops[o]))]
             rows  == Requeueable(table)
  <2>1. /\ ops' = [o \in OpIds |-> IF o \in rows THEN Requeued(table[o]) ELSE table[o]]
        /\ manual' = manual
    BY <1>6 DEF ReconcilePass
  <2>2. table[p] = Swept(Reaped(ops[p]))
    OBVIOUS
  <2>3. p \in rows => table[p].state \in Failed /\ table[p].recovery < RecoveryMax
    BY DEF Requeueable
  <2> HIDE DEF table, rows
  <2>4. ops'[p] = IF p \in rows THEN Requeued(table[p]) ELSE table[p]
    BY <2>1
  <2>5. ops'[p] \in PassedOver(ops[p])
    BY <2>2, <2>3, <2>4 DEF PassedOver
  <2>6. QED
    BY <2>1, <2>5 DEF RowStep
<1>7. CASE Tick
  BY <1>7 DEF Tick, RowStep
<1>8. CASE ProviderChanges \/ AuthorityMoves
  BY <1>8 DEF ProviderChanges, AuthorityMoves, RowStep
<1>9. CASE UNCHANGED vars
  BY <1>9 DEF vars, RowStep
<1>10. QED
  BY <1>1, <1>2, <1>3, <1>4, <1>5, <1>6, <1>7, <1>8, <1>9 DEF Next, WorkerStep
-----------------------------------------------------------------------------
(* Recovery is bounded                                                     *)

LEMMA RecoveryStep == TypeOK /\ RecoveryBounded /\ [Next]_vars => RecoveryBounded'
<1> SUFFICES ASSUME TypeOK, RecoveryBounded, [Next]_vars, NEW o \in OpIds
             PROVE  ops'[o].recovery <= RecoveryMax + manual'
  BY DEF RecoveryBounded
<1> DEFINE row == ops[o]
<1>1. /\ row \in OpRow /\ manual \in Nat /\ RecoveryMax \in Nat
      /\ row.recovery \in Nat /\ row.recovery <= RecoveryMax + manual
  BY LimitAssumption DEF TypeOK, OpRow, RecoveryBounded
<1>2. RowStep(o)
  BY RowSteps
<1>3. manual' \in Nat
  BY TypeStep DEF TypeOK
<1> HIDE DEF row
<1>4. ASSUME NEW k, NEW a, NEW g PROVE NewOp(k, a, g).recovery = 0
  BY DEF NewOp
<1>5. ASSUME NEW w, NEW g
      PROVE  /\ Claimed(row, w, g).recovery = row.recovery
             /\ Emptied(row, w).recovery = row.recovery
             /\ Aged(row).recovery = row.recovery
  BY <1>1 DEF Claimed, Emptied, Aged, OpRow
<1>6. ASSUME NEW s, NEW n PROVE Finished(row, s, n).recovery = row.recovery
  BY <1>1 DEF Finished, OpRow
<1>7. ASSUME NEW r PROVE ProblemRow(row, r).recovery = row.recovery
  BY <1>1 DEF ProblemRow, Finished, OpRow
<1>8. Requeued(row).recovery = row.recovery + 1
  BY <1>1 DEF Requeued, OpRow
<1>9. ASSUME NEW new \in PassedOver(row)
      PROVE  new.recovery <= RecoveryMax + manual
  <2> DEFINE swept == Swept(Reaped(row))
  <2>1. Reaped(row) \in OpRow
    BY <1>1, ReapedTyped
  <2>2. swept \in OpRow /\ swept.recovery \in Nat
    BY <2>1, SweptTyped DEF OpRow
  <2>3. Reaped(row).recovery <= RecoveryMax + manual
    BY <1>1 DEF Reaped, OpRow
  <2>4. swept.recovery = Reaped(row).recovery
    BY <2>1 DEF Swept, OpRow
  <2> HIDE DEF swept
  <2>5. Requeued(swept).recovery = swept.recovery + 1
    BY <2>2 DEF Requeued, OpRow
  <2>6. CASE new = swept
    BY <2>3, <2>4, <2>6
  <2>7. CASE new = Requeued(swept) /\ swept.recovery < RecoveryMax
    BY <1>1, <2>2, <2>5, <2>7
  <2>8. QED
    BY <2>6, <2>7 DEF PassedOver, swept
<1>10. QED
  BY <1>1, <1>2, <1>3, <1>4, <1>5, <1>6, <1>7, <1>8, <1>9 DEF RowStep, Accepted, row

\* Only operator calls push a row's recovery count past the bound, in every
\* interleaving of reaper, reconciler, operator and workers.
THEOREM RecoveryIsBounded == Spec => []RecoveryBounded
<1>1. Init => RecoveryBounded
  BY LimitAssumption DEF Init, RecoveryBounded, NewOp, NoRow
<1>2. QED
  BY <1>1, RecoveryStep, TypeCorrect, PTL DEF Spec

-----------------------------------------------------------------------------
(* At most one meter row per operation                                     *)

\* What makes MeteredOnce inductive: a billed operation is a succeeded one,
\* and nothing - claim, reaper, sweep or requeue - leaves "succeeded".
BilledWhenDone ==
  \A o \in OpIds :
     ops[o].kind # Problems /\ ops[o].state # "succeeded" => ops[o].meters = 0

MeterRow(row) ==
  row.kind # Problems => /\ row.meters <= 1
                         /\ row.state # "succeeded" => row.meters = 0

MeterInv == MeteredOnce /\ BilledWhenDone

LEMMA MeterRows == MeterInv <=> \A o \in OpIds : MeterRow(ops[o])
  BY DEF MeterInv, MeteredOnce, BilledWhenDone, MeterRow

LEMMA MeterStep == TypeOK /\ MeterInv /\ [Next]_vars => MeterInv'
<1> SUFFICES ASSUME TypeOK, MeterInv, [Next]_vars, NEW o \in OpIds
             PROVE  MeterRow(ops'[o])
  BY DEF MeterInv, MeteredOnce, BilledWhenDone, MeterRow
<1> DEFINE row == ops[o]
<1>1. row \in OpRow /\ MeterRow(row)
  BY MeterRows DEF TypeOK
<1>2. RowStep(o)
  BY RowSteps
<1> HIDE DEF row
<1>3. ASSUME NEW k, NEW a, NEW g PROVE MeterRow(NewOp(k, a, g))
  BY DEF NewOp, MeterRow
<1>4. ASSUME row.state = "pending", NEW w, NEW g
      PROVE  MeterRow(Claimed(row, w, g)) /\ MeterRow(Emptied(row, w))
  BY <1>1, <1>4 DEF Claimed, Emptied, OpRow, MeterRow
<1>5. ASSUME row.state = "running", NEW new \in Accepted(row)
      PROVE  MeterRow(new)
  <2>1. row.meters = 0 \/ row.kind = Problems
    BY <1>1, <1>5 DEF MeterRow
  <2>2. row.meters \in Nat /\ (row.meters = 0 => row.meters + 1 = 1 /\ row.meters + 0 = 0)
    BY <1>1 DEF OpRow
  <2>3. MeterRow(Finished(row, "succeeded", 1))
    BY <1>1, <2>1, <2>2 DEF Finished, OpRow, MeterRow
  <2>4. MeterRow(Finished(row, "reconciliation_required", 0))
    BY <1>1, <2>1, <2>2 DEF Finished, OpRow, MeterRow
  <2>5. QED
    BY <1>5, <2>3, <2>4 DEF Accepted
<1>6. ASSUME row.kind = Problems, NEW r PROVE MeterRow(ProblemRow(row, r))
  BY <1>1, <1>6 DEF ProblemRow, Finished, OpRow, MeterRow
<1>7. ASSUME NEW new \in PassedOver(row) PROVE MeterRow(new)
  <2>1. Reaped(row) \in OpRow /\ MeterRow(Reaped(row))
    BY <1>1, ReapedTyped DEF Reaped, Orphaned, OpRow, MeterRow
  <2>2. Swept(Reaped(row)) \in OpRow /\ MeterRow(Swept(Reaped(row)))
    BY <2>1, SweptTyped DEF Swept, Zombie, OpRow, MeterRow
  <2>3. Swept(Reaped(row)).state \in Failed => MeterRow(Requeued(Swept(Reaped(row))))
    BY <2>2 DEF Requeued, Failed, OpRow, MeterRow
  <2>4. QED
    BY <2>2, <2>3 DEF PassedOver
<1>8. row.state \in Failed => MeterRow(Requeued(row))
  BY <1>1 DEF Requeued, Failed, OpRow, MeterRow
<1>9. MeterRow(Aged(row))
  BY <1>1 DEF Aged, OpRow, MeterRow
<1>10. QED
  BY <1>1, <1>2, <1>3, <1>4, <1>5, <1>6, <1>7, <1>8, <1>9 DEF RowStep, row

\* A claim lost, reaped and retried, or a row requeued by hand, never bills an
\* operation a second time.
THEOREM BilledAtMostOnce == Spec => []MeteredOnce
<1>1. Init => MeterInv
  BY DEF Init, MeterInv, MeteredOnce, BilledWhenDone, NewOp, NoRow
<1>2. MeterInv => MeteredOnce
  BY DEF MeterInv
<1>3. QED
  BY <1>1, <1>2, MeterStep, TypeCorrect, PTL DEF Spec
-----------------------------------------------------------------------------
(* What a worker holds                                                     *)

\* A held claim names a row of the table, and for a slot kind the poll
\* generation the worker carries is the row's.
ClaimsKnown ==
  \A w \in Workers :
     work[w].op # NoOp =>
       /\ ops[work[w].op].state # "none"
       /\ ops[work[w].op].kind # Problems => work[w].gen = ops[work[w].op].gen

LEMMA RowKept ==
  ASSUME TypeOK, [Next]_vars, NEW o \in OpIds, ops[o].state # "none"
  PROVE  /\ ops'[o].state # "none"
         /\ ops'[o].kind = ops[o].kind
         /\ ops[o].kind # Problems => ops'[o].gen = ops[o].gen
<1> DEFINE row == ops[o]
<1>1. row \in OpRow /\ row.state # "none" /\ RowStep(o)
  BY RowSteps DEF TypeOK
<1> HIDE DEF row
<1> DEFINE Kept(new) == /\ new.state # "none" /\ new.kind = row.kind
                        /\ row.kind # Problems => new.gen = row.gen
<1>2. ASSUME NEW w, NEW g, row.kind # Problems => g = row.gen
      PROVE  Kept(Claimed(row, w, g)) /\ Kept(Emptied(row, w))
  BY <1>1, <1>2 DEF Claimed, Emptied, OpRow
<1>3. ASSUME NEW new \in Accepted(row) PROVE Kept(new)
  BY <1>1 DEF Accepted, Finished, OpRow
<1>4. ASSUME row.kind = Problems, NEW r \in Results(Problems)
      PROVE  Kept(ProblemRow(row, r))
  <2>1. r.state # "none"
    BY ResultsTyped DEF AllKinds, OpState
  <2>2. QED
    BY <1>1, <1>4, <2>1 DEF ProblemRow, Finished, OpRow
<1>5. ASSUME NEW new \in PassedOver(row) PROVE Kept(new)
  <2>1. Reaped(row) \in OpRow /\ Kept(Reaped(row))
    BY <1>1, ReapedTyped DEF Reaped, OpRow
  <2>2. Swept(Reaped(row)) \in OpRow /\ Kept(Swept(Reaped(row)))
    BY <2>1, SweptTyped DEF Swept, OpRow
  <2>3. Kept(Requeued(Swept(Reaped(row))))
    BY <2>2 DEF Requeued, OpRow
  <2>4. QED
    BY <2>2, <2>3 DEF PassedOver
<1>6. Kept(Requeued(row)) /\ Kept(Aged(row)) /\ Kept(row)
  BY <1>1 DEF Requeued, Aged, OpRow
<1>7. Kept(ops'[o])
  <2> HIDE DEF Kept
  <2> QED BY <1>1, <1>2, <1>3, <1>4, <1>5, <1>6 DEF RowStep, row
<1>8. QED
  BY <1>7 DEF row

\* A claim of a row that is not a problem sync takes over the row's generation.
PlainClaim(w, o) ==
  /\ ops[o].state = "pending" /\ ops[o].kind # Problems
  /\ work' = [work EXCEPT ![w] = [op |-> o, gen |-> ops[o].gen]]
  /\ UNCHANGED <<src, lastProblem>>

\* No claim is made and no problem snapshot accepted; claims may be dropped.
Dropping ==
  /\ \A w \in Workers : work'[w] \in {work[w], Idle}
  /\ src'.gen[Problems] = src.gen[Problems]
  /\ lastProblem' = lastProblem

LEMMA WorkSteps ==
  ASSUME TypeOK, [Next]_vars
  PROVE  \/ \E w \in Workers, o \in OpIds : PlainClaim(w, o)
         \/ \E w \in Workers, o \in OpIds : ClaimProblemState(w, o)
         \/ \E w \in Workers : CompleteProblemState(w)
         \/ Dropping
<1> DEFINE Goal == \/ \E w \in Workers, o \in OpIds : PlainClaim(w, o)
                   \/ \E w \in Workers, o \in OpIds : ClaimProblemState(w, o)
                   \/ \E w \in Workers : CompleteProblemState(w)
                   \/ Dropping
<1> work \in [Workers -> [op : OpIds \cup {NoOp}, gen : Nat]]
  BY DEF TypeOK
<1> src \in [auth : Nat, evidence : Evidence, gen : [GenKinds -> Nat]]
  BY DEF TypeOK
<1>1. ASSUME NEW w \in Workers, Release(w), UNCHANGED lastProblem,
             src'.gen[Problems] = src.gen[Problems]
      PROVE  Dropping
  BY <1>1 DEF Release, Dropping
<1>2. ASSUME UNCHANGED <<work, lastProblem>>,
             src'.gen[Problems] = src.gen[Problems]
      PROVE  Dropping
  BY <1>2 DEF Dropping
<1>3. ASSUME NEW w \in Workers, ClaimAny(w) PROVE Goal
  <2> PICK o \in OpIds :
         \/ ClaimInitialValidation(w, o) \/ ClaimHostInventory(w, o)
         \/ ClaimMetricDefinitions(w, o) \/ ClaimMetricCurrentState(w, o)
         \/ ClaimMetricHistory(w, o) \/ ClaimEmptyHistory(w, o)
         \/ ClaimProblemState(w, o)
    BY <1>3 DEF ClaimAny
  <2>1. CASE \/ ClaimInitialValidation(w, o) \/ ClaimHostInventory(w, o)
             \/ ClaimMetricDefinitions(w, o) \/ ClaimMetricCurrentState(w, o)
             \/ ClaimMetricHistory(w, o)
    <3>1. PlainClaim(w, o)
      BY <2>1 DEF PlainClaim, Claim, Claimable, ClaimInitialValidation,
           ClaimHostInventory, ClaimMetricDefinitions, ClaimMetricCurrentState,
           ClaimMetricHistory
    <3>2. QED
      BY <3>1
  <2>2. CASE ClaimEmptyHistory(w, o)
    BY <1>2, <2>2 DEF ClaimEmptyHistory
  <2>3. QED
    BY <2>1, <2>2
<1>4. ASSUME NEW w \in Workers, CompleteAny(w) PROVE Goal
  <2>1. ASSUME NEW r, src' = Reported(r)
        PROVE  src'.gen = src.gen
    BY <2>1 DEF Reported
  <2>2. ASSUME NEW r, Complete(w, r), src' = Reported(r) PROVE Dropping
    BY <1>1, <2>1, <2>2 DEF Complete
  <2>3. ASSUME NEW k \in SlotKinds, CompleteSlot(w, k) PROVE Dropping
    <3>1. PICK r : Complete(w, r) /\ src' = [Reported(r) EXCEPT !.gen[k] = work[w].gen]
      BY <2>3 DEF CompleteSlot
    <3>2. k # Problems
      BY DEF SlotKinds
    <3>3. Reported(r).gen = src.gen /\ DOMAIN Reported(r) = {"auth", "evidence", "gen"}
      BY DEF Reported
    <3>4. src'.gen[Problems] = src.gen[Problems]
      BY <3>1, <3>2, <3>3 DEF Reported
    <3>5. QED
      BY <1>1, <3>1, <3>4 DEF Complete
  <2>4. CASE CompleteHistoryPage(w) \/ CompleteProblemUnassociated(w)
    <3>1. Release(w) /\ UNCHANGED lastProblem /\ \E r : src' = Reported(r)
      BY <2>4 DEF CompleteHistoryPage, CompleteProblemUnassociated
    <3>2. QED
      BY <1>1, <2>1, <3>1
  <2>5. QED
    BY <1>4, <2>2, <2>3, <2>4
       DEF CompleteAny, CompleteInitialValidation, CompleteHostInventory,
         CompleteMetricDefinitions, CompleteMetricCurrentState,
         CompleteMetricHistory, SlotKinds
<1>5. ASSUME NEW w \in Workers, CompletionFails(w) \/ WorkerFails(w) PROVE Goal
  BY <1>1, <1>5 DEF CompletionFails, ClaimLost, CompletionRefused, WorkerFails
<1>6. ASSUME NEW s \in Schedulers, SchedulerStep(s) PROVE Goal
  BY <1>2, <1>6, SchedulerSteps
<1>7. ASSUME EvidenceRestored PROVE src'.gen = src.gen
  BY <1>7 DEF EvidenceRestored
<1>8. CASE OperatorStep
  BY <1>2, <1>7, <1>8 DEF OperatorStep, OperatorEnqueues, OperatorRequeues
<1>9. CASE ReconcilePass
  BY <1>2, <1>7, <1>9 DEF ReconcilePass
<1>10. CASE Tick \/ ProviderChanges \/ AuthorityMoves \/ UNCHANGED vars
  BY <1>2, <1>10 DEF Tick, ProviderChanges, AuthorityMoves, vars
<1>11. QED
  BY <1>3, <1>4, <1>5, <1>6, <1>8, <1>9, <1>10 DEF Next, WorkerStep

LEMMA ClaimsStep == TypeOK /\ ClaimsKnown /\ [Next]_vars => ClaimsKnown'
<1> SUFFICES ASSUME TypeOK, ClaimsKnown, [Next]_vars, NEW v \in Workers,
                    work'[v].op # NoOp
             PROVE  /\ ops'[work'[v].op].state # "none"
                    /\ ops'[work'[v].op].kind # Problems =>
                         work'[v].gen = ops'[work'[v].op].gen
  BY DEF ClaimsKnown
<1> work \in [Workers -> [op : OpIds \cup {NoOp}, gen : Nat]]
  BY DEF TypeOK
<1>1. ASSUME work'[v] = work[v]
      PROVE  /\ ops'[work'[v].op].state # "none"
             /\ ops'[work'[v].op].kind # Problems =>
                  work'[v].gen = ops'[work'[v].op].gen
  <2>1. work[v].op \in OpIds /\ ops[work[v].op].state # "none"
    BY <1>1 DEF ClaimsKnown
  <2>2. QED
    BY <1>1, <2>1, RowKept DEF ClaimsKnown
<1>2. ASSUME NEW w \in Workers, NEW o \in OpIds, PlainClaim(w, o), v = w
      PROVE  /\ ops'[work'[v].op].state # "none"
             /\ work'[v].gen = ops'[work'[v].op].gen
  <2>1. work'[v] = [op |-> o, gen |-> ops[o].gen]
    BY <1>2 DEF PlainClaim
  <2>2. ops'[o].state # "none" /\ ops'[o].gen = ops[o].gen
    BY <1>2, RowKept DEF PlainClaim
  <2>3. QED
    BY <2>1, <2>2
<1>3. ASSUME NEW w \in Workers, NEW o \in OpIds, ClaimProblemState(w, o), v = w
      PROVE  /\ ops'[work'[v].op].state # "none"
             /\ ops'[work'[v].op].kind = Problems
  <2>1. work'[v].op = o /\ ops[o].state = "pending" /\ ops[o].kind = Problems
    BY <1>3 DEF ClaimProblemState, Claim, Claimable
  <2>2. QED
    BY <2>1, RowKept
<1>4. CASE Dropping
  BY <1>1, <1>4 DEF Dropping, Idle
<1>5. ASSUME NEW w \in Workers, CompleteProblemState(w)
      PROVE  work'[v] = work[v]
  BY <1>5 DEF CompleteProblemState, Release, Idle
<1>6. ASSUME NEW w \in Workers, NEW o \in OpIds, v # w,
             PlainClaim(w, o) \/ ClaimProblemState(w, o)
      PROVE  work'[v] = work[v]
  BY <1>6 DEF PlainClaim, ClaimProblemState, Claim
<1>7. QED
  BY <1>1, <1>2, <1>3, <1>4, <1>5, <1>6, WorkSteps

LEMMA ClaimsInit == Init => ClaimsKnown
  BY DEF Init, ClaimsKnown, Idle
-----------------------------------------------------------------------------
(* Problem snapshots are applied in claim order                            *)

HoldsProblem(w) == work[w].op # NoOp /\ ops[work[w].op].kind = Problems

\* Each problem claim draws a fresh generation, so no two holders and no holder
\* and accepted snapshot share one.
ProblemInv ==
  /\ lastProblem <= src.gen[Problems]
  /\ \A w \in Workers :
       HoldsProblem(w) => work[w].gen <= src.gen[Problems] /\ work[w].gen # lastProblem
  /\ \A v, w \in Workers :
       v # w /\ HoldsProblem(v) /\ HoldsProblem(w) => work[v].gen # work[w].gen

LEMMA HolderKept ==
  ASSUME TypeOK, ClaimsKnown, [Next]_vars, NEW v \in Workers,
         work'[v] = work[v], HoldsProblem(v)'
  PROVE  HoldsProblem(v)
<1>1. work[v].op \in OpIds /\ ops[work[v].op].state # "none"
  BY DEF TypeOK, ClaimsKnown, HoldsProblem
<1>2. QED
  BY <1>1, RowKept DEF HoldsProblem

LEMMA ProblemStep ==
  TypeOK /\ ClaimsKnown /\ ProblemInv /\ [Next]_vars
    => ProblemInv' /\ (lastProblem' # lastProblem => lastProblem' > lastProblem)
<1> SUFFICES ASSUME TypeOK, ClaimsKnown, ProblemInv, [Next]_vars
             PROVE  ProblemInv' /\ (lastProblem' # lastProblem => lastProblem' > lastProblem)
  OBVIOUS
<1> work \in [Workers -> [op : OpIds \cup {NoOp}, gen : Nat]]
  BY DEF TypeOK
<1>1. /\ src.gen[Problems] \in Nat /\ lastProblem \in Nat
      /\ src \in [auth : Nat, evidence : Evidence, gen : [GenKinds -> Nat]]
      /\ Problems \in GenKinds
      /\ \A w \in Workers : work[w].gen \in Nat
  BY DEF TypeOK, GenKinds
<1>2. CASE Dropping
  <2>1. \A w \in Workers : HoldsProblem(w)' => work'[w] = work[w] /\ HoldsProblem(w)
    BY <1>2, HolderKept DEF Dropping, HoldsProblem, Idle
  <2>2. ProblemInv'
    BY <1>2, <2>1 DEF Dropping, ProblemInv
  <2>3. QED
    BY <1>2, <2>2 DEF Dropping
<1>3. ASSUME NEW w \in Workers, NEW o \in OpIds, PlainClaim(w, o)
      PROVE  ProblemInv' /\ lastProblem' = lastProblem
  <2>1. work'[w].op = o /\ UNCHANGED <<src, lastProblem>>
    BY <1>3 DEF PlainClaim
  <2>2. ~HoldsProblem(w)'
    BY <1>3, <2>1, RowKept DEF PlainClaim, HoldsProblem
  <2>3. \A v \in Workers : HoldsProblem(v)' => work'[v] = work[v] /\ HoldsProblem(v)
    BY <1>3, <2>2, HolderKept DEF PlainClaim
  <2>4. QED
    BY <2>1, <2>3 DEF ProblemInv
<1>4. ASSUME NEW w \in Workers, NEW o \in OpIds, ClaimProblemState(w, o)
      PROVE  ProblemInv' /\ lastProblem' = lastProblem
  <2>1. /\ work' = [work EXCEPT ![w] = [op |-> o, gen |-> src.gen[Problems] + 1]]
        /\ lastProblem' = lastProblem
    BY <1>4 DEF ClaimProblemState, Claim
  <2>2. src'.gen[Problems] = src.gen[Problems] + 1
    BY <1>1, <1>4 DEF ClaimProblemState
  <2>3. \A v \in Workers \ {w} : HoldsProblem(v)' => work'[v] = work[v] /\ HoldsProblem(v)
    BY <2>1, HolderKept
  <2>4. work'[w].gen = src.gen[Problems] + 1
    BY <2>1
  <2>5. lastProblem' <= src'.gen[Problems]
    BY <1>1, <2>1, <2>2 DEF ProblemInv
  <2>6. ASSUME NEW v \in Workers, HoldsProblem(v)'
        PROVE  work'[v].gen <= src'.gen[Problems] /\ work'[v].gen # lastProblem'
    <3>1. CASE v = w
      BY <1>1, <2>1, <2>2, <2>4, <3>1 DEF ProblemInv
    <3>2. CASE v # w
      BY <1>1, <2>1, <2>2, <2>3, <2>6, <3>2 DEF ProblemInv
    <3>3. QED
      BY <3>1, <3>2
  <2>7. ASSUME NEW u \in Workers, NEW v \in Workers, u # v,
               HoldsProblem(u)', HoldsProblem(v)'
        PROVE  work'[u].gen # work'[v].gen
    <3>1. \A x \in Workers \ {w} : HoldsProblem(x)' => work'[x].gen <= src.gen[Problems]
      BY <2>3 DEF ProblemInv
    <3>2. CASE u # w /\ v # w
      BY <2>3, <2>7, <3>2 DEF ProblemInv
    <3>3. CASE u = w \/ v = w
      BY <1>1, <2>4, <2>7, <3>1, <3>3
    <3>4. QED
      BY <3>2, <3>3
  <2>8. QED
    BY <2>1, <2>5, <2>6, <2>7 DEF ProblemInv
<1>5. ASSUME NEW w \in Workers, CompleteProblemState(w)
      PROVE  ProblemInv' /\ (lastProblem' # lastProblem => lastProblem' > lastProblem)
  <2>1. /\ HoldsProblem(w) /\ src.gen[Problems] = work[w].gen
        /\ work' = [work EXCEPT ![w] = Idle]
        /\ lastProblem' \in {lastProblem, work[w].gen}
        /\ \E r : src' = Reported(r)
    BY <1>5 DEF CompleteProblemState, ClaimHeld, HoldsProblem, ProblemGenHeld, Release
  <2>2. src'.gen = src.gen
    BY <2>1 DEF Reported
  <2>3. lastProblem <= work[w].gen /\ lastProblem # work[w].gen
    BY <2>1 DEF ProblemInv
  <2>4. \A v \in Workers :
           HoldsProblem(v)' => v # w /\ work'[v] = work[v] /\ HoldsProblem(v)
    BY <2>1, HolderKept DEF Idle, HoldsProblem
  <2>5. ProblemInv'
    BY <1>1, <2>1, <2>2, <2>4 DEF ProblemInv
  <2>6. QED
    BY <1>1, <2>1, <2>3, <2>5
<1>6. QED
  BY <1>2, <1>3, <1>4, <1>5, WorkSteps

\* A worker whose claim was overtaken never replaces a newer problem snapshot
\* with its own older one.
THEOREM SnapshotsAdvance == Spec => ProblemSnapshotsAdvance
<1>1. Init => ClaimsKnown /\ ProblemInv
  BY ClaimsInit DEF Init, ProblemInv, HoldsProblem, Idle, GenKinds
<1>2. TypeOK /\ ClaimsKnown /\ ProblemInv /\ [Next]_vars
        => ClaimsKnown' /\ ProblemInv'
  BY ClaimsStep, ProblemStep
<1>3. TypeOK /\ ClaimsKnown /\ ProblemInv /\ [Next]_vars
        => [lastProblem' # lastProblem => lastProblem' > lastProblem]_lastProblem
  BY ProblemStep
<1>4. QED
  BY <1>1, <1>2, <1>3, TypeCorrect, PTL DEF Spec, ProblemSnapshotsAdvance
-----------------------------------------------------------------------------
(* Each poll slot is filled by one operation                               *)

\* The generations of the slots that were filled lie behind the source.
FilledBehind ==
  \A o \in OpIds :
     ops[o].kind \in SlotKinds /\ ops[o].accepted > 0
        => ops[o].gen <= src.gen[ops[o].kind]

SlotInv == FilledBehind /\ SlotFilledOnce

\* Poll generations never go back.
LEMMA GensAdvance ==
  ASSUME TypeOK, [Next]_vars, NEW k \in SlotKinds
  PROVE  src'.gen[k] >= src.gen[k]
<1> DEFINE Goal == src'.gen[k] >= src.gen[k]
<1>1. /\ src \in [auth : Nat, evidence : Evidence, gen : [GenKinds -> Nat]]
      /\ src.gen[k] \in Nat /\ k \in GenKinds /\ k # Problems
  BY DEF TypeOK, GenKinds, SlotKinds
<1>2. ASSUME src'.gen = src.gen PROVE Goal
  BY <1>1, <1>2
<1>3. ASSUME NEW w \in Workers, ClaimAny(w) PROVE Goal
  <2>1. ASSUME NEW o \in OpIds, ClaimProblemState(w, o) PROVE Goal
    <3>1. src' = [src EXCEPT !.gen[Problems] = @ + 1]
      BY <2>1 DEF ClaimProblemState
    <3>2. src'.gen = [src.gen EXCEPT ![Problems] = @ + 1]
      BY <1>1, <3>1
    <3>3. QED
      BY <1>1, <3>2
  <2>2. QED
    BY <1>2, <1>3, <2>1
       DEF ClaimAny, ClaimInitialValidation, ClaimHostInventory,
         ClaimMetricDefinitions, ClaimMetricCurrentState, ClaimMetricHistory,
         ClaimEmptyHistory
<1>4. ASSUME NEW w \in Workers, CompleteAny(w) PROVE Goal
  <2>1. ASSUME NEW r, src' = Reported(r) PROVE Goal
    BY <1>1, <1>2, <2>1 DEF Reported
  <2>2. ASSUME NEW j \in SlotKinds, CompleteSlot(w, j) PROVE Goal
    <3>1. PICK r : src' = [Reported(r) EXCEPT !.gen[j] = work[w].gen]
      BY <2>2 DEF CompleteSlot
    <3>2. src.gen[j] + 1 = work[w].gen
      BY <2>2 DEF CompleteSlot, ClaimHeld, SlotHeld
    <3>3. src'.gen = [src.gen EXCEPT ![j] = work[w].gen]
      BY <1>1, <3>1 DEF Reported
    <3>4. QED
      BY <1>1, <3>2, <3>3 DEF GenKinds
  <2>3. QED
    BY <1>4, <2>1, <2>2
       DEF CompleteAny, CompleteInitialValidation, CompleteHostInventory,
         CompleteMetricDefinitions, CompleteMetricCurrentState,
         CompleteMetricHistory, CompleteHistoryPage, CompleteProblemState,
         CompleteProblemUnassociated, SlotKinds
<1>5. ASSUME NEW w \in Workers, CompletionFails(w) \/ WorkerFails(w) PROVE Goal
  BY <1>2, <1>5 DEF CompletionFails, ClaimLost, CompletionRefused, WorkerFails
<1>6. ASSUME NEW s \in Schedulers, SchedulerStep(s) PROVE Goal
  BY <1>2, <1>6, SchedulerSteps
<1>7. ASSUME EvidenceRestored PROVE Goal
  BY <1>1, <1>2, <1>7 DEF EvidenceRestored
<1>8. CASE OperatorStep
  BY <1>2, <1>7, <1>8 DEF OperatorStep, OperatorEnqueues, OperatorRequeues
<1>9. CASE ReconcilePass
  BY <1>2, <1>7, <1>9 DEF ReconcilePass
<1>10. CASE Tick \/ ProviderChanges \/ UNCHANGED vars
  BY <1>2, <1>10 DEF Tick, ProviderChanges, vars
<1>11. CASE AuthorityMoves
  BY <1>1, <1>2, <1>11 DEF AuthorityMoves
<1>12. QED
  BY <1>3, <1>4, <1>5, <1>6, <1>8, <1>9, <1>10, <1>11 DEF Next, WorkerStep

\* Unless a slot completion is accepted, a slot row is either new or keeps its
\* kind, generation and count of accepted results.
LEMMA RowUnaccepted ==
  ASSUME TypeOK, [Next]_vars, NEW o \in OpIds, ops'[o].kind \in SlotKinds,
         ~\E w \in Workers, k \in SlotKinds : CompleteSlot(w, k)
  PROVE  \/ ops'[o].accepted = 0
         \/ /\ ops'[o].kind = ops[o].kind
            /\ ops'[o].gen = ops[o].gen
            /\ ops'[o].accepted = ops[o].accepted
<1> DEFINE row == ops[o]
           Same(new) == /\ new.kind = row.kind /\ new.gen = row.gen
                        /\ new.accepted = row.accepted
<1>1. row \in OpRow /\ RowStep(o)
  BY RowSteps DEF TypeOK
<1>2. row.state # "none" => row.kind \in SlotKinds /\ row.kind # Problems
  BY RowKept DEF SlotKinds
<1> HIDE DEF row
<1>3. ASSUME NEW k, NEW a, NEW g PROVE NewOp(k, a, g).accepted = 0
  BY DEF NewOp
<1>4. ASSUME NEW w, NEW g, g = row.gen
      PROVE  Same(Claimed(row, w, g)) /\ Same(Emptied(row, w))
  BY <1>1, <1>4 DEF Claimed, Emptied, OpRow
<1>5. ASSUME NEW w PROVE Same(Emptied(row, w))
  BY <1>1 DEF Emptied, OpRow
<1>6. ASSUME NEW new \in PassedOver(row) PROVE Same(new)
  <2>1. Reaped(row) \in OpRow /\ Same(Reaped(row))
    BY <1>1, ReapedTyped DEF Reaped, OpRow
  <2>2. Swept(Reaped(row)) \in OpRow /\ Same(Swept(Reaped(row)))
    BY <2>1, SweptTyped DEF Swept, OpRow
  <2>3. Same(Requeued(Swept(Reaped(row))))
    BY <2>2 DEF Requeued, OpRow
  <2>4. QED
    BY <2>2, <2>3 DEF PassedOver
<1>7. Same(Requeued(row)) /\ Same(Aged(row)) /\ Same(row)
  BY <1>1 DEF Requeued, Aged, OpRow
<1>8. ops'[o].accepted = 0 \/ Same(ops'[o])
  <2> HIDE DEF Same
  <2> QED BY <1>1, <1>2, <1>3, <1>4, <1>5, <1>6, <1>7 DEF RowStep, row
<1>9. QED
  BY <1>8 DEF row

LEMMA SlotStep == TypeOK /\ ClaimsKnown /\ SlotInv /\ [Next]_vars => SlotInv'
<1> SUFFICES ASSUME TypeOK, ClaimsKnown, SlotInv, [Next]_vars PROVE SlotInv'
  OBVIOUS
<1> TypeOK'
  BY TypeStep
<1>1. ASSUME NEW o \in OpIds
      PROVE  /\ ops[o] \in OpRow /\ ops'[o] \in OpRow
             /\ ops[o].gen \in Nat /\ ops[o].accepted \in Nat
             /\ ops'[o].gen \in Nat /\ ops'[o].accepted \in Nat
  BY DEF TypeOK, OpRow
<1>2. ASSUME NEW k \in SlotKinds
      PROVE  src.gen[k] \in Nat /\ src'.gen[k] \in Nat /\ src'.gen[k] >= src.gen[k]
  BY GensAdvance DEF TypeOK, GenKinds
<1>3. CASE ~\E w \in Workers, k \in SlotKinds : CompleteSlot(w, k)
  <2>1. ASSUME NEW o \in OpIds, ops'[o].kind \in SlotKinds, ops'[o].accepted # 0
        PROVE  /\ ops'[o].kind = ops[o].kind /\ ops'[o].gen = ops[o].gen
               /\ ops'[o].accepted = ops[o].accepted
    BY <1>3, <2>1, RowUnaccepted
  <2>2. FilledBehind'
    <3> SUFFICES ASSUME NEW o \in OpIds, ops'[o].kind \in SlotKinds,
                        ops'[o].accepted > 0
                 PROVE  ops'[o].gen <= src'.gen[ops'[o].kind]
      BY DEF FilledBehind
    <3>1. ops[o].gen <= src.gen[ops[o].kind] /\ ops'[o].gen = ops[o].gen
          /\ ops'[o].kind = ops[o].kind
      BY <1>1, <2>1 DEF SlotInv, FilledBehind
    <3>2. QED
      BY <1>1, <1>2, <3>1
  <2>3. SlotFilledOnce'
    BY <2>1 DEF SlotInv, SlotFilledOnce
  <2>4. QED
    BY <2>2, <2>3 DEF SlotInv
<1>4. ASSUME NEW w \in Workers, NEW k \in SlotKinds, CompleteSlot(w, k)
      PROVE  SlotInv'
  <2> DEFINE q == work[w].op
  <2>1. /\ q \in OpIds /\ ops[q].kind = k /\ src.gen[k] + 1 = work[w].gen
        /\ q # NoOp
    BY <1>4 DEF CompleteSlot, ClaimHeld, SlotHeld, TypeOK
  <2>2. PICK r : /\ ops' = [ops EXCEPT ![q] = Finished(@, r.state, Usage(r))]
                 /\ src' = [Reported(r) EXCEPT !.gen[k] = work[w].gen]
    BY <1>4 DEF CompleteSlot, Complete
  <2>3. src'.gen[k] = work[w].gen
    BY <2>2 DEF Reported, TypeOK, GenKinds
  <2>4. ops[q].gen = work[w].gen
    BY <2>1 DEF ClaimsKnown, SlotKinds
  <2> HIDE DEF q
  <2>5. /\ ops'[q].kind = k /\ ops'[q].gen = work[w].gen
        /\ \A p \in OpIds \ {q} : ops'[p] = ops[p]
    BY <1>1, <2>1, <2>2, <2>4 DEF Finished, OpRow, TypeOK
  <2>6. FilledBehind'
    <3> SUFFICES ASSUME NEW o \in OpIds, ops'[o].kind \in SlotKinds,
                        ops'[o].accepted > 0
                 PROVE  ops'[o].gen <= src'.gen[ops'[o].kind]
      BY DEF FilledBehind
    <3>1. CASE o = q
      BY <1>1, <2>3, <2>5, <3>1
    <3>2. CASE o # q
      <4>1. ops[o].gen <= src.gen[ops[o].kind]
        BY <2>5, <3>2 DEF SlotInv, FilledBehind
      <4>2. QED
        BY <1>1, <1>2, <2>5, <3>2, <4>1
    <3>3. QED
      BY <3>1, <3>2
  <2>7. ASSUME NEW p \in OpIds \ {q}, ops'[p].kind = k, ops'[p].gen = work[w].gen
        PROVE  ops'[p].accepted = 0
    <3>1. ops[p].accepted > 0 => ops[p].gen <= src.gen[k]
      BY <2>5, <2>7 DEF SlotInv, FilledBehind
    <3>2. QED
      BY <1>1, <1>2, <2>1, <2>5, <2>7, <3>1
  <2>8. SlotFilledOnce'
    <3> SUFFICES ASSUME NEW o \in OpIds, NEW p \in OpIds, o # p,
                        ops'[o].kind \in SlotKinds, ops'[o].kind = ops'[p].kind,
                        ops'[o].gen = ops'[p].gen
                 PROVE  ops'[o].accepted = 0 \/ ops'[p].accepted = 0
      BY DEF SlotFilledOnce
    <3>1. CASE o # q /\ p # q
      BY <2>5, <3>1 DEF SlotInv, SlotFilledOnce
    <3>2. CASE o = q \/ p = q
      BY <2>5, <2>7, <3>2
    <3>3. QED
      BY <3>1, <3>2
  <2>9. QED
    BY <2>6, <2>8 DEF SlotInv
<1>5. QED
  BY <1>3, <1>4

\* Two workers, schedulers or requeues racing for one poll slot never both get
\* a result accepted for it.
THEOREM SlotsFilledOnce == Spec => []SlotFilledOnce
<1>1. Init => ClaimsKnown /\ SlotInv
  BY ClaimsInit DEF Init, SlotInv, FilledBehind, SlotFilledOnce, NewOp, NoRow
<1>2. TypeOK /\ ClaimsKnown /\ SlotInv /\ [Next]_vars => ClaimsKnown' /\ SlotInv'
  BY ClaimsStep, SlotStep
<1>3. SlotInv => SlotFilledOnce
  BY DEF SlotInv
<1>4. QED
  BY <1>1, <1>2, <1>3, TypeCorrect, PTL DEF Spec
-----------------------------------------------------------------------------
(* The pipeline implements the work queue                                  *)

Hands(o) == {w \in Workers : work[w].op = o}

LEMMA PhaseNames ==
  /\ PhaseOf("none") = "absent" /\ PhaseOf("pending") = "waiting"
  /\ PhaseOf("running") = "taken" /\ PhaseOf("succeeded") = "done"
  /\ \A state \in Failed : PhaseOf(state) = "failed"
BY DEF PhaseOf, Failed

LEMMA NotRunning ==
  ASSUME NEW p \in OpIds, ops'[p].state # "running" PROVE HoldersOf(p)' = {}
BY DEF HoldersOf

LEMMA Kept ==
  ASSUME NEW p \in OpIds, ops'[p].state = ops[p].state, ops'[p].token = ops[p].token,
         work' = work
  PROVE  Queue!Rest(p)
<1>1. HoldersOf(p)' = HoldersOf(p) /\ Hands(p)' = Hands(p)
  BY DEF HoldersOf, Hands
<1> QED
  BY <1>1 DEF Queue!Rest, Queue!Becomes, Hands

LEMMA Submitted ==
  ASSUME NEW p \in OpIds, ops[p].state = "none", ops'[p].state = "pending",
         Hands(p)' = Hands(p)
  PROVE  Queue!Submit(p)
<1>1. HoldersOf(p)' = {}
  BY NotRunning
<1> QED
  BY <1>1, PhaseNames DEF Queue!Submit, Queue!Becomes, Hands

\* A worker lets go of what it has in hand.
LEMMA LetsGo ==
  ASSUME TypeOK, NEW w \in Workers, Release(w), NEW p \in OpIds
  PROVE  /\ work[w].op # p => Hands(p)' = Hands(p)
         /\ work[w].op = p => w \in Hands(p) /\ Hands(p)' = Hands(p) \ {w}
         /\ \A v \in Workers : work'[v].op = p <=> work[v].op = p /\ v # w
<1>1. Idle.op # p
  BY AbsentAssumption DEF Idle
<1>2. \A v \in Workers : work'[v] = IF v = w THEN Idle ELSE work[v]
  BY DEF Release, TypeOK
<1>3. \A v \in Workers : work'[v].op = p <=> work[v].op = p /\ v # w
  BY <1>1, <1>2
<1> QED
  BY <1>3 DEF Hands

LEMMA Released ==
  ASSUME TypeOK, NEW w \in Workers, Release(w), NEW p \in OpIds,
         ops'[p].state = ops[p].state, ops'[p].token = ops[p].token
  PROVE  Queue!Step(p)
<1>1. CASE work[w].op # p
  <2>1. HoldersOf(p)' = HoldersOf(p) /\ Hands(p)' = Hands(p)
    BY <1>1, LetsGo DEF HoldersOf
  <2> QED
    BY <2>1 DEF Queue!Step, Queue!Rest, Queue!Becomes, Hands
<1>2. CASE work[w].op = p
  <2>1. /\ HoldersOf(p)' = HoldersOf(p) \ {w}
        /\ w \in Hands(p) /\ Hands(p)' = Hands(p) \ {w}
    BY <1>2, LetsGo DEF HoldersOf
  <2>2. Queue!Drop(p, w)
    BY <2>1 DEF Queue!Drop, Queue!Becomes, Hands
  <2> QED
    BY <2>2 DEF Queue!Step
<1> QED
  BY <1>1, <1>2

\* A claim gives the row to the worker, whatever token it had.
LEMMA Taken ==
  ASSUME TypeOK, NEW w \in Workers, NEW o \in OpIds, NEW g \in Nat, Claim(w, o, g),
         ops[o].state = "pending", NEW p \in OpIds
  PROVE  Queue!Step(p)
<1>1. /\ work[w] = Idle /\ Idle.op = NoOp /\ NoOp \notin OpIds
      /\ ops' = [ops EXCEPT ![o] = Claimed(ops[o], w, g)]
      /\ \A v \in Workers : work'[v] = IF v = w THEN [op |-> o, gen |-> g] ELSE work[v]
  BY AbsentAssumption DEF Claim, Idle, TypeOK
<1>2. CASE p = o
  <2>1. ops'[p].state = "running" /\ ops'[p].token = w
    BY <1>1, <1>2 DEF TypeOK, Claimed, OpRow
  <2>2. work'[w].op = p /\ w \notin Hands(p) /\ Hands(p)' = Hands(p) \cup {w}
    BY <1>1, <1>2 DEF Hands
  <2>3. HoldersOf(p)' = {w}
    BY <2>1, <2>2 DEF HoldersOf
  <2>4. Queue!Take(p, w)
    BY <1>2, <2>1, <2>2, <2>3, PhaseNames DEF Queue!Take, Queue!Becomes, Hands
  <2> QED
    BY <2>4 DEF Queue!Step
<1>3. CASE p # o
  <2>1. ops'[p] = ops[p]
    BY <1>1, <1>3 DEF TypeOK
  <2>2. \A v \in Workers : work'[v].op = p <=> work[v].op = p
    BY <1>1, <1>3
  <2>3. HoldersOf(p)' = HoldersOf(p) /\ Hands(p)' = Hands(p)
    BY <2>1, <2>2 DEF HoldersOf, Hands
  <2> QED
    BY <2>1, <2>3 DEF Queue!Step, Queue!Rest, Queue!Becomes, Hands
<1> QED
  BY <1>2, <1>3

\* The answer of the worker that holds the row.
LEMMA Answers ==
  ASSUME TypeOK, NEW w \in Workers, Release(w), NEW p \in OpIds, work[w].op = p,
         ops[p].state = "running", ops[p].token = w,
         ops'[p].state \in {"succeeded", "reconciliation_required"}
  PROVE  Queue!Step(p)
<1>1. HoldersOf(p) = {w}
  BY DEF HoldersOf
<1>2. HoldersOf(p)' = {} /\ Hands(p)' = Hands(p) \ {w}
  BY NotRunning, LetsGo
<1>3. PhaseOf(ops'[p].state) \in {"done", "failed"}
  BY PhaseNames DEF Failed
<1>4. Queue!Answer(p, w)
  BY <1>1, <1>2, <1>3, PhaseNames DEF Queue!Answer, Queue!Becomes, Hands
<1> QED
  BY <1>4 DEF Queue!Step

LEMMA ResultStates ==
  \A k \in AllKinds : \A r \in Results(k) :
     r.state \in {"succeeded", "reconciliation_required"}
<1> SUFFICES ASSUME NEW k \in AllKinds, NEW r \in Results(k)
             PROVE  r.state \in {"succeeded", "reconciliation_required"}
  OBVIOUS
<1>1. CASE healthy
  <2>1. CASE r = Success
    BY <2>1 DEF Success
  <2>2. CASE r \in Unassociated(k)
    BY <2>2, UnassociatedIs
  <2> QED
    BY <1>1, <2>1, <2>2 DEF Results
<1>2. CASE ~healthy
  <2>1. r \in Failures(k)
    BY <1>2 DEF Results
  <2>2. \/ r \in [state : {"reconciliation_required"}, evidence : FailureEvidence(k),
                  complete : {TRUE}]
        \/ r \in [state : {"succeeded"}, complete : {FALSE},
                  evidence : FailureEvidence(k) \cap {"reconciliation_required"}]
    BY <2>1 DEF Failures
  <2> QED
    BY <2>2
<1> QED
  BY <1>1, <1>2

LEMMA FinishedState ==
  ASSUME NEW row \in OpRow, NEW state, NEW n, NEW r
  PROVE  /\ Finished(row, state, n).state = state
         /\ ProblemRow(row, r).state \in {r.state, "reconciliation_required"}
BY DEF Finished, ProblemRow, OpRow

\* A completion ends its own row; another one may be submitted with it.
LEMMA QueueCompletes ==
  ASSUME TypeOK, NEW w \in Workers, CompleteAny(w), NEW p \in OpIds
  PROVE  Queue!Step(p)
<1> DEFINE o == work[w].op
<1>1. /\ o \in OpIds /\ ops[o] \in OpRow /\ ops[o].state = "running" /\ ops[o].token = w
      /\ Release(w) /\ ops \in [OpIds -> OpRow]
  BY DEF CompleteAny, CompleteInitialValidation, CompleteHostInventory,
       CompleteMetricDefinitions, CompleteMetricCurrentState, CompleteSlot,
       CompleteMetricHistory, CompleteHistoryPage, CompleteProblemState,
       CompleteProblemUnassociated, ClaimHeld, Complete, TypeOK
<1> HIDE DEF o
<1>2. ASSUME NEW new, ops' = [ops EXCEPT ![o] = new],
             new.state \in {"succeeded", "reconciliation_required"}
      PROVE  Queue!Step(p)
  <2>1. CASE p = o
    BY <1>1, <1>2, <2>1, Answers DEF o
  <2>2. CASE p # o
    BY <1>1, <1>2, <2>2, Released
  <2> QED
    BY <2>1, <2>2
<1>3. ASSUME NEW n \in Free, NEW new, NEW k, NEW a,
             ops' = [ops EXCEPT ![o] = new, ![n] = NewOp(k, a, 0)],
             new.state \in {"succeeded", "reconciliation_required"}
      PROVE  Queue!Step(p)
  <2>1. n # o /\ ops[n].state = "none" /\ NewOp(k, a, 0).state = "pending"
    BY <1>1 DEF Free, NewOp
  <2>2. CASE p = o
    BY <1>1, <1>3, <2>1, <2>2, Answers DEF o
  <2>3. CASE p = n
    <3>1. ops'[p].state = "pending" /\ Hands(p)' = Hands(p)
      BY <1>1, <1>3, <2>1, <2>3, LetsGo DEF o
    <3> QED
      BY <2>1, <2>3, <3>1, Submitted DEF Queue!Step
  <2>4. CASE p # o /\ p # n
    BY <1>1, <1>3, <2>4, Released
  <2> QED
    BY <2>2, <2>3, <2>4
<1>4. CASE \E k \in AllKinds : \E r \in Results(k) : Complete(w, r)
  <2> PICK k \in AllKinds : \E r \in Results(k) : Complete(w, r)
    BY <1>4
  <2>1. PICK r \in Results(k) : Complete(w, r)
    OBVIOUS
  <2>2. ops' = [ops EXCEPT ![o] = Finished(ops[o], r.state, Usage(r))]
    BY <2>1 DEF Complete, o
  <2>3. Finished(ops[o], r.state, Usage(r)).state = r.state
    BY <1>1, FinishedState
  <2> QED
    BY <1>2, <2>2, <2>3, ResultStates
<1>5. CASE CompleteHistoryPage(w)
  <2>1. PICK n \in Free :
          ops' = [ops EXCEPT ![o] = Finished(ops[o], "succeeded", 1),
                             ![n] = NewOp(History, ops[o].auth, 0)]
    BY <1>5 DEF CompleteHistoryPage, o
  <2>2. Finished(ops[o], "succeeded", 1).state = "succeeded"
    BY <1>1, FinishedState
  <2> QED
    BY <1>3, <2>1, <2>2
<1>6. CASE CompleteProblemState(w)
  <2>1. PICK r \in Results(Problems) : ops' = [ops EXCEPT ![o] = ProblemRow(ops[o], r)]
    BY <1>6 DEF CompleteProblemState, o
  <2>2. ProblemRow(ops[o], r).state \in {"succeeded", "reconciliation_required"}
    BY <1>1, FinishedState, ResultStates DEF AllKinds
  <2> QED
    BY <1>2, <2>1, <2>2
<1>7. CASE CompleteProblemUnassociated(w)
  <2>1. PICK r \in Unassociated(Problems), n \in Free :
          ops' = [ops EXCEPT ![o] = ProblemRow(ops[o], r),
                             ![n] = NewOp(Inventory, ops[o].auth, 0)]
    BY <1>7 DEF CompleteProblemUnassociated, o
  <2>2. ProblemRow(ops[o], r).state = "reconciliation_required"
    <3>1. r.state = "reconciliation_required"
      BY UnassociatedIs
    <3> QED
      BY <1>1, <3>1, FinishedState
  <2> QED
    BY <1>3, <2>1, <2>2
<1> QED
  BY <1>4, <1>5, <1>6, <1>7
     DEF CompleteAny, CompleteInitialValidation, CompleteHostInventory,
         CompleteMetricDefinitions, CompleteMetricCurrentState, CompleteSlot,
         CompleteMetricHistory, AllKinds

\* What is reaped or swept is not requeued in the same pass: it has only just
\* ended.
LEMMA QueueReconciles ==
  ASSUME TypeOK, ReconcilePass, NEW p \in OpIds
  PROVE  Queue!Step(p)
<1> DEFINE table == [o \in OpIds |-> Swept(Reaped(ops[o]))]
           row == ops[p]
           swept == Swept(Reaped(ops[p]))
<1>1. row \in OpRow /\ work' = work /\ Backoff \in Nat
  BY LimitAssumption DEF ReconcilePass, TypeOK
<1>2. /\ ops'[p] = IF p \in Requeueable(table) THEN Requeued(table[p]) ELSE table[p]
      /\ table[p] = swept
  BY DEF ReconcilePass
<1> HIDE DEF table
<1>3. \/ ops'[p] = swept
      \/ /\ ops'[p] = Requeued(swept)
         /\ swept.state \in Failed /\ swept.completed > Backoff
  BY <1>2 DEF Requeueable
<1>4. Hands(p)' = Hands(p)
  BY <1>1 DEF Hands
<1>5. CASE swept = row
  <2>1. CASE ops'[p] = row
    BY <1>1, <2>1, Kept DEF Queue!Step
  <2>2. CASE ops'[p] = Requeued(row) /\ row.state \in Failed
    <3>1. ops'[p].state = "pending"
      BY <1>1, <2>2 DEF Requeued, OpRow
    <3>2. HoldersOf(p)' = {}
      BY <3>1, NotRunning
    <3>3. Queue!Retry(p)
      BY <1>4, <2>2, <3>1, <3>2, PhaseNames DEF Queue!Retry, Queue!Becomes, Hands
    <3> QED
      BY <3>3 DEF Queue!Step
  <2> QED
    BY <1>3, <1>5, <2>1, <2>2
<1>6. CASE swept # row
  <2>1. row.state \in {"running", "pending"}
    BY <1>6 DEF Swept, Zombie, Reaped, Orphaned
  <2>2. \/ swept.state = "pending" /\ row.state = "running"
        \/ swept.state = "failed_terminal" /\ swept.completed = 0
    <3>1. Reaped(row) \in OpRow
      BY <1>1, ReapedTyped
    <3>2. CASE Zombie(Reaped(row))
      BY <3>1, <3>2 DEF Swept, OpRow
    <3>3. CASE ~Zombie(Reaped(row))
      BY <1>1, <1>6, <3>3 DEF Swept, Reaped, Orphaned, OpRow
    <3> QED
      BY <3>2, <3>3
  <2>3. ops'[p] = swept
    BY <1>1, <1>3, <2>2 DEF Failed
  <2>4. HoldersOf(p)' = {}
    BY <2>2, <2>3, NotRunning
  <2>5. Queue!TakeBack(p) \/ Queue!Settle(p)
    BY <1>4, <2>1, <2>2, <2>3, <2>4, PhaseNames
       DEF Queue!TakeBack, Queue!Settle, Queue!Becomes, Hands, Failed
  <2> QED
    BY <2>5 DEF Queue!Step
<1> QED
  BY <1>5, <1>6

LEMMA QueueSteps ==
  ASSUME TypeOK, [Next]_vars, NEW p \in OpIds
  PROVE  Queue!Step(p)
<1>1. ASSUME NEW w \in Workers, ClaimAny(w) PROVE Queue!Step(p)
  <2> PICK o \in OpIds :
         \/ ClaimInitialValidation(w, o) \/ ClaimHostInventory(w, o)
         \/ ClaimMetricDefinitions(w, o) \/ ClaimMetricCurrentState(w, o)
         \/ ClaimMetricHistory(w, o) \/ ClaimEmptyHistory(w, o)
         \/ ClaimProblemState(w, o)
    BY <1>1 DEF ClaimAny
  <2>1. ops[o].gen \in Nat /\ src.gen[Problems] + 1 \in Nat /\ ops \in [OpIds -> OpRow]
    BY DEF TypeOK, OpRow, GenKinds
  <2>2. /\ ops[o].state = "pending"
        /\ ClaimEmptyHistory(w, o) \/ \E g \in Nat : Claim(w, o, g)
    BY <2>1 DEF Claimable, ClaimInitialValidation, ClaimHostInventory,
         ClaimMetricDefinitions, ClaimMetricCurrentState, ClaimMetricHistory,
         ClaimEmptyHistory, ClaimProblemState
  <2>3. CASE ClaimEmptyHistory(w, o)
    <3>1. ops' = [ops EXCEPT ![o] = Emptied(ops[o], w)] /\ work' = work
      BY <2>3 DEF ClaimEmptyHistory
    <3>2. CASE p # o
      BY <2>1, <3>1, <3>2, Kept DEF Queue!Step
    <3>3. CASE p = o
      <4>1. ops'[p].state = "succeeded"
        BY <2>1, <3>1, <3>3 DEF Emptied, OpRow
      <4>2. HoldersOf(p)' = {} /\ Hands(p)' = Hands(p)
        BY <3>1, <4>1, NotRunning DEF Hands
      <4>3. Queue!Settle(p)
        BY <2>2, <3>3, <4>1, <4>2, PhaseNames DEF Queue!Settle, Queue!Becomes, Hands
      <4> QED
        BY <4>3 DEF Queue!Step
    <3> QED
      BY <3>2, <3>3
  <2> QED
    BY <2>2, <2>3, Taken
<1>2. ASSUME NEW w \in Workers, CompletionFails(w) \/ WorkerFails(w) PROVE Queue!Step(p)
  <2>1. Release(w) /\ ops' = ops
    BY <1>2 DEF CompletionFails, ClaimLost, CompletionRefused, WorkerFails
  <2> QED
    BY <2>1, Released
\* A row that is inserted.
<1>3. ASSUME NEW n \in Free, NEW k, NEW a, NEW g,
             ops' = [ops EXCEPT ![n] = NewOp(k, a, g)], work' = work
      PROVE  Queue!Step(p)
  <2>1. ops \in [OpIds -> OpRow]
    BY DEF TypeOK
  <2>2. CASE p = n
    <3>1. ops[p].state = "none" /\ ops'[p].state = "pending"
      BY <1>3, <2>1, <2>2 DEF Free, NewOp
    <3>2. Hands(p)' = Hands(p)
      BY <1>3 DEF Hands
    <3> QED
      BY <3>1, <3>2, Submitted DEF Queue!Step
  <2>3. CASE p # n
    BY <1>3, <2>1, <2>3, Kept DEF Queue!Step
  <2> QED
    BY <2>2, <2>3
<1>4. ASSUME NEW s \in Schedulers, SchedulerStep(s) PROVE Queue!Step(p)
  <2>1. CASE SchedulerEnqueues(s)
    <3>1. PICK n \in Free :
            ops' = [ops EXCEPT ![n] = NewOp(sched[s].kind, sched[s].auth, sched[s].gen)]
      BY <2>1 DEF SchedulerEnqueues
    <3>2. work' = work
      BY <2>1 DEF SchedulerEnqueues
    <3> QED
      BY <1>3, <3>1, <3>2
  <2>2. CASE UNCHANGED <<ops, work>>
    BY <2>2, Kept DEF Queue!Step
  <2> QED
    BY <1>4, <2>1, <2>2, SchedulerSteps
<1>5. CASE OperatorStep
  <2>1. ASSUME NEW k \in Kinds, OperatorEnqueues(k) PROVE Queue!Step(p)
    <3>1. PICK n \in Free : ops' = [ops EXCEPT ![n] = NewOp(k, src.auth, NextGen(src, k))]
      BY <2>1 DEF OperatorEnqueues
    <3>2. work' = work
      BY <2>1 DEF OperatorEnqueues
    <3> QED
      BY <1>3, <3>1, <3>2
  <2>2. ASSUME NEW o \in OpIds, OperatorRequeues(o) PROVE Queue!Step(p)
    <3>1. /\ ops' = [ops EXCEPT ![o] = Requeued(ops[o])] /\ work' = work
          /\ ops[o].state \in Failed /\ ops \in [OpIds -> OpRow]
      BY <2>2 DEF OperatorRequeues, TypeOK
    <3>2. CASE p # o
      BY <3>1, <3>2, Kept DEF Queue!Step
    <3>3. CASE p = o
      <4>1. ops'[p].state = "pending"
        BY <3>1, <3>3 DEF Requeued, OpRow
      <4>2. HoldersOf(p)' = {} /\ Hands(p)' = Hands(p)
        BY <3>1, <4>1, NotRunning DEF Hands
      <4>3. Queue!Retry(p)
        BY <3>1, <3>3, <4>1, <4>2, PhaseNames DEF Queue!Retry, Queue!Becomes, Hands
      <4> QED
        BY <4>3 DEF Queue!Step
    <3> QED
      BY <3>2, <3>3
  <2> QED
    BY <1>5, <2>1, <2>2 DEF OperatorStep
<1>6. CASE Tick
  <2>1. /\ ops'[p] = Aged(ops[p]) /\ work' = work /\ ops[p] \in OpRow
    BY <1>6 DEF Tick, TypeOK
  <2>2. Aged(ops[p]).state = ops[p].state /\ Aged(ops[p]).token = ops[p].token
    BY <2>1 DEF Aged, OpRow
  <2> QED
    BY <2>1, <2>2, Kept DEF Queue!Step
<1>7. CASE ProviderChanges \/ AuthorityMoves \/ UNCHANGED vars
  <2>1. ops' = ops /\ work' = work
    BY <1>7 DEF ProviderChanges, AuthorityMoves, vars
  <2> QED
    BY <2>1, Kept DEF Queue!Step
<1> QED
  BY <1>1, <1>2, <1>4, <1>5, <1>6, <1>7, QueueCompletes, QueueReconciles DEF Next, WorkerStep

LEMMA QueueInit == Init => Queue!Init
<1> SUFFICES ASSUME Init PROVE Queue!Init
  OBVIOUS
<1>1. \A o \in OpIds : ops[o].state \in {"pending", "none"}
  BY DEF Init, NewOp, NoRow
<1>2. \A o \in OpIds : PhaseOf(ops[o].state) \in {"absent", "waiting"}
  BY <1>1, PhaseNames
<1>3. \A o \in OpIds : HoldersOf(o) = {}
  BY <1>1 DEF HoldersOf
<1>4. \A o \in OpIds : {w \in Workers : work[w].op = o} = {}
  BY AbsentAssumption DEF Init, Idle
<1> QED
  BY <1>2, <1>3, <1>4 DEF Queue!Init

\* Only the latest claimant's answer ends an operation, whatever overtaken and
\* restarted workers, reaper, sweep, operators and schedulers do, and however
\* many rows one transaction moves on.
THEOREM PipelineImplementsWorkQueue == Spec => ImplementsWorkQueue
<1>1. TypeOK /\ [Next]_vars => [Queue!Next]_(Queue!vars)
  BY QueueSteps DEF Queue!Next
<1> QED
  BY <1>1, QueueInit, TypeCorrect, PTL DEF Spec, ImplementsWorkQueue, Queue!Spec
=============================================================================
