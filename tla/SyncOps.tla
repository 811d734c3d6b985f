------------------------------- MODULE SyncOps -------------------------------
(***************************************************************************)
(* The durable sync-operation pipeline of one monitoring source.           *)
(*                                                                         *)
(* A row of monitoring_sync_operation is a unit of polling work.  It is    *)
(* inserted by source creation, by the API, by the cadence scheduler or by *)
(* another operation's completion; a worker claims it in one transaction,  *)
(* talks to the provider outside any transaction, and completes it in a    *)
(* second, fenced, transaction.  The reconciliation worker returns orphans *)
(* to pending, sweeps the unclaimable and requeues the failed.             *)
(*                                                                         *)
(* One transaction of the code is one action.  Timestamps are modelled by  *)
(* their age, saturated where no query tells it from a greater one.  A     *)
(* claim token is random and used for one claim by one worker loop, which  *)
(* holds one claim at a time: the worker's name stands for it.             *)
(***************************************************************************)
EXTENDS Naturals, FiniteSets

CONSTANTS
    OpIds,          \* rows the table may hold (a bound)
    Workers,        \* concurrent worker loops
    Schedulers,     \* concurrent scheduler loops
    Kinds,          \* the responsibility kinds exercised by this instance
    NoOp, NoWorker, \* absent values (NULL)
    Lease,          \* WORKER_OP_LEASE_SECONDS, in ticks
    Backoff,        \* WORKER_RECONCILE_BACKOFF_SECONDS, in ticks
    Dedup,          \* _PENDING_DEDUP_MINUTES, in ticks
    Cadence,        \* _CADENCES, in ticks, for every scheduled kind
    RecoveryMax,    \* WORKER_OP_RECOVERY_MAX
    Horizon,        \* ages are indistinguishable from here on
    MaxAuth,        \* bound: how often the source's authority may move
    MaxManual,      \* bound: operator calls (enqueue, requeue)
    Failing         \* evidence states a failed result may report

Validation == "validation_and_initial_sync"
Inventory  == "host_inventory_sync"
MetricPoll == "metric_definition_poll"
StatePoll  == "current_state_poll"
History    == "metric_history_sync"
Problems   == "problem_state_sync"

AllKinds       == {Validation, Inventory, MetricPoll, StatePoll, History, Problems}
ScheduledKinds == AllKinds \ {Validation}
SlotKinds      == {MetricPoll, StatePoll}   \* numbered when enqueued
GenKinds       == SlotKinds \cup {Problems} \* the source keeps a poll generation
\* Completion inserts a snapshot evidence row that is UNIQUE per operation.
SnapshotKinds  == {Inventory, MetricPoll}

OpState  == {"pending", "running", "succeeded", "reconciliation_required",
             "failed_terminal"}
Live     == {"pending", "running"}
Failed   == {"reconciliation_required", "failed_terminal"}
Terminal == Failed \cup {"succeeded"}

Evidence == {"current", "stale", "incomplete", "reconciliation_required",
             "unavailable"}

ASSUME KindsAssumption == Validation \in Kinds /\ Kinds \subseteq AllKinds
ASSUME AbsentAssumption == NoOp \notin OpIds /\ NoWorker \notin Workers
ASSUME OpIdsAssumption == OpIds # {}
ASSUME LimitAssumption ==
    /\ Lease \in Nat /\ Backoff \in Nat /\ Dedup \in Nat
    /\ Cadence \in [ScheduledKinds -> Nat]
    /\ RecoveryMax \in Nat /\ MaxAuth \in Nat /\ MaxManual \in Nat
    /\ Horizon \in Nat /\ Horizon > Lease /\ Horizon > Backoff
    /\ Horizon >= Dedup
    /\ \A k \in ScheduledKinds : Horizon > Cadence[k]
ASSUME FailingAssumption ==
    Failing \subseteq {"incomplete", "reconciliation_required", "unavailable"}

VARIABLES
    ops,        \* monitoring_sync_operation, by operation id
    src,        \* monitoring_source: authority, evidence, poll generations
    work,       \* the claim each worker loop holds in memory
    sched,      \* each scheduler loop: its transaction, what it read as due
    healthy,    \* whether the provider currently answers usefully
    manual,     \* operator calls so far
    earned,     \* history: 'current' was written by an accepted result
    lastProblem \* history: poll generation of the last accepted problem snapshot

vars == <<ops, src, work, sched, healthy, manual, earned, lastProblem>>

Ages == 0 .. Horizon

OpRow == [kind : AllKinds, state : OpState \cup {"none"},
          token : Workers \cup {NoWorker}, auth : Nat, gen : Nat,
          created : Ages, started : Ages, completed : Ages,
          recovery : Nat, accepted : Nat, meters : Nat]

Idle == [op |-> NoOp, gen |-> 0]

\* old, ripe: the rows that passed the time bounds of the due query when the
\* transaction began that found nothing due, and that is still open.
SchedIdle == [phase |-> "idle", kind |-> Validation, auth |-> 0, gen |-> 0,
              old |-> {}, ripe |-> {}]

TypeOK ==
    /\ ops \in [OpIds -> OpRow]
    /\ src \in [auth : Nat, evidence : Evidence, gen : [GenKinds -> Nat]]
    /\ work \in [Workers -> [op : OpIds \cup {NoOp}, gen : Nat]]
    /\ sched \in [Schedulers -> [phase : {"idle", "open", "checked", "locked"},
                                 kind : AllKinds, auth : Nat, gen : Nat,
                                 old : SUBSET OpIds, ripe : SUBSET OpIds]]
    /\ healthy \in BOOLEAN
    /\ manual \in Nat
    /\ earned \in BOOLEAN
    /\ lastProblem \in Nat

-----------------------------------------------------------------------------
(* Rows                                                                    *)

\* An inserted row: pending, unclaimed, carrying the authority it was
\* enqueued under and, for the slot kinds, the poll generation it is to fill.
NewOp(k, a, g) ==
    [kind |-> k, state |-> "pending", token |-> NoWorker, auth |-> a, gen |-> g,
     created |-> 0, started |-> 0, completed |-> 0,
     recovery |-> 0, accepted |-> 0, meters |-> 0]

NoRow == [NewOp(Validation, 0, 0) EXCEPT !.state = "none"]

Free == {o \in OpIds : ops[o].state = "none"}

LiveOf(k) == {o \in OpIds : ops[o].kind = k /\ ops[o].state \in Live}

\* The generation an operation of kind k enqueued at source state s asks for.
NextGen(s, k) == IF k \in SlotKinds THEN s.gen[k] + 1 ELSE 0

-----------------------------------------------------------------------------
(* Claims                                                                  *)

\* The WHERE clause every claim shares.
Claimable(o, k) ==
    /\ ops[o].kind = k
    /\ ops[o].state = "pending"
    /\ ops[o].token = NoWorker
    /\ ops[o].auth = src.auth

\* The slot kinds are claimable only in strict poll-generation order.
SlotOpen(o) == src.gen[ops[o].kind] + 1 = ops[o].gen

\* The claim transaction: running, with the claimant's token.
Claimed(row, w, g) ==
    [row EXCEPT !.state = "running", !.token = w, !.started = 0, !.gen = g]

Claim(w, o, g) ==
    /\ work[w] = Idle
    /\ ops' = [ops EXCEPT ![o] = Claimed(@, w, g)]
    /\ work' = [work EXCEPT ![w] = [op |-> o, gen |-> g]]
    /\ UNCHANGED <<sched, healthy, manual, earned, lastProblem>>

ClaimInitialValidation(w, o) ==
    /\ Claimable(o, Validation)
    /\ Claim(w, o, ops[o].gen)
    /\ UNCHANGED src

ClaimHostInventory(w, o) ==
    /\ Claimable(o, Inventory)
    /\ Claim(w, o, ops[o].gen)
    /\ UNCHANGED src

ClaimMetricDefinitions(w, o) ==
    /\ Claimable(o, MetricPoll)
    /\ SlotOpen(o)
    /\ Claim(w, o, ops[o].gen)
    /\ UNCHANGED src

ClaimMetricCurrentState(w, o) ==
    /\ Claimable(o, StatePoll)
    /\ SlotOpen(o)
    /\ Claim(w, o, ops[o].gen)
    /\ UNCHANGED src

ClaimMetricHistory(w, o) ==
    /\ Claimable(o, History)
    /\ Claim(w, o, ops[o].gen)
    /\ UNCHANGED src

\* A history claim that finds no eligible item succeeds at once; the source
\* is not touched and nothing is metered.
Emptied(row, w) ==
    [row EXCEPT !.state = "succeeded", !.token = w, !.started = 0, !.completed = 0]

ClaimEmptyHistory(w, o) ==
    /\ Claimable(o, History)
    /\ work[w] = Idle
    /\ ops' = [ops EXCEPT ![o] = Emptied(@, w)]
    /\ UNCHANGED <<src, work, sched, healthy, manual, earned, lastProblem>>

\* The problem claim needs current evidence and draws the next generation
\* itself.  The volatile admission it checks is re-established by the same
\* loop iteration just before, for an epoch that never changes.
ClaimProblemState(w, o) ==
    /\ Claimable(o, Problems)
    /\ src.evidence = "current"
    /\ Claim(w, o, src.gen[Problems] + 1)
    /\ src' = [src EXCEPT !.gen[Problems] = @ + 1]

-----------------------------------------------------------------------------
(* Completions                                                             *)

\* Faulty variant: the completion finds the row by its state alone.
ClaimByState(w, k) ==
    LET o == work[w].op IN
    /\ o # NoOp
    /\ ops[o].kind = k
    /\ ops[o].state = "running"
    /\ ops[o].auth = src.auth

\* The fence every completion re-checks: the claim is still ours, and the
\* source's authority is the one the operation was enqueued under.
ClaimHeld(w, k) ==
    LET o == work[w].op IN
    /\ o # NoOp
    /\ ops[o].kind = k
    /\ ops[o].state = "running"
    /\ ops[o].token = w
    /\ ops[o].auth = src.auth

\* Faulty variants: the completion trusts the generation checked by the claim.
SlotUnchecked(w) == TRUE
ProblemGenUnchecked(w) == TRUE

SlotHeld(w) == src.gen[ops[work[w].op].kind] + 1 = work[w].gen

ProblemGenHeld(w) == src.gen[Problems] = work[w].gen

FenceHolds(w) ==
    \/ \E k \in {Validation, Inventory, History} : ClaimHeld(w, k)
    \/ \E k \in SlotKinds : ClaimHeld(w, k) /\ SlotHeld(w)
    \/ ClaimHeld(w, Problems) /\ ProblemGenHeld(w)

\* A second accepted completion of one operation inserts a second snapshot
\* evidence row for it, which the UNIQUE constraint refuses.
SnapshotConflict(o) == ops[o].kind \in SnapshotKinds /\ ops[o].accepted > 0

\* What the domain package may answer.  A problem snapshot may succeed and
\* still be incomplete, with evidence reconciliation_required.
Success == [state |-> "succeeded", evidence |-> "current", complete |-> TRUE]

FailureEvidence(k) ==
    IF k \in {Validation, Inventory} THEN Failing \ {"reconciliation_required"}
                                     ELSE Failing

Failures(k) ==
    [state : {"reconciliation_required"}, evidence : FailureEvidence(k),
     complete : {TRUE}]
    \cup (IF k = Problems
          THEN [state : {"succeeded"}, complete : {FALSE},
                evidence : FailureEvidence(k) \cap {"reconciliation_required"}]
          ELSE {})

\* A useful answer about hosts that inventory has not imported: of metrics,
\* the completion itself finds it out; of problems, the domain package does.
Unassociated(k) ==
    [state : {"reconciliation_required"}, complete : {TRUE},
     evidence : CASE k = MetricPoll -> {"incomplete"}
                  [] k = Problems   -> {"reconciliation_required"}
                  [] OTHER          -> {}]

Results(k) == IF healthy THEN {Success} \cup Unassociated(k) ELSE Failures(k)

\* record_sync_usage: a succeeded result adds one meter row in the same
\* transaction.
Usage(r) == IF r.state = "succeeded" THEN 1 ELSE 0

\* The row after an accepted completion that adds n meter rows.
Finished(row, state, n) ==
    [row EXCEPT !.state = state, !.completed = 0, !.accepted = @ + 1,
                !.meters = @ + n]

\* The source after an accepted completion of w, before generations.
Reported(r) == [src EXCEPT !.evidence = r.evidence]

Release(w) == work' = [work EXCEPT ![w] = Idle]

Complete(w, r) ==
    LET o == work[w].op IN
    /\ ops' = [ops EXCEPT ![o] = Finished(@, r.state, Usage(r))]
    /\ Release(w)
    /\ earned' = (r.evidence = "current")
    /\ UNCHANGED <<sched, healthy, manual, lastProblem>>

CompleteInitialValidation(w) ==
    /\ ClaimHeld(w, Validation)
    /\ \E r \in Results(Validation) :
         /\ Complete(w, r)
         /\ src' = Reported(r)

CompleteHostInventory(w) ==
    /\ ClaimHeld(w, Inventory)
    /\ ~SnapshotConflict(work[w].op)
    /\ \E r \in Results(Inventory) :
         /\ Complete(w, r)
         /\ src' = Reported(r)

\* Any accepted completion consumes the poll slot, a failed one included.
CompleteSlot(w, k) ==
    /\ ClaimHeld(w, k)
    /\ SlotHeld(w)
    /\ \E r \in Results(k) :
         /\ Complete(w, r)
         /\ src' = [Reported(r) EXCEPT !.gen[k] = work[w].gen]

CompleteMetricDefinitions(w) ==
    /\ ClaimHeld(w, MetricPoll)
    /\ ~SnapshotConflict(work[w].op)
    /\ CompleteSlot(w, MetricPoll)

CompleteMetricCurrentState(w) == CompleteSlot(w, StatePoll)

CompleteMetricHistory(w) ==
    /\ ClaimHeld(w, History)
    /\ \E r \in Results(History) :
         /\ Complete(w, r)
         /\ src' = Reported(r)

\* A full page with items beyond it chains the next page's operation.
CompleteHistoryPage(w) ==
    /\ ClaimHeld(w, History)
    /\ healthy
    /\ \E n \in Free :
         ops' = [ops EXCEPT
                   ![work[w].op] = Finished(@, "succeeded", 1),
                   ![n] = NewOp(History, ops[work[w].op].auth, 0)]
    /\ src' = Reported(Success)
    /\ Release(w)
    /\ earned' = TRUE
    /\ UNCHANGED <<sched, healthy, manual, lastProblem>>

\* The row's token is cleared; an incomplete snapshot is recorded as
\* reconciliation_required although its result succeeded and was metered.
ProblemRow(row, r) ==
    [Finished(row, IF r.complete THEN r.state ELSE "reconciliation_required",
              Usage(r)) EXCEPT !.token = NoWorker]

CompleteProblemState(w) ==
    /\ ClaimHeld(w, Problems)
    /\ ProblemGenHeld(w)
    /\ \E r \in Results(Problems) :
         /\ healthy /\ r \in Unassociated(Problems) => LiveOf(Inventory) # {}
         /\ ops' = [ops EXCEPT ![work[w].op] = ProblemRow(@, r)]
         /\ src' = Reported(r)
         /\ earned' = (r.evidence = "current")
         /\ lastProblem' = IF r.state = "succeeded" THEN work[w].gen
                                                    ELSE lastProblem
    /\ Release(w)
    /\ UNCHANGED <<sched, healthy, manual>>

\* A problem on an object inventory has not imported: the failed completion
\* also enqueues an inventory refresh, unless one is live.
CompleteProblemUnassociated(w) ==
    /\ ClaimHeld(w, Problems)
    /\ ProblemGenHeld(w)
    /\ healthy
    /\ LiveOf(Inventory) = {}
    /\ \E r \in Unassociated(Problems), n \in Free :
         /\ ops' = [ops EXCEPT
                      ![work[w].op] = ProblemRow(@, r),
                      ![n] = NewOp(Inventory, ops[work[w].op].auth, 0)]
         /\ src' = Reported(r)
    /\ earned' = FALSE
    /\ Release(w)
    /\ UNCHANGED <<sched, healthy, manual, lastProblem>>

\* claim_lost: the completion's fence finds no row and rolls back.
ClaimLost(w) ==
    /\ work[w] # Idle
    /\ ~FenceHolds(w)
    /\ Release(w)
    /\ UNCHANGED <<ops, src, sched, healthy, manual, earned, lastProblem>>

\* The snapshot insert hits the UNIQUE constraint: the completion rolls back
\* and the row stays running.
CompletionRefused(w) ==
    /\ FenceHolds(w)
    /\ SnapshotConflict(work[w].op)
    /\ Release(w)
    /\ UNCHANGED <<ops, src, sched, healthy, manual, earned, lastProblem>>

\* The worker dies, or an unexpected error escapes: rollback, and the row
\* stays running.
WorkerFails(w) ==
    /\ work[w] # Idle
    /\ Release(w)
    /\ UNCHANGED <<ops, src, sched, healthy, manual, earned, lastProblem>>

-----------------------------------------------------------------------------
(* The reconciliation worker: one transaction, three statements            *)

\* running past the lease: back to pending, or terminal once exhausted.
\* Faulty variant: the lease is tested on rows in any state.
OrphanedAnyState(row) == row.started > Lease
Orphaned(row) == row.state = "running" /\ row.started > Lease

\* Faulty variants: one return too many, and returns that are not counted.
ReapedOnceMore(row) ==
    IF ~Orphaned(row) THEN row
    ELSE IF row.recovery <= RecoveryMax
         THEN [row EXCEPT !.state = "pending", !.token = NoWorker,
                          !.started = 0, !.recovery = @ + 1]
         ELSE [row EXCEPT !.state = "failed_terminal", !.token = NoWorker,
                          !.completed = 0]
ReapedUncounted(row) ==
    IF ~Orphaned(row) THEN row
    ELSE IF row.recovery < RecoveryMax
         THEN [row EXCEPT !.state = "pending", !.token = NoWorker, !.started = 0]
         ELSE [row EXCEPT !.state = "failed_terminal", !.token = NoWorker,
                          !.completed = 0]

Reaped(row) ==
    IF ~Orphaned(row) THEN row
    ELSE IF row.recovery < RecoveryMax
         THEN [row EXCEPT !.state = "pending", !.token = NoWorker,
                          !.started = 0, !.recovery = @ + 1]
         ELSE [row EXCEPT !.state = "failed_terminal", !.token = NoWorker,
                          !.completed = 0]

\* Faulty variant: only the authority is compared, not the poll slot.
ZombieByAuthority(row) ==
    row.state = "pending" /\ row.token = NoWorker /\ row.auth # src.auth

\* pending under an authority or a poll slot that has moved on.
Zombie(row) ==
    /\ row.state = "pending"
    /\ row.token = NoWorker
    /\ \/ row.auth # src.auth
       \/ row.kind \in SlotKinds /\ src.gen[row.kind] + 1 # row.gen

\* Faulty variant: the sweep writes a state the table does not know.
SweptToExpired(row) ==
    IF Zombie(row) THEN [row EXCEPT !.state = "expired", !.completed = 0] ELSE row

Swept(row) ==
    IF Zombie(row) THEN [row EXCEPT !.state = "failed_terminal", !.completed = 0]
                   ELSE row

\* monitoring.requeue_sync_operation: a failed row becomes pending again ...
Requeued(row) == [row EXCEPT !.state = "pending", !.token = NoWorker,
                             !.started = 0, !.completed = 0,
                             !.recovery = @ + 1]

\* ... and a source in reconciliation_required is declared current.
EvidenceRestored ==
    /\ src' = IF src.evidence = "reconciliation_required"
              THEN [src EXCEPT !.evidence = "current"] ELSE src
    /\ earned' = (earned /\ src.evidence # "reconciliation_required")

\* Failed rows past the backoff, below the recovery bound, whose kind has no
\* live operation; evaluated on the table as reaped and swept.
Requeueable(table) ==
    {o \in OpIds :
        /\ table[o].state \in Failed
        /\ table[o].recovery < RecoveryMax
        /\ table[o].completed > Backoff
        /\ \A n \in OpIds :
             table[n].kind = table[o].kind => table[n].state \notin Live}

ReconcilePass ==
    LET table == [o \in OpIds |-> Swept(Reaped(ops[o]))]
        rows  == Requeueable(table)
    IN /\ ops' = [o \in OpIds |-> IF o \in rows THEN Requeued(table[o])
                                               ELSE table[o]]
       /\ IF rows # {} THEN EvidenceRestored ELSE UNCHANGED <<src, earned>>
       /\ UNCHANGED <<work, sched, healthy, manual, lastProblem>>

-----------------------------------------------------------------------------
(* The cadence scheduler: due query, advisory lock, insert and commit      *)

\* Faulty variant: an unavailable source is probed by no kind.
SchedulableNoProbe(k) ==
    IF k = Problems THEN {"current"}
                    ELSE {"current", "stale", "reconciliation_required"}

Schedulable(k) ==
    CASE k = Problems  -> {"current"}
      [] k = Inventory -> {"current", "stale", "reconciliation_required",
                           "unavailable"}
      [] OTHER         -> {"current", "stale", "reconciliation_required"}

OldRows  == {o \in OpIds : ops[o].created >= Dedup}
RipeRows == {o \in OpIds : /\ ops[o].state \in Terminal
                           /\ ops[o].kind \in ScheduledKinds
                           /\ ops[o].completed > Cadence[ops[o].kind]}

\* now() is the time the transaction began: in one that is left open no row
\* gets any older, and what has happened since is ahead of its time.
Past(s, rows, before) ==
    IF sched[s].phase = "open" THEN rows \cap before ELSE rows

Within(s, o) ==
    \/ ops[o].state \in Live /\ o \notin Past(s, OldRows, sched[s].old)
    \/ ops[o].state \in Terminal /\ o \notin Past(s, RipeRows, sched[s].ripe)

Due(s, k) ==
    /\ src.evidence \in Schedulable(k)
    /\ \A o \in OpIds : ops[o].kind = k => ~Within(s, o)

\* The due query reads the source's authority and generations too.
SchedulerReadsDue(s, k) ==
    /\ sched[s].phase \in {"idle", "open"}
    /\ Due(s, k)
    /\ sched' = [sched EXCEPT ![s] = [SchedIdle EXCEPT
                                        !.phase = "checked", !.kind = k,
                                        !.auth = src.auth, !.gen = NextGen(src, k)]]
    /\ UNCHANGED <<ops, src, work, healthy, manual, earned, lastProblem>>

\* Nothing is due: nothing is committed, and the connection keeps the
\* transaction of this query for those to come.
SchedulerFindsNothing(s, k) ==
    /\ sched[s].phase = "idle"
    /\ ~Due(s, k)
    /\ sched' = [sched EXCEPT ![s] = [SchedIdle EXCEPT
                                        !.phase = "open",
                                        !.old = OldRows, !.ripe = RipeRows]]
    /\ UNCHANGED <<ops, src, work, healthy, manual, earned, lastProblem>>

\* pg_try_advisory_xact_lock: whoever finds the lock taken skips the slot.
SchedulerTriesLock(s) ==
    /\ sched[s].phase = "checked"
    /\ LET taken == \E t \in Schedulers : /\ sched[t].phase = "locked"
                                          /\ sched[t].kind = sched[s].kind
       IN sched' = [sched EXCEPT ![s] = IF taken THEN SchedIdle
                                        ELSE [@ EXCEPT !.phase = "locked"]]
    /\ UNCHANGED <<ops, src, work, healthy, manual, earned, lastProblem>>

SchedulerEnqueues(s) ==
    /\ sched[s].phase = "locked"
    /\ \E n \in Free :
         ops' = [ops EXCEPT ![n] = NewOp(sched[s].kind, sched[s].auth, sched[s].gen)]
    /\ sched' = [sched EXCEPT ![s] = SchedIdle]
    /\ UNCHANGED <<src, work, healthy, manual, earned, lastProblem>>

\* An error, a lost connection, a restart of the process: rollback.
SchedulerStops(s) ==
    /\ sched[s].phase # "idle"
    /\ sched' = [sched EXCEPT ![s] = SchedIdle]
    /\ UNCHANGED <<ops, src, work, healthy, manual, earned, lastProblem>>

-----------------------------------------------------------------------------
(* The API                                                                 *)

\* Enqueue endpoints snapshot the source; only the problem sync is gated.
OperatorEnqueues(k) ==
    /\ manual < MaxManual
    /\ k = Problems => src.evidence = "current"
    /\ \E n \in Free :
         ops' = [ops EXCEPT ![n] = NewOp(k, src.auth, NextGen(src, k))]
    /\ manual' = manual + 1
    /\ UNCHANGED <<src, work, sched, healthy, earned, lastProblem>>

\* The operator's requeue calls the same function, without the bound.
OperatorRequeues(o) ==
    /\ manual < MaxManual
    /\ ops[o].state \in Failed
    /\ ops' = [ops EXCEPT ![o] = Requeued(@)]
    /\ EvidenceRestored
    /\ manual' = manual + 1
    /\ UNCHANGED <<work, sched, healthy, lastProblem>>

-----------------------------------------------------------------------------
(* The environment                                                         *)

Aged(row) ==
    LET older(a, last) == IF a < last THEN a + 1 ELSE a IN
    IF row.state = "none" THEN row
    ELSE [row EXCEPT
            !.created = older(@, Dedup),
            !.started = IF row.state = "running" THEN older(@, Horizon) ELSE @,
            !.completed = IF row.state \in Terminal THEN older(@, Horizon) ELSE @]

\* A row that is young now was made, or ended anew, after the transactions
\* that hold it for old or ripe began.
Outdated(t) == [t EXCEPT !.old = @ \cap OldRows, !.ripe = @ \cap RipeRows]

Tick ==
    /\ ops' = [o \in OpIds |-> Aged(ops[o])]
    /\ sched' = [s \in Schedulers |-> Outdated(sched[s])]
    /\ UNCHANGED <<src, work, healthy, manual, earned, lastProblem>>

\* External: the provider starts or stops answering usefully.
ProviderChanges ==
    /\ healthy' = ~healthy
    /\ UNCHANGED <<ops, src, work, sched, manual, earned, lastProblem>>

\* External: the canonical domain moves the source's authority (a cutover, a
\* configuration or a scope revision).
AuthorityMoves ==
    /\ src.auth < MaxAuth
    /\ src' = [src EXCEPT !.auth = @ + 1]
    /\ UNCHANGED <<ops, work, sched, healthy, manual, earned, lastProblem>>

-----------------------------------------------------------------------------

\* create_zabbix_source: the source and its validation operation commit
\* together; the source starts in reconciliation_required.
Init ==
    /\ \E o \in OpIds :
         ops = [p \in OpIds |-> IF p = o THEN NewOp(Validation, 0, 0) ELSE NoRow]
    /\ src = [auth |-> 0, evidence |-> "reconciliation_required",
              gen |-> [k \in GenKinds |-> 0]]
    /\ work = [w \in Workers |-> Idle]
    /\ sched = [s \in Schedulers |-> SchedIdle]
    /\ healthy = TRUE
    /\ manual = 0
    /\ earned = FALSE
    /\ lastProblem = 0

ClaimAny(w) ==
    \E o \in OpIds : \/ ClaimInitialValidation(w, o)
                     \/ ClaimHostInventory(w, o)
                     \/ ClaimMetricDefinitions(w, o)
                     \/ ClaimMetricCurrentState(w, o)
                     \/ ClaimMetricHistory(w, o)
                     \/ ClaimEmptyHistory(w, o)
                     \/ ClaimProblemState(w, o)

CompleteAny(w) ==
    \/ CompleteInitialValidation(w)
    \/ CompleteHostInventory(w)
    \/ CompleteMetricDefinitions(w)
    \/ CompleteMetricCurrentState(w)
    \/ CompleteMetricHistory(w)
    \/ CompleteHistoryPage(w)
    \/ CompleteProblemState(w)
    \/ CompleteProblemUnassociated(w)

SchedulerRuns(s) ==
    \/ \E k \in Kinds \cap ScheduledKinds :
         SchedulerReadsDue(s, k) \/ SchedulerFindsNothing(s, k)
    \/ SchedulerTriesLock(s)
    \/ SchedulerEnqueues(s)

SchedulerStep(s) == SchedulerRuns(s) \/ SchedulerStops(s)

OperatorStep ==
    \/ \E k \in Kinds : OperatorEnqueues(k)
    \/ \E o \in OpIds : OperatorRequeues(o)

\* A completion attempt that changes nothing.
CompletionFails(w) == ClaimLost(w) \/ CompletionRefused(w)

WorkerStep(w) ==
    ClaimAny(w) \/ CompleteAny(w) \/ CompletionFails(w) \/ WorkerFails(w)

Next ==
    \/ \E w \in Workers : WorkerStep(w)
    \/ \E s \in Schedulers : SchedulerStep(s)
    \/ OperatorStep
    \/ ReconcilePass
    \/ Tick
    \/ ProviderChanges
    \/ AuthorityMoves

Spec == Init /\ [][Next]_vars

\* Every loop of the code polls for ever and time passes.  A worker that keeps
\* claiming is not killed, and does not outlast the lease, every single time;
\* nor is a scheduler stopped between its query and its commit every time.
Fairness ==
    /\ WF_vars(Tick)
    /\ WF_vars(ReconcilePass)
    /\ \A w \in Workers : /\ WF_vars(ClaimAny(w))
                          /\ SF_vars(CompleteAny(w))
                          /\ WF_vars(CompletionFails(w))
    /\ \A s \in Schedulers : /\ WF_vars(SchedulerRuns(s))
                             /\ SF_vars(SchedulerTriesLock(s))
                             /\ SF_vars(SchedulerEnqueues(s))

FairSpec == Spec /\ Fairness

-----------------------------------------------------------------------------
(* The promise to workers and operators                                    *)

PhaseOf(state) ==
    CASE state = "none" -> "absent"
      [] state = "pending" -> "waiting"
      [] state = "running" -> "taken"
      [] state = "succeeded" -> "done"
      [] OTHER -> "failed"

\* The claimant of a running row, unless it has turned to something else.
HoldersOf(o) ==
    {w \in Workers : ops[o].state = "running" /\ ops[o].token = w /\ work[w].op = o}

Queue == INSTANCE WorkQueue WITH
    Jobs <- OpIds,
    phase <- [o \in OpIds |-> PhaseOf(ops[o].state)],
    holders <- [o \in OpIds |-> HoldersOf(o)],
    hands <- [o \in OpIds |-> {w \in Workers : work[w].op = o}]

-----------------------------------------------------------------------------
(* Properties                                                              *)

\* Claims, fences, leases, sweeps and requeues implement the work queue: only
\* the latest claimant's answer ends an operation, an overtaken or restarted
\* worker's is lost, and no row leaves "succeeded".
ImplementsWorkQueue == Queue!Spec

\* An operation is billed at most once, however often its claim is lost,
\* reaped, retried or requeued.  (An incomplete problem snapshot is metered
\* and retried by design, so problem syncs are excepted.)
MeteredOnce ==
    \A o \in OpIds : ops[o].kind # Problems => ops[o].meters <= 1

\* Two operations enqueued for the same poll slot are never both accepted:
\* each poll generation of the source is filled by one operation.
SlotFilledOnce ==
    \A o, p \in OpIds :
        /\ o # p
        /\ ops[o].kind \in SlotKinds
        /\ ops[o].kind = ops[p].kind
        /\ ops[o].gen = ops[p].gen
        => ops[o].accepted = 0 \/ ops[p].accepted = 0

\* Automatic recovery is bounded: whatever the interleaving of reaper,
\* reconciler and operator, only operator calls push a row past the bound.
RecoveryBounded ==
    \A o \in OpIds : ops[o].recovery <= RecoveryMax + manual

\* Problem snapshots are applied in claim order: a worker that was overtaken
\* by a newer claim cannot overwrite the newer snapshot with its older one.
ProblemSnapshotsAdvance ==
    [][lastProblem' # lastProblem => lastProblem' > lastProblem]_lastProblem

\* A crashed worker's operation does not stay running for ever, and a worker
\* that crashes deterministically does not keep an operation cycling between
\* running and pending: what is claimed reaches a final state.
RecoveryTerminates ==
    \A o \in OpIds :
        []<>(ops[o].state = "running") => []<>(ops[o].state \in Terminal)

\* A pending operation whose slot another operation filled does not stay
\* pending, where it would hold back the cadence.
OvertakenLeavesPending ==
    \A o \in OpIds :
        (/\ ops[o].state = "pending" /\ ops[o].kind \in SlotKinds
         /\ ops[o].gen <= src.gen[ops[o].kind]) ~> (ops[o].state # "pending")
=============================================================================
