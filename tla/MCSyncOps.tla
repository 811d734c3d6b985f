------------------------------ MODULE MCSyncOps ------------------------------
(***************************************************************************)
(* Instances of SyncOps for TLC, and two statements the repository makes   *)
(* about the pipeline that its code does not keep.                         *)
(***************************************************************************)
EXTENDS SyncOps, TLC

MCCadence == [k \in ScheduledKinds |-> 0]

Symmetric == Permutations(OpIds) \cup Permutations(Workers)
                \cup Permutations(Schedulers)

\* Row recycling, for runs that never stop: a row nothing can change again
\* and whose age no query distinguishes is dropped and its id used anew.
Forget(o) ==
    /\ ops[o].state \in Terminal
    /\ ops[o].state = "succeeded" \/ ops[o].recovery >= RecoveryMax
    /\ ops[o].completed = Horizon
    /\ \A w \in Workers : work[w].op # o
    /\ \A s \in Schedulers : sched[s].phase = "open" /\ ops[o].kind # Validation
                               => o \in sched[s].ripe
    /\ ops' = [ops EXCEPT ![o] = NoRow]
    /\ UNCHANGED <<src, work, sched, healthy, manual, earned, lastProblem>>

ForgetAny == \E o \in OpIds : Forget(o)

EndlessSpec ==
    Init /\ [][Next \/ ForgetAny]_vars /\ Fairness /\ WF_vars(ForgetAny)

\* Once the provider answers for good, the source's evidence becomes current
\* for good, and by a sync that succeeded (scheduler.py:43-48: degraded
\* sources keep being polled, "a successful pass is what restores evidence",
\* "a source lost to a transient failure self-heals").  It does not: a
\* scheduler that has once found nothing due keeps that query's time.
SelfHeals ==
    <>[]healthy => <>[](src.evidence = "current" /\ earned)

\* It does where the transactions a scheduler leaves open come to an end, by
\* a commit for something else that is due, by an error or by a restart.
HealsWhenTransactionsEnd ==
    (\A s \in Schedulers : []<>(sched[s].phase = "idle")) => SelfHeals

-----------------------------------------------------------------------------

\* reconciliation.py:22-24: the automatic requeue "closes the recovery loop":
\* a requeued operation that is claimed and still fenced in can be completed.
RequeuedCanComplete ==
    \A w \in Workers : FenceHolds(w) => ~SnapshotConflict(work[w].op)
=============================================================================
