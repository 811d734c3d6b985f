\* Operations enqueued and requeued by hand, two workers, every kind of fence.
SPECIFICATION Spec
CONSTANTS
    OpIds = {o1, o2, o3}
    Workers = {w1, w2}
    Schedulers = {}
    Kinds = {"validation_and_initial_sync", "metric_definition_poll", "problem_state_sync"}
    NoOp = NoOp
    NoWorker = NoWorker
    Lease = 0
    Backoff = 0
    Dedup = 0
    Cadence <- MCCadence
    RecoveryMax = 1
    Horizon = 1
    MaxAuth = 0
    MaxManual = 2
    Failing = {"reconciliation_required"}
SYMMETRY Symmetric
INVARIANTS
    TypeOK
    SlotFilledOnce
    MeteredOnce
    RecoveryBounded
PROPERTIES
    ProblemSnapshotsAdvance
    ImplementsWorkQueue
