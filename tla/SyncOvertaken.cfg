SPECIFICATION FairSpec
CONSTANTS
    OpIds = {o1, o2, o3}
    Workers = {w1}
    Schedulers = {}
    Kinds = {"validation_and_initial_sync", "current_state_poll", "metric_history_sync"}
    NoOp = NoOp
    NoWorker = NoWorker
    Lease = 0
    Backoff = 0
    Dedup = 0
    Cadence <- MCCadence
    RecoveryMax = 0
    Horizon = 1
    MaxAuth = 0
    MaxManual = 2
    Failing = {"unavailable"}
PROPERTIES
    OvertakenLeavesPending
