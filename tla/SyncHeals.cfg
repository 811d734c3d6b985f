\* The whole loop for ever: scheduler, worker, reaper, changes of authority.
SPECIFICATION EndlessSpec
CONSTANTS
    OpIds = {o1, o2}
    Workers = {w1}
    Schedulers = {s1}
    Kinds = {"validation_and_initial_sync", "host_inventory_sync"}
    NoOp = NoOp
    NoWorker = NoWorker
    Lease = 0
    Backoff = 0
    Dedup = 1
    Cadence <- MCCadence
    RecoveryMax = 1
    Horizon = 1
    MaxAuth = 1
    MaxManual = 0
    Failing = {"unavailable"}
PROPERTIES
    HealsWhenTransactionsEnd
    RecoveryTerminates
