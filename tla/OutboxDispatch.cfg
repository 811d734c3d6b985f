SPECIFICATION Spec
CONSTANTS
    MaxRev = 2
    Dispatchers = {d1, d2}
    Consumers = {}
    BatchSize = 2
    ScanSize = 2
    Lease = 1
    MaxAttempts = 2
    MaxRedrives = 1
    MigratedFresh = TRUE
SYMMETRY Symmetric
INVARIANTS
    TypeOK
    PublishedWasDelivered
    QuarantineAfterCap
