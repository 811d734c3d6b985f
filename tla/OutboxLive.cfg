\* Both ends and every way to fail: does what was announced become known?
SPECIFICATION FairSpec
CONSTANTS
    MaxRev = 2
    Dispatchers = {d1}
    Consumers = {c1, c2}
    BatchSize = 2
    ScanSize = 2
    Lease = 1
    MaxAttempts = 2
    MaxRedrives = 0
    MigratedFresh = FALSE
INVARIANTS
    ResyncSeesTransition
PROPERTIES
    ImplementsInvalidation
    DispatchSettles
    CatchesUp
