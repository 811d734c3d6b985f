\* Two dispatchers, callbacks one at a time.
SPECIFICATION Spec
CONSTANTS
    Intents = {i1, i2}
    Dispatchers = {d1, d2}
    Sessions = {s1}
    MaxAttempts = 2
    MaxErrors = 1
    MaxWindows = 1
    Fragile = {}
    Reports = {"failed", "delivered", "external_read_observed"}
    Bodies = {1}
    NoIntent = NoIntent
SYMMETRY Symmetric
INVARIANTS
    TypeOK
    DispatchedInTurn
    SentOncePerAttempt
    ProjectionFollowsFacts
PROPERTIES
    NeverDowngraded
    ImplementsWorkQueue
