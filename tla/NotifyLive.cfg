\* One dispatcher for ever, adapters that break, two callbacks at once.
SPECIFICATION FairSpec
CONSTANTS
    Intents = {i1, i2}
    Dispatchers = {d1}
    Sessions = {s1, s2}
    MaxAttempts = 2
    MaxErrors = 1
    MaxWindows = 0
    Fragile = {i1, i2}
    Reports = {"delivered", "external_read_observed"}
    Bodies = {1}
    NoIntent = NoIntent
PROPERTIES
    DeliveredOrFallback
INVARIANTS
    ProjectionFromFacts
