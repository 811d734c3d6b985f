\* Every screen, with every pair of a write and a key.
SPECIFICATION Spec
CHECK_DEADLOCK FALSE
CONSTANTS
    Catalogue <- AllScreens
    Frame <- ShellReads
    Gaps <- KnownGaps
    Overreach <- KnownOverreach
    CustomOverreach <- KnownCustomOverreach
    MaxPresses = 2
    MaxFollowed = 1
    MaxTurns = 2
    MaxMishaps = 1
INVARIANTS
    TypeOK
    OwnWritesShown
    OncePerForm
    OfferedIsAllowed
PROPERTIES
    ImplementsInvalidation
    PolledViewsHeal
