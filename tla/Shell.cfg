\* The frame and the NOC: switches of the tenant, lost answers, streams that fail.
SPECIFICATION Spec
CONSTANTS
    Tenants = {t1, t2}
    None = none
    Entitled <- Members
    Followed = {"count", "noc"}
    Deployments <- AsExpected
    MaxSelects <- ThereAndBack
    MaxMoves = 1
    MaxMishaps = 1
INVARIANTS
    TypeOK
    OneStream
    ExpiryIsReal
PROPERTIES
    ExpiryNoticed
    TenantSettles
    CountsComeTrue
    StreamReturns
    NocCatchesUp
