\* The stream of the NOC with the tables the migrations create.
SPECIFICATION Spec
CONSTANTS
    Tenants = {t1}
    None = none
    Entitled <- Members
    Followed = {"noc"}
    Deployments <- AsMigrated
    MaxSelects <- NoSwitch
    MaxMoves = 0
    MaxMishaps = 1
PROPERTIES
    NocIsLive
