SPECIFICATION Spec
CONSTANTS
    c1 = c1
    c2 = c2
    s1 = s1
    s2 = s2
    Callers <- MCCallers
    FailureThreshold = 1
    RecoveryTime = 1
    HalfOpenMaxProbes = 1
    Keys = {"a"}
    Kinds = {"increment"}
    Syncs <- MCSyncs
    Strategies = {"TOKEN_BUCKET"}
    SyncModes = {TRUE}
    Limit = 2
    InsuranceLimit = 1
    MaxWrites = 4
INVARIANTS
    SharedStateCatchesUp
CHECK_DEADLOCK FALSE
