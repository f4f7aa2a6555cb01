SPECIFICATION FairSpec
CONSTANTS
    c1 = c1
    c2 = c2
    s1 = s1
    s2 = s2
    Callers <- MCCallers
    FailureThreshold = 1
    RecoveryTime = 1
    HalfOpenMaxProbes = 1
    Keys = {"a"}
    Kinds = {"increment", "get"}
    Syncs <- MCSyncs
    Strategies = {"FIXED_WINDOW"}
    SyncModes = {TRUE}
    Limit = 2
    InsuranceLimit = 1
    MaxWrites = 3
PROPERTIES
    HalfOpenResolves
CHECK_DEADLOCK FALSE
