SPECIFICATION FairSpec
CONSTANTS
    c1 = c1
    c2 = c2
    s1 = s1
    s2 = s2
    Callers <- MCCallers
    FailureThreshold = 1
    RecoveryTime = 1
    HalfOpenMaxProbes = 1
    Keys = {"a", "b"}
    Kinds = {"increment"}
    Syncs <- MCSyncs
    Strategies = {"FIXED_WINDOW"}
    SyncModes = {TRUE, FALSE}
    Limit = 1
    InsuranceLimit = 1
    MaxWrites = 4
INVARIANTS
    OutageAdmissionBounded
PROPERTIES
    BreakerContract
    HalfOpenResolves
CHECK_DEADLOCK FALSE
