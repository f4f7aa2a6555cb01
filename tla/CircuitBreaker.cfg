SPECIFICATION BreakerFairSpec
CONSTANTS
    c1 = c1
    c2 = c2
    c3 = c3
    Callers <- MCCallers
    FailureThreshold = 2
    RecoveryTime = 2
    HalfOpenMaxProbes = 2
INVARIANTS
    BreakerTypeOK
    ProbeAccounting
    ModeConsistent
PROPERTIES
    RecoveryWindowRespected
    NeverStuck
