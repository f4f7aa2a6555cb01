SPECIFICATION Spec
CONSTANTS
    c1 = c1
    c2 = c2
    s1 = s1
    s2 = s2
    Callers <- MCCallers
    FailureThreshold = 1
    RecoveryTime = 1
    HalfOpenMaxProbes = 1
    Keys = {"a"}
    Kinds = {"increment", "decrement", "reset", "set", "delete", "get"}
    Syncs <- MCSyncs
    Strategies = {"FIXED_WINDOW", "SLIDING_WINDOW", "TOKEN_BUCKET"}
    SyncModes = {TRUE}
    Limit = 2
    InsuranceLimit = 1
    MaxWrites = 5
SYMMETRY MCSymmetry
INVARIANTS
    NoHitLost
    NoHitDoubled
    FailoverTracksOutage
CHECK_DEADLOCK FALSE
