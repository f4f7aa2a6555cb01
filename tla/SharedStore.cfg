CONSTANTS
    Window = 3
    Limit = 1
    Interval = 3
    TokensPerInterval = 1
    BucketSize = 1
    MaxAttempts = 2
    MaxTime = 4
    MaxLag = 1
    MaxEvents = 1
    Callers = {c1, c2, c3}
    Backends = {"redis", "postgres", "mongo", "dynamo"}
SPECIFICATION Spec
INVARIANTS AdmissionBounded GivesUpOnlyWhenStale PreviewAgrees
PROPERTY BlockedOnlyWhenFull
CHECK_DEADLOCK FALSE
SYMMETRY Symmetry
CONSTRAINT OneLeak
