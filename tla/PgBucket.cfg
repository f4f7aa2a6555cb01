CONSTANTS
    Window = 3
    Limit = 1
    Interval = 3
    TokensPerInterval = 1
    BucketSize = 2
    MaxAttempts = 2
    MaxTime = 4
    MaxLag = 1
    MaxEvents = 0
    Callers = {c1, c2, c3, c4}
    Backends = {"postgres"}
SPECIFICATION Spec
INVARIANTS TypeOK AdmissionBounded
PROPERTY BlockedOnlyWhenFull
CHECK_DEADLOCK FALSE
SYMMETRY Symmetry
CONSTRAINT BucketOnly
