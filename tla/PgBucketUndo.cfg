CONSTANTS
    Window = 3
    Limit = 1
    Interval = 3
    TokensPerInterval = 1
    BucketSize = 2
    MaxAttempts = 2
    MaxTime = 0
    MaxLag = 0
    MaxEvents = 0
    Callers = {c1, c2, c3, c4, c5, c6}
    Backends = {"postgres"}
SPECIFICATION Spec
INVARIANT UndoNeverOverAdmits
CHECK_DEADLOCK FALSE
SYMMETRY Symmetry
CONSTRAINT BucketOnly
