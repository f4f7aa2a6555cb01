CONSTANTS
    Window = 4
    Limit = 2
    Interval = 3
    TokensPerInterval = 1
    BucketSize = 1
    MaxAttempts = 2
    MaxTime = 7
    MaxLag = 0
    MaxEvents = 0
    Callers = {c1, c2, c3}
    Backends = {"dynamo"}
SPECIFICATION Spec
INVARIANT WeightedErrorSmall
CHECK_DEADLOCK FALSE
SYMMETRY Symmetry
CONSTRAINT WindowOnly
