CONSTANTS
    Window = 2
    Limit = 1
    Interval = 1
    TokensPerInterval = 1
    BucketSize = 2
    Keys = {k1, k2, k3}
    Costs = {1, 2}
    Caps = {0, 1}
    MaxSet = 1
    MaxTime = 2
    IdleIntervals = 1
    MaxEntrySize = 2
SPECIFICATION Spec
INVARIANTS KeysBounded
PROPERTY ImplementsContract
CHECK_DEADLOCK FALSE
SYMMETRY Symmetry
VIEW Unlabelled
