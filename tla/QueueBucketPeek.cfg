SPECIFICATION Spec
CONSTANTS
    Calls = 3
    Costs = {1, 2}
    Loops = {1, 2, 3}
    Limit = 1
    MaxQueueSize = 2
    Strategies = {"FIXED_WINDOW", "TOKEN_BUCKET"}
    PeekStrategies = {"TOKEN_BUCKET"}
    MaxPolls = 2
    MaxDisruptions = 1
    MaxRedundant = 0
INVARIANTS
    AdmissionBounded
CHECK_DEADLOCK FALSE
