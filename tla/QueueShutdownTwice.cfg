SPECIFICATION Spec
CONSTANTS
    Calls = 3
    Costs = {1, 2}
    Loops = {1, 2, 3}
    Limit = 1
    MaxQueueSize = 2
    Strategies = {"FIXED_WINDOW", "TOKEN_BUCKET"}
    PeekStrategies = {"FIXED_WINDOW"}
    MaxPolls = 2
    MaxDisruptions = 0
    MaxRedundant = 1
INVARIANTS
    ShutdownIdempotent
CHECK_DEADLOCK FALSE
