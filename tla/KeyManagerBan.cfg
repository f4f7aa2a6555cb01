CONSTANTS
    Processes = {p1, p2}
    MaxCalls = 2
    Ops = {"block", "penalty"}
    BlockTimes = {0, 1}
    WindowMs = 1
    PenaltyBlockThreshold = 1
    BaseDuration = 1
    StepDuration = 1
    MaxDuration = 2
    MaxTime = 2
    MaxTroubles = 0
SPECIFICATION Spec
CHECK_DEADLOCK FALSE
INVARIANT BanHolds
