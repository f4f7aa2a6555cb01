CONSTANTS
    Requests = {r1, r2}
    Keys = {a}
    Layouts <- AllLayouts
    Cap <- OneEach
    Window <- ShortAndLong
    PenaltyTime = 1
    MaxTime = 2
    MaxTroubles = 0
    MaxBlockedKeys = 1
    BlockOnConsumed = 1
    BlockDuration = 2
SPECIFICATION Spec
CHECK_DEADLOCK FALSE
PROPERTY SkipLeavesCounts
