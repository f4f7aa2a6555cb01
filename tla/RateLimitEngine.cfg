CONSTANTS
    Requests = {r1, r2, r3}
    Keys = {a, b}
    Layouts <- AllLayouts
    Cap <- OneEach
    Window <- ShortAndLong
    PenaltyTime = 1
    MaxTime = 2
    MaxTroubles = 1
    MaxBlockedKeys = 1
    BlockOnConsumed = 1
    BlockDuration = 2
SPECIFICATION Spec
CONSTRAINTS OneKeyUnlessShielded BeforeTheFirstTaken
SYMMETRY Symmetric
CHECK_DEADLOCK FALSE
INVARIANTS RollbackExact AdmissionBounded ShieldHonest PenaltyDeserved
