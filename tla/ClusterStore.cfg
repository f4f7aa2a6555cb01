SPECIFICATION Spec
CONSTANTS
    Workers = {w1, w2}
    Calls = {"hit", "clear", "bye", "bye2"}
    Kind <- KindsOfCalls
    Limit = 1
    Offers = {"good", "tooNew", "badStrategy"}
    MaxCalls = 3
    MaxBatch = 1
    MaxTroubles = 1
INVARIANTS AdmissionBounded MissingOnlyAfterShutdown CountedIsAnswered ShutdownIsFinal
PROPERTY EveryCallSettles
CONSTRAINT ByesInOrder
CHECK_DEADLOCK FALSE
