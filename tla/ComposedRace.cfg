CONSTANTS
    Callers = {c1, c2}
    NumLayers = 2
    Cap <- TwoCaps
    Modes = {"race"}
    MaxEvents = 0
SPECIFICATION Spec
PROPERTY IncrementReturns
CHECK_DEADLOCK FALSE
