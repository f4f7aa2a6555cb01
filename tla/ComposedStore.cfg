CONSTANTS
    Callers = {c1, c2, c3}
    NumLayers = 2
    Cap <- TwoCaps
    Modes = {"all", "overflow", "first-available", "race"}
    MaxEvents = 2
SPECIFICATION Spec
INVARIANTS AdmissionBounded HitsWhereTheyBelong FramesMatchAdmissions
CHECK_DEADLOCK FALSE
SYMMETRY Symmetry
