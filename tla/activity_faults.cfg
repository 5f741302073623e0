CONSTANTS
    w1 = w1
    w2 = w2
    Flow <- MCFlow
    Workers = {w1}
    Admins = {}
    StalePages = TRUE
    MaxFaults = 2
    MaxVersions = 2
SPECIFICATION Spec
CHECK_DEADLOCK FALSE
INVARIANTS
    PositionCoherent
PROPERTIES
    NoStepSkipped
    OneStepForward
