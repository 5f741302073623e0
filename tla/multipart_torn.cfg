CONSTANTS
    u1 = u1
    u2 = u2
    w1 = w1
    w2 = w2
    Uploads = {u1}
    LastPart = 1
    Workers = {w1, w2}
    Quota = 1
    Overlap = FALSE
    MaxFaults = 1
SPECIFICATION Spec
CHECK_DEADLOCK FALSE
INVARIANTS
    CompletedIsWhole
