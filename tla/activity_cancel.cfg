CONSTANTS
    w1 = w1
    w2 = w2
    Flow <- MCShortFlow
    Workers = {w1}
    Admins = {}
    StalePages = FALSE
    MaxFaults = 1
    MaxVersions = 2
SPECIFICATION Spec
CHECK_DEADLOCK FALSE
INVARIANTS
    PublishedKeepsFiles
