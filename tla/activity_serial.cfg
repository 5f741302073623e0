CONSTANTS
    w1 = w1
    w2 = w2
    Flow <- MCFlow
    Workers = {w1}
    Admins = {w1}
    StalePages = FALSE
    MaxFaults = 0
    MaxVersions = 2
SPECIFICATION Spec
CHECK_DEADLOCK FALSE
INVARIANTS
    TypeOK
    DoingIsCurrent
    PublishedKeepsFiles
PROPERTIES
    EndsPublished
    ImplementsFlow
