SPECIFICATION FairSpec
CONSTANTS
    c1 = c1
    c2 = c2
    r1 = r1
    r2 = r2
    Uploads = {c1, c2}
    Records = {r1, r2}
    Holds <- MCHolds
    MaxSecond = 2
    MaxDeaths = 1
CHECK_DEADLOCK FALSE
INVARIANTS
    ImportTypeOK
    FilesThere
PROPERTIES
    PagesEnd
    
