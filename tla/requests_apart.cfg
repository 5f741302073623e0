CONSTANTS
    b1 = b1
    b2 = b2
    k1 = k1
    k2 = k2
    f1 = f1
    f2 = f2
    w1 = w1
    w2 = w2
    NoFile = NoFile
    Buckets = {b1, b2}
    Keys = {k1}
    Files = {f1, f2}
    FileSize <- MCPairSize
    Quota = 3
    MayLeave = TRUE
    MaxStamp = 3
    MaxRows = 12
    Workers = {w1, w2}
    OnePerBucket = TRUE
SPECIFICATION ReqSpec
SYMMETRY Symmetry
CHECK_DEADLOCK FALSE
INVARIANTS
    RequestsTypeOK
    KeyHasHead
PROPERTIES
    ImplementsStore
