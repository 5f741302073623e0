CONSTANTS
    b1 = b1
    b2 = b2
    k1 = k1
    k2 = k2
    f1 = f1
    f2 = f2
    NoFile = NoFile
    Buckets = {b1, b2}
    Keys = {k1, k2}
    Files = {f1, f2}
    FileSize <- MCPairSize
    Quota = 3
    MayLeave = FALSE
    MaxStamp = 3
    MaxRows = 5
SPECIFICATION Spec
SYMMETRY Symmetry
CHECK_DEADLOCK FALSE
INVARIANTS
    AtMostOneHead
    HeadIsNewest
    SizeIsSum
    LinkedIsStored
PROPERTIES
    LockedUnchanged
    SyncMirrors
    ImplementsShelves
