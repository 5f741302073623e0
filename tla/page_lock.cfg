CONSTANTS
    t1 = t1
    t2 = t2
    t3 = t3
    ada = ada
    bob = bob
    act1 = act1
    None = None
    Tabs = {t1, t2, t3}
    Activities = {act1}
    Users = {ada, bob}
    TabUser <- MCTabUser
    Registrant <- MCRegistrant
    OneRequest = TRUE
    MaxStamp = 2
    MaxRequests = 3
SPECIFICATION Spec
CHECK_DEADLOCK FALSE
INVARIANTS
    PageLockTypeOK
    EditorHoldsLock
    LeftIsUnlocked
