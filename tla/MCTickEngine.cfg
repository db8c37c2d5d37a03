SPECIFICATION Spec
CONSTANTS
    b1 = b1
    b2 = b2
    x1 = x1
    Ids = {3, 1, 2}
    Strangers = {x1}
    Bodies = {b1, b2}
    QueryIds = {1}
    QueryTTL = 1
    MaxTick = 3
    MaxOut = 2
    MaxFaults = 1
CHECK_DEADLOCK FALSE
INVARIANTS
    TypeOK
    ReadInOrder
    PendingIsBounded
PROPERTIES
    IsBus
