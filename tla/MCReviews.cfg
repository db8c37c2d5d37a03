SPECIFICATION Spec
CONSTANTS
    s1 = s1
    gov = gov
    Roster <- TwoAgents
    Plan <- Lists
    CycleTicks <- Cycles
    Jitter <- Jitters
    MaxTick = 10
    MaxAborts = 1
    Sellers = {s1}
    Government = gov
    QueryTTL = 2
    MaxRouteFaults = 2
CHECK_DEADLOCK FALSE
INVARIANTS
    TypeOK
    PriceIsRecent
