SPECIFICATION Spec
CONSTANTS
    c1 = c1
    c2 = c2
    s1 = s1
    s2 = s2
    x1 = x1
    tr = tr
    gov = gov
    r1 = r1
    r2 = r2
    r3 = r3
    NoAgent = NoAgent
    Consumers = {c1, c2}
    Sellers = {s1, s2}
    Strangers = {x1}
    Transport = tr
    Government = gov
    Requests = {r1, r2}
    Roster <- MixedRoster
    StoreId <- DistinctIds
    BaseTransit = 0
    Jitter = 1
    MaxViews = 1
    HistoryGap = 3
INVARIANTS
    Agreement
    InventoryBalances
PROPERTIES
    FollowsContract
    UsesBus
