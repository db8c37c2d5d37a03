SPECIFICATION Spec
CONSTANTS
    c1 = c1
    c2 = c2
    s1 = s1
    s2 = s2
    x1 = x1
    tr = tr
    gov = gov
    r1 = r1
    r2 = r2
    r3 = r3
    NoAgent = NoAgent
    Consumers = {c1}
    Sellers = {s1}
    Strangers = {x1}
    Transport = tr
    Government = gov
    Requests = {r1, r2}
    Roster <- SmallRoster
    StoreId <- DistinctIds
    BaseTransit = 1
    Jitter = 2
    MaxViews = 2
    HistoryGap = 2
INVARIANTS
    TypeOK
    Agreement
    FreightIsConserved
    InventoryBalances
    ReportsMatchPayments
    RowFollowsStatus
PROPERTIES
    SettledRowIsFinal
    PaidIsDelivered
    OrderSettles
    ImplementsContract
