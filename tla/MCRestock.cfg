SPECIFICATION Spec
CONSTANTS
    s1 = s1
    s2 = s2
    p1 = p1
    tr = tr
    r1 = r1
    r2 = r2
    Sellers = {s1, s2}
    Suppliers = {p1}
    Transport = tr
    SupplierOf <- OneSupplier
    NoSupplier = NoSupplier
    NoSeller = NoSeller
    NoLevel = NoLevel
    AnswerFields = {"inventory"}
    Restocks = {r1, r2}
    Threshold = 1
    RestockQty = 2
    OpeningStock = 1
    BaseTransit = 0
    Jitter = 1
    ReviewGap = 7
    MaxSold <- OneEach
INVARIANTS
    TypeOK
    GoodsAreSomewhere
    StockBalances
    LevelCountsRestocks
PROPERTIES
    RestockArrives
    LowStockRecovers
    UsesBus
