SPECIFICATION Spec
CONSTANTS
    s1 = s1
    s2 = s2
    p1 = p1
    tr = tr
    r1 = r1
    r2 = r2
    Sellers = {s1}
    Suppliers = {p1}
    Transport = tr
    SupplierOf <- OnlyOne
    NoSupplier = NoSupplier
    NoSeller = NoSeller
    NoLevel = NoLevel
    AnswerFields = {"inventory"}
    Restocks = {r1, r2}
    Threshold = 2
    RestockQty = 2
    OpeningStock = 2
    BaseTransit = 0
    Jitter = 1
    ReviewGap = 6
    MaxSold <- TwoOfOne
INVARIANTS
    ReceivedIsRecorded
