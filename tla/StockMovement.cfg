SPECIFICATION FairStockSpec
CONSTANTS
    Parts = {p1, p2}
    Keys = {k1, k2}
    Quantities = {1, 2}
    MaxQuantity = 2
    None = None
    Calls = {c1, c2}
INVARIANTS
    StockTypeOK
    BalanceIsLedger
    DoneMeansPosted
    MovementsHaveParts
PROPERTIES
    IsLedger
    EveryCallEnds
CHECK_DEADLOCK FALSE
