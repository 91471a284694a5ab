SPECIFICATION SupplySpec
CONSTANTS
    p1 = p1
    p2 = p2
    Parts = {p1, p2}
    Keys <- MCKeys
    Quantities = {1, 2}
    MaxQuantity = 2
    None = None
    Orders = {o1}
    MaxVersion = 1
    Contents <- TwiceThePart
    Shortages <- MCShortages
    Entries <- MCEntries
    Purchases = {u1}
    Items = {i1, i2}
    Numbers = {1}
    Requests = {r1, r2}
INVARIANTS
    OrderLeavesWithWhatItNeeds
CHECK_DEADLOCK FALSE
