SPECIFICATION Spec
CONSTANTS
    MaxVersion = 3
    i1 = i1
    i2 = i2
    Items = {i1, i2}
    Contents <- MCContents
    Requests = {r1, r2}
    MaxEdits <- MCMaxEdits
SYMMETRY Symmetry
INVARIANTS
    TypeOK
    PartsRequestedOnce
    WorkIsApproved
PROPERTIES
    FollowsNegotiation
CHECK_DEADLOCK FALSE
