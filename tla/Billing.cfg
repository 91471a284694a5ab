SPECIFICATION FairSpec
CONSTANTS
    Sessions = {s1, s2}
    Requests = {r1, r2}
    None = None
    LinkLife = 1
    Day = 1
    MaxNow = 2
    MaxStops = 1
INVARIANTS
    TypeOK
    DeliveredIsPaid
    PaidSessionsAreKnown
PROPERTIES
    IsAccount
    PaymentIsSettled
CHECK_DEADLOCK FALSE
