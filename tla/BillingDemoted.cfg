SPECIFICATION Spec
CONSTANTS
    Sessions = {s1}
    Requests = {r1, r2}
    None = None
    LinkLife = 1
    Day = 1
    MaxNow = 1
    MaxStops = 0
PROPERTIES
    PaidOrderIsNotDemoted
CHECK_DEADLOCK FALSE
