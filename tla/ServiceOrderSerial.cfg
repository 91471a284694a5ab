SPECIFICATION SerialSpec
CONSTANTS
    Orders = {o1, o2}
    Mechanics = {m1, m2}
    Requests = {r1, r2}
    None = None
    MaxNow = 2
PROPERTIES
    FollowsLifecycle
    TerminalOrdersStay
CHECK_DEADLOCK FALSE
