SPECIFICATION AccessSpec
CONSTANTS
    None = None
    Gone = Gone
    u0 = u0
    e0 = e0
    Clients = {c1, c2}
    Documents = {d1, d2}
    Emails = {e0, e1}
    Vehicles = {v1}
    Plates = {p1}
    Services = {}
    Names = {}
    Orders = {o1}
    Users = {u0, u1}
    Staff <- MCStaff
    Sessions = {j1, j2, j3}
    Requests = {r1, r2}
SYMMETRY Symmetry
INVARIANTS
    AccessTypeOK
    LoginsFollowClients
    CustomersSeeTheirOwn
PROPERTY IsRotation
CHECK_DEADLOCK FALSE
