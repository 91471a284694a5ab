SPECIFICATION RegistersSpec
CONSTANTS
    None = None
    Gone = Gone
    Clients = {c1, c2}
    Documents = {d1, d2}
    Emails = {e1, e2}
    Vehicles = {v1, v2}
    Plates = {p1}
    Services = {s1, s2}
    Names = {n1, n2}
    Orders = {o1}
    Editors = {r1, r2}
SYMMETRY Symmetry
INVARIANTS
    RegistersTypeOK
    KeysAreUnique
    OrdersMatchVehicles
PROPERTY IsOffice
CHECK_DEADLOCK FALSE
