SPECIFICATION Spec
CONSTANTS
    Requests = {p1, p2, p3}
    Tenants = {t1, t2}
    Users = {u1, u2}
    Fields = {f1}
    Values = {v0, v1}
    Default = v0
    None = None
    MaxTime = 1
SYMMETRY Symmetry
INVARIANTS TypeOK UpdatedAfterCreated
PROPERTY ImplementsOwnerStores
CHECK_DEADLOCK FALSE
