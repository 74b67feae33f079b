SPECIFICATION Spec
CONSTANTS
    Requests = {p1, p2, p3}
    Tenants = {t1}
    Users = {u1}
    Fields = {f1}
    Values = {v0, v1}
    Default = v0
    None = None
    MaxTime = 2
SYMMETRY Symmetry
PROPERTY UpdatedAtAdvances
CHECK_DEADLOCK FALSE
