SPECIFICATION Spec
CONSTANTS
    Invocations = {i1, i2, i3}
    Envs = {e1, e2}
    Tenants = {t1, t2}
    Users = {u1}
    Keys = {k1}
    Bodies = {b1, b2}
    NoKey = NoKey
    None = None
    LambdaTimeout = 1
    Expiry = 3
    MaxTime = 3
    Faults = {}
SYMMETRY Symmetry
PROPERTY ImplementsCreateOnce
CHECK_DEADLOCK FALSE
