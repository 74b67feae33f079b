SPECIFICATION Spec
CONSTANTS
    Invocations = {i1, i2, i3}
    Envs = {e1, e2}
    Tenants = {t1}
    Users = {u1}
    Keys = {k1}
    Bodies = {b1, b2}
    NoKey = NoKey
    None = None
    LambdaTimeout = 1
    Expiry = 2
    MaxTime = 4
    Faults = {"kill", "lostAck", "saveFails"}
SYMMETRY Symmetry
INVARIANTS TypeOK OneHolder CreatedIsOwn MismatchIsReal ReplayWindow
PROPERTY NoInsertAfterCreated
CHECK_DEADLOCK FALSE
