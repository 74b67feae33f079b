SPECIFICATION Spec
CONSTANTS
    Invocations = {i1, i2}
    Envs = {e1, e2}
    Tenants = {t1}
    Users = {u1}
    Keys = {k1}
    Bodies = {b1}
    NoKey = NoKey
    None = None
    LambdaTimeout = 1
    Expiry = 5
    MaxTime = 4
    Faults = {"kill", "lostAck", "saveFails"}
INVARIANT RetriesAreSafe
CHECK_DEADLOCK FALSE
