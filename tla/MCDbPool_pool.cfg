SPECIFICATION FairSpec
CONSTANTS
    Queries = {q1, q2}
    Concurrency = 1
    Modes = {"unset", "url", "plain", "iam", "secret"}
    Users = {u1, u2}
    MaxConnections = 2
    TokenTTL = 2
    TokenLifetime = 3
    MaxAge = 1
    ConnectionTimeout = 1
    MaxRotations = 1
    MaxTime = 4
    None = None
INVARIANTS TypeOK TokensAreFresh PasswordFollowsRotation NothingLeaks OneConnectionEach
PROPERTY QueriesEnd
CHECK_DEADLOCK FALSE
