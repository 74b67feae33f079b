SPECIFICATION FairSpec
CONSTANTS
    MaxCommits = 3
    MaxDispatches = 1
    MaxForks = 1
    None = None
INVARIANTS TypeOK MigrationsDoNotOverlap
PROPERTIES NeverBack MigrationsFollowCode NewestGoesLive
CHECK_DEADLOCK FALSE
