SPECIFICATION FairSpec
CONSTANTS
    MaxCommits = 3
    MaxDispatches = 0
    MaxForks = 0
    None = None
INVARIANT OnlyValidated
CHECK_DEADLOCK FALSE
