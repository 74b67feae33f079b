SPECIFICATION FairSpec
CONSTANTS
    N = 3
    MaxLimit = 2
    MaxTime = 3
    None = None
INVARIANTS TypeOK NothingSkipped
PROPERTIES PagesDescend CursorMeansMore EveryWalkEnds
CHECK_DEADLOCK FALSE
