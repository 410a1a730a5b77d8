SPECIFICATION FairSpec
CONSTANTS
    N = 2
    Graphs <- MCGraphs
    MaxPlatoons = 2
    MaxBatches = 2
    MaxErrors = 1
INVARIANTS
    PlatoonsAligned
    NothingMissed
PROPERTIES
    PullsReturn
    GoroutinesEnd
CHECK_DEADLOCK FALSE
