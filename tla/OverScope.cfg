SPECIFICATION FairSpec
CONSTANTS
    Graphs <- MCGraphs
    MaxPlatoons = 2
    MaxVals = 3
INVARIANTS
    InOuterOrder
    EachOuterValue
    ErrorBeforeEOS
PROPERTIES
    PullsReturn
    ScopeEnds
CHECK_DEADLOCK FALSE
