SPECIFICATION FairSpec
CONSTANTS
    MaxVals = 6
    Threshold = 2
    MaxKey = 3
    MaxFaults = 2
INVARIANTS
    BuffersDisjoint
    LoadComplete
    CompactComplete
PROPERTIES
    WriterEnds
CHECK_DEADLOCK FALSE
