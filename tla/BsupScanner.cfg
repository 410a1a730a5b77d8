SPECIFICATION FairSpec
CONSTANTS
    Files <- MCFiles
    ThreadCounts = {1, 2}
INVARIANTS
    InFileOrder
PROPERTIES
    NotReadAfterDone
    PullsReturn
    GoroutinesExit
CHECK_DEADLOCK FALSE
