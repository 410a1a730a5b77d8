CONSTANTS
    c1 = c1
    c2 = c2
    main = main
    dev = dev
    NoBranch = NoBranch
    Clients = {c1, c2}
    Branches = {main, dev}
    Main = main
    Kinds <- TreeKinds
    Objs <- TwoObjs
    MaxObjs = 2
    MaxTries = 2
    MaxCommits = 4
    MaxOps = 4
    MaxCrashes = 0
SPECIFICATION Spec
INVARIANTS
    HistoryKept
    NoLostCommit
PROPERTIES
    MergeReflectsChild
SYMMETRY ClientSymmetry
CHECK_DEADLOCK FALSE
