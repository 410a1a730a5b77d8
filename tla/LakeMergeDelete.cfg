CONSTANTS
    c1 = c1
    c2 = c2
    main = main
    dev = dev
    NoBranch = NoBranch
    Clients = {c1}
    Branches = {main, dev}
    Main = main
    Kinds <- MergeKinds
    Objs <- TwoObjs
    MaxObjs = 2
    MaxTries = 2
    MaxCommits = 6
    MaxOps = 6
    MaxCrashes = 0
SPECIFICATION Spec
INVARIANTS
    TipReadable
CHECK_DEADLOCK FALSE
