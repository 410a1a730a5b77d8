CONSTANTS
    c1 = c1
    c2 = c2
    main = main
    dev = dev
    NoBranch = NoBranch
    Clients = {c1, c2}
    Branches = {main}
    Main = main
    Kinds <- RowKinds
    Objs <- FourObjs
    MaxObjs = 4
    MaxTries = 2
    MaxCommits = 4
    MaxOps = 5
    MaxCrashes = 1
SPECIFICATION Spec
INVARIANTS
    TipReadable
    NoDuplicateRows
    TipDataPresent
    LakeInv
PROPERTIES
    EffectAtTip
SYMMETRY ClientSymmetry
CHECK_DEADLOCK FALSE
