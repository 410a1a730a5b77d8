CONSTANTS
    c1 = c1
    c2 = c2
    c3 = c3
    a = a
    b = b
    c = c
    NoPool = NoPool
    Clients = {c1, c2, c3}
    Names = {a, b}
    Kinds = {"create", "remove", "rename"}
    MaxPools = 4
    MaxRenames = 2
    MaxCrashes = 1
SPECIFICATION PoolsSpec
INVARIANTS
    ListedPoolsExist
    PoolsKept
SYMMETRY ClientSymmetry
CHECK_DEADLOCK FALSE
