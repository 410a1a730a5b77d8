SPECIFICATION PairsSpec
CONSTANTS
    c1 = c1
    c2 = c2
    c3 = c3
    p1 = p1
    p2 = p2
    k1 = k1
    k2 = k2
    v1 = v1
    v2 = v2
    Pairs = {{c1, c2}, {c1, c3}}
    Clients = {c1, c2, c3}
    Stores = {p1, p2}
    StoreOf <- ThreadsAndProcess
    Keys = {k1, k2}
    Vals = {v1, v2}
    Absent = Absent
    WOps <- AllKinds
    MaxRetries = 2
    SnapGap = 1
    IDModulus = 256
    SnapFits = TRUE
    MaxLog = 3
    MaxOps = 3
    MaxCrashes = 1
INVARIANTS
    Serializable
    IndInv
PROPERTIES
    JournalGrows
    ReadsSeeAcked
    ImplementsKV
