SPECIFICATION FairSpec
CONSTANTS
    o1 = o1
    o2 = o2
    s1 = s1
    s2 = s2
    q1 = q1
    t1 = t1
    i1 = i1
    Subs = {s1, s2}
    Ops = {o1, o2}
    Queries = {q1}
    StatusReqs = {t1}
    Workloads <- FeedOrQuery
    IDOf <- OneID
    None = None
    MaxBatches = 3
INVARIANTS
    StatusTruthful
PROPERTIES
    WedgeStalls
    EventsArriveOrWedge
    QueriesEnd
CHECK_DEADLOCK FALSE
