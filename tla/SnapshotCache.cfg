CONSTANTS
    c1 = c1
    c2 = c2
    p1 = p1
    p2 = p2
    Clients = {c1, c2}
    Procs = {p1, p2}
    ProcOf <- TwoClients
    Objs <- ThreeObjs
    Depth = 3
    Deletes <- ThirdDeletesFirst
    Engines = {"file", "object"}
    MaxCrashes = 1
SPECIFICATION Spec
INVARIANTS
    ServedExact
    ServedSound
SYMMETRY ProcessSymmetry
