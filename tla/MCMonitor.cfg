SPECIFICATION Spec
SYMMETRY MCSymmetry
CONSTANTS
    Producers = {p1, p2}
    Consumers = {c1, c2}
    MaxItems = 2
    Iterations = 3
    Letters = {l1, l2, l3, l4}
    Threads = {"main", "p0", "p1", "p2"}
    Main = "main"
    None = None
    N = 2
    Parties = {t1, t2, t3, t4}
    People = {x1, x2, x3, x4}
    MaxOccupancy = 2
    FairWaitingCount = 1
    Visits = 2
INVARIANTS
    CounterSound PrintsInOrder WellConsistent NoStandstill
