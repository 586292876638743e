SPECIFICATION Spec
CONSTANTS
    p1 = p1
    p2 = p2
    Pids = {p1, p2}
    Default = "d1"
    FileDb = "d2"
    EnvDb = "d3"
    MaxRuns = 2
    MaxKills = 1
SYMMETRY Symmetry
CHECK_DEADLOCK FALSE
INVARIANTS
    FoundUnlessRaced
    StopFreesPorts
    NothingLeft
    ServesPromised
