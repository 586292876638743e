SPECIFICATION StreamFairSpec
CONSTANTS
    c1 = c1
    c2 = c2
    c3 = c3
    Clients = {c1, c2, c3}
    Names = {"cpu"}
    Sizes = {1, 3}
    Budget = 2
    Cap = 2
    MaxFrames = 2
CHECK_DEADLOCK FALSE
INVARIANTS
    NoLeak
    Accounted
PROPERTIES
    ShutdownEnds
