SPECIFICATION Spec
CONSTANTS
    a = a
    b = b
    Keys = {a, b}
    Times = {1}
    TimesPerPart = 2
    CacheSize = 2
    MaxBatch = 1
    MaxCalls = 3
    MaxDrops = 0
    MaxRestarts = 0
CHECK_DEADLOCK FALSE
INVARIANT Attributed
