SPECIFICATION FairSpec
CONSTANTS
    a = a
    b = b
    Keys = {a, b}
    Times = {1, 2}
    TimesPerPart = 2
    CacheSize = 1
    MaxBatch = 2
    MaxCalls = 2
    MaxDrops = 1
    MaxRestarts = 1
CHECK_DEADLOCK FALSE
INVARIANTS
    AttributedUnlessRolledBack
    SurvivorsFound
PROPERTIES
    PartitionSurfaces
