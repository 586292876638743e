SPECIFICATION FairSpec
CONSTANTS
    Fold = 2
    Interval = 2
    MaxClock = 3
    Threshold = 2
    SafeSize = 1
    MaxWal = 4
    MaxCrashes = 1
CHECK_DEADLOCK FALSE
INVARIANTS
    RecentUnlessInterrupted
PROPERTIES
    SnapshotKept
    FramesReachDatabase
