SPECIFICATION Spec
CONSTANTS
    MaxFrames = 2
    DrainBatch = 2
    PendingMax = 2
    MaxAttempts = 2
    MaxSweeps = 2
INVARIANT PublishedLanded
