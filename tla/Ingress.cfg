SPECIFICATION FairSpec
CONSTANTS
    MaxFrames = 3
    DrainBatch = 2
    PendingMax = 2
    MaxAttempts = 2
    MaxSweeps = 2
INVARIANTS
    CreditsConserved
    ExitBehindAll
    NoSilentLoss
    PublishedUnlessDropped
PROPERTIES
    ImplementsLedger
    AcceptedSettles
    ShutdownEnds
