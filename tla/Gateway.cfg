SPECIFICATION HttpSpec
CONSTANTS
    Reqs = {r1, r2, r3}
    Addrs = {a1, a2, a3}
    Batches <- MCBatches
    ZmqBatches <- MCZmqBatches
    Stamps <- MCStamps
    Dates <- MCDates
    NS = 4
    Big = 8
    MaxInt = 40
    MaxSkew = 1
    Limit = 1
    MaxKeys = 1
    Minute = 1
    Start = 16
    End = 17
INVARIANTS ReplyTruthful LimitUnlessEvicted SameTimeOnBothPaths ServerStampsDistinct
SYMMETRY MCSymmetry
CHECK_DEADLOCK FALSE
