SPECIFICATION BrokerFairSpec
CONSTANTS
    k = k
    a = a
    MaxRequests = 2
    RawKeys = {k}
    AggKeys = {a}
    RowCounts = {1, 2, 3}
    Workers = 2
    MaxInflight = 2
    MaxSize = 2
    MaxWeight = 2
    MaxRows = 2
    TTL = 0
    MaxClock = 1
CHECK_DEADLOCK FALSE
INVARIANTS
    WeightUnlessOverlap
    NoSilentDiscard
PROPERTIES
    AnswerComes
