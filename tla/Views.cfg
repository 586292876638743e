SPECIFICATION ViewsSpec
CONSTANTS
    Hour = 2
    Month = 4
    Caps = {0, 2}
    MaxLimit = 2
    Now = 7
    Times <- MCTimes
    Sids = {1, 2}
    RowBound = 3
    Starts <- MCStarts
    Ends = {5, 99}
    Buckets = {0, 1, 4, 99}
    Limits = {0, 1, 3, 99}
    Funcs = {"none", "avg", "COUNT", "sum", "min", "last", "median", "p95", "rate"}
    Gaps = {0, 2}
    None = 99
    c1 = c1
    Conns = {c1}
    MaxBacklog = 1
    MaxJoins = 2
    MaxMonitors = 1
    MaxTicks = 1
    Interval = 2
    MaxTime = 6
    MaxRestarts = 2
    MaxAsks = 2
INVARIANTS
    RowsExact  EachRowOnce ViewConverges StatsComplete
    OwnReply ResubscribedUnlessYoung CloseReturnsUnlessRaced
CHECK_DEADLOCK FALSE
