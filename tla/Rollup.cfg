SPECIFICATION FairSpec
CONSTANTS
    Tasks = {"rollup", "retention", "query"}
    MaxHour = 2
    HoursPerPart = 2
    HoursPerDay = 1
    Skew = 0
    MaxLate = 2
    TTL = 0
    MaxWrites = 2
    MaxFaults = 1
CHECK_DEADLOCK FALSE
INVARIANTS
    ExactUnlessRaced
    SteadyQueryComplete
PROPERTIES
    WatermarkCatchesUp
