SPECIFICATION WatchSpec
CONSTANTS
    Watched = {a, b, c}
    PageSize = 1
    Interval = 2
    WatchCeiling = 5
    WatchHints = {0, 7}
    MaxClock = 5
    MaxFails = 3
    MaxLapses = 2
SYMMETRY AnyPayment
INVARIANTS
    RejectedTwice
PROPERTIES
    ReportedOnce
    MissesOnlyOverflow
CHECK_DEADLOCK FALSE
