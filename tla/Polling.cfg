SPECIFICATION FairSpec
CONSTANTS
    Waits <- MCWaits
    FirstPause <- MCFirstPause
    Ceiling = 4
    Hints <- MCHints
    MaxHint = 7
    Timeout = 12
    ReadLimit = 2
    NoticeInterval = 5
    MinInterval = 2
    MaxInterval = 20
    MaxLoginWait = 20
    SlowDownStep = 2
    Intervals <- MCIntervals
    Lifetimes = {3, 14, 30}
    Latency = 2
    Late = 1
INVARIANTS
    NothingIsMissed
    ScheduleIsKept
    EndsInTime
    ProgressIsTold
PROPERTIES
    WaitEnds
CHECK_DEADLOCK FALSE
