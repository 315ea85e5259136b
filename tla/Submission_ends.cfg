SPECIFICATION FairSpec
CONSTANTS
    Runs = {r1, r2}
    id1 = id1
    q1 = q1
    q2 = q2
    Ids = {id1}
    Requests = {q1, q2}
    Plans <- MCWaitPlans
    Absent = Absent
    Torn = Torn
    Timeout = 2
    MaxPause = 1
    Outages = FALSE
    PowerFails = TRUE
INVARIANTS
    RejectedIsReal
PROPERTIES
    SendsWithRecord
    RunsEnd
CHECK_DEADLOCK FALSE
