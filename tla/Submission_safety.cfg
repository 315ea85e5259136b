SPECIFICATION Spec
CONSTANTS
    Runs = {r1, r2}
    id1 = id1
    q1 = q1
    q2 = q2
    Ids = {id1}
    Requests = {q1, q2}
    Plans <- MCPlans
    Absent = Absent
    Torn = Torn
    Timeout = 2
    MaxPause = 2
    Outages = TRUE
    PowerFails = FALSE
SYMMETRY AnyRun
INVARIANTS
    ReportedPaymentExists
    UnsentIsReal
    RecoveryRecordFirst
PROPERTIES
    NeverResubmitted
    ImplementsLedger
CHECK_DEADLOCK FALSE
