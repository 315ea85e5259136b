SPECIFICATION FairSpec
CONSTANTS
    Procs = {p1, p2}
    Plans <- MCLockPlans
    o1 = o1
    o2 = o2
    Origins = {o1, o2}
    DefaultOrigin = o1
    FirstOrigin = o1
    First = First
    ApiKey = ApiKey
    Nobody = Nobody
    Nothing = Nothing
    MaxGen = 1
PROPERTIES
    LockIsReleased
CHECK_DEADLOCK FALSE
