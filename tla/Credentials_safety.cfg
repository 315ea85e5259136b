SPECIFICATION Spec
CONSTANTS
    Procs = {p1, p2}
    Plans <- MCPlans
    o1 = o1
    o2 = o2
    Origins = {o1, o2}
    DefaultOrigin = o1
    FirstOrigin = o1
    First = First
    ApiKey = ApiKey
    Nobody = Nobody
    Nothing = Nothing
    MaxGen = 1
SYMMETRY AnyProc
INVARIANTS
    RefreshIsExclusive
    NoSilentOrphan
    LogoutRevokes
    SecretsReachable
    NoLostUpdate
PROPERTIES
    FailedSaveRestores
CHECK_DEADLOCK FALSE
