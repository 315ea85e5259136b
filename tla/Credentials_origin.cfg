SPECIFICATION Spec
CONSTANTS
    Procs = {p1, p2, p3}
    Plans <- MCMovePlans
    o1 = o1
    o2 = o2
    Origins = {o1, o2}
    DefaultOrigin = o2
    FirstOrigin = o1
    First = First
    ApiKey = ApiKey
    Nobody = Nobody
    Nothing = Nothing
    MaxGen = 1
SYMMETRY AnyProc
INVARIANTS
    OriginBound
CHECK_DEADLOCK FALSE
