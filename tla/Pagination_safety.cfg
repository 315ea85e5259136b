SPECIFICATION PagingFairSpec
CONSTANTS
    Endpoints = {"cursor", "offset", "deprecated", "any"}
    PageSize = 2
    MaxItem = 5
    MaxOffset = 5
    SaysMore = {"no"}
    Anything <- MCAnything
    None = None
INVARIANTS
    Complete
    NoRepeats
    StuckOnlyByOthers
PROPERTIES
    PagingEnds
CHECK_DEADLOCK FALSE
