SPECIFICATION FairSpec
CONSTANTS
    Orgs = {"o1", "o2", "o3"}
    NoId = "none"
    WalletsOf <- MCWalletsOf
    Entries <- MCEntries
    Concurrency = 2
    Failures <- MCFailures
    RevokedLogin <- Revoked
INVARIANTS
    ListingIsRight
    FailuresAreTold
PROPERTIES
    Ends
CHECK_DEADLOCK FALSE
