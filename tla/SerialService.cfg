SPECIFICATION FairSpec
CONSTANTS
    r1 = r1
    r2 = r2
    r3 = r3
    Requests <- ThreeRequests
    CategoryOf <- Categories
    FAILURE_THRESHOLD = 3
    MAX_QUEUE_ENTRIES = 1
    MaxRefusals = 2
    MaxCrashes = 2
INVARIANTS
    TypeOK
    ServingHasToken
    DegradedIffFailing
    TrustIsBounded
PROPERTIES
    MigrationLasts
    Recovers
