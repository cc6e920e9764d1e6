SPECIFICATION FairSpec
CONSTANTS
    o1 = o1
    o2 = o2
    NoOrder = NoOrder
    Orders <- TwoOrders
    Windows = 3
    MaxDeliveries = 2
    MaxDrops = 1
    MaxCrashes = 1
INVARIANTS
    TypeOK
    BackpressureHolds
PROPERTIES
    AckedIsAnswered
    KeepsLog
CHECK_DEADLOCK FALSE
