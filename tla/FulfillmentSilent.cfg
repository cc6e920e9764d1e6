SPECIFICATION Spec
CONSTANTS
    o1 = o1
    o2 = o2
    NoOrder = NoOrder
    Orders <- OneOrder
    Windows = 3
    MaxDeliveries = 1
    MaxDrops = 0
    MaxCrashes = 0
INVARIANT ErrorIsTold
CHECK_DEADLOCK FALSE
