SPECIFICATION FairSpec
CONSTANTS
    MemberOf <- ThreeMembers
    WINDOW_SIZE = 2
    Budget = 3
    NoBudget = NoBudget
    MaxNet = 2
INVARIANTS
    TypeOK
    WholeBeforeComplete
    WindowsKeepCadence
PROPERTIES
    AuthorityFirst
    TransferEnds
CHECK_DEADLOCK FALSE
