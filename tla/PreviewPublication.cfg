SPECIFICATION Spec
CONSTANTS
    a = a
    b = b
    Nothing = Nothing
    Gone = Gone
    Selections <- TwoSelections
    MaxJobs = 2
    MaxRequests = 4
    MaxChanges = 1
    MaxCrashes = 1
INVARIANTS
    OneApproval

    
CHECK_DEADLOCK FALSE
