SPECIFICATION Spec
CONSTANTS
    k1 = k1
    c1 = c1
    c2 = c2
    Loop = Loop
    NoKey = NoKey
    Keys <- OneKey
    Calls <- TwoCalls
    KeyOf <- DuplicateOf
    MAX_ATTEMPTS = 2
    BatchSize = 1
    AutoReload = TRUE
    MonitorRuns = FALSE
    MaxCrashes = 0
INVARIANTS
    ApiStaysUp
