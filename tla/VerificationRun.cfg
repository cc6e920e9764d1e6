SPECIFICATION FairSpec
CONSTANTS
    s1 = s1
    s2 = s2
    c1 = c1
    NoOwner = NoOwner
    Starters <- TwoStarters
    Clerks <- OneClerk
    MaxQuotes = 2
    MaxFaults = 1
INVARIANTS
    TypeOK
    OneReport
    StateWasServers
PROPERTIES
    StartReturns
