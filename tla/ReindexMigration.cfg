SPECIFICATION FairSpec
CONSTANTS
    s1 = s1
    c1 = c1
    c2 = c2
    b1 = b1
    Requests = {s1, c1, c2, b1}
    Kind <- MCKind
    Trusted = {c1, s1}
    Repeated = {c1}
    MaxFaults = 1
    MaxCrashes = 1
INVARIANTS
    LedgerRollbackIsTrue
    SettledIntentIsTakenBack

    
