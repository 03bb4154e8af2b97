SPECIFICATION TransferSpec
CONSTANTS
    c1 = c1
    d1 = d1
    d2 = d2
    r1 = r1
    doc = doc
    group = group
    owner = owner
    heir = heir
    other = other
    Changers = {c1}
    Deleters = {d1}
    Restorers = {r1}
    Documents = {doc}
    Groups = {group}
    Source = owner
    Heirs = {heir, other}
    MaxToken = 3
    MaxRequests = 3
    MaxWrites = 1
    MaxFailures = 1
    MaxDeaths = 1
    SlowWrites = FALSE
    LateCrashes = FALSE
    RestoreOverlaps = FALSE
CHECK_DEADLOCK FALSE
INVARIANTS
    GoneOwnsNothing
    SettledIsWhole
PROPERTIES
    MovedUnderFence
