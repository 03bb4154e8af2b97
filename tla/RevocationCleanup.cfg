SPECIFICATION FairSpec
CONSTANTS
    o1 = o1
    g1 = g1
    w1 = w1
    w2 = w2
    index = index
    derived = derived
    NoOp = NoOp
    Revokes = {o1}
    Grants = {g1}
    Workers = {w1, w2}
    Repeating = {w1}
    Artifacts = {index, derived}
    Index = index
    Known = {}
    PartialDiscovery = FALSE
    MaxFaults = 1
    MaxCrashes = 1
INVARIANTS
    CompletedLeavesNothing
PROPERTIES
    NoGrantUnderOpenFence
    DenyIsFollowedUp
