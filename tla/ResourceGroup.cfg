SPECIFICATION Spec
CONSTANTS
    g = g
    h = h
    u = u
    p1 = p1
    n1 = n1
    Groups = {g, h}
    Users = {u}
    Doomed = g
    Replacements = {p1}
    Renames = {n1}
    NoOp = NoOp
    Emptying = FALSE
    MaxFaults = 1
INVARIANTS
    AuditsAreTrue
PROPERTIES
    NoGrantUnderCleanup
    DenyIsFollowedUp
    DeletionSettles
CHECK_DEADLOCK FALSE
