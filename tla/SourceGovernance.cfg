SPECIFICATION FairSpec
CONSTANTS
    a1 = a1
    a2 = a2
    o1 = o1
    o2 = o2
    NoOp = NoOp
    Approvals = {a1, a2}
    Restrictions = {o1, o2}
    Overlaps = FALSE
    MaxFaults = 1
INVARIANTS
    AuditsAreTrue
    ServedOnceReapproved
PROPERTIES
    NoApprovalUnderCleanup
    MarkerIsLifted
CHECK_DEADLOCK FALSE
