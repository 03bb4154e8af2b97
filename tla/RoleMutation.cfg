SPECIFICATION Spec
CONSTANTS
    u1 = u1
    u2 = u2
    admin = admin
    access = access
    r1 = r1
    r2 = r2
    r3 = r3
    Users = {u1, u2}
    Roles = {admin, access}
    SystemAdmin = admin
    Assigners = {admin, access}
    Requests = {r1, r2, r3}
    NoRequest = NoRequest
    Actor <- MCActor
    Target <- MCTarget
    Desired <- MCDesired
    InitialRoles <- MCInitialRoles
    StallInCall = FALSE
    MaxToken = 4
    MaxFaults = 1
    MaxLedger = 2
    MaxCalls = 2
INVARIANTS
    AlwaysARecoveryPrincipal
    ReleasedAsRecorded
    SuccessIsComplete
PROPERTIES
    NoGrantUnderCleanup
CHECK_DEADLOCK FALSE
