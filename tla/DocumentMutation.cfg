SPECIFICATION FairSpec
CONSTANTS
    m1 = m1
    d1 = d1
    Movers = {m1}
    Deleters = {d1}
    MaxMoves = 2
    MaxDeletes = 1
    MaxEdits = 1
    MaxFaults = 1
    MaxCrashes = 1
CHECK_DEADLOCK FALSE
INVARIANTS
    FoundWhereItIs
    OutcomesAreTrue
PROPERTIES
    DeletionCompletes
    MoveSettles
