SPECIFICATION Spec
CONSTANTS
    w1 = w1
    w2 = w2
    Kinds = {"chat", "ingest"}
    Workers = {w1, w2}
    MaxFaults = 1
    MaxCrashes = 1
    Revocable = TRUE
    Reinvoked = TRUE
CHECK_DEADLOCK FALSE
SYMMETRY WorkerSymmetry
INVARIANTS
    TruthTold
    FailedKeepsNoAnswer
    SucceededIsPublished
