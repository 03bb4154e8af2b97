SPECIFICATION Spec
CONSTANTS
    Runs = {r1}
    Workers = {w1, w2}
    Compensators = {w1}
    Source = Source
    NoArtifact = NoArtifact
    NoRun = NoRun
    MaxGen = 4
    Stalls = FALSE
INVARIANTS
    PointerBundlePresent
    StatusBackedByPointer
PROPERTIES
    RunNeverReopened
    PointerPromise
