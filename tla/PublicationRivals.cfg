SPECIFICATION Spec
CONSTANTS
    Runs = {r1, r2}
    Workers = {w1, w2}
    Compensators = {}
    Source = Source
    NoArtifact = NoArtifact
    NoRun = NoRun
    MaxGen = 2
    Stalls = TRUE
SYMMETRY Symmetry
INVARIANTS
    FencedWriterUnique
    AtMostOneVisible
    SingleWinner
