SPECIFICATION FairSpec
CONSTANTS
    c1 = c1
    c2 = c2
    top = top
    sub = sub
    Clients = {c1}
    Folders = {top, sub}
    Root = top
    Docs <- MCDocs
    EditMoved = FALSE
    MaxOps = 2
    MaxEdits = 1
    MaxFaults = 2
    MaxCrashes = 1
CHECK_DEADLOCK FALSE
INVARIANTS
    ShownWhereItIs
    SettledMoveIsWhole
PROPERTIES
    HiddenDocumentsReturn
