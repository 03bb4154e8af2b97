SPECIFICATION Spec
CONSTANTS
    u1 = u1
    u2 = u2
    g1 = g1
    g2 = g2
    top = top
    sub = sub
    Users = {u1, u2}
    Groups = {g1, g2}
    Folders = {top, sub}
    Parent <- MCParent
    Administrator <- MCAdministrator
    Owner = u1
    DocFolders = {top, sub}
    Document = Document
    NoFolder = NoFolder
    NoPolicy = NoPolicy
    Memberships <- MCMemberships
    MaxEdits = 3
INVARIANTS
    DecisionAsSpecified
PROPERTIES
    LostAccessIsNamed
CHECK_DEADLOCK FALSE
