SPECIFICATION FairSpec
CONSTANTS
    Editors = {e1, e2}
    Places = {p1, p2}
    Users = {u1}
    NoEditor = NoEditor
    NoPhoto = NoPhoto
    NoUser = NoUser
    MaxLocations = 3
INVARIANTS
    PhotoIDsInOrder
    SaveInv
PROPERTIES
    EndedSaveIsFinal
    ImplementsPublication
    ConfirmedSaveEnds
