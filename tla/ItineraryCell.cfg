SPECIFICATION FairSpec
CONSTANTS
    Cells = {c1, c2}
    Places = {p1, p2}
    NoPlace = NoPlace
    MaxLocations = 2
    MaxRequests = 3
INVARIANTS
    ImageSettles
    CellInv
PROPERTIES
    PhotosGoToTheirLocation
    CellFillsIn
CHECK_DEADLOCK FALSE
