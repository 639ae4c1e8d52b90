SPECIFICATION FairSpec
CONSTANTS
    Places = {p1, p2}
    NoPath = NoPath
    MaxPlaces = 3
INVARIANTS
    TableRight
    MapFollowsItinerary
    EditorInv
PROPERTY TableCatchesUp
