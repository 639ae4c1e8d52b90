SPECIFICATION Spec
CONSTANTS
    Places = {p1, p2}
    NoPath = NoPath
    MaxPlaces = 3
PROPERTY UndoDeletesLastMarker
