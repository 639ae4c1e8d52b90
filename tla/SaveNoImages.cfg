SPECIFICATION Spec
CONSTANTS
    Editors = {e1, e2}
    Places = {p1, p2}
    Users = {u1, u2}
    NoEditor = NoEditor
    NoPhoto = NoPhoto
    NoUser = NoUser
    MaxLocations = 3
SYMMETRY Symmetry
INVARIANT EveryCourseHasImages
