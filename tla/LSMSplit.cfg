SPECIFICATION Spec
CONSTANTS
    MaxKey = 3
    NumLevels = 4
    MaxMemLevel = 2
    TreeBounds <- MCBounds
CHECK_DEADLOCK FALSE
INVARIANT EntriesNeverHop
