SPECIFICATION Spec
CONSTANTS
    Thread = {t1, t2}
    Reader = {r1}
    MemCap = 0
    GroupMax = 2
    L0Trigger = 2
    L0Slowdown = 2
    L0Stop = 3
    Bounds <- MCBounds
CHECK_DEADLOCK FALSE
INVARIANTS
    StoreInv
    OneLogger
    SnapshotReadable
    NothingLost
    SeqUnique
PROPERTIES
    ImplementsDurableStore
    CallsReturn
