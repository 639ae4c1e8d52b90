SPECIFICATION MCSpec
CONSTANTS
    MaxNode = 3
    MaxHeight = 3
    MaxKey = 3
    NumLevels = 4
    MaxMemLevel = 2
    TreeBounds <- MCTreeBounds
    Client = {1, 2, 3}
    File = {1, 2, 3}
    Charge <- MCCharge
    Capacity = 2
    MaxOpens = 4
    BlockSize = 6
    HeaderSize = 2
    RecordSize = {0, 3, 6}
    MaxRecords = 3
    MaxFails = 1
    MaxCrashes = 2
    UserKey = {1, 2, 3}
    Child = {1, 2}
    Contents <- MCContents
    Snapshot = 3
    MaxInserts = 1
    MaxSeq = 3
    RestartInterval = 2
    MaxEntries = 4
    MaxErrors = 1
    Thread = {1, 2, 3}
    ProcessOf <- MCProcessOf
    Limit <- MCLimit
    EnvBounds <- MCEnvBounds
CHECK_DEADLOCK FALSE
INVARIANTS
    SearchRight
    ReadsRight
    LevelsDisjoint
    TablesRight
    LogReadsRight
    IteratorRight
    TableFileRight
    EnvironmentRight
