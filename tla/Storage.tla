------------------------------ MODULE Storage ------------------------------
(***************************************************************************)
(* The parts of LevelDB below its threads, side by side: the skip list of  *)
(* a memtable, the tables of the levels, the cache of open tables, the     *)
(* logs, the iterators, a table file and the platform.  A behaviour is one *)
(* of the part that the initial state chooses; the others stay where they  *)
(* begin.                                                                  *)
(***************************************************************************)
EXTENDS SkipList

CONSTANTS
    MaxKey, NumLevels, MaxMemLevel, TreeBounds,             \* of LSMTree
    Client, File, Charge, Capacity, MaxOpens,               \* of TableCache
    BlockSize, HeaderSize, RecordSize, MaxRecords, MaxFails, MaxCrashes,  \* of LogFormat
    UserKey, Child, Contents, Snapshot, MaxInserts,         \* of DBIterator
    MaxSeq, RestartInterval, MaxEntries, MaxErrors,         \* of TableFile
    Thread, ProcessOf, Limit, EnvBounds                     \* of PosixEnv

VARIABLES
    part,           \* the part of this behaviour
    mem, files, lastSeq, snapshots, job, written, split, gap, rest,
    cache, client, live, opened,
    file, offset, writer, made, reader, faults,
    children, merge, iter, expected,
    builder, blocks, cursor, wanted,
    pc, lockedIn, kernel, dropped, allowed, queue, bgthread, calls

Tree == INSTANCE LSMTree
Tables == INSTANCE TableCache
Log == INSTANCE LogFormat
Cursor == INSTANCE DBIterator
Blocks == INSTANCE TableFile
Env == INSTANCE PosixEnv

ASSUME StorageAssumption ==
    /\ Tree!TreeAssumption /\ Tables!CapacityAssumption /\ Tables!TableCacheAssumption
    /\ Log!LogAssumption /\ Cursor!IteratorAssumption /\ Blocks!FileAssumption /\ Env!EnvAssumption

tree == <<mem, files, lastSeq, snapshots, job, written, split, gap, rest>>
tables == <<cache, client, live, opened>>
log == <<file, offset, writer, made, reader, faults>>
iterator == <<children, merge, iter, expected>>
table == <<builder, blocks, cursor, wanted>>
env == <<pc, lockedIn, kernel, dropped, allowed, queue, bgthread, calls>>
storage == <<part, vars, tree, tables, log, iterator, table, env>>

-----------------------------------------------------------------------------
TreeIdle ==
    /\ mem = 0 /\ files = 0 /\ lastSeq = 0 /\ snapshots = 0 /\ job = 0 /\ written = 0
    /\ split = 0 /\ gap = 0 /\ rest = 0
TablesIdle == cache = 0 /\ client = 0 /\ live = 0 /\ opened = 0
LogIdle == file = 0 /\ offset = 0 /\ writer = 0 /\ made = 0 /\ reader = 0 /\ faults = 0
IteratorIdle == children = 0 /\ merge = 0 /\ iter = 0 /\ expected = 0
TableIdle == builder = 0 /\ blocks = 0 /\ cursor = 0 /\ wanted = 0
EnvIdle ==
    /\ pc = 0 /\ lockedIn = 0 /\ kernel = 0 /\ dropped = 0 /\ allowed = 0 /\ queue = 0
    /\ bgthread = 0 /\ calls = 0

StorageInit ==
    /\ Init
    /\ IF part = "tree" THEN Tree!Init ELSE TreeIdle
    /\ IF part = "tables" THEN Tables!Init ELSE TablesIdle
    /\ IF part = "log" THEN Log!Init ELSE LogIdle
    /\ IF part = "iterator" THEN Cursor!Init ELSE IteratorIdle
    /\ IF part = "table" THEN Blocks!Init ELSE TableIdle
    /\ IF part = "env" THEN Env!Init ELSE EnvIdle

StorageNext ==
    /\ UNCHANGED part
    /\ \/ part = "skiplist" /\ Next /\ UNCHANGED <<tree, tables, log, iterator, table, env>>
       \/ part = "tree" /\ Tree!Next /\ UNCHANGED <<vars, tables, log, iterator, table, env>>
       \/ part = "tables" /\ Tables!Next /\ UNCHANGED <<vars, tree, log, iterator, table, env>>
       \/ part = "log" /\ Log!Next /\ UNCHANGED <<vars, tree, tables, iterator, table, env>>
       \/ part = "iterator" /\ Cursor!Next /\ UNCHANGED <<vars, tree, tables, log, table, env>>
       \/ part = "table" /\ Blocks!Next /\ UNCHANGED <<vars, tree, tables, log, iterator, env>>
       \/ part = "env" /\ Env!Next /\ UNCHANGED <<vars, tree, tables, log, iterator, table>>

StorageSpec == StorageInit /\ [][StorageNext]_storage

-----------------------------------------------------------------------------
(* The properties of the parts, as they are stated there: what is read of  *)
(* the levels and what they hold, which tables are open, what is read of a *)
(* log, where an iterator is, what a lookup in a table finds and where its *)
(* iterator is, and what the platform grants.                              *)
ReadsRight == part = "tree" => Tree!ReadsRight
LevelsDisjoint == part = "tree" => Tree!LevelsDisjoint
TablesRight == part = "tables" => Tables!TablesRight
LogReadsRight == part = "log" => Log!LogReadsRight
IteratorRight == part = "iterator" => Cursor!IteratorRight
TableFileRight == part = "table" => Blocks!GetRight /\ Blocks!FileIteratorRight
EnvironmentRight == part = "env" => Env!LockExclusive /\ Env!WithinLimits /\ Env!WorkSeen
=============================================================================
