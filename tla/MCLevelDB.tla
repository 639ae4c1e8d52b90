----------------------------- MODULE MCLevelDB -----------------------------
(***************************************************************************)
(* Bounds of LevelDB for TLC: each member lets some kinds of steps happen  *)
(* together.  With two tables of level 0 a merge begins at DB::Open.       *)
(***************************************************************************)
EXTENDS LevelDBInvariant

Bound(old, writes, gets, faults, downs) ==
    [old |-> old, writes |-> writes, gets |-> gets, faults |-> faults, downs |-> downs]

MCBounds == {Bound(0, 2, 0, 1, 2),      \* crashes during a recovery
             Bound(0, 3, 0, 0, 1),      \* three tables before a crash
             Bound(1, 2, 1, 1, 0),      \* a read across flushes and a merge
             Bound(2, 1, 0, 1, 1),      \* a memtable flushed during a merge,
             Bound(2, 2, 0, 1, 0)}      \*   with errors
=============================================================================
