----------------------------- MODULE TableCache -----------------------------
(***************************************************************************)
(* TableCache (Pods/leveldb-library/db/table_cache.cc): the open tables of *)
(* a database, in an LRUCache by file number, for readers and iterators    *)
(* that share no other lock.  Two readers that miss may open one table     *)
(* twice.  Table::BlockReader uses the cache of blocks the same way, with  *)
(* the size of a block for its charge.                                     *)
(***************************************************************************)
EXTENDS LRUCache, FiniteSets

CONSTANTS
    Client,         \* the threads that read tables
    File,           \* the table files
    Charge,         \* Charge[f]: what the entry of f is charged with
    MaxOpens        \* bound: how many tables are opened

TableCacheAssumption == IsFiniteSet(Client) /\ Charge \in [File -> Nat] /\ MaxOpens \in Nat

VARIABLES
    cache,          \* cache_
    client,         \* client[t]: the file that t reads and how, and its handle
    live,           \* the files that are not deleted
    opened          \* number of tables opened

vars == <<cache, client, live, opened>>

Idle == [pc |-> "idle", file |-> 0, handle |-> 0]

Init == /\ cache = EmptyCache /\ client = [t \in Client |-> Idle]
        /\ live = File /\ opened = 0

(* FindTable, for a file of a version that the reader has pinned. *)
FindTable(t, f) ==
    /\ client[t].pc = "idle" /\ f \in live
    /\ cache' = Lookup(cache, f)
    /\ client' = [client EXCEPT ![t] =
                    IF f \in DOMAIN cache.table
                    THEN [pc |-> "reads", file |-> f, handle |-> cache.table[f]]
                    ELSE [pc |-> "opens", file |-> f, handle |-> 0]]
    /\ UNCHANGED <<live, opened>>

(* The table is open, whoever else opened it meanwhile. *)
InsertTable(t) ==
    /\ client[t].pc = "opens" /\ opened < MaxOpens
    /\ opened' = opened + 1
    /\ cache' = Insert(cache, client[t].file, opened', Charge[client[t].file])
    /\ client' = [client EXCEPT ![t].pc = "reads", ![t].handle = opened']
    /\ UNCHANGED live

(* Errors are not cached. *)
OpenFails(t) ==
    /\ client[t].pc = "opens"
    /\ client' = [client EXCEPT ![t] = Idle]
    /\ UNCHANGED <<cache, live, opened>>

(* Get ends, or the iterator is deleted: UnrefEntry. *)
ReleaseTable(t) ==
    /\ client[t].pc = "reads"
    /\ cache' = Release(cache, client[t].handle)
    /\ client' = [client EXCEPT ![t] = Idle]
    /\ UNCHANGED <<live, opened>>

(* DeleteObsoleteFiles evicts a file that no version in use has. *)
Evict(f) ==
    /\ f \in live /\ \A t \in Client : client[t].file # f
    /\ live' = live \ {f}
    /\ cache' = Erase(cache, f)
    /\ UNCHANGED <<client, opened>>

PruneCache == /\ cache' = Prune(cache)
              /\ UNCHANGED <<client, live, opened>>

Next ==
    \/ \E t \in Client : \/ \E f \in File : FindTable(t, f)
                         \/ InsertTable(t) \/ OpenFails(t) \/ ReleaseTable(t)
    \/ \E f \in File : Evict(f)
    \/ PruneCache

Spec == Init /\ [][Next]_vars

-----------------------------------------------------------------------------
Holders(h) == {t \in Client : client[t].pc = "reads" /\ client[t].handle = h}

(* A reader's table stays open until it is released, however often it was  *)
(* evicted or replaced by another reader's meanwhile.                      *)
UsedOpen ==
    \A t \in Client : client[t].pc = "reads" =>
        /\ client[t].handle \in DOMAIN cache.handle
        /\ cache.handle[client[t].handle].key = client[t].file

(* References are counted right, so that nothing else stays open: a table  *)
(* is in the cache or in use, and that of a deleted file is closed.        *)
UnusedClosed ==
    \A h \in DOMAIN cache.handle :
        LET e == cache.handle[h]
        IN  /\ e.refs = Cardinality(Holders(h)) + (IF e.inCache THEN 1 ELSE 0)
            /\ e.refs > 0 /\ e.key \in live

(* No file is read through a closed table, or left open by the cache; the  *)
(* lists, the table and the usage agree whenever mutex_ is free.           *)
TablesRight == UsedOpen /\ UnusedClosed /\ ListsRight(cache)
=============================================================================
