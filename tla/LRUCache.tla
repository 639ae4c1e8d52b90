------------------------------ MODULE LRUCache ------------------------------
(***************************************************************************)
(* One shard of the LRU cache of Pods/leveldb-library/util/cache.cc: the   *)
(* reference counts, the two lists, the hash table and the usage, as       *)
(* functions from a cache to the cache after a call.  mutex_ makes each    *)
(* call a step.  A handle that is deallocated leaves c.handle: whatever    *)
(* names it later uses freed memory.                                       *)
(***************************************************************************)
EXTENDS Integers, Sequences, Functions

CONSTANT Capacity       \* capacity_
CapacityAssumption == Capacity \in Nat

(* handle[h]: the entry h; table: table_, from keys to handles; lru: lru_, *)
(* the oldest first; inUse: in_use_.                                       *)
EmptyCache == [handle |-> <<>>, table |-> <<>>, lru |-> <<>>, inUse |-> {}, usage |-> 0]

Without(f, x) == [y \in DOMAIN f \ {x} |-> f[y]]
With(f, x, v) == [y \in DOMAIN f \cup {x} |-> IF y = x THEN v ELSE f[y]]
Dropped(s, h) ==
    LET n == CHOOSE n \in DOMAIN s : s[n] = h
    IN  IF h \in Range(s) THEN SubSeq(s, 1, n - 1) \o SubSeq(s, n + 1, Len(s)) ELSE s

(* The charge of the entries hs. *)
Charged(c, hs) == SumFunctionOnSet([h \in DOMAIN c.handle |-> c.handle[h].charge], hs)

(* LRU_Remove: the entry leaves the list that it is on. *)
LRU_Remove(c, h) == [c EXCEPT !.lru = Dropped(@, h), !.inUse = @ \ {h}]

Ref(c, h) ==
    LET d == IF c.handle[h].refs = 1 /\ c.handle[h].inCache
             THEN [LRU_Remove(c, h) EXCEPT !.inUse = @ \cup {h}] ELSE c
    IN  [d EXCEPT !.handle[h].refs = @ + 1]

Unref(c, h) ==
    LET e == [c.handle[h] EXCEPT !.refs = @ - 1]
    IN  CASE e.refs = 0 -> [c EXCEPT !.handle = Without(@, h)]
          [] e.refs = 1 /\ e.inCache ->
                [LRU_Remove(c, h) EXCEPT !.handle[h] = e, !.lru = Append(@, h)]
          [] OTHER -> [c EXCEPT !.handle[h] = e]

(* mutant: the entry is deallocated, whoever uses it. *)
FinishEraseFrees(c, h) ==
    [LRU_Remove(c, h) EXCEPT !.handle = Without(@, h), !.usage = @ - c.handle[h].charge]

(* FinishErase, of an entry that table_ has let go. *)
FinishErase(c, h) ==
    Unref([LRU_Remove(c, h) EXCEPT !.handle[h].inCache = FALSE,
                                   !.usage = @ - c.handle[h].charge], h)

Lookup(c, k) == IF k \in DOMAIN c.table THEN Ref(c, c.table[k]) ELSE c
Release(c, h) == Unref(c, h)
Erase(c, k) ==
    IF k \in DOMAIN c.table
    THEN FinishErase([c EXCEPT !.table = Without(@, k)], c.table[k]) ELSE c

(* The loops that erase from the old end of lru_: the first n entries. *)
EraseOldest(c, n) ==
    LET old == {c.lru[i] : i \in 1..n}
        keys == {c.handle[h].key : h \in old}
    IN  [c EXCEPT !.handle = [h \in DOMAIN c.handle \ old |-> c.handle[h]],
                  !.table = [k \in DOMAIN c.table \ keys |-> c.table[k]],
                  !.lru = SubSeq(@, n + 1, Len(@)),
                  !.usage = @ - Charged(c, old)]
Prune(c) == EraseOldest(c, Len(c.lru))

Shrunk(c) ==
    LET enough == {n \in 0..Len(c.lru) : n = Len(c.lru) \/ EraseOldest(c, n).usage <= Capacity}
    IN  EraseOldest(c, CHOOSE n \in enough : \A m \in enough : n <= m)

(* Insert, as the new handle h, which the caller then holds. *)
Insert(c, k, h, charge) ==
    LET e == [key |-> k, refs |-> 1, inCache |-> FALSE, charge |-> charge]
        added == [c EXCEPT !.handle = With(@, h, [e EXCEPT !.refs = 2, !.inCache = TRUE]),
                           !.table = With(@, k, h), !.inUse = @ \cup {h},
                           !.usage = @ + charge]
    IN  Shrunk(CASE Capacity = 0 -> [c EXCEPT !.handle = With(@, h, e)]
                 [] Capacity > 0 /\ k \in DOMAIN c.table -> FinishErase(added, c.table[k])
                 [] OTHER -> added)

-----------------------------------------------------------------------------
(* The comments at lru_ and in_use_: every entry of the cache is on one of *)
(* the lists, by whether a client refers to it, and is found by its key;   *)
(* and usage_ is what they are charged with.                               *)
ListsRight(c) ==
    LET cached == {h \in DOMAIN c.handle : c.handle[h].inCache}
    IN  /\ Range(c.lru) = {h \in cached : c.handle[h].refs = 1}
        /\ \A i, j \in DOMAIN c.lru : c.lru[i] = c.lru[j] => i = j
        /\ c.inUse = {h \in cached : c.handle[h].refs > 1}
        /\ Range(c.lru) \cap c.inUse = {}
        /\ cached = {c.table[k] : k \in DOMAIN c.table}
        /\ \A k \in DOMAIN c.table : c.handle[c.table[k]].key = k
        /\ c.usage = Charged(c, cached)
=============================================================================
