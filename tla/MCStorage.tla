----------------------------- MODULE MCStorage -----------------------------
(***************************************************************************)
(* Bounds of Storage for TLC, and the parts that a behaviour may be of.    *)
(***************************************************************************)
EXTENDS Storage

Bound(old, keys, puts, snaps, manual) ==
    [old |-> old, keys |-> keys, puts |-> puts, snapshots |-> snaps, manual |-> manual]
MCTreeBounds ==
    {Bound(1, 1, 3, 2, 0), Bound(2, 2, 2, 1, 0), Bound(0, 3, 3, 1, 0), Bound(3, 3, 2, 0, 1),
     Bound(0, 3, 3, 0, 1)}

(* Of three tables, that of the second takes the room of two. *)
MCCharge == <<1, 2, 1>>

(* Three entries of three keys, the newest of them in the memtable. *)
MCContents ==
    {[c \in 1..2 |-> {[key |-> keys[s], seq |-> s, del |-> s \in dels] : s \in {t \in 1..3 : (c = 1) = (t > n)}}] :
        keys \in [1..3 -> 1..3], dels \in SUBSET (1..3), n \in 0..3}

(* Two threads of one process and one of another; one mapping and one      *)
(* descriptor for three files.                                             *)
MCProcessOf == <<1, 1, 2>>
MCLimit == [r \in {"mmap", "fd"} |-> 1]
MCEnvBounds == {[locks |-> 4, files |-> 0, jobs |-> 0], [locks |-> 0, files |-> 5, jobs |-> 0],
                [locks |-> 0, files |-> 0, jobs |-> 4]}

MCInit == part \in {"skiplist", "tree", "tables", "log", "iterator", "table", "env"} /\ StorageInit
MCSpec == MCInit /\ [][StorageNext]_storage
=============================================================================
