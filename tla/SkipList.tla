------------------------------ MODULE SkipList ------------------------------
(***************************************************************************)
(* The skip list of a memtable (Pods/leveldb-library/db/skiplist.h): one   *)
(* writer inserts while a reader searches without a lock.  A step of the   *)
(* reader is one load of a link.  A link is stored with release and loaded *)
(* with acquire semantics, so whoever finds a node finds what was stored   *)
(* before; max_height_ is loaded without a barrier, and any value that it  *)
(* has had may be read.                                                    *)
(***************************************************************************)
EXTENDS Integers

CONSTANTS
    MaxNode,        \* the keys are 1..MaxNode
    MaxHeight       \* kMaxHeight

ASSUME SkipListAssumption == MaxNode \in Nat /\ MaxHeight \in Nat \ {0}

VARIABLES
    link,           \* link[x][l]: next_[l] of the node x
    heights,        \* the values that max_height_ has had
    inserter,       \* the call of Insert under way
    search          \* the reader's iterator: node_, and the search under way

vars == <<link, heights, inserter, search>>

-----------------------------------------------------------------------------
Node == 1..MaxNode
HeadNode == 0
Nil == MaxNode + 1
Unset == -1             \* memory of the arena that was not written yet
Levels == 0..(MaxHeight - 1)

NoInsert == [on |-> FALSE, node |-> 0, height |-> 1, prev |-> [l \in Levels |-> HeadNode], level |-> 0]

Init ==
    /\ link = [x \in {HeadNode} \cup Node |-> [l \in Levels |-> IF x = HeadNode THEN Nil ELSE Unset]]
    /\ heights = {1} /\ inserter = NoInsert
    /\ search = [on |-> FALSE, forward |-> TRUE, key |-> 1, at |-> HeadNode, level |-> 0, present |-> {},
                 node |-> Nil]

Linked(l) == {x \in Node : link[x][l] # Unset}

(***************************************************************************)
(* Insert: FindGreaterOrEqual fills prev, the height is drawn, max_height_ *)
(* is raised, and the node is linked from the lowest level up.             *)
(***************************************************************************)
IsPrev(y, l, x) ==
    /\ y \in {HeadNode} \cup Linked(l) /\ y < x
    /\ \A z \in Linked(l) : z < x => z <= y

Insert(x, height) ==
    /\ ~ inserter.on /\ x \notin Linked(0)
    /\ \E prev \in [Levels -> {HeadNode} \cup Node] :
         /\ \A l \in Levels : IF l < height THEN IsPrev(prev[l], l, x) ELSE prev[l] = HeadNode
         /\ inserter' = [on |-> TRUE, node |-> x, height |-> height, prev |-> prev, level |-> 0]
    /\ heights' = IF \A h \in heights : h < height THEN heights \cup {height} ELSE heights
    /\ UNCHANGED <<link, search>>

(* mutant: the node is linked from its highest level down. *)
LevelFromTop == inserter.height - 1 - inserter.level

NextLevel == inserter.level

SetNext ==
    LET l == NextLevel
    IN  /\ inserter.on
        /\ link' = [link EXCEPT ![inserter.node][l] = link[inserter.prev[l]][l],
                                ![inserter.prev[l]][l] = inserter.node]
        /\ inserter' = IF inserter.level = inserter.height - 1 THEN NoInsert
                       ELSE [inserter EXCEPT !.level = @ + 1]
        /\ UNCHANGED <<heights, search>>

-----------------------------------------------------------------------------
(***************************************************************************)
(* The iterator.  FindGreaterOrEqual returns the node after those before   *)
(* the key, FindLessThan the last before it, and FindLast is FindLessThan  *)
(* for Nil.                                                                *)
(***************************************************************************)
Valid == search.node \in Node

Find(forward, key) ==
    /\ ~ search.on
    /\ \E height \in heights :
         search' = [search EXCEPT !.on = TRUE, !.forward = forward, !.key = key, !.at = HeadNode,
                                  !.level = height - 1, !.present = Linked(0)]
    /\ UNCHANGED <<link, heights, inserter>>

Seek(target) == Find(TRUE, target)
Prev == Valid /\ Find(FALSE, search.node)
SeekToLast == Find(FALSE, Nil)

Follow(key, from) ==
    /\ ~ search.on
    /\ search' = [search EXCEPT !.forward = TRUE, !.key = key, !.present = Linked(0),
                                !.node = link[from][0]]
    /\ UNCHANGED <<link, heights, inserter>>

SeekToFirst == Follow(1, HeadNode)
NextNode == Valid /\ Follow(search.node + 1, search.node)

Load ==
    LET next == link[search.at][search.level]
        result == IF search.forward THEN next ELSE search.at
    IN  /\ search.on
        /\ search' = CASE next < search.key -> [search EXCEPT !.at = next]
                       [] next >= search.key /\ search.level > 0 -> [search EXCEPT !.level = @ - 1]
                       [] next >= search.key /\ search.level = 0 ->
                            [search EXCEPT !.on = FALSE, !.at = HeadNode,
                                           !.node = IF result = HeadNode THEN Nil ELSE result]
        /\ UNCHANGED <<link, heights, inserter>>

Next ==
    \/ \E x \in Node : \E height \in 1..MaxHeight : Insert(x, height)
    \/ SetNext
    \/ \E x \in Node : Seek(x)
    \/ Prev \/ SeekToLast \/ SeekToFirst \/ NextNode \/ Load

Spec == Init /\ [][Next]_vars

-----------------------------------------------------------------------------
TypeOK ==
    /\ link \in [{HeadNode} \cup Node -> [Levels -> Node \cup {Nil, Unset}]]
    /\ heights \subseteq 1..MaxHeight
    /\ inserter \in [on : BOOLEAN, node : {HeadNode} \cup Node, height : 1..MaxHeight,
                     prev : [Levels -> {HeadNode} \cup Node], level : Levels]
    /\ search \in [on : BOOLEAN, forward : BOOLEAN, key : 1..Nil, at : {HeadNode} \cup Node, level : Levels,
                   present : SUBSET Node, node : 1..Nil]

(* A search never meets memory that was not written, and ends at a node of *)
(* the list on the right side of its key with no node between the two that *)
(* was there when it began, whatever is inserted at the same time.         *)
SearchRight ==
    /\ search.at # Unset
    /\ ~ search.on =>
         /\ Valid => search.node \in Linked(0)
         /\ \A x \in search.present :
               IF search.forward THEN x >= search.key => search.node <= x
               ELSE x < search.key => Valid /\ x <= search.node
         /\ Valid => IF search.forward THEN search.node >= search.key ELSE search.node < search.key
=============================================================================
