--------------------------- MODULE Storage_proofs ---------------------------
(***************************************************************************)
(* Proofs about Storage, for every value of the constants: the skip list   *)
(* of a memtable for any number of keys and any height; the locks, limits  *)
(* and queue of the platform for any threads of any processes; what is     *)
(* read of the tables of the levels, for any keys, levels, writes,         *)
(* snapshots and compactions; the cache of open tables, for any clients,   *)
(* files, charges and capacity; and the iterators, for any children,       *)
(* contents and calls.                                                     *)
(***************************************************************************)
EXTENDS Storage, Sequences, TLAPS, FiniteSetTheorems, WellFoundedInduction

(***************************************************************************)
(* The skip list.  The inductive invariant: at each level the nodes that   *)
(* are linked form a chain in the order of their keys, every level is part *)
(* of those below it, the node being inserted is linked up to where Insert *)
(* is, with the right neighbours above, and a search is at a node of its   *)
(* level.                                                                  *)
(***************************************************************************)
OnLevel(l) == {HeadNode} \cup Linked(l)

Chains ==
    \A l \in Levels : \A x \in OnLevel(l) :
        /\ link[x][l] \in Linked(l) \cup {Nil}
        /\ x < link[x][l]
        /\ \A y \in Linked(l) : x < y => link[x][l] <= y

Layers == \A l \in Levels : /\ Linked(l) \subseteq Linked(0)
                            /\ l > 0 => Linked(l) \subseteq Linked(l - 1)

Inserts ==
    inserter.on =>
        /\ inserter.node \in Node /\ inserter.level < inserter.height
        /\ \A l \in Levels : inserter.node \in Linked(l) <=> l < inserter.level
        /\ \A l \in Levels : inserter.level <= l /\ l < inserter.height =>
              IsPrev(inserter.prev[l], l, inserter.node)

Searches ==
    /\ search.present \subseteq Linked(0)
    /\ search.on => search.at \in OnLevel(search.level) /\ search.at < search.key

ListInv == TypeOK /\ Chains /\ Layers /\ Inserts /\ Searches /\ SearchRight

-----------------------------------------------------------------------------
LEMMA Numbers ==
    /\ 0 \in Levels /\ Levels \subseteq Nat /\ Nil \in Nat \ {0} /\ 1 \in 1..Nil
    /\ \A x \in Node : x \in Nat /\ x > 0 /\ x < Nil /\ x + 1 \in 1..Nil
    /\ Nil \notin Node /\ HeadNode \notin Node /\ Unset \notin Node \cup {HeadNode, Nil}
  BY SkipListAssumption, SMT DEF Levels, Nil, Node, HeadNode, Unset

LEMMA InitInv == Init => ListInv
<1> SUFFICES ASSUME Init PROVE ListInv
  OBVIOUS
<1>1. /\ \A l \in Levels : link[HeadNode][l] = Nil
      /\ \A x \in Node, l \in Levels : link[x][l] = Unset
  BY Numbers DEF Init
<1>2. \A l \in Levels : Linked(l) = {}
  BY <1>1 DEF Linked
<1>3. TypeOK
  <2>1. link \in [{HeadNode} \cup Node -> [Levels -> Node \cup {Nil, Unset}]]
    BY DEF Init
  <2>2. heights \subseteq 1..MaxHeight
    BY SkipListAssumption DEF Init
  <2>3. inserter \in [on : BOOLEAN, node : {HeadNode} \cup Node, height : 1..MaxHeight,
                      prev : [Levels -> {HeadNode} \cup Node], level : Levels]
    BY SkipListAssumption, Numbers DEF Init, NoInsert, HeadNode
  <2>4. search \in [on : BOOLEAN, forward : BOOLEAN, key : 1..Nil, at : {HeadNode} \cup Node, level : Levels,
                    present : SUBSET Node, node : 1..Nil]
    BY SkipListAssumption, Numbers, SMT DEF Init, Nil
  <2> QED BY <2>1, <2>2, <2>3, <2>4 DEF TypeOK
<1>4. Chains
  <2> SUFFICES ASSUME NEW l \in Levels, NEW x \in OnLevel(l)
               PROVE  link[x][l] = Nil /\ x < Nil /\ Linked(l) = {}
    BY <1>2 DEF Chains
  <2>1. x = HeadNode
    BY <1>2 DEF OnLevel
  <2> QED BY <1>1, <1>2, <2>1, Numbers DEF HeadNode
<1>5. Layers /\ Searches
  BY <1>2 DEF Layers, Searches, Init
<1>6. Inserts
  BY DEF Inserts, Init, NoInsert
<1>7. SearchRight
  BY Numbers DEF SearchRight, Init, Valid, HeadNode
<1> QED BY <1>3, <1>4, <1>5, <1>6, <1>7 DEF ListInv

-----------------------------------------------------------------------------
\* A step that leaves the links alone leaves what is said of them alone.
LEMMA SameLinks ==
    ASSUME ListInv, UNCHANGED link
    PROVE  /\ \A l \in Levels : Linked(l)' = Linked(l) /\ OnLevel(l)' = OnLevel(l)
           /\ Chains' /\ Layers'
<1>1. \A l \in Levels : Linked(l)' = Linked(l)
  BY DEF Linked
<1>2. Linked(0)' = Linked(0)
  BY <1>1, Numbers
<1>3. \A l \in Levels : OnLevel(l)' = OnLevel(l)
  BY <1>1 DEF OnLevel
<1>4. Chains'
  BY <1>1, <1>3 DEF ListInv, Chains
<1>5. Layers'
  <2>1. \A l \in Levels : l > 0 => l - 1 \in Levels
    BY SkipListAssumption DEF Levels
  <2> QED BY <1>1, <1>2, <2>1 DEF ListInv, Layers
<1> QED BY <1>1, <1>3, <1>4, <1>5

LEMMA InsertInv ==
    ASSUME ListInv, NEW x \in Node, NEW height \in 1..MaxHeight, Insert(x, height)
    PROVE  ListInv'
<1>1. PICK prev \in [Levels -> {HeadNode} \cup Node] :
          /\ \A l \in Levels : IF l < height THEN IsPrev(prev[l], l, x) ELSE prev[l] = HeadNode
          /\ inserter' = [on |-> TRUE, node |-> x, height |-> height, prev |-> prev, level |-> 0]
  BY DEF Insert
<1>2. UNCHANGED <<link, search>> /\ heights' \in {heights, heights \cup {height}} /\ x \notin Linked(0)
  BY DEF Insert
<1>3. /\ \A l \in Levels : Linked(l)' = Linked(l) /\ OnLevel(l)' = OnLevel(l)
      /\ Chains' /\ Layers' /\ Linked(0)' = Linked(0)
  BY SameLinks, <1>2, Numbers
<1>4. TypeOK'
  <2>1. heights' \subseteq 1..MaxHeight
    BY <1>2 DEF ListInv, TypeOK
  <2>2. inserter' \in [on : BOOLEAN, node : {HeadNode} \cup Node, height : 1..MaxHeight,
                       prev : [Levels -> {HeadNode} \cup Node], level : Levels]
    BY <1>1, Numbers
  <2> QED BY <1>2, <2>1, <2>2 DEF ListInv, TypeOK
<1>5. Inserts'
  <2>1. inserter'.node = x /\ inserter'.level = 0 /\ inserter'.height = height /\ inserter'.prev = prev
    BY <1>1
  <2>2. 0 < height
    BY SkipListAssumption
  <2>3. \A l \in Levels : x \notin Linked(l)'
    BY <1>2, <1>3 DEF ListInv, Layers
  <2>4. \A l \in Levels : ~ (l < 0)
    BY Numbers
  <2>5. \A l \in Levels : l < height => IsPrev(prev[l], l, x)'
    BY <1>1, <1>3 DEF IsPrev
  <2> QED BY <2>1, <2>2, <2>3, <2>4, <2>5 DEF Inserts, IsPrev
<1>6. Searches' /\ SearchRight'
  <2>1. search'.level \in Levels
    BY <1>2 DEF ListInv, TypeOK
  <2> QED BY <1>2, <1>3, <2>1 DEF ListInv, Searches, SearchRight, Valid
<1> QED BY <1>3, <1>4, <1>5, <1>6 DEF ListInv

-----------------------------------------------------------------------------
\* One level of the node is linked: the chain of that level has one more
\* node, between its neighbours, and every other link is as it was.
LEMMA SetNextLinks ==
    ASSUME ListInv, SetNext, NEW l \in Levels, l = inserter.level
    PROVE  /\ inserter.node \in Node /\ inserter.prev[l] \in OnLevel(l) /\ inserter.prev[l] < inserter.node
           /\ inserter.node \notin Linked(l)
           /\ \A z \in Linked(l) : z < inserter.node => z <= inserter.prev[l]
           /\ link'[inserter.node][l] = link[inserter.prev[l]][l]
           /\ link'[inserter.prev[l]][l] = inserter.node
           /\ \A y \in {HeadNode} \cup Node, m \in Levels :
                 ~ (m = l /\ y \in {inserter.node, inserter.prev[l]}) => link'[y][m] = link[y][m]
           /\ link' \in [{HeadNode} \cup Node -> [Levels -> Node \cup {Nil, Unset}]]
           /\ Linked(l)' = Linked(l) \cup {inserter.node}
           /\ \A m \in Levels : m # l => Linked(m)' = Linked(m)
<1> DEFINE x == inserter.node
           p == inserter.prev[l]
<1>1. inserter.on /\ link' = [link EXCEPT ![x][l] = link[p][l], ![p][l] = x]
  BY DEF SetNext, NextLevel
<1>2. x \in Node /\ x \notin Linked(l) /\ IsPrev(p, l, x)
  <2>1. l < inserter.height /\ l <= l /\ ~ (l < l)
    BY <1>1, Numbers DEF ListInv, Inserts
  <2> QED BY <1>1, <2>1 DEF ListInv, Inserts
<1>3. /\ p \in OnLevel(l) /\ p < x /\ p \in {HeadNode} \cup Node /\ p # x
      /\ \A z \in Linked(l) : z < x => z <= p
  BY <1>2, Numbers DEF IsPrev, OnLevel, Linked, HeadNode
<1>4. link \in [{HeadNode} \cup Node -> [Levels -> Node \cup {Nil, Unset}]]
  BY DEF ListInv, TypeOK
<1>5. /\ link'[x][l] = link[p][l] /\ link'[p][l] = x
      /\ \A y \in {HeadNode} \cup Node, m \in Levels : ~ (m = l /\ y \in {x, p}) => link'[y][m] = link[y][m]
      /\ link' \in [{HeadNode} \cup Node -> [Levels -> Node \cup {Nil, Unset}]]
  <2> HIDE DEF x, p
  <2> QED BY <1>1, <1>2, <1>3, <1>4, SMTT(30)
<1>6. link[p][l] # Unset /\ x # Unset
  BY <1>2, <1>3, Numbers DEF ListInv, Chains, Linked
<1>7. Linked(l)' = Linked(l) \cup {x}
  <2> HIDE DEF x, p
  <2> QED BY <1>2, <1>3, <1>5, <1>6, Numbers DEF Linked, OnLevel
<1>8. \A m \in Levels : m # l => Linked(m)' = Linked(m)
  BY <1>5 DEF Linked
<1> QED BY <1>2, <1>3, <1>5, <1>7, <1>8

LEMMA SetNextInv ==
    ASSUME ListInv, SetNext
    PROVE  ListInv'
<1> SUFFICES ASSUME NEW l, l = inserter.level, NEW x, x = inserter.node, NEW p, p = inserter.prev[l]
             PROVE  ListInv'
  OBVIOUS
<1>1. l \in Levels /\ inserter.on /\ l < inserter.height /\ UNCHANGED <<heights, search>>
  BY DEF ListInv, TypeOK, Inserts, SetNext
<1>2. /\ x \in Node /\ p \in OnLevel(l) /\ p < x /\ x \notin Linked(l)
      /\ \A z \in Linked(l) : z < x => z <= p
      /\ link'[x][l] = link[p][l] /\ link'[p][l] = x
      /\ \A y \in {HeadNode} \cup Node, m \in Levels : ~ (m = l /\ y \in {x, p}) => link'[y][m] = link[y][m]
      /\ link' \in [{HeadNode} \cup Node -> [Levels -> Node \cup {Nil, Unset}]]
      /\ Linked(l)' = Linked(l) \cup {x}
      /\ \A m \in Levels : m # l => Linked(m)' = Linked(m)
  <2>1. /\ inserter.node \in Node /\ inserter.prev[l] \in OnLevel(l) /\ inserter.prev[l] < inserter.node
        /\ inserter.node \notin Linked(l)
        /\ \A z \in Linked(l) : z < inserter.node => z <= inserter.prev[l]
        /\ link'[inserter.node][l] = link[inserter.prev[l]][l]
        /\ link'[inserter.prev[l]][l] = inserter.node
        /\ \A y \in {HeadNode} \cup Node, m \in Levels :
           ~ (m = l /\ y \in {inserter.node, inserter.prev[l]}) => link'[y][m] = link[y][m]
        /\ link' \in [{HeadNode} \cup Node -> [Levels -> Node \cup {Nil, Unset}]]
        /\ Linked(l)' = Linked(l) \cup {inserter.node}
        /\ \A m \in Levels : m # l => Linked(m)' = Linked(m)
    BY <1>1, SetNextLinks
  <2> QED BY <2>1
<1>3. \A m \in Levels : Linked(m) \subseteq Linked(m)' /\ OnLevel(m) \subseteq OnLevel(m)'
  BY <1>2 DEF OnLevel
<1>4. Linked(0) \subseteq Linked(0)'
  BY <1>3, Numbers
<1>5. inserter' = IF l = inserter.height - 1 THEN NoInsert ELSE [inserter EXCEPT !.level = @ + 1]
  BY DEF SetNext
<1>6. TypeOK'
  <2>1. l # inserter.height - 1 => l + 1 \in Levels
    BY <1>1, SkipListAssumption DEF ListInv, TypeOK, Levels
  <2>2. NoInsert \in [on : BOOLEAN, node : {HeadNode} \cup Node, height : 1..MaxHeight,
                      prev : [Levels -> {HeadNode} \cup Node], level : Levels]
    BY SkipListAssumption, Numbers DEF NoInsert, HeadNode
  <2>3. inserter' \in [on : BOOLEAN, node : {HeadNode} \cup Node, height : 1..MaxHeight,
                       prev : [Levels -> {HeadNode} \cup Node], level : Levels]
    BY <1>5, <2>1, <2>2 DEF ListInv, TypeOK
  <2> QED BY <1>1, <1>2, <2>3 DEF ListInv, TypeOK
<1>7. Chains'
  <2> SUFFICES ASSUME NEW m \in Levels, NEW y \in OnLevel(m)'
               PROVE  /\ link'[y][m] \in Linked(m)' \cup {Nil}
                      /\ y < link'[y][m]
                      /\ \A z \in Linked(m)' : y < z => link'[y][m] <= z
    BY DEF Chains
  <2>0. y \in {HeadNode} \cup Node /\ (\A z \in Linked(m)' : z \in Node)
    BY DEF OnLevel, Linked
  <2>1. CASE m # l
    <3>1. y \in OnLevel(m) /\ Linked(m)' = Linked(m)
      BY <1>2, <2>1 DEF OnLevel
    <3>2. link'[y][m] = link[y][m]
      BY <1>2, <2>0, <2>1
    <3> QED BY <3>1, <3>2 DEF ListInv, Chains
  <2>2. CASE m = l
    <3>1. /\ link[p][l] \in Linked(l) \cup {Nil} /\ p < link[p][l]
          /\ \A z \in Linked(l) : p < z => link[p][l] <= z
      BY <1>1, <1>2 DEF ListInv, Chains
    <3>2. \A z \in Linked(l) : z \in Node
      BY DEF Linked
    <3>3. p \in {HeadNode} \cup Node
      BY <1>2 DEF OnLevel, Linked
    <3>4. x < link[p][l]
      BY <1>2, <3>1, <3>2, <3>3, Numbers DEF HeadNode
    <3>5. CASE y = x
      BY <1>2, <2>2, <3>1, <3>2, <3>3, <3>4, <3>5, Numbers DEF HeadNode
    <3>6. CASE y = p
      BY <1>2, <2>2, <3>2, <3>3, <3>6, Numbers DEF HeadNode
    <3>7. CASE y # x /\ y # p
      <4>1. y \in OnLevel(l) /\ link'[y][l] = link[y][l]
        BY <1>1, <1>2, <2>0, <2>2, <3>7 DEF OnLevel
      <4>2. /\ link[y][l] \in Linked(l) \cup {Nil} /\ y < link[y][l]
            /\ \A z \in Linked(l) : y < z => link[y][l] <= z
        BY <1>1, <4>1 DEF ListInv, Chains
      <4>3. y < x => link[y][l] <= x
        <5>1. SUFFICES ASSUME y < x PROVE link[y][l] <= x
          OBVIOUS
        <5>2. y <= p /\ p \in Node
          BY <1>2, <2>0, <3>3, <3>7, <4>1, <5>1, Numbers DEF OnLevel, HeadNode
        <5>3. p \in Linked(l) /\ y < p
          BY <1>2, <2>0, <3>7, <5>2, Numbers, SMTT(30) DEF OnLevel, HeadNode
        <5> QED BY <1>2, <2>0, <4>2, <3>2, <5>2, <5>3, Numbers
      <4> QED BY <1>2, <2>2, <4>1, <4>2, <4>3
    <3> QED BY <3>5, <3>6, <3>7
  <2> QED BY <2>1, <2>2
<1>8. Layers'
  <2> SUFFICES ASSUME NEW m \in Levels
               PROVE  Linked(m)' \subseteq Linked(0)' /\ (m > 0 => Linked(m)' \subseteq Linked(m - 1)')
    BY DEF Layers
  <2>1. m > 0 => m - 1 \in Levels /\ m - 1 < m
    BY SkipListAssumption DEF Levels
  <2>2. l > 0 => x \in Linked(0) /\ x \in Linked(l - 1)
    <3>1. l > 0 => l - 1 \in Levels /\ l - 1 < l /\ 0 < l
      BY <1>1, SkipListAssumption DEF Levels
    <3> QED BY <1>1, <3>1, Numbers DEF ListInv, Inserts
  <2>3. Linked(m) \subseteq Linked(0) /\ (m > 0 => Linked(m) \subseteq Linked(m - 1))
    BY DEF ListInv, Layers
  <2>4. CASE m # l
    BY <1>2, <1>3, <1>4, <2>1, <2>3, <2>4
  <2>5. CASE m = l
    <3>1. m = 0 \/ m > 0
      BY Numbers
    <3> QED BY <1>2, <1>3, <1>4, <2>1, <2>2, <2>3, <2>5, <3>1
  <2> QED BY <2>4, <2>5
<1>9. Inserts'
  <2>1. CASE l = inserter.height - 1
    BY <1>5, <2>1 DEF Inserts, NoInsert
  <2>2. CASE l # inserter.height - 1
    <3>1. /\ inserter'.node = x /\ inserter'.level = l + 1 /\ inserter'.height = inserter.height
          /\ inserter'.prev = inserter.prev /\ l + 1 < inserter.height
      BY <1>1, <1>5, <2>2, SkipListAssumption DEF ListInv, TypeOK, Levels
    <3>2. \A m \in Levels : x \in Linked(m)' <=> m < l + 1
      <4>1. \A m \in Levels : x \in Linked(m) <=> m < l
        BY <1>1 DEF ListInv, Inserts
      <4>2. \A m \in Levels : m < l + 1 <=> m < l \/ m = l
        BY <1>1, Numbers
      <4> QED BY <1>1, <1>2, <4>1, <4>2
    <3>3. \A m \in Levels : l + 1 <= m /\ m < inserter.height => IsPrev(inserter.prev[m], m, x)'
      <4> SUFFICES ASSUME NEW m \in Levels, l + 1 <= m, m < inserter.height
                   PROVE  IsPrev(inserter.prev[m], m, x)'
        OBVIOUS
      <4>1. l <= m /\ m # l
        BY <1>1, Numbers
      <4>2. IsPrev(inserter.prev[m], m, x)
        BY <1>1, <4>1 DEF ListInv, Inserts
      <4>3. inserter'.prev[m] = inserter.prev[m] /\ inserter'.node = x
        BY <3>1
      <4>4. Linked(m)' = Linked(m)
        BY <1>2, <4>1
      <4> QED BY <4>2, <4>3, <4>4 DEF IsPrev
    <3> QED BY <1>2, <3>1, <3>2, <3>3 DEF Inserts, IsPrev
  <2> QED BY <2>1, <2>2
<1>10. Searches' /\ SearchRight'
  <2>1. search'.level \in Levels
    BY <1>1 DEF ListInv, TypeOK
  <2> QED BY <1>1, <1>3, <1>4, <2>1 DEF ListInv, Searches, SearchRight, Valid
<1> QED BY <1>6, <1>7, <1>8, <1>9, <1>10 DEF ListInv

-----------------------------------------------------------------------------
LEMMA FindInv ==
    ASSUME ListInv, NEW forward \in BOOLEAN, NEW key \in 1..Nil, Find(forward, key)
    PROVE  ListInv'
<1>1. PICK height \in heights :
          search' = [search EXCEPT !.on = TRUE, !.forward = forward, !.key = key, !.at = HeadNode,
                                   !.level = height - 1, !.present = Linked(0)]
  BY DEF Find
<1>2. UNCHANGED <<link, heights, inserter>>
  BY DEF Find
<1>3. /\ \A l \in Levels : Linked(l)' = Linked(l) /\ OnLevel(l)' = OnLevel(l)
      /\ Chains' /\ Layers' /\ Linked(0)' = Linked(0)
  BY SameLinks, <1>2, Numbers
<1>4. height - 1 \in Levels
  BY SkipListAssumption DEF ListInv, TypeOK, Levels
<1>5. search'.on /\ search'.present = Linked(0) /\ search'.at = HeadNode /\ search'.key = key
  BY <1>1 DEF ListInv, TypeOK
<1>6. TypeOK'
  <2>1. Linked(0) \subseteq Node
    BY DEF Linked
  <2>2. search' \in [on : BOOLEAN, forward : BOOLEAN, key : 1..Nil, at : {HeadNode} \cup Node, level : Levels,
                     present : SUBSET Node, node : 1..Nil]
    BY <1>1, <1>4, <2>1 DEF ListInv, TypeOK
  <2> QED BY <1>2, <2>2 DEF ListInv, TypeOK
<1>7. Inserts'
  BY <1>2, <1>3 DEF ListInv, Inserts, IsPrev
<1>8. Searches' /\ SearchRight'
  BY <1>3, <1>5, Numbers DEF Searches, SearchRight, OnLevel, HeadNode
<1> QED BY <1>3, <1>6, <1>7, <1>8 DEF ListInv

LEMMA FollowInv ==
    ASSUME ListInv, NEW from \in {HeadNode} \cup Node, from \in OnLevel(0), NEW key \in 1..Nil, key = from + 1,
           Follow(key, from)
    PROVE  ListInv'
<1>1. /\ search' = [search EXCEPT !.forward = TRUE, !.key = key, !.present = Linked(0),
                                  !.node = link[from][0]]
      /\ UNCHANGED <<link, heights, inserter>> /\ ~ search.on
  BY DEF Follow
<1>2. /\ \A l \in Levels : Linked(l)' = Linked(l) /\ OnLevel(l)' = OnLevel(l)
      /\ Chains' /\ Layers' /\ Linked(0)' = Linked(0)
  BY SameLinks, <1>1, Numbers
<1>3. /\ link[from][0] \in Linked(0) \cup {Nil} /\ from < link[from][0]
      /\ \A y \in Linked(0) : from < y => link[from][0] <= y
  BY Numbers DEF ListInv, Chains
<1>4. Linked(0) \subseteq Node
  BY DEF Linked
<1>5. link[from][0] \in 1..Nil
  BY <1>3, <1>4, Numbers, SMT DEF Node, Nil
<1>6. /\ ~ search'.on /\ search'.forward /\ search'.key = key /\ search'.present = Linked(0)
      /\ search'.node = link[from][0] /\ search'.at = search.at
  BY <1>1 DEF ListInv, TypeOK
<1>7. TypeOK'
  <2>1. search' \in [on : BOOLEAN, forward : BOOLEAN, key : 1..Nil, at : {HeadNode} \cup Node, level : Levels,
                     present : SUBSET Node, node : 1..Nil]
    BY <1>1, <1>4, <1>5 DEF ListInv, TypeOK
  <2> QED BY <1>1, <2>1 DEF ListInv, TypeOK
<1>8. Inserts'
  BY <1>1, <1>2 DEF ListInv, Inserts, IsPrev
<1>9. Searches'
  BY <1>2, <1>6 DEF Searches
<1>10. SearchRight'
  <2>1. link[from][0] \in Node => link[from][0] \in Linked(0)
    BY <1>3, Numbers
  <2>2. \A x \in Linked(0) : x >= key => from < x
    BY <1>4, Numbers DEF HeadNode
  <2>3. from + 1 <= link[from][0]
    BY <1>3, <1>5, Numbers DEF HeadNode
  <2> QED BY <1>2, <1>3, <1>4, <1>6, <2>1, <2>2, <2>3, Numbers DEF ListInv, SearchRight, Valid
<1> QED BY <1>2, <1>7, <1>8, <1>9, <1>10 DEF ListInv

\* A load goes on along the level, goes down, or ends the search at the two
\* nodes of the lowest level that the key is between.
LEMMA LoadInv ==
    ASSUME ListInv, Load
    PROVE  ListInv'
<1> DEFINE at == search.at
           next == link[search.at][search.level]
<1>1. search.on /\ UNCHANGED <<link, heights, inserter>>
  BY DEF Load
<1>2. /\ \A l \in Levels : Linked(l)' = Linked(l) /\ OnLevel(l)' = OnLevel(l)
      /\ Chains' /\ Layers' /\ Linked(0)' = Linked(0)
  BY SameLinks, <1>1, Numbers
<1>3. search.level \in Levels /\ at \in OnLevel(search.level) /\ at < search.key
  BY <1>1 DEF ListInv, TypeOK, Searches
<1>4. /\ next \in Linked(search.level) \cup {Nil} /\ at < next
      /\ \A y \in Linked(search.level) : at < y => next <= y
  BY <1>3 DEF ListInv, Chains
<1>5. /\ Linked(search.level) \subseteq Node /\ Linked(0) \subseteq Node /\ search.key \in 1..Nil
      /\ next \in Node \cup {Nil} /\ at \in {HeadNode} \cup Node
  BY <1>3, <1>4 DEF Linked, OnLevel, ListInv, TypeOK
<1>6. Inserts'
  BY <1>1, <1>2 DEF ListInv, Inserts, IsPrev
<1>7. TypeOK' /\ Searches' /\ SearchRight'
  <2>1. CASE next < search.key
    <3>1. search' = [search EXCEPT !.at = next]
      BY <1>5, <2>1, Numbers, SMT DEF Load
    <3>2. next \in Linked(search.level) /\ next \in Node
      BY <1>4, <1>5, <2>1, Numbers
    <3> HIDE DEF next
    <3>3. TypeOK'
      BY <1>1, <3>1, <3>2 DEF ListInv, TypeOK
    <3>4. search'.level = search.level /\ search'.at = next /\ search'.key = search.key /\ search'.on
          /\ search'.present = search.present
      BY <1>1, <3>1 DEF ListInv, TypeOK
    <3> QED BY <1>2, <1>3, <2>1, <3>2, <3>3, <3>4, Numbers DEF ListInv, Searches, SearchRight, OnLevel
  <2>2. CASE next >= search.key /\ search.level > 0
    <3>1. search' = [search EXCEPT !.level = @ - 1]
      BY <1>5, <2>2, Numbers, SMT DEF Load
    <3>2. search.level - 1 \in Levels /\ at \in OnLevel(search.level - 1)
      <4>1. search.level - 1 \in Levels
        BY <1>3, <2>2, SkipListAssumption DEF Levels
      <4> QED BY <1>3, <2>2, <4>1 DEF ListInv, Layers, OnLevel
    <3>3. TypeOK'
      BY <1>1, <3>1, <3>2 DEF ListInv, TypeOK
    <3>4. search'.level = search.level - 1 /\ search'.at = at /\ search'.key = search.key /\ search'.on
          /\ search'.present = search.present
      BY <1>1, <3>1 DEF ListInv, TypeOK
    <3> QED BY <1>2, <1>3, <3>2, <3>3, <3>4, Numbers DEF ListInv, Searches, SearchRight
  <2>3. CASE next >= search.key /\ search.level = 0
    <3> DEFINE result == IF search.forward THEN next ELSE at
               node == IF result = HeadNode THEN Nil ELSE result
    <3>1. search' = [search EXCEPT !.on = FALSE, !.at = HeadNode, !.node = node]
      BY <1>5, <2>3, Numbers, SMT DEF Load
    <3>2. node \in 1..Nil /\ (node \in Node => node \in Linked(0) /\ node = result)
      BY <1>3, <1>4, <1>5, <2>3, Numbers DEF OnLevel, Nil, Node, HeadNode
    <3>3. TypeOK'
      <4> HIDE DEF node
      <4> QED BY <1>1, <3>1, <3>2 DEF ListInv, TypeOK
    <3>4. /\ search'.at = HeadNode /\ search'.key = search.key /\ ~ search'.on
          /\ search'.present = search.present /\ search'.node = node /\ search'.forward = search.forward
      <4> HIDE DEF node
      <4> QED BY <3>1 DEF ListInv, TypeOK
    <3>5. search.present \subseteq Linked(0)
      BY DEF ListInv, Searches
    <3>6. ASSUME NEW x \in search.present
          PROVE  IF search.forward THEN x >= search.key => node <= x
                 ELSE x < search.key => node \in Node /\ x <= node
      <4>1. x \in Linked(0) /\ x \in Node
        BY <1>5, <3>5
      <4>2. at < x => next <= x
        BY <1>4, <2>3, <4>1
      <4>3. x \in Nat /\ x > 0 /\ x < Nil /\ search.key \in Nat /\ next \in Nat /\ at \in Nat /\ Nil \in Nat
        BY <1>5, <4>1, Numbers DEF Nil, Node, HeadNode
      <4>4. CASE search.forward
        BY <1>3, <1>4, <4>2, <4>3, <4>4 DEF HeadNode
      <4>5. CASE ~ search.forward
        BY <1>3, <1>5, <2>3, <4>2, <4>3, <4>5 DEF HeadNode
      <4> QED BY <4>4, <4>5
    <3>7. node \in Node => IF search.forward THEN node >= search.key ELSE node < search.key
      BY <1>3, <1>5, <2>3, <3>2, Numbers
    <3> HIDE DEF node
    <3> QED BY <1>2, <3>2, <3>3, <3>4, <3>5, <3>6, <3>7, Numbers DEF Searches, SearchRight, Valid
  <2>4. next < search.key \/ (next >= search.key /\ search.level > 0) \/ (next >= search.key /\ search.level = 0)
    BY <1>3, <1>5, Numbers, SMT DEF Nil, Node, Levels
  <2> QED BY <2>1, <2>2, <2>3, <2>4
<1> QED BY <1>2, <1>6, <1>7 DEF ListInv

-----------------------------------------------------------------------------
LEMMA StepInv == ListInv /\ [Next]_vars => ListInv'
<1> SUFFICES ASSUME ListInv, [Next]_vars PROVE ListInv'
  OBVIOUS
<1>1. ASSUME NEW x \in Node, NEW height \in 1..MaxHeight, Insert(x, height) PROVE ListInv'
  BY <1>1, InsertInv
<1>2. CASE SetNext
  BY <1>2, SetNextInv
<1>3. ASSUME NEW x \in Node, Seek(x) PROVE ListInv'
  <2>1. x \in 1..Nil
    BY Numbers DEF Node, Nil
  <2> QED BY <1>3, <2>1, FindInv DEF Seek
<1>4. CASE Prev
  <2>1. search.node \in 1..Nil
    BY DEF ListInv, TypeOK
  <2> QED BY <1>4, <2>1, FindInv DEF Prev
<1>5. CASE SeekToLast
  <2>1. Nil \in 1..Nil
    BY Numbers
  <2> QED BY <1>5, <2>1, FindInv DEF SeekToLast
<1>6. CASE SeekToFirst
  <2>1. HeadNode \in OnLevel(0) /\ 1 \in 1..Nil /\ 1 = HeadNode + 1
    BY Numbers DEF OnLevel, HeadNode
  <2> QED BY <1>6, <2>1, FollowInv DEF SeekToFirst
<1>7. CASE NextNode
  <2>1. search.node \in Node /\ ~ search.on /\ Follow(search.node + 1, search.node)
    BY <1>7 DEF NextNode, Valid, Follow
  <2>2. search.node \in OnLevel(0)
    BY <2>1 DEF ListInv, SearchRight, Valid, OnLevel
  <2>3. search.node + 1 \in 1..Nil
    BY <2>1, Numbers
  <2> QED BY <2>1, <2>2, <2>3, FollowInv
<1>8. CASE Load
  BY <1>8, LoadInv
<1>9. CASE UNCHANGED vars
  <2>1. UNCHANGED <<link, heights, inserter, search>>
    BY <1>9 DEF vars
  <2>2. /\ \A l \in Levels : Linked(l)' = Linked(l) /\ OnLevel(l)' = OnLevel(l)
        /\ Chains' /\ Layers' /\ Linked(0)' = Linked(0)
    BY SameLinks, <2>1, Numbers
  <2>3. TypeOK' /\ Inserts'
    BY <2>1, <2>2 DEF ListInv, TypeOK, Inserts, IsPrev
  <2>4. Searches' /\ SearchRight'
    <3>1. search.level \in Levels
      BY DEF ListInv, TypeOK
    <3> QED BY <2>1, <2>2, <3>1 DEF ListInv, Searches, SearchRight, Valid
  <2> QED BY <2>2, <2>3, <2>4 DEF ListInv
<1> QED BY <1>1, <1>2, <1>3, <1>4, <1>5, <1>6, <1>7, <1>8, <1>9 DEF Next

-----------------------------------------------------------------------------
(* A search of a skip list that is inserted into at the same time ends at  *)
(* the right place among what was there when it began, and never reads a   *)
(* link that was not written.                                              *)
THEOREM SearchIsRight == Spec => []SearchRight
<1>1. ListInv => SearchRight
  BY DEF ListInv
<1> QED BY <1>1, InitInv, StepInv, PTL DEF Spec

-----------------------------------------------------------------------------
(***************************************************************************)
(* The platform.  The inductive invariant: the processes whose threads are *)
(* between the insertion into locks_ and its removal are in lockedIn, one  *)
(* thread each; the lock of the kernel is that of the thread that holds    *)
(* the file, unless a close dropped it; and what the limits allow is what  *)
(* they began with less the mappings and descriptors in use.               *)
(***************************************************************************)
Users(places) == {t \in Thread : pc[t] \in places}

Places == {"idle", "opened", "refused", "inserted", "failed", "closed", "locked", "unlocked", "removed",
           "mmap?", "mmap!", "maps", "mapped", "fd?", "fd!", "open", "temporary"}
Holding == {"inserted", "failed", "closed", "locked", "unlocked"}

LocksHeld ==
    /\ pc \in [Thread -> Places]
    /\ \A t, u \in Thread : /\ pc[t] \in Holding => ProcessOf[t] \in lockedIn
                            /\ pc[t] \in Holding /\ pc[u] \in Holding /\ t # u =>
                                  ProcessOf[t] # ProcessOf[u]
                            /\ pc[t] = "locked" => dropped \/ kernel = {ProcessOf[t]}

LimitsHeld ==
    /\ allowed \in [{"mmap", "fd"} -> Nat]
    /\ allowed["mmap"] = Limit["mmap"] - Cardinality(Users({"maps", "mapped"}))
    /\ allowed["fd"] = Limit["fd"] - Cardinality(Users({"open"}))

EnvInv == LocksHeld /\ LimitsHeld /\ Env!WorkSeen

-----------------------------------------------------------------------------
(* The instance names its own copies of the operators of FiniteSets. *)
LEMMA SameCardinality == \A S : Env!Cardinality(S) = Cardinality(S)
  BY DEF Env!Cardinality, Cardinality

LEMMA SameFinite == \A S : Env!IsFiniteSet(S) <=> IsFiniteSet(S)
  BY DEF Env!IsFiniteSet, IsFiniteSet

LEMMA EnvConstants ==
    IsFiniteSet(Thread) /\ DOMAIN ProcessOf = Thread /\ Limit \in [{"mmap", "fd"} -> Nat]
  BY StorageAssumption, SameFinite DEF Env!EnvAssumption

LEMMA EnvShows == EnvInv => Env!LockExclusive /\ Env!WithinLimits /\ Env!WorkSeen
<1> SUFFICES ASSUME EnvInv PROVE Env!LockExclusive /\ Env!WithinLimits
  BY DEF EnvInv
<1>1. Env!LockExclusive
  BY DEF EnvInv, LocksHeld, Holding, Env!LockExclusive
<1>2. Env!WithinLimits
  <2>1. /\ Users({"maps", "mapped"}) = {t \in Thread : pc[t] \in {"maps", "mapped"}}
        /\ Users({"open"}) = {t \in Thread : pc[t] = "open"}
    BY DEF Users
  <2>2. allowed["mmap"] >= 0 /\ allowed["fd"] >= 0
    BY SMT DEF EnvInv, LimitsHeld
  <2> QED BY <2>1, <2>2, SameCardinality DEF EnvInv, LimitsHeld, Env!WithinLimits
<1> QED BY <1>1, <1>2

(* t alone is somewhere else after a step. *)
Moves(t) == pc \in [Thread -> Places] /\ pc' = [pc EXCEPT ![t] = pc'[t]]

LEMMA UserMoves ==
    ASSUME NEW t \in Thread, Moves(t), NEW places
    PROVE  /\ Cardinality(Users(places)) \in Nat
           /\ Cardinality(Users(places)') =
                 Cardinality(Users(places)) + (IF pc'[t] \in places THEN 1 ELSE 0)
                                            - (IF pc[t] \in places THEN 1 ELSE 0)
<1> DEFINE before == Users(places)
           after == Users(places)'
<1>1. IsFiniteSet(before) /\ IsFiniteSet(after)
  <2>1. before \subseteq Thread /\ after \subseteq Thread
    BY DEF Users
  <2> QED BY <2>1, EnvConstants, FS_Subset
<1>2. Cardinality(before) \in Nat /\ Cardinality(after) \in Nat
  BY <1>1, FS_CardinalityType
<1>3. \A u \in Thread : u # t => pc'[u] = pc[u]
  BY DEF Moves
<1>4. CASE pc'[t] \in places /\ pc[t] \in places
  <2>1. after = before
    BY <1>3, <1>4 DEF Users
  <2> QED BY <2>1, <1>2, <1>4
<1>5. CASE pc'[t] \in places /\ pc[t] \notin places
  <2>1. after = before \cup {t} /\ t \notin before
    BY <1>3, <1>5 DEF Users
  <2>2. Cardinality(after) = Cardinality(before) + 1
    BY <2>1, <1>1, FS_AddElement
  <2> QED BY <2>2, <1>2, <1>5
<1>6. CASE pc'[t] \notin places /\ pc[t] \in places
  <2>1. after = before \ {t} /\ t \in before
    BY <1>3, <1>6 DEF Users
  <2>2. Cardinality(after) = Cardinality(before) - 1
    BY <2>1, <1>1, FS_RemoveElement
  <2> QED BY <2>2, <1>2, <1>6
<1>7. CASE pc'[t] \notin places /\ pc[t] \notin places
  <2>1. after = before
    BY <1>3, <1>7 DEF Users
  <2> QED BY <2>1, <1>2, <1>7
<1> QED BY <1>4, <1>5, <1>6, <1>7

LEMMA LimitsMove ==
    ASSUME LimitsHeld, NEW t \in Thread, Moves(t), allowed' \in [{"mmap", "fd"} -> Nat],
           allowed'["mmap"] = allowed["mmap"] + (IF pc[t] \in {"maps", "mapped"} THEN 1 ELSE 0)
                                              - (IF pc'[t] \in {"maps", "mapped"} THEN 1 ELSE 0),
           allowed'["fd"] = allowed["fd"] + (IF pc[t] \in {"open"} THEN 1 ELSE 0)
                                          - (IF pc'[t] \in {"open"} THEN 1 ELSE 0)
    PROVE  LimitsHeld'
<1> DEFINE Maps == {"maps", "mapped"}
           Opens == {"open"}
<1>1. Limit["mmap"] \in Nat /\ Limit["fd"] \in Nat
  BY EnvConstants
<1>2. /\ allowed["mmap"] = Limit["mmap"] - Cardinality(Users(Maps))
      /\ allowed["fd"] = Limit["fd"] - Cardinality(Users(Opens))
      /\ allowed'["mmap"] = allowed["mmap"] + (IF pc[t] \in Maps THEN 1 ELSE 0)
                                            - (IF pc'[t] \in Maps THEN 1 ELSE 0)
      /\ allowed'["fd"] = allowed["fd"] + (IF pc[t] \in Opens THEN 1 ELSE 0)
                                        - (IF pc'[t] \in Opens THEN 1 ELSE 0)
  BY DEF LimitsHeld
<1>3. /\ Cardinality(Users(Maps)) \in Nat /\ Cardinality(Users(Opens)) \in Nat
      /\ Cardinality(Users(Maps)') = Cardinality(Users(Maps)) + (IF pc'[t] \in Maps THEN 1 ELSE 0)
                                                             - (IF pc[t] \in Maps THEN 1 ELSE 0)
      /\ Cardinality(Users(Opens)') = Cardinality(Users(Opens)) + (IF pc'[t] \in Opens THEN 1 ELSE 0)
                                                               - (IF pc[t] \in Opens THEN 1 ELSE 0)
  BY UserMoves
<1>4. /\ allowed'["mmap"] = Limit["mmap"] - Cardinality(Users(Maps)')
      /\ allowed'["fd"] = Limit["fd"] - Cardinality(Users(Opens)')
  <2> HIDE DEF Maps, Opens
  <2> QED BY <1>1, <1>2, <1>3
<1> QED BY <1>4 DEF LimitsHeld

LEMMA LimitsStay ==
    ASSUME LimitsHeld, NEW t \in Thread, Moves(t), UNCHANGED allowed,
           pc[t] \in {"maps", "mapped"} <=> pc'[t] \in {"maps", "mapped"},
           pc[t] = "open" <=> pc'[t] = "open"
    PROVE  LimitsHeld'
<1>1. allowed' \in [{"mmap", "fd"} -> Nat] /\ allowed["mmap"] \in Nat /\ allowed["fd"] \in Nat
  BY DEF LimitsHeld
<1>2. /\ allowed'["mmap"] = allowed["mmap"] + (IF pc[t] \in {"maps", "mapped"} THEN 1 ELSE 0)
                                            - (IF pc'[t] \in {"maps", "mapped"} THEN 1 ELSE 0)
      /\ allowed'["fd"] = allowed["fd"] + (IF pc[t] \in {"open"} THEN 1 ELSE 0)
                                        - (IF pc'[t] \in {"open"} THEN 1 ELSE 0)
  BY <1>1
<1> QED BY <1>1, <1>2, LimitsMove DEF LocksHeld, Places, Env!Goes, Moves

LEMMA EnvInit == Env!Init => EnvInv
<1> SUFFICES ASSUME Env!Init PROVE EnvInv
  OBVIOUS
<1>1. LocksHeld
  BY DEF Env!Init, LocksHeld, Places, Holding
<1>2. LimitsHeld
  <2>1. Users({"maps", "mapped"}) = {} /\ Users({"open"}) = {}
    BY DEF Env!Init, Users
  <2>2. Limit["mmap"] \in Nat /\ Limit["fd"] \in Nat /\ allowed = Limit
    BY EnvConstants DEF Env!Init
  <2>3. Cardinality({}) = 0
    BY FS_EmptySet
  <2>4. /\ allowed["mmap"] = Limit["mmap"] - Cardinality(Users({"maps", "mapped"}))
        /\ allowed["fd"] = Limit["fd"] - Cardinality(Users({"open"}))
    <3>1. Cardinality(Users({"maps", "mapped"})) = 0 /\ Cardinality(Users({"open"})) = 0
      BY <2>1, <2>3, Zenon
    <3> QED BY <3>1, <2>2
  <2> QED BY <2>2, <2>4, EnvConstants DEF LimitsHeld
<1>3. Env!WorkSeen
  BY DEF Env!Init, Env!WorkSeen
<1> QED BY <1>1, <1>2, <1>3 DEF EnvInv

(* The calls of LockFile and UnlockFile. *)
LEMMA LockStep ==
    ASSUME EnvInv, NEW t \in Thread,
           Env!LockFile(t) \/ Env!Insert(t) \/ Env!LockOrUnlock(t) \/ Env!Close(t)
               \/ Env!UnlockFile(t) \/ Env!Remove(t)
    PROVE  EnvInv'
<1>1. LocksHeld /\ LimitsHeld /\ Env!WorkSeen
  BY DEF EnvInv
<1>2. CASE Env!LockFile(t)
  <2>1. Env!Goes(t, "idle", "opened") /\ UNCHANGED <<lockedIn, kernel, dropped, allowed, queue, bgthread>>
    BY <1>2 DEF Env!LockFile, Env!Starts, Env!locks, Env!work
  <2>2. LocksHeld'
    BY <1>1, <2>1 DEF LocksHeld, Places, Holding, Env!Goes
  <2>3. LimitsHeld'
    BY <1>1, <2>1, LimitsStay DEF LocksHeld, Places, Env!Goes, Moves
  <2> QED BY <1>1, <2>1, <2>2, <2>3 DEF EnvInv, Env!WorkSeen
<1>3. CASE Env!Insert(t)
  <2> DEFINE to == IF ProcessOf[t] \in lockedIn THEN "refused" ELSE "inserted"
  <2>1. /\ Env!Goes(t, "opened", to) /\ lockedIn' = lockedIn \cup {ProcessOf[t]}
        /\ UNCHANGED <<kernel, dropped, allowed, queue, bgthread>>
    BY <1>3 DEF Env!Insert, Env!work
  <2>2. LocksHeld'
    BY <1>1, <2>1 DEF LocksHeld, Places, Holding, Env!Goes
  <2>3. LimitsHeld'
    BY <1>1, <2>1, LimitsStay DEF LocksHeld, Places, Env!Goes, Moves
  <2> QED BY <1>1, <2>1, <2>2, <2>3 DEF EnvInv, Env!WorkSeen
<1>4. CASE Env!LockOrUnlock(t)
  <2> DEFINE to == IF kernel \subseteq {ProcessOf[t]} THEN "locked" ELSE "failed"
  <2>1. /\ Env!Goes(t, "inserted", to)
        /\ kernel' = IF kernel = {} THEN {ProcessOf[t]} ELSE kernel
        /\ UNCHANGED <<lockedIn, dropped, allowed, queue, bgthread>>
    BY <1>4 DEF Env!LockOrUnlock, Env!work
  <2>2. LocksHeld'
    BY <1>1, <2>1 DEF LocksHeld, Places, Holding, Env!Goes
  <2>3. LimitsHeld'
    BY <1>1, <2>1, LimitsStay DEF LocksHeld, Places, Env!Goes, Moves
  <2> QED BY <1>1, <2>1, <2>2, <2>3 DEF EnvInv, Env!WorkSeen
<1>5. ASSUME NEW from \in {"refused", "failed", "removed"}, NEW to \in {"idle", "closed"},
             Env!Closes(t, from, to), to = "closed" <=> from = "failed"
      PROVE  EnvInv'
  <2>1. /\ Env!Goes(t, from, to) /\ kernel' = kernel \ {ProcessOf[t]}
        /\ dropped' = (dropped \/ ProcessOf[t] \in kernel)
        /\ UNCHANGED <<lockedIn, allowed, queue, bgthread>>
    BY <1>5 DEF Env!Closes, Env!work
  <2>2. LocksHeld'
    BY <1>1, <1>5, <2>1 DEF LocksHeld, Places, Holding, Env!Goes
  <2>3. LimitsHeld'
    BY <1>1, <1>5, <2>1, LimitsStay DEF LocksHeld, Places, Env!Goes, Moves
  <2> QED BY <1>1, <2>1, <2>2, <2>3 DEF EnvInv, Env!WorkSeen
<1>6. CASE Env!Close(t)
  BY <1>5, <1>6 DEF Env!Close
<1>7. CASE Env!UnlockFile(t)
  <2>1. /\ Env!Goes(t, "locked", "unlocked") /\ kernel' = kernel \ {ProcessOf[t]}
        /\ UNCHANGED <<lockedIn, dropped, allowed, queue, bgthread>>
    BY <1>7 DEF Env!UnlockFile, Env!work
  <2>2. LocksHeld'
    BY <1>1, <2>1 DEF LocksHeld, Places, Holding, Env!Goes
  <2>3. LimitsHeld'
    BY <1>1, <2>1, LimitsStay DEF LocksHeld, Places, Env!Goes, Moves
  <2> QED BY <1>1, <2>1, <2>2, <2>3 DEF EnvInv, Env!WorkSeen
<1>8. CASE Env!Remove(t)
  <2>1. /\ Env!Goes(t, "unlocked", "removed") \/ Env!Goes(t, "closed", "idle")
        /\ lockedIn' = lockedIn \ {ProcessOf[t]}
        /\ UNCHANGED <<kernel, dropped, allowed, queue, bgthread>>
    BY <1>8 DEF Env!Remove, Env!work
  <2>2. LocksHeld'
    BY <1>1, <2>1 DEF LocksHeld, Places, Holding, Env!Goes
  <2>3. LimitsHeld'
    BY <1>1, <2>1, LimitsStay DEF LocksHeld, Places, Env!Goes, Moves
  <2> QED BY <1>1, <2>1, <2>2, <2>3 DEF EnvInv, Env!WorkSeen
<1> QED BY <1>2, <1>3, <1>4, <1>6, <1>7, <1>8

(* NewRandomAccessFile and what it returns. *)
LEMMA FileStep ==
    ASSUME EnvInv, NEW t \in Thread,
           Env!NewRandomAccessFile(t) \/ Env!Acquire(t) \/ Env!Mapped(t) \/ Env!Release(t)
    PROVE  EnvInv'
<1>1. LocksHeld /\ LimitsHeld /\ Env!WorkSeen
  BY DEF EnvInv
<1>2. allowed \in [{"mmap", "fd"} -> Nat] /\ allowed["mmap"] \in Nat /\ allowed["fd"] \in Nat
  BY <1>1 DEF LimitsHeld
<1>3. UNCHANGED <<lockedIn, kernel, dropped, queue, bgthread>>
  BY DEF Env!NewRandomAccessFile, Env!Acquire, Env!Look, Env!Take, Env!Mapped, Env!Release, Env!Files,
         Env!locks, Env!work
<1> DEFINE Files == {"idle", "mmap?", "mmap!", "fd?", "fd!", "temporary", "maps", "mapped", "open"}
<1>4. ASSUME pc[t] \in Files, pc'[t] \in Files, Moves(t), LimitsHeld'
      PROVE  EnvInv'
  <2>1. LocksHeld'
    BY <1>1, <1>3, <1>4 DEF LocksHeld, Places, Holding, Moves
  <2> QED BY <1>1, <1>3, <1>4, <2>1 DEF EnvInv, Env!WorkSeen
<1>5. CASE Env!NewRandomAccessFile(t)
  <2>1. Env!Goes(t, "idle", "mmap?") /\ UNCHANGED allowed
    BY <1>5 DEF Env!NewRandomAccessFile, Env!Starts
  <2>2. LimitsHeld'
    BY <1>1, <2>1, LimitsStay DEF LocksHeld, Places, Env!Goes, Moves
  <2> QED BY <1>1, <1>4, <2>1, <2>2 DEF LocksHeld, Places, Env!Goes, Moves
<1>6. ASSUME NEW r \in {"mmap", "fd"}, NEW asks \in {"mmap?", "fd?"}, NEW sees \in {"mmap!", "fd!"},
             NEW refused \in {"fd?", "temporary"}, Env!Look(t, r, asks, sees, refused)
      PROVE  EnvInv'
  <2>1. PICK to \in {"mmap!", "fd!", "fd?", "temporary"} : Env!Goes(t, asks, to) /\ UNCHANGED allowed
    BY <1>6 DEF Env!Look
  <2>2. LimitsHeld'
    BY <1>1, <2>1, LimitsStay DEF LocksHeld, Places, Env!Goes, Moves
  <2> QED BY <1>1, <1>4, <2>1, <2>2 DEF LocksHeld, Places, Env!Goes, Moves
<1>7. ASSUME NEW r \in {"mmap", "fd"}, NEW sees \in {"mmap!", "fd!"}, NEW taken \in {"maps", "open"},
             NEW refused \in {"fd?", "temporary"}, taken = "maps" <=> r = "mmap",
             Env!Take(t, r, sees, taken, refused)
      PROVE  EnvInv'
  <2>1. CASE allowed[r] <= 0
    <3>1. Env!Goes(t, sees, refused) /\ UNCHANGED allowed
      BY <1>7, <2>1 DEF Env!Take
    <3>2. LimitsHeld'
      BY <1>1, <3>1, LimitsStay DEF LocksHeld, Places, Env!Goes, Moves
    <3> QED BY <1>1, <1>4, <3>1, <3>2 DEF LocksHeld, Places, Env!Goes, Moves
  <2>2. CASE ~ allowed[r] <= 0
    <3>1. Env!Goes(t, sees, taken) /\ allowed' = [allowed EXCEPT ![r] = @ - 1]
      BY <1>7, <2>2 DEF Env!Take
    <3>2. allowed[r] - 1 \in Nat
      BY <1>2, <2>2
    <3>3. allowed' \in [{"mmap", "fd"} -> Nat]
      BY <1>2, <3>1, <3>2
    <3>4. /\ r = "mmap" => allowed'["mmap"] = allowed["mmap"] - 1 /\ allowed'["fd"] = allowed["fd"]
          /\ r = "fd" => allowed'["fd"] = allowed["fd"] - 1 /\ allowed'["mmap"] = allowed["mmap"]
      BY <1>2, <3>1
    <3>5. /\ allowed'["mmap"] = allowed["mmap"] + (IF pc[t] \in {"maps", "mapped"} THEN 1 ELSE 0)
                                                - (IF pc'[t] \in {"maps", "mapped"} THEN 1 ELSE 0)
          /\ allowed'["fd"] = allowed["fd"] + (IF pc[t] \in {"open"} THEN 1 ELSE 0)
                                            - (IF pc'[t] \in {"open"} THEN 1 ELSE 0)
      BY <1>1, <1>2, <1>7, <3>1, <3>4 DEF LocksHeld, Env!Goes
    <3>6. LimitsHeld'
      BY <1>1, <3>1, <3>3, <3>5, LimitsMove DEF LocksHeld, Places, Env!Goes, Moves
    <3> QED BY <1>1, <1>4, <3>1, <3>6 DEF LocksHeld, Places, Env!Goes, Moves
  <2> QED BY <2>1, <2>2
<1>8. CASE Env!Acquire(t)
  BY <1>6, <1>7, <1>8 DEF Env!Acquire
<1>9. CASE Env!Mapped(t)
  <2>1. Env!Goes(t, "maps", "mapped") /\ UNCHANGED allowed
    BY <1>9 DEF Env!Mapped
  <2>2. LimitsHeld'
    BY <1>1, <2>1, LimitsStay DEF LocksHeld, Places, Env!Goes, Moves
  <2> QED BY <1>1, <1>4, <2>1, <2>2 DEF LocksHeld, Places, Env!Goes, Moves
<1>10. ASSUME NEW r \in {"mmap", "fd"}, NEW from \in {"maps", "mapped", "open"}, Env!Goes(t, from, "idle"),
              from = "open" <=> r = "fd", allowed' = [allowed EXCEPT ![r] = @ + 1]
       PROVE  EnvInv'
  <2>1. allowed' \in [{"mmap", "fd"} -> Nat]
    BY <1>2, <1>10
  <2>2. /\ r = "mmap" => allowed'["mmap"] = allowed["mmap"] + 1 /\ allowed'["fd"] = allowed["fd"]
        /\ r = "fd" => allowed'["fd"] = allowed["fd"] + 1 /\ allowed'["mmap"] = allowed["mmap"]
    BY <1>2, <1>10
  <2>3. /\ allowed'["mmap"] = allowed["mmap"] + (IF pc[t] \in {"maps", "mapped"} THEN 1 ELSE 0)
                                              - (IF pc'[t] \in {"maps", "mapped"} THEN 1 ELSE 0)
        /\ allowed'["fd"] = allowed["fd"] + (IF pc[t] \in {"open"} THEN 1 ELSE 0)
                                          - (IF pc'[t] \in {"open"} THEN 1 ELSE 0)
    BY <1>1, <1>2, <1>10, <2>2 DEF LocksHeld, Env!Goes
  <2>4. LimitsHeld'
    BY <1>1, <1>10, <2>1, <2>3, LimitsMove DEF LocksHeld, Places, Env!Goes, Moves
  <2> QED BY <1>1, <1>4, <1>10, <2>4 DEF LocksHeld, Places, Env!Goes, Moves
<1>11. CASE Env!Release(t)
  <2>1. CASE Env!Goes(t, "temporary", "idle") /\ UNCHANGED allowed
    <3>1. LimitsHeld'
      BY <1>1, <2>1, LimitsStay DEF LocksHeld, Places, Env!Goes, Moves
    <3> QED BY <1>1, <1>4, <2>1, <3>1 DEF LocksHeld, Places, Env!Goes, Moves
  <2> QED BY <1>10, <1>11, <2>1 DEF Env!Release
<1> QED BY <1>5, <1>8, <1>9, <1>11

LEMMA EnvStep == EnvInv /\ [Env!Next]_Env!vars => EnvInv'
<1> SUFFICES ASSUME EnvInv, [Env!Next]_Env!vars PROVE EnvInv'
  OBVIOUS
<1>1. ASSUME Env!Schedule \/ Env!BGThread \/ Env!FunctionReturns \/ UNCHANGED Env!vars PROVE EnvInv'
  <2>1. UNCHANGED <<pc, lockedIn, kernel, dropped, allowed>>
    BY <1>1 DEF Env!Schedule, Env!BGThread, Env!FunctionReturns, Env!Works, Env!locks, Env!vars
  <2>2. LocksHeld' /\ LimitsHeld'
    BY <2>1 DEF EnvInv, LocksHeld, LimitsHeld, Users
  <2>3. Env!WorkSeen'
    BY <1>1 DEF EnvInv, Env!WorkSeen, Env!Schedule, Env!BGThread, Env!FunctionReturns, Env!vars
  <2> QED BY <2>2, <2>3 DEF EnvInv
<1> QED BY <1>1, LockStep, FileStep DEF Env!Next

-----------------------------------------------------------------------------
(* The lock of a database, the limits of mapped and of open files and the  *)
(* queue of the background thread do what they are there for, for any      *)
(* threads of any processes and any limits.                                *)
THEOREM EnvironmentIsRight == StorageSpec => []EnvironmentRight
<1> DEFINE Inv == part = "env" => EnvInv
<1>1. StorageInit => Inv
  BY EnvInit DEF StorageInit
<1>2. Inv /\ [StorageNext]_storage => Inv'
  <2> SUFFICES ASSUME Inv, [StorageNext]_storage, part' = "env" PROVE EnvInv'
    OBVIOUS
  <2>1. part = "env" /\ [Env!Next]_Env!vars
    BY DEF StorageNext, storage, env, Env!vars
  <2> QED BY <2>1, EnvStep
<1>3. Inv => EnvironmentRight
  BY EnvShows DEF EnvironmentRight
<1> QED BY <1>1, <1>2, <1>3, PTL DEF StorageSpec

-----------------------------------------------------------------------------
(***************************************************************************)
(* The tables by level.  Two invariants, each inductive with those before. *)
(* TreeInv: the tables of a level below 0 do not meet, those of an         *)
(* automatic compaction leave no key between them uncovered, and the rest  *)
(* of the level that a compaction writes to lies on either side of its     *)
(* inputs.  Reads: newer entries of a key are above older ones, at level 0 *)
(* too, where tables are in the order of their writes; a compaction keeps  *)
(* what a snapshot may see and what hides something deeper; so all that is *)
(* present gives every key the value that all that was ever written gives. *)
(***************************************************************************)
(* Entries have user keys and sequence numbers. *)
AreEntries(E) == \A e \in E : e.key \in Tree!Key /\ e.seq \in Nat
AreTables(F) == \A f \in F : AreEntries(f)
Numbered(E) == \A d, e \in E : d.seq = e.seq => d = e

AllBefore(E, F) == \A d \in E, e \in F : Tree!Before(d, e)
Apart(E, F) == AllBefore(E, F) \/ AllBefore(F, E)
NoSharedKey(E, F) == \A d \in E, e \in F : d.key # e.key
AllNewer(E, F) == \A d \in E, e \in F : d.seq > e.seq

(* Every key between the tables' smallest and largest is in one's range. *)
Solid(F) == \A k \in Tree!Span(Tree!Entries(F)) : \E f \in F : k \in Tree!Span(f)

Clean == ~ split /\ ~ gap
Inputs == Tree!Entries(job.upper \cup job.lower)
Present == mem \cup UNION {Tree!Entries(files[l]) : l \in Tree!Level}

TreeTypes ==
    /\ lastSeq \in Nat /\ IsFiniteSet(written) /\ AreEntries(written) /\ Numbered(written)
    /\ \A e \in written : e.seq <= lastSeq
    /\ mem \subseteq written /\ snapshots \subseteq 0..lastSeq
    /\ files \in [Tree!Level -> SUBSET (SUBSET written)] /\ \A l \in Tree!Level : {} \notin files[l]

JobTypes == job.on =>
    /\ job.level \in Tree!Level /\ job.level + 1 \in Tree!Level
    /\ job.upper \subseteq files[job.level] /\ job.lower \subseteq files[job.level + 1]

JobApart == job.on =>
    /\ ~ job.manual => Solid(job.upper \cup job.lower)
    /\ ~ gap => \A x \in files[job.level + 1] \ job.lower : Apart(x, Inputs)

TreeInv == TreeTypes /\ JobTypes /\ JobApart /\ Tree!LevelsDisjoint

Ordered ==
    /\ \A l \in Tree!Level : \A f \in files[l] : AllNewer(mem, f)
    /\ \A f, g \in files[0] : f # g => AllNewer(f, g) \/ AllNewer(g, f)
    /\ Clean => Tree!EntriesNeverHop
    /\ Clean => \A l \in Tree!Level \ {0} : \A f, g \in files[l] : f # g => NoSharedKey(f, g)

JobOrdered == job.on =>
    /\ job.smallest \in Nat /\ \A s \in snapshots \cup {lastSeq} : job.smallest <= s
    /\ job.level = 0 => \A x \in files[0] \ job.upper : \/ NoSharedKey(x, Tree!Entries(job.upper))
                                                        \/ AllNewer(x, Inputs)
    /\ Clean => \A x \in files[job.level + 1] \ job.lower : NoSharedKey(x, Inputs)
    /\ \A m \in Tree!Level : m >= job.level + 2 =>
            \A x \in files[m] : x \in job.deep \/ NoSharedKey(x, Inputs)

Values == Clean => \A s \in snapshots \cup {lastSeq}, k \in Tree!Key :
                        Tree!ValueIn(Present, k, s) = Tree!ValueIn(written, k, s)

ReadInv == TreeInv /\ Ordered /\ JobOrdered /\ Values

-----------------------------------------------------------------------------
LEMMA TreeConstants == Tree!TreeAssumption
  BY StorageAssumption

(* The instance names its own copies of the operators of FiniteSets. *)
LEMMA TreeCardinality == \A S : Tree!Cardinality(S) = Cardinality(S)
  BY DEF Tree!Cardinality, Cardinality

LEMMA TreeFinite == \A S : Tree!IsFiniteSet(S) <=> IsFiniteSet(S)
  BY DEF Tree!IsFiniteSet, IsFiniteSet

LEMMA KeyNat == Tree!Key \subseteq Nat
  BY TreeConstants DEF Tree!Key, Tree!TreeAssumption

LEMMA EntriesOf == \A F : AreTables(F) => AreEntries(Tree!Entries(F))
  BY DEF AreTables, AreEntries, Tree!Entries

LEMMA SpanHas == ASSUME NEW E, AreEntries(E), NEW e \in E PROVE e.key \in Tree!Span(E)
<1>1. e.key \in Tree!Key /\ e.key \in Nat
  BY KeyNat DEF AreEntries
<1> QED BY <1>1 DEF Tree!Span

LEMMA SpanGrows == ASSUME NEW E, NEW F, E \subseteq F PROVE Tree!Span(E) \subseteq Tree!Span(F)
  BY DEF Tree!Span

LEMMA SpanConvex ==
    ASSUME NEW E, AreEntries(E), NEW a \in Tree!Span(E), NEW b \in Tree!Span(E), NEW k \in Tree!Key, a <= k, k <= b
    PROVE  k \in Tree!Span(E)
<1>1. PICK d \in E : d.key <= a
  BY DEF Tree!Span
<1>2. PICK e \in E : b <= e.key
  BY DEF Tree!Span
<1>3. d.key \in Nat /\ e.key \in Nat /\ a \in Nat /\ b \in Nat /\ k \in Nat
  BY KeyNat DEF AreEntries, Tree!Span
<1>4. d.key <= k /\ k <= e.key
  BY <1>1, <1>2, <1>3
<1> QED BY <1>4 DEF Tree!Span

LEMMA SpanBetween ==
    ASSUME NEW E, AreEntries(E), NEW d \in E, NEW e \in E, NEW k \in Tree!Key, d.key <= k, k <= e.key
    PROVE  k \in Tree!Span(E)
  BY DEF Tree!Span

(* Ranges that do not meet are on one side of each other. *)
LEMMA RangesApart ==
    ASSUME NEW E, NEW F, AreEntries(E), AreEntries(F), Tree!Span(E) \cap Tree!Span(F) = {}
    PROVE  \/ \A d \in E, e \in F : d.key < e.key
           \/ \A d \in E, e \in F : e.key < d.key
<1> SUFFICES ASSUME NEW d0 \in E, NEW e0 \in F, ~ (e0.key < d0.key), NEW d \in E, NEW e \in F
             PROVE  d.key < e.key
  OBVIOUS
<1>1. /\ d0.key \in Tree!Key /\ e0.key \in Tree!Key /\ d.key \in Tree!Key /\ e.key \in Tree!Key
      /\ d0.key \in Nat /\ e0.key \in Nat /\ d.key \in Nat /\ e.key \in Nat
  BY KeyNat DEF AreEntries
<1>2. d0.key \in Tree!Span(E) /\ d.key \in Tree!Span(E) /\ e0.key \in Tree!Span(F) /\ e.key \in Tree!Span(F)
  BY SpanHas
<1>3. d0.key # e0.key /\ d0.key < e0.key
  BY <1>1, <1>2
<1>4. SUFFICES ASSUME e.key <= d.key PROVE FALSE
  BY <1>1
<1>5. CASE d0.key <= e.key
  BY <1>1, <1>2, <1>4, <1>5, SpanBetween
<1>6. CASE ~ (d0.key <= e.key)
  <2>1. e.key <= d0.key /\ d0.key <= e0.key
    BY <1>1, <1>3, <1>6
  <2> QED BY <1>1, <1>2, <2>1, SpanBetween
<1> QED BY <1>5, <1>6

LEMMA RangesApartEntries ==
    ASSUME NEW E, NEW F, AreEntries(E), AreEntries(F), Tree!Span(E) \cap Tree!Span(F) = {}
    PROVE  Apart(E, F)
  BY RangesApart DEF Apart, AllBefore, Tree!Before

LEMMA ApartSmaller ==
    ASSUME NEW E, NEW F, Apart(E, F), NEW D, D \subseteq F
    PROVE  Apart(E, D)
  BY DEF Apart, AllBefore

LEMMA BeforeOrder ==
    ASSUME NEW E, AreEntries(E), NEW c \in E, NEW d \in E, NEW e \in E
    PROVE  /\ ~ Tree!Before(c, c)
           /\ Tree!Before(c, d) => ~ Tree!Before(d, c)
           /\ Tree!Before(c, d) /\ Tree!Before(d, e) => Tree!Before(c, e)
           /\ Numbered(E) => c = d \/ Tree!Before(c, d) \/ Tree!Before(d, c)
<1>1. /\ c.key \in Nat /\ d.key \in Nat /\ e.key \in Nat
      /\ c.seq \in Nat /\ d.seq \in Nat /\ e.seq \in Nat
  BY KeyNat DEF AreEntries
<1>2. Numbered(E) => (c.seq = d.seq => c = d)
  BY DEF Numbered
<1> QED BY <1>1, <1>2 DEF Tree!Before

-----------------------------------------------------------------------------
LEMMA SolidOne == \A f : Solid({f})
  BY DEF Solid, Tree!Entries

(* Tables that overlap the range of solid ones. *)
LEMMA SolidMore ==
    ASSUME NEW F, NEW G, AreTables(F), AreTables(G), Solid(F),
           \A g \in G : Tree!Overlap(g, Tree!Span(Tree!Entries(F)))
    PROVE  Solid(F \cup G)
<1> SUFFICES ASSUME NEW k \in Tree!Span(Tree!Entries(F \cup G)), \A f \in F \cup G : k \notin Tree!Span(f) PROVE FALSE
  BY DEF Solid
<1>1. PICK d \in Tree!Entries(F \cup G), e \in Tree!Entries(F \cup G) : d.key <= k /\ k <= e.key
  BY DEF Tree!Span
<1>2. k \in Tree!Key /\ k \in Nat
  BY KeyNat DEF Tree!Span
<1>3. k \notin Tree!Span(Tree!Entries(F))
  BY DEF Solid
<1>4. AreEntries(Tree!Entries(F)) /\ \A g \in G : AreEntries(g)
  BY EntriesOf DEF AreTables
<1>5. PICK f \in F \cup G : d \in f
  BY DEF Tree!Entries
<1>6. PICK g \in F \cup G : e \in g
  BY DEF Tree!Entries
<1>7. \A h \in G : \E r \in Tree!Span(Tree!Entries(F)) : r \in Tree!Span(h)
  BY DEF Tree!Overlap
<1>8. ASSUME NEW h \in G, NEW a \in h, NEW b \in Tree!Entries(F), a.key <= k, k <= b.key PROVE FALSE
  <2>1. PICK r \in Tree!Span(Tree!Entries(F)) : r \in Tree!Span(h)
    BY <1>7
  <2>2. b.key \in Tree!Span(Tree!Entries(F)) /\ b.key \in Nat /\ r \in Tree!Key /\ r \in Nat
    BY <1>4, SpanHas, KeyNat DEF AreEntries, Tree!Span
  <2>3. k < r
    <3>1. SUFFICES ASSUME r <= k PROVE FALSE
      BY <1>2, <2>2
    <3> QED BY <1>2, <1>3, <1>4, <1>8, <2>2, <3>1, SpanConvex
  <2>4. PICK c \in h : r <= c.key
    BY <2>1 DEF Tree!Span
  <2>5. c.key \in Nat /\ k <= c.key
    <3>1. c.key \in Nat
      BY <1>4, <1>8, <2>4, KeyNat DEF AreEntries
    <3> QED BY <1>2, <2>2, <2>3, <2>4, <3>1
  <2>6. k \in Tree!Span(h)
    BY <1>2, <1>4, <1>8, <2>5, SpanBetween
  <2> QED BY <2>6
<1>9. ASSUME NEW h \in G, NEW a \in h, NEW b \in Tree!Entries(F), b.key <= k, k <= a.key PROVE FALSE
  <2>1. PICK r \in Tree!Span(Tree!Entries(F)) : r \in Tree!Span(h)
    BY <1>7
  <2>2. b.key \in Tree!Span(Tree!Entries(F)) /\ b.key \in Nat /\ r \in Tree!Key /\ r \in Nat
    BY <1>4, SpanHas, KeyNat DEF AreEntries, Tree!Span
  <2>3. r < k
    <3>1. SUFFICES ASSUME k <= r PROVE FALSE
      BY <1>2, <2>2
    <3> QED BY <1>2, <1>3, <1>4, <1>9, <2>2, <3>1, SpanConvex
  <2>4. PICK c \in h : c.key <= r
    BY <2>1 DEF Tree!Span
  <2>5. c.key \in Nat /\ c.key <= k
    <3>1. c.key \in Nat
      BY <1>4, <1>9, <2>4, KeyNat DEF AreEntries
    <3> QED BY <1>2, <2>2, <2>3, <2>4, <3>1
  <2>6. k \in Tree!Span(h)
    BY <1>2, <1>4, <1>9, <2>5, SpanBetween
  <2> QED BY <2>6
<1>10. PICK b \in Tree!Entries(F) : TRUE
  <2>1. f \in G => Tree!Span(Tree!Entries(F)) # {}
    BY <1>7
  <2>2. f \in F => d \in Tree!Entries(F)
    BY <1>5 DEF Tree!Entries
  <2> QED BY <2>1, <2>2 DEF Tree!Span
<1>11. b.key \in Nat
  BY <1>4, KeyNat DEF AreEntries
<1>12. CASE b.key <= k
  <2>1. g \in F
    BY <1>1, <1>6, <1>9, <1>12
  <2>2. e \in Tree!Entries(F)
    BY <2>1, <1>6 DEF Tree!Entries
  <2> QED BY <1>1, <1>2, <1>3, <1>4, <1>12, <2>2, SpanBetween
<1>13. CASE ~ (b.key <= k)
  <2>0. k <= b.key
    BY <1>2, <1>11, <1>13
  <2>1. f \in F
    BY <1>1, <1>5, <1>8, <2>0
  <2>2. d \in Tree!Entries(F)
    BY <2>1, <1>5 DEF Tree!Entries
  <2> QED BY <1>1, <1>2, <1>3, <1>4, <2>0, <2>2, SpanBetween
<1> QED BY <1>12, <1>13

(* Sets of tables that are solid together with some that they share. *)
LEMMA SolidUnion ==
    ASSUME NEW B, AreTables(B), Tree!Entries(B) # {}, NEW HH, {} \in HH,
           \A H \in HH : AreTables(H) /\ Solid(B \cup H)
    PROVE  Solid(B \cup UNION HH)
<1> SUFFICES ASSUME NEW k \in Tree!Span(Tree!Entries(B \cup UNION HH)), \A f \in B \cup UNION HH : k \notin Tree!Span(f)
             PROVE  FALSE
  BY DEF Solid
<1>1. PICK d \in Tree!Entries(B \cup UNION HH), e \in Tree!Entries(B \cup UNION HH) : d.key <= k /\ k <= e.key
  BY DEF Tree!Span
<1>2. PICK b \in Tree!Entries(B) : TRUE
  OBVIOUS
<1>3. k \in Tree!Key /\ k \in Nat /\ b.key \in Nat
  BY KeyNat, EntriesOf DEF Tree!Span, AreEntries
<1>4. ASSUME NEW H \in HH, NEW x \in Tree!Entries(B \cup H), NEW y \in Tree!Entries(B \cup H),
             x.key <= k, k <= y.key
      PROVE  FALSE
  <2>1. AreTables(B \cup H)
    BY DEF AreTables
  <2>2. k \in Tree!Span(Tree!Entries(B \cup H))
    BY <1>3, <1>4, <2>1, EntriesOf, SpanBetween
  <2> QED BY <2>2 DEF Solid
<1>5. \A x \in Tree!Entries(B \cup UNION HH) : \E H \in HH : x \in Tree!Entries(B \cup H)
  BY DEF Tree!Entries
<1>6. PICK H1 \in HH : d \in Tree!Entries(B \cup H1)
  BY <1>5
<1>7. PICK H2 \in HH : e \in Tree!Entries(B \cup H2)
  BY <1>5
<1>8. b \in Tree!Entries(B \cup H1) /\ b \in Tree!Entries(B \cup H2)
  BY DEF Tree!Entries
<1> QED BY <1>1, <1>3, <1>4, <1>6, <1>7, <1>8

(* GetOverlappingInputs of level 0 gives the least set that it may. *)
LEMMA LeastClosed ==
    ASSUME NEW range
    PROVE  /\ Tree!Overlapping(0, range) \subseteq files[0]
           /\ Tree!Closed(Tree!Overlapping(0, range), range)
           /\ \A G \in SUBSET files[0] : Tree!Closed(G, range) => Tree!Overlapping(0, range) \subseteq G
<1> DEFINE C == {f \in files[0] : \A G \in SUBSET files[0] : Tree!Closed(G, range) => f \in G}
<1>1. \A G \in SUBSET files[0] : Tree!Closed(G, range) => C \subseteq G
  OBVIOUS
<1>2. Tree!Closed(C, range)
  <2> SUFFICES ASSUME NEW f \in files[0], Tree!Overlap(f, range \cup Tree!Span(Tree!Entries(C))),
                      NEW G \in SUBSET files[0], Tree!Closed(G, range)
               PROVE  f \in G
    BY DEF Tree!Closed
  <2>1. Tree!Entries(C) \subseteq Tree!Entries(G)
    BY <1>1 DEF Tree!Entries
  <2>2. Tree!Overlap(f, range \cup Tree!Span(Tree!Entries(G)))
    BY <2>1, SpanGrows DEF Tree!Overlap
  <2> QED BY <2>2 DEF Tree!Closed
<1>3. Tree!Overlapping(0, range) =
        CHOOSE F \in SUBSET files[0] : /\ Tree!Closed(F, range)
                                       /\ \A G \in SUBSET files[0] : Tree!Closed(G, range) => F \subseteq G
  BY SMT DEF Tree!Overlapping
<1> QED BY <1>1, <1>2, <1>3, Zenon

LEMMA SolidClosure ==
    ASSUME AreTables(files[0]), NEW B, AreTables(B), Solid(B), Tree!Entries(B) # {}
    PROVE  Solid(B \cup Tree!Overlapping(0, Tree!Span(Tree!Entries(B))))
<1> DEFINE range == Tree!Span(Tree!Entries(B))
           F == Tree!Overlapping(0, range)
           HH == {H \in SUBSET F : Solid(B \cup H)}
           U == UNION HH
<1>1. F \subseteq files[0] /\ Tree!Closed(F, range)
  BY LeastClosed
<1>2. \A H \in HH : AreTables(H)
  BY <1>1 DEF AreTables
<1>3. Solid(B \cup U)
  <2>1. {} \in HH
    <3>1. B \cup {} = B
      OBVIOUS
    <3> QED BY <3>1
  <2> HIDE DEF HH
  <2>2. \A H \in HH : Solid(B \cup H)
    BY DEF HH
  <2> QED BY <1>2, <2>1, <2>2, SolidUnion
<1>4. U \in SUBSET F /\ U \in SUBSET files[0]
  BY <1>1
<1>5. Tree!Closed(U, range)
  <2> SUFFICES ASSUME NEW f \in files[0], Tree!Overlap(f, range \cup Tree!Span(Tree!Entries(U))) PROVE f \in U
    BY DEF Tree!Closed
  <2> HIDE DEF U, F, range
  <2>1. Tree!Entries(U) \subseteq Tree!Entries(F) /\ Tree!Entries(U) \subseteq Tree!Entries(B \cup U)
        /\ Tree!Entries(B) \subseteq Tree!Entries(B \cup U)
    BY <1>4 DEF Tree!Entries
  <2>2. f \in F
    <3>1. Tree!Overlap(f, range \cup Tree!Span(Tree!Entries(F)))
      BY <2>1, SpanGrows DEF Tree!Overlap
    <3> QED BY <1>1, <3>1 DEF Tree!Closed
  <2>3. Tree!Overlap(f, Tree!Span(Tree!Entries(B \cup U)))
    BY <2>1, SpanGrows DEF Tree!Overlap, range
  <2>4. Solid((B \cup U) \cup {f})
    <3>1. AreTables(B \cup U) /\ AreTables({f})
      BY <1>4 DEF AreTables
    <3>2. \A g \in {f} : Tree!Overlap(g, Tree!Span(Tree!Entries(B \cup U)))
      BY <2>3
    <3> QED BY <1>3, <3>1, <3>2, SolidMore
  <2>5. (B \cup U) \cup {f} = B \cup (U \cup {f}) /\ U \cup {f} \in SUBSET F
    BY <1>4, <2>2
  <2>6. U \cup {f} \in HH
    BY <2>4, <2>5
  <2> QED BY <2>6 DEF U
<1>6. U = F
  BY <1>4, <1>5, LeastClosed
<1> QED BY <1>3, <1>6

-----------------------------------------------------------------------------
LEMMA LevelFacts ==
    /\ 0 \in Tree!Level /\ Tree!Level \subseteq Nat /\ MaxMemLevel \in Tree!Level
    /\ \A l \in 0..(NumLevels - 2) : l \in Tree!Level /\ l + 1 \in Tree!Level /\ l \in Nat /\ l + 1 > 0 /\ l # l + 1
    /\ \A l \in 0..MaxMemLevel : l \in Tree!Level
  BY TreeConstants DEF Tree!TreeAssumption, Tree!Level

LEMMA TypeFacts ==
    ASSUME TreeTypes
    PROVE  /\ \A l \in Tree!Level : AreTables(files[l])
           /\ \A l \in Tree!Level : \A f \in files[l] : f \subseteq written /\ f # {} /\ AreEntries(f)
           /\ AreEntries(mem)
           /\ \A E \in SUBSET written : AreEntries(E) /\ Numbered(E)
           /\ \A l \in Tree!Level : \A F \in SUBSET files[l] : AreTables(F) /\ Tree!Entries(F) \subseteq written
<1>1. \A E \in SUBSET written : AreEntries(E) /\ Numbered(E)
  BY DEF TreeTypes, AreEntries, Numbered
<1>2. \A l \in Tree!Level : \A f \in files[l] : f \subseteq written /\ f # {}
  BY DEF TreeTypes
<1>3. AreEntries(mem)
  BY <1>1 DEF TreeTypes
<1>4. \A l \in Tree!Level : \A F \in SUBSET files[l] : AreTables(F) /\ Tree!Entries(F) \subseteq written
  BY <1>1, <1>2 DEF AreTables, Tree!Entries
<1> QED BY <1>1, <1>2, <1>3, <1>4

LEMMA OverlappingBelow ==
    ASSUME NEW l \in Nat, l > 0, NEW range
    PROVE  Tree!Overlapping(l, range) = {f \in files[l] : Tree!Overlap(f, range)}
  BY DEF Tree!Overlapping

(* SetupOtherInputs: all that the inputs from one level overlap in the     *)
(* next one, and nothing else of it.                                       *)
LEMMA InputsRight ==
    ASSUME TreeTypes, NEW l \in 0..(NumLevels - 2), NEW upper \in SUBSET files[l],
           NEW inputs \in Tree!WithOtherInputs(l, upper)
    PROVE  /\ inputs[1] \subseteq files[l]
           /\ inputs[2] \subseteq files[l + 1]
           /\ \A x \in files[l + 1] : x \in inputs[2] <=> Tree!Overlap(x, Tree!Span(Tree!Entries(inputs[1])))
           /\ \/ inputs[1] = upper
              \/ /\ inputs[2] # {} /\ inputs[2] = Tree!Overlapping(l + 1, Tree!Span(Tree!Entries(upper)))
                 /\ inputs[1] = Tree!Overlapping(l, Tree!Span(Tree!Entries(upper \cup inputs[2])))
<1> DEFINE lower == Tree!Overlapping(l + 1, Tree!Span(Tree!Entries(upper)))
           more == Tree!Overlapping(l, Tree!Span(Tree!Entries(upper \cup lower)))
<1>1. l \in Nat /\ l + 1 \in Nat /\ l + 1 > 0
  BY LevelFacts
<1>2. \A range : Tree!Overlapping(l + 1, range) = {x \in files[l + 1] : Tree!Overlap(x, range)}
  BY <1>1, OverlappingBelow
<1>3. \A range : Tree!Overlapping(l, range) \subseteq files[l]
  <2>1. CASE l > 0
    BY <1>1, <2>1, OverlappingBelow
  <2>2. CASE l = 0
    BY <2>2, LeastClosed
  <2> QED BY <1>1, <2>1, <2>2
<1>4. \/ inputs = <<upper, lower>>
      \/ inputs = <<more, lower>> /\ lower # {} /\ Tree!Overlapping(l + 1, Tree!Span(Tree!Entries(more))) = lower
  BY DEF Tree!WithOtherInputs
<1>5. CASE inputs = <<upper, lower>>
  <2>1. inputs[1] = upper /\ inputs[2] = lower
    BY <1>5
  <2> QED BY <1>2, <2>1
<1>6. CASE inputs = <<more, lower>> /\ lower # {} /\ Tree!Overlapping(l + 1, Tree!Span(Tree!Entries(more))) = lower
  <2>1. inputs[1] = more /\ inputs[2] = lower
    BY <1>6
  <2>2. more \subseteq files[l]
    BY <1>3
  <2>3. lower = {x \in files[l + 1] : Tree!Overlap(x, Tree!Span(Tree!Entries(more)))}
    BY <1>2, <1>6
  <2> HIDE DEF more
  <2>4. inputs[2] = {x \in files[l + 1] : Tree!Overlap(x, Tree!Span(Tree!Entries(inputs[1])))}
    BY <2>1, <2>3
  <2> QED BY <1>6, <2>1, <2>2, <2>4 DEF more
<1> QED BY <1>4, <1>5, <1>6

(* What is not of the inputs in the next level lies on one side of them.   *)
LEMMA InputsApart ==
    ASSUME TreeTypes, NEW l \in 0..(NumLevels - 2), Tree!Disjoint(l + 1),
           NEW U \in SUBSET files[l], NEW L \in SUBSET files[l + 1],
           \A y \in files[l + 1] : y \in L <=> Tree!Overlap(y, Tree!Span(Tree!Entries(U))),
           NEW x \in files[l + 1] \ L
    PROVE  Apart(x, Tree!Entries(U \cup L))
<1>1. l \in Tree!Level /\ l + 1 \in Tree!Level
  BY LevelFacts
<1>2. AreEntries(x) /\ AreEntries(Tree!Entries(U)) /\ \A g \in L : AreEntries(g)
  BY <1>1, TypeFacts, EntriesOf
<1>3. Tree!Span(x) \cap Tree!Span(Tree!Entries(U)) = {}
  BY DEF Tree!Overlap
<1>4. \A g \in L : /\ AllBefore(x, g) \/ AllBefore(g, x)
                   /\ \E r \in Tree!Span(Tree!Entries(U)) : r \in Tree!Span(g)
  BY DEF Tree!Disjoint, AllBefore, Tree!Overlap
<1>5. CASE \A d \in x, e \in Tree!Entries(U) : d.key < e.key
  <2>1. ASSUME NEW g \in L, ~ AllBefore(x, g) PROVE FALSE
    <3>1. PICK r \in Tree!Span(Tree!Entries(U)) : r \in Tree!Span(g)
      BY <1>4
    <3>2. PICK u \in Tree!Entries(U), c \in g : u.key <= r /\ r <= c.key
      BY <3>1 DEF Tree!Span
    <3>3. PICK d \in x : TRUE
      BY <1>1, TypeFacts
    <3>4. Tree!Before(c, d) /\ d.key < u.key
      BY <1>4, <1>5, <2>1 DEF AllBefore
    <3>5. c.key \in Nat /\ d.key \in Nat /\ u.key \in Nat /\ r \in Nat
      BY <1>2, KeyNat DEF AreEntries, Tree!Span
    <3> QED BY <3>2, <3>4, <3>5 DEF Tree!Before
  <2>2. AllBefore(x, Tree!Entries(U))
    BY <1>5 DEF AllBefore, Tree!Before
  <2>3. AllBefore(x, Tree!Entries(U \cup L))
    BY <2>1, <2>2 DEF AllBefore, Tree!Entries
  <2> QED BY <2>3 DEF Apart
<1>6. CASE \A d \in x, e \in Tree!Entries(U) : e.key < d.key
  <2>1. ASSUME NEW g \in L, ~ AllBefore(g, x) PROVE FALSE
    <3>1. PICK r \in Tree!Span(Tree!Entries(U)) : r \in Tree!Span(g)
      BY <1>4
    <3>2. PICK u \in Tree!Entries(U), c \in g : r <= u.key /\ c.key <= r
      BY <3>1 DEF Tree!Span
    <3>3. PICK d \in x : TRUE
      BY <1>1, TypeFacts
    <3>4. Tree!Before(d, c) /\ u.key < d.key
      BY <1>4, <1>6, <2>1 DEF AllBefore
    <3>5. c.key \in Nat /\ d.key \in Nat /\ u.key \in Nat /\ r \in Nat
      BY <1>2, KeyNat DEF AreEntries, Tree!Span
    <3> QED BY <3>2, <3>4, <3>5 DEF Tree!Before
  <2>2. AllBefore(Tree!Entries(U), x)
    BY <1>6 DEF AllBefore, Tree!Before
  <2>3. AllBefore(Tree!Entries(U \cup L), x)
    BY <2>1, <2>2 DEF AllBefore, Tree!Entries
  <2> QED BY <2>3 DEF Apart
<1> QED BY <1>2, <1>3, <1>5, <1>6, RangesApart

LEMMA OverlapsItself ==
    ASSUME NEW F, AreTables(F), NEW f \in F, f # {}
    PROVE  Tree!Overlap(f, Tree!Span(Tree!Entries(F)))
<1>1. PICK e \in f : TRUE
  OBVIOUS
<1>2. AreEntries(f) /\ AreEntries(Tree!Entries(F)) /\ e \in Tree!Entries(F)
  BY EntriesOf DEF AreTables, Tree!Entries
<1>3. e.key \in Tree!Span(f) /\ e.key \in Tree!Span(Tree!Entries(F))
  BY <1>2, SpanHas
<1> QED BY <1>3 DEF Tree!Overlap

LEMMA PickedRight ==
    ASSUME TreeTypes, NEW l \in 0..(NumLevels - 2), NEW f \in files[l]
    PROVE  Tree!Picked(l, f) \subseteq files[l] /\ f \in Tree!Picked(l, f) /\ Solid(Tree!Picked(l, f))
<1>1. l \in Tree!Level
  BY LevelFacts
<1>2. CASE l # 0
  BY <1>2, SolidOne DEF Tree!Picked
<1>3. CASE l = 0
  <2> DEFINE U == Tree!Overlapping(0, Tree!Span(f))
  <2>1. Tree!Picked(l, f) = U
    BY <1>3 DEF Tree!Picked
  <2>2. U \subseteq files[0] /\ Tree!Closed(U, Tree!Span(f))
    BY LeastClosed
  <2>3. Tree!Entries({f}) = f /\ AreTables({f}) /\ f # {} /\ AreTables(files[0])
    BY <1>1, <1>3, TypeFacts DEF Tree!Entries, AreTables
  <2>4. Solid({f} \cup U)
    BY <2>3, SolidOne, SolidClosure
  <2>5. f \in U
    <3>1. Tree!Overlap(f, Tree!Span(f) \cup Tree!Span(Tree!Entries(U)))
      <4>1. Tree!Overlap(f, Tree!Span(Tree!Entries({f})))
        BY <2>3, OverlapsItself
      <4> QED BY <2>3, <4>1 DEF Tree!Overlap
    <3> HIDE DEF U
    <3> QED BY <1>3, <2>2, <3>1 DEF Tree!Closed
  <2>6. {f} \cup U = U
    BY <2>5
  <2> QED BY <1>3, <2>1, <2>2, <2>4, <2>5, <2>6
<1> QED BY <1>2, <1>3

LEMMA InputsSolid ==
    ASSUME TreeTypes, NEW l \in 0..(NumLevels - 2), NEW U \in SUBSET files[l], Solid(U), U # {},
           NEW inputs \in Tree!WithOtherInputs(l, U)
    PROVE  Solid(inputs[1] \cup inputs[2])
<1> DEFINE L == inputs[2]
           M == inputs[1]
<1>1. l \in Tree!Level /\ l + 1 \in Tree!Level /\ l \in Nat /\ l + 1 \in Nat /\ l + 1 > 0
  BY LevelFacts
<1> HIDE DEF L, M
<1>2. /\ M \subseteq files[l] /\ L \subseteq files[l + 1]
      /\ \A x \in files[l + 1] : x \in L <=> Tree!Overlap(x, Tree!Span(Tree!Entries(M)))
      /\ \/ M = U
         \/ L = Tree!Overlapping(l + 1, Tree!Span(Tree!Entries(U))) /\ M = Tree!Overlapping(l, Tree!Span(Tree!Entries(U \cup L)))
  <2>1. inputs[1] \subseteq files[l] /\ inputs[2] \subseteq files[l + 1]
    BY InputsRight
  <2>2. \A x \in files[l + 1] : x \in inputs[2] <=> Tree!Overlap(x, Tree!Span(Tree!Entries(inputs[1])))
    BY InputsRight
  <2>3. \/ inputs[1] = U
        \/ /\ inputs[2] = Tree!Overlapping(l + 1, Tree!Span(Tree!Entries(U)))
           /\ inputs[1] = Tree!Overlapping(l, Tree!Span(Tree!Entries(U \cup inputs[2])))
    BY InputsRight
  <2> QED BY <2>1, <2>2, <2>3 DEF L, M
<1>3. L \subseteq files[l + 1]
  BY <1>2
<1>4. AreTables(U) /\ AreTables(L) /\ AreTables(M) /\ AreTables(U \cup L) /\ AreTables(files[l])
  <2>1. AreTables(U) /\ AreTables(L) /\ AreTables(M) /\ AreTables(files[l])
    BY <1>1, <1>2, <1>3, TypeFacts
  <2> QED BY <2>1 DEF AreTables
<1>5. CASE M = U
  BY <1>2, <1>4, <1>5, SolidMore DEF L, M
<1>6. CASE L = Tree!Overlapping(l + 1, Tree!Span(Tree!Entries(U))) /\ M = Tree!Overlapping(l, Tree!Span(Tree!Entries(U \cup L)))
  <2>1. \A g \in L : Tree!Overlap(g, Tree!Span(Tree!Entries(U)))
    BY <1>1, <1>6, OverlappingBelow
  <2>2. Solid(U \cup L)
    BY <1>4, <2>1, SolidMore
  <2>3. \A u \in U : Tree!Overlap(u, Tree!Span(Tree!Entries(U \cup L)))
    <3> TAKE u \in U
    <3>1. u # {}
      BY <1>1, TypeFacts
    <3> QED BY <1>4, <3>1, OverlapsItself
  <2>4. CASE l > 0
    <3>1. M = {x \in files[l] : Tree!Overlap(x, Tree!Span(Tree!Entries(U \cup L)))}
      BY <1>1, <1>6, <2>4, OverlappingBelow
    <3>2. Solid((U \cup L) \cup M)
      BY <1>4, <2>2, <3>1, SolidMore
    <3>3. U \subseteq M
      BY <2>3, <3>1
    <3>4. (U \cup L) \cup M = M \cup L
      BY <3>3
    <3> QED BY <3>2, <3>4 DEF L, M
  <2>5. CASE l = 0
    <3>1. Tree!Entries(U \cup L) # {}
      <4>1. PICK u \in U : TRUE
        OBVIOUS
      <4>2. u # {}
        BY <1>1, TypeFacts
      <4> QED BY <4>2 DEF Tree!Entries
    <3>2. Solid((U \cup L) \cup M)
      BY <1>4, <1>6, <2>2, <2>5, <3>1, SolidClosure
    <3>3. Tree!Closed(M, Tree!Span(Tree!Entries(U \cup L)))
      BY <1>6, <2>5, LeastClosed
    <3>4. U \subseteq M
      BY <2>3, <2>5, <3>3 DEF Tree!Closed, Tree!Overlap
    <3>5. (U \cup L) \cup M = M \cup L
      BY <3>4
    <3> QED BY <3>2, <3>5 DEF L, M
  <2> QED BY <1>1, <2>4, <2>5
<1> QED BY <1>2, <1>5, <1>6

-----------------------------------------------------------------------------
(* What a compaction needs of its inputs when it starts. *)
LEMMA StartInv ==
    ASSUME TreeInv, ~ job.on, NEW l \in 0..(NumLevels - 2), NEW U \in SUBSET files[l], NEW manual \in BOOLEAN,
           NEW inputs \in Tree!WithOtherInputs(l, U), ~ manual => Solid(inputs[1] \cup inputs[2]),
           Tree!Start(l, inputs, manual)
    PROVE  TreeInv'
<1>1. /\ job'.on = TRUE /\ job'.manual = manual /\ job'.level = l /\ job'.upper = inputs[1]
      /\ job'.lower = inputs[2] /\ UNCHANGED <<mem, files, lastSeq, snapshots, written, split, gap>>
  BY DEF Tree!Start
<1>2. TreeTypes' /\ Tree!LevelsDisjoint'
  BY <1>1 DEF TreeInv, TreeTypes, Tree!LevelsDisjoint, Tree!Disjoint
<1>3. TreeTypes /\ l \in Tree!Level /\ l + 1 \in Tree!Level /\ l + 1 # 0
  BY LevelFacts DEF TreeInv
<1>4. /\ inputs[1] \subseteq files[l] /\ inputs[2] \subseteq files[l + 1]
      /\ \A x \in files[l + 1] : x \in inputs[2] <=> Tree!Overlap(x, Tree!Span(Tree!Entries(inputs[1])))
  BY <1>3, InputsRight
<1>5. JobTypes'
  BY <1>1, <1>3, <1>4 DEF JobTypes
<1>6. JobApart'
  <2>1. ASSUME ~ gap, NEW x \in files[l + 1] \ inputs[2]
        PROVE  Apart(x, Tree!Entries(inputs[1] \cup inputs[2]))
    <3>1. Tree!Disjoint(l + 1)
      BY <1>3, <2>1 DEF TreeInv, Tree!LevelsDisjoint
    <3> QED BY <1>3, <1>4, <2>1, <3>1, InputsApart
  <2> QED BY <1>1, <2>1 DEF JobApart, Inputs
<1> QED BY <1>2, <1>5, <1>6 DEF TreeInv

LEMMA TreeInitInv == Tree!Init => TreeInv
<1> SUFFICES ASSUME Tree!Init PROVE TreeInv
  OBVIOUS
<1>1. /\ rest.old \in 0..MaxKey /\ lastSeq = rest.old /\ mem = {} /\ snapshots = {} /\ ~ job.on /\ ~ gap
      /\ written = {[key |-> k, seq |-> k, del |-> FALSE] : k \in 1..rest.old}
      /\ files = [l \in Tree!Level |-> IF l = MaxMemLevel THEN {written} \ {{}} ELSE {}]
  BY TreeConstants DEF Tree!Init, Tree!TreeAssumption, Tree!NoJob
<1>2. lastSeq \in Nat /\ 1..rest.old \subseteq Tree!Key
  BY <1>1, TreeConstants DEF Tree!TreeAssumption, Tree!Key
<1>3. TreeTypes
  <2>1. IsFiniteSet(written)
    <3>1. IsFiniteSet(1..rest.old)
      BY <1>1, FS_Interval
    <3> DEFINE f == [k \in 1..rest.old |-> [key |-> k, seq |-> k, del |-> FALSE]]
    <3>2. f \in Surjection(1..rest.old, written)
      BY <1>1 DEF Surjection
    <3> QED BY <3>1, <3>2, FS_Surjection
  <2>2. AreEntries(written) /\ Numbered(written) /\ \A e \in written : e.seq <= lastSeq
    <3>1. \A e \in written : e.key \in 1..rest.old /\ e.seq = e.key /\ e.del = FALSE
      BY <1>1
    <3>2. ASSUME NEW d \in written, NEW e \in written, d.key = e.key PROVE d = e
      <4>1. PICK i \in 1..rest.old : d = [key |-> i, seq |-> i, del |-> FALSE]
        BY <1>1
      <4>2. PICK j \in 1..rest.old : e = [key |-> j, seq |-> j, del |-> FALSE]
        BY <1>1
      <4>3. i = j
        BY <3>2, <4>1, <4>2
      <4> QED BY <4>1, <4>2, <4>3
    <3>3. \A k \in 1..rest.old : k \in Nat /\ k <= lastSeq
      BY <1>1, <1>2
    <3> QED BY <1>2, <3>1, <3>2, <3>3 DEF AreEntries, Numbered
  <2>3. files \in [Tree!Level -> SUBSET (SUBSET written)] /\ \A l \in Tree!Level : {} \notin files[l]
    BY <1>1
  <2> QED BY <1>1, <1>2, <2>1, <2>2, <2>3 DEF TreeTypes
<1>4. Tree!LevelsDisjoint
  BY <1>1 DEF Tree!LevelsDisjoint, Tree!Disjoint
<1> QED BY <1>1, <1>3, <1>4 DEF TreeInv, JobTypes, JobApart

LEMMA PutTypes ==
    ASSUME TreeTypes, NEW k \in Tree!Key, NEW del \in BOOLEAN, Tree!Put(k, del)
    PROVE  TreeTypes'
<1> DEFINE e == [key |-> k, seq |-> lastSeq + 1, del |-> del]
<1>1. /\ mem' = mem \cup {e} /\ written' = written \cup {e} /\ lastSeq' = lastSeq + 1
      /\ UNCHANGED <<files, snapshots>>
  BY DEF Tree!Put
<1>2. e.key = k /\ e.seq = lastSeq + 1 /\ lastSeq \in Nat
  BY DEF TreeTypes
<1> HIDE DEF e
<1>3. IsFiniteSet(written')
  BY <1>1, FS_AddElement DEF TreeTypes
<1>4. \A d \in written : d.seq \in Nat /\ d.seq <= lastSeq /\ d.key \in Tree!Key
  BY DEF TreeTypes, AreEntries
<1>5. AreEntries(written')
  BY <1>1, <1>2, <1>4 DEF AreEntries
<1>6. Numbered(written')
  <2>1. \A d \in written : d.seq # e.seq
    BY <1>2, <1>4
  <2> QED BY <1>1, <2>1 DEF Numbered, TreeTypes
<1>7. \A d \in written' : d.seq <= lastSeq'
  BY <1>1, <1>2, <1>4
<1>8. snapshots' \subseteq 0..lastSeq'
  BY <1>1, <1>2 DEF TreeTypes
<1> QED BY <1>1, <1>2, <1>3, <1>5, <1>6, <1>7, <1>8 DEF TreeTypes

LEMMA QuietStep ==
    ASSUME TreeInv, TreeTypes', UNCHANGED <<files, job, gap>>
    PROVE  TreeInv'
  BY DEF TreeInv, JobTypes, JobApart, Inputs, Tree!LevelsDisjoint, Tree!Disjoint

(* CompactMemTable: no table overlaps the memtable down to where it goes,  *)
(* unless it goes to level 0.                                              *)
LEMMA FlushedBelow ==
    ASSUME NEW l \in Tree!FlushLevels(Tree!Span(mem))
    PROVE  l \in Tree!Level /\ (l # 0 => \A m \in Tree!Level : m <= l => \A f \in files[m] : ~ Tree!Overlap(f, Tree!Span(mem)))
<1> DEFINE busy == {m \in Tree!Level : \E f \in files[m] : Tree!Overlap(f, Tree!Span(mem))}
<1>1. /\ l \in 0..MaxMemLevel
      /\ l # 0 => busy \cap 0..l = {}
  <2>1. CASE 0 \in busy
    BY <2>1, LevelFacts DEF Tree!FlushLevels
  <2>2. CASE 0 \notin busy
    BY <2>2 DEF Tree!FlushLevels
  <2> QED BY <2>1, <2>2
<1>2. \A m \in Tree!Level : m <= l => m \in 0..l
  BY <1>1, LevelFacts DEF Tree!Level
<1> QED BY <1>1, <1>2, LevelFacts

LEMMA FlushStep == TreeInv /\ Tree!CompactMemTable => TreeInv'
<1> SUFFICES ASSUME TreeInv, Tree!CompactMemTable PROVE TreeInv'
  OBVIOUS
<1> USE DEF TreeInv
<1>1. PICK l \in Tree!FlushLevels(Tree!Span(mem)) :
        /\ files' = [files EXCEPT ![l] = @ \cup {mem}]
        /\ gap' = (gap \/ (/\ job.on /\ job.manual /\ l = job.level + 1
                           /\ Tree!Overlap(mem, Tree!Span(Inputs))))
  BY DEF Tree!CompactMemTable, Inputs
<1>2. /\ mem # {} /\ mem' = {} /\ UNCHANGED <<lastSeq, snapshots, job, written, split>>
  BY DEF Tree!CompactMemTable
<1>3. l \in Tree!Level /\ (l # 0 => \A m \in Tree!Level : m <= l => \A f \in files[m] : ~ Tree!Overlap(f, Tree!Span(mem)))
  BY FlushedBelow
<1>4. /\ \A m \in Tree!Level : files'[m] = IF m = l THEN files[l] \cup {mem} ELSE files[m]
      /\ files' \in [Tree!Level -> SUBSET (SUBSET written)]
  BY <1>1, <1>3 DEF TreeTypes
<1>5. TreeTypes'
  <2>1. \A m \in Tree!Level : {} \notin files'[m]
    BY <1>2, <1>4 DEF TreeTypes
  <2> QED BY <1>2, <1>4, <2>1 DEF TreeTypes
<1>6. AreEntries(mem) /\ \A m \in Tree!Level : \A f \in files[m] : AreEntries(f)
  BY TypeFacts
<1>7. JobTypes'
  BY <1>2, <1>4 DEF JobTypes
<1>8. \A m \in Tree!Level : m <= l /\ l # 0 => \A f \in files[m] : Apart(mem, f) /\ Apart(f, mem)
  <2> SUFFICES ASSUME NEW m \in Tree!Level, m <= l, l # 0, NEW f \in files[m] PROVE Apart(mem, f)
    BY DEF Apart
  <2>1. Tree!Span(mem) \cap Tree!Span(f) = {}
    BY <1>3 DEF Tree!Overlap
  <2> QED BY <1>6, <2>1, RangesApartEntries
<1>9. Tree!LevelsDisjoint'
  <2> SUFFICES ASSUME ~ gap', NEW m \in Tree!Level \ {0}, NEW f \in files'[m], NEW g \in files'[m], f # g
               PROVE  Apart(f, g)
    BY DEF Tree!LevelsDisjoint, Tree!Disjoint, Apart, AllBefore
  <2>1. ~ gap
    BY <1>1
  <2>2. CASE f \in files[m] /\ g \in files[m]
    BY <2>1, <2>2 DEF Tree!LevelsDisjoint, Tree!Disjoint, Apart, AllBefore
  <2>3. CASE ~ (f \in files[m] /\ g \in files[m])
    <3>1. m = l /\ m # 0 /\ m <= l
      BY <1>4, <2>3, LevelFacts
    <3>2. (f = mem /\ g \in files[m]) \/ (g = mem /\ f \in files[m])
      BY <1>4, <2>3, <3>1
    <3> QED BY <1>8, <3>1, <3>2
  <2> QED BY <2>2, <2>3
<1>10. JobApart'
  <2> SUFFICES ASSUME job.on, ~ gap', NEW x \in files'[job.level + 1] \ job.lower PROVE Apart(x, Inputs)
    BY <1>2 DEF JobApart, Inputs
  <2>1. /\ ~ gap /\ job.level \in Tree!Level /\ job.level + 1 \in Tree!Level
        /\ job.upper \subseteq files[job.level] /\ job.lower \subseteq files[job.level + 1]
    BY <1>1 DEF JobTypes
  <2>2. CASE x \in files[job.level + 1]
    BY <2>1, <2>2 DEF JobApart
  <2>3. CASE x \notin files[job.level + 1]
    <3>1. l = job.level + 1 /\ x = mem
      BY <1>4, <2>1, <2>3
    <3>2. l # 0 /\ job.level <= l /\ job.level + 1 <= l
      <4>1. job.level \in Nat
        BY <2>1, LevelFacts
      <4> QED BY <3>1, <4>1
    <3>3. \A f \in job.upper \cup job.lower : Tree!Span(mem) \cap Tree!Span(f) = {}
      BY <1>3, <2>1, <3>2 DEF Tree!Overlap
    <3>4. AreEntries(Inputs)
      <4>1. AreTables(job.upper \cup job.lower)
        BY <1>6, <2>1 DEF AreTables
      <4> QED BY <4>1, EntriesOf DEF Inputs
    <3>5. Tree!Span(mem) \cap Tree!Span(Inputs) = {}
      <4>1. CASE job.manual
        BY <1>1, <3>1, <4>1 DEF Tree!Overlap
      <4>2. CASE ~ job.manual
        <5>1. Solid(job.upper \cup job.lower)
          BY <4>2 DEF JobApart
        <5> QED BY <3>3, <5>1 DEF Solid, Inputs
      <4> QED BY <4>1, <4>2
    <3> QED BY <1>6, <3>1, <3>4, <3>5, RangesApartEntries
  <2> QED BY <2>2, <2>3
<1> QED BY <1>5, <1>7, <1>9, <1>10

LEMMA PickStep == TreeInv /\ Tree!PickCompaction => TreeInv'
<1> SUFFICES ASSUME TreeInv, Tree!PickCompaction PROVE TreeInv'
  OBVIOUS
<1>1. PICK l \in 0..(NumLevels - 2) : \E f \in files[l] : \E inputs \in Tree!WithOtherInputs(l, Tree!Picked(l, f)) :
          Tree!Start(l, inputs, FALSE)
  BY DEF Tree!PickCompaction
<1>2. PICK f \in files[l] : \E inputs \in Tree!WithOtherInputs(l, Tree!Picked(l, f)) : Tree!Start(l, inputs, FALSE)
  BY <1>1
<1>3. PICK inputs \in Tree!WithOtherInputs(l, Tree!Picked(l, f)) : Tree!Start(l, inputs, FALSE)
  BY <1>2
<1>4. Tree!Picked(l, f) \subseteq files[l] /\ f \in Tree!Picked(l, f) /\ Solid(Tree!Picked(l, f))
  BY PickedRight DEF TreeInv
<1>5. Solid(inputs[1] \cup inputs[2])
  BY <1>4, InputsSolid DEF TreeInv
<1>6. ~ job.on
  BY DEF Tree!PickCompaction
<1> QED BY <1>3, <1>4, <1>5, <1>6, StartInv

LEMMA RangeStep == ASSUME TreeInv, NEW range, Tree!CompactRange(range) PROVE TreeInv'
<1>0. PICK l \in 0..(NumLevels - 2) : \E upper \in (SUBSET Tree!Overlapping(l, range)) \ {{}} :
          \E inputs \in Tree!WithOtherInputs(l, upper) : Tree!Start(l, inputs, TRUE)
  BY DEF Tree!CompactRange
<1>1. PICK upper \in SUBSET Tree!Overlapping(l, range) :
          \E inputs \in Tree!WithOtherInputs(l, upper) : Tree!Start(l, inputs, TRUE)
  BY <1>0
<1>2. upper \subseteq files[l]
  BY <1>1, LeastClosed, OverlappingBelow, LevelFacts
<1>3. ~ job.on
  BY DEF Tree!CompactRange
<1> QED BY <1>1, <1>2, <1>3, StartInv

LEMMA MoveStep == TreeInv /\ Tree!MoveFile => TreeInv'
<1> SUFFICES ASSUME TreeInv, Tree!MoveFile PROVE TreeInv'
  OBVIOUS
<1> USE DEF TreeInv
<1>1. /\ ~ job.on /\ UNCHANGED <<mem, lastSeq, snapshots, job, written, split, gap>>
      /\ \E l \in 0..(NumLevels - 2) : \E f \in files[l] : \E inputs \in Tree!WithOtherInputs(l, Tree!Picked(l, f)) :
            /\ Tree!Trivial(inputs)
            /\ files' = [files EXCEPT ![l] = @ \ {f}, ![l + 1] = @ \cup {f}]
  BY DEF Tree!MoveFile
<1>2. PICK l \in 0..(NumLevels - 2) : \E f \in files[l] : \E inputs \in Tree!WithOtherInputs(l, Tree!Picked(l, f)) :
            /\ Tree!Trivial(inputs)
            /\ files' = [files EXCEPT ![l] = @ \ {f}, ![l + 1] = @ \cup {f}]
  BY <1>1
<1>3. PICK f \in files[l] : \E inputs \in Tree!WithOtherInputs(l, Tree!Picked(l, f)) :
            /\ Tree!Trivial(inputs)
            /\ files' = [files EXCEPT ![l] = @ \ {f}, ![l + 1] = @ \cup {f}]
  BY <1>2
<1>4. PICK inputs \in Tree!WithOtherInputs(l, Tree!Picked(l, f)) :
            /\ Tree!Trivial(inputs)
            /\ files' = [files EXCEPT ![l] = @ \ {f}, ![l + 1] = @ \cup {f}]
  BY <1>3
<1>5. l \in Tree!Level /\ l + 1 \in Tree!Level /\ l # l + 1 /\ l + 1 # 0
  BY LevelFacts
<1>6. /\ \A m \in Tree!Level : files'[m] = IF m = l THEN files[l] \ {f}
                                       ELSE IF m = l + 1 THEN files[l + 1] \cup {f} ELSE files[m]
      /\ files' \in [Tree!Level -> SUBSET (SUBSET written)]
  <2>1. files' = [files EXCEPT ![l] = @ \ {f}, ![l + 1] = @ \cup {f}]
    BY <1>4
  <2>2. f \in SUBSET written /\ files \in [Tree!Level -> SUBSET (SUBSET written)]
    BY <1>5 DEF TreeTypes
  <2>3. \A m \in Tree!Level : files'[m] = IF m = l THEN files[l] \ {f}
                                       ELSE IF m = l + 1 THEN files[l + 1] \cup {f} ELSE files[m]
    BY <1>5, <2>1, <2>2
  <2>4. files[l] \ {f} \in SUBSET (SUBSET written) /\ files[l + 1] \cup {f} \in SUBSET (SUBSET written)
    BY <1>5, <2>2
  <2>5. files' \in [Tree!Level -> SUBSET (SUBSET written)]
    BY <1>5, <2>1, <2>2, <2>4
  <2> QED BY <2>3, <2>5
<1>7. TreeTypes'
  <2>1. \A m \in Tree!Level : {} \notin files'[m]
    BY <1>5, <1>6 DEF TreeTypes
  <2> QED BY <1>1, <1>6, <2>1 DEF TreeTypes
<1>8. \A x \in files[l + 1] : Tree!Span(x) \cap Tree!Span(f) = {}
  <2>1. inputs[2] = {} /\ inputs[1] = Tree!Picked(l, f) /\ f \in inputs[1]
    <3>1. Tree!Picked(l, f) \in SUBSET files[l] /\ f \in Tree!Picked(l, f)
      BY PickedRight
    <3>2. inputs[2] = {}
      BY <1>4 DEF Tree!Trivial
    <3>3. inputs[1] = Tree!Picked(l, f)
      BY <3>1, <3>2, InputsRight
    <3> QED BY <3>1, <3>2, <3>3
  <2>2. \A x \in files[l + 1] : Tree!Overlap(x, Tree!Span(Tree!Entries(inputs[1]))) => x \in inputs[2]
    <3>1. Tree!Picked(l, f) \in SUBSET files[l]
      BY PickedRight
    <3> QED BY <3>1, InputsRight
  <2>3. Tree!Span(f) \subseteq Tree!Span(Tree!Entries(inputs[1]))
    BY <2>1, SpanGrows DEF Tree!Entries
  <2> QED BY <2>1, <2>2, <2>3 DEF Tree!Overlap
<1>9. \A x \in files[l + 1] : Apart(x, f) /\ Apart(f, x)
  <2> SUFFICES ASSUME NEW x \in files[l + 1] PROVE Apart(x, f)
    BY DEF Apart
  <2>1. AreEntries(x) /\ AreEntries(f)
    BY <1>5, TypeFacts
  <2> QED BY <1>8, <2>1, RangesApartEntries
<1>10. Tree!LevelsDisjoint'
  <2> SUFFICES ASSUME ~ gap, NEW m \in Tree!Level \ {0}, NEW g \in files'[m], NEW h \in files'[m], g # h
               PROVE  Apart(g, h)
    BY <1>1 DEF Tree!LevelsDisjoint, Tree!Disjoint, Apart, AllBefore
  <2>1. CASE g \in files[m] /\ h \in files[m]
    BY <2>1 DEF Tree!LevelsDisjoint, Tree!Disjoint, Apart, AllBefore
  <2>2. CASE ~ (g \in files[m] /\ h \in files[m])
    BY <1>5, <1>6, <1>9, <2>2
  <2> QED BY <2>1, <2>2
<1> QED BY <1>1, <1>7, <1>10 DEF JobTypes, JobApart

(* A cut ends an output: the entries behind it are in the next ones. *)
LEMMA OutputsApart ==
    ASSUME NEW E, AreEntries(E), Numbered(E), NEW cuts \in SUBSET E,
           NEW f \in Tree!Outputs(E, cuts), NEW g \in Tree!Outputs(E, cuts), f # g
    PROVE  Apart(f, g)
<1>1. PICK a \in E : f = {d \in E : Tree!CutsBefore(d, cuts) = Tree!CutsBefore(a, cuts)}
  BY DEF Tree!Outputs
<1>2. PICK b \in E : g = {d \in E : Tree!CutsBefore(d, cuts) = Tree!CutsBefore(b, cuts)}
  BY DEF Tree!Outputs
<1>3. Tree!CutsBefore(a, cuts) # Tree!CutsBefore(b, cuts)
  BY <1>1, <1>2
<1>4. ASSUME NEW c \in cuts, NEW d \in E, NEW e \in E, ~ Tree!Before(c, d), Tree!Before(c, e)
      PROVE  Tree!Before(d, e)
  BY <1>4, BeforeOrder
<1>5. CASE \E c \in Tree!CutsBefore(b, cuts) : c \notin Tree!CutsBefore(a, cuts)
  <2>1. PICK c \in cuts : c \in Tree!CutsBefore(b, cuts) /\ c \notin Tree!CutsBefore(a, cuts)
    BY <1>5 DEF Tree!CutsBefore
  <2>2. (\A d \in f : ~ Tree!Before(c, d)) /\ \A e \in g : Tree!Before(c, e)
    BY <1>1, <1>2, <2>1 DEF Tree!CutsBefore
  <2>3. AllBefore(f, g)
    BY <1>1, <1>2, <1>4, <2>2 DEF AllBefore
  <2> QED BY <2>3 DEF Apart
<1>6. CASE \E c \in Tree!CutsBefore(a, cuts) : c \notin Tree!CutsBefore(b, cuts)
  <2>1. PICK c \in cuts : c \in Tree!CutsBefore(a, cuts) /\ c \notin Tree!CutsBefore(b, cuts)
    BY <1>6 DEF Tree!CutsBefore
  <2>2. (\A d \in g : ~ Tree!Before(c, d)) /\ \A e \in f : Tree!Before(c, e)
    BY <1>1, <1>2, <2>1 DEF Tree!CutsBefore
  <2>3. AllBefore(g, f)
    BY <1>1, <1>2, <1>4, <2>2 DEF AllBefore
  <2> QED BY <2>3 DEF Apart
<1> QED BY <1>3, <1>5, <1>6

LEMMA OutputsHold ==
    ASSUME NEW E, NEW cuts
    PROVE  /\ \A f \in Tree!Outputs(E, cuts) : f # {} /\ f \subseteq E
           /\ Tree!Entries(Tree!Outputs(E, cuts)) = E
  BY DEF Tree!Outputs, Tree!Entries

Kept == {e \in Inputs : ~ Tree!Dropped(e, Inputs)}

LEMMA DoneStep == TreeInv /\ Tree!CompactionDone => TreeInv'
<1> SUFFICES ASSUME TreeInv, Tree!CompactionDone PROVE TreeInv'
  OBVIOUS
<1> USE DEF TreeInv
<1>1. /\ job.on /\ ~ job'.on /\ UNCHANGED <<mem, lastSeq, snapshots, written, gap>>
      /\ \E cuts \in SUBSET Kept :
            files' = [files EXCEPT ![job.level] = @ \ job.upper,
                                   ![job.level + 1] = (@ \ job.lower) \cup Tree!Outputs(Kept, cuts)]
  <2>1. job.on /\ job' = Tree!NoJob /\ UNCHANGED <<mem, lastSeq, snapshots, written, gap>>
    BY DEF Tree!CompactionDone
  <2>2. \E cuts \in SUBSET {c \in Kept : \E e \in Kept : Tree!Before(c, e)} :
            files' = [files EXCEPT ![job.level] = @ \ job.upper,
                                   ![job.level + 1] = (@ \ job.lower) \cup Tree!Outputs(Kept, cuts)]
    BY DEF Tree!CompactionDone, Kept, Inputs
  <2> QED BY <2>1, <2>2 DEF Tree!NoJob
<1>2. PICK cuts \in SUBSET Kept :
            files' = [files EXCEPT ![job.level] = @ \ job.upper,
                                   ![job.level + 1] = (@ \ job.lower) \cup Tree!Outputs(Kept, cuts)]
  BY <1>1
<1> DEFINE l == job.level
           outputs == Tree!Outputs(Kept, cuts)
<1>3. /\ l \in Tree!Level /\ l + 1 \in Tree!Level /\ l # l + 1 /\ l + 1 # 0
      /\ job.upper \subseteq files[l] /\ job.lower \subseteq files[l + 1]
  <2>1. l \in Tree!Level /\ l \in Nat
    BY <1>1, LevelFacts DEF JobTypes
  <2> QED BY <1>1, <2>1 DEF JobTypes
<1>4. Inputs \subseteq written /\ Kept \subseteq Inputs /\ AreEntries(Kept) /\ Numbered(Kept)
  <2>1. Inputs \subseteq written
    BY <1>3, TypeFacts DEF Inputs, Tree!Entries
  <2> QED BY <2>1, TypeFacts DEF Kept
<1>5. \A f \in outputs : f # {} /\ f \subseteq Kept
  BY OutputsHold
<1> HIDE DEF outputs
<1>6. /\ \A m \in Tree!Level : files'[m] = IF m = l THEN files[l] \ job.upper
                                       ELSE IF m = l + 1 THEN (files[l + 1] \ job.lower) \cup outputs
                                       ELSE files[m]
      /\ files' \in [Tree!Level -> SUBSET (SUBSET written)]
  <2>1. outputs \in SUBSET (SUBSET written)
    BY <1>4, <1>5
  <2>2. files' = [files EXCEPT ![l] = @ \ job.upper, ![l + 1] = (@ \ job.lower) \cup outputs]
    BY <1>2 DEF outputs
  <2> HIDE DEF l
  <2> QED BY <1>3, <2>1, <2>2 DEF TreeTypes
<1>7. TreeTypes'
  <2>1. \A m \in Tree!Level : {} \notin files'[m]
    BY <1>3, <1>5, <1>6 DEF TreeTypes
  <2> QED BY <1>1, <1>6, <2>1 DEF TreeTypes
<1>8. Tree!LevelsDisjoint'
  <2> SUFFICES ASSUME ~ gap, NEW m \in Tree!Level \ {0}, NEW g \in files'[m], NEW h \in files'[m], g # h
               PROVE  Apart(g, h)
    BY <1>1 DEF Tree!LevelsDisjoint, Tree!Disjoint, Apart, AllBefore
  <2>1. CASE g \in files[m] /\ h \in files[m]
    BY <2>1 DEF Tree!LevelsDisjoint, Tree!Disjoint, Apart, AllBefore
  <2>2. CASE ~ (g \in files[m] /\ h \in files[m])
    <3>1. m = l + 1
      BY <1>3, <1>6, <2>2
    <3>2. g \in (files[l + 1] \ job.lower) \cup outputs /\ h \in (files[l + 1] \ job.lower) \cup outputs
      BY <1>3, <1>6, <3>1
    <3>3. ASSUME NEW x \in files[l + 1] \ job.lower, NEW y \in outputs PROVE Apart(x, y) /\ Apart(y, x)
      <4>1. Apart(x, Inputs)
        BY <1>1, <3>3 DEF JobApart
      <4>2. y \subseteq Inputs
        BY <1>4, <1>5
      <4>3. Apart(x, y)
        BY <4>1, <4>2, ApartSmaller
      <4> QED BY <4>3 DEF Apart
    <3>4. ASSUME NEW x \in outputs, NEW y \in outputs, x # y PROVE Apart(x, y)
      BY <1>4, <3>4, OutputsApart DEF outputs
    <3> QED BY <2>2, <3>1, <3>2, <3>3, <3>4
  <2> QED BY <2>1, <2>2
<1> QED BY <1>1, <1>7, <1>8 DEF JobTypes, JobApart

LEMMA TreeStep == TreeInv /\ [Tree!Next]_Tree!vars => TreeInv'
<1> SUFFICES ASSUME TreeInv, [Tree!Next]_Tree!vars PROVE TreeInv'
  OBVIOUS
<1>1. ASSUME NEW k \in Tree!Key, NEW del \in BOOLEAN, Tree!Put(k, del) PROVE TreeInv'
  <2>1. TreeTypes'
    BY <1>1, PutTypes DEF TreeInv
  <2> QED BY <1>1, <2>1, QuietStep DEF Tree!Put
<1>2. CASE Tree!GetSnapshot \/ (\E s \in snapshots : Tree!ReleaseSnapshot(s)) \/ UNCHANGED Tree!vars
  <2>1. UNCHANGED <<mem, files, lastSeq, job, written, gap>> /\ snapshots' \subseteq snapshots \cup {lastSeq}
    BY <1>2 DEF Tree!GetSnapshot, Tree!ReleaseSnapshot, Tree!vars
  <2>2. TreeTypes'
    BY <2>1 DEF TreeInv, TreeTypes
  <2> QED BY <2>1, <2>2, QuietStep
<1>3. ASSUME NEW lo \in Tree!Key, NEW hi \in Tree!Key, Tree!CompactRange(lo..hi) PROVE TreeInv'
  BY <1>3, RangeStep
<1> QED BY <1>1, <1>2, <1>3, FlushStep, PickStep, MoveStep, DoneStep DEF Tree!Next

-----------------------------------------------------------------------------
LEMMA LeastOf == ASSUME NEW S, S \subseteq Nat, S # {} PROVE \E x \in S : \A y \in S : x <= y
<1>1. PICK x \in S : \A y \in S : ~ (<<y, x>> \in OpToRel(<, Nat))
  BY NatLessThanWellFounded, WFMin, Zenon
<1>2. \A y, z \in Nat : y < z => <<y, z>> \in OpToRel(<, Nat)
  <2> SUFFICES ASSUME NEW y \in Nat, NEW z \in Nat, y < z
               PROVE  <<y, z>> \in {ss \in Nat \X Nat : ss[1] < ss[2]}
    BY Zenon DEF OpToRel
  <2> QED OBVIOUS
<1>3. \A y \in S : ~ (y < x)
  BY <1>1, <1>2
<1>4. \A y \in S : x <= y
  BY <1>3
<1> QED BY <1>4

LEMMA GreatestOf ==
    ASSUME NEW S, S \subseteq Nat, S # {}, NEW b \in Nat, \A y \in S : y <= b
    PROVE  \E x \in S : \A y \in S : y <= x
<1> DEFINE T == {b - y : y \in S}
<1>1. T \subseteq Nat /\ T # {}
  <2>1. \A y \in S : b - y \in Nat
    OBVIOUS
  <2> QED BY <2>1
<1>2. PICK t \in T : \A u \in T : t <= u
  BY <1>1, LeastOf
<1>3. PICK x \in S : t = b - x
  BY <1>2
<1>4. \A y \in S : b - x <= b - y
  BY <1>2, <1>3
<1>5. \A y \in S : y <= x
  <2> TAKE y \in S
  <2>1. x \in Nat /\ y \in Nat /\ b - x <= b - y
    BY <1>4
  <2> QED BY <2>1
<1> QED BY <1>5

(* What is recorded of the entries written. *)
Known(W) == AreEntries(W) /\ Numbered(W) /\ \E b \in Nat : \A e \in W : e.seq <= b

LEMMA WrittenKnown == TreeTypes => Known(written)
  BY DEF TreeTypes, Known

LEMMA NewestIs ==
    ASSUME NEW W, Known(W), NEW E \in SUBSET W, NEW n \in E, \A d \in E : d.seq <= n.seq
    PROVE  Tree!Newest(E) = n
<1>1. \A e \in E : (\A d \in E : d.seq <= e.seq) => e = n
  <2> SUFFICES ASSUME NEW e \in E, \A d \in E : d.seq <= e.seq PROVE e = n
    OBVIOUS
  <2>1. e.seq \in Nat /\ n.seq \in Nat /\ e.seq <= n.seq /\ n.seq <= e.seq
    BY DEF Known, AreEntries
  <2> QED BY <2>1 DEF Known, Numbered
<1> QED BY <1>1 DEF Tree!Newest

LEMMA NewestOf ==
    ASSUME NEW W, Known(W), NEW E \in SUBSET W, E # {}
    PROVE  Tree!Newest(E) \in E /\ \A d \in E : d.seq <= Tree!Newest(E).seq
<1> DEFINE S == {e.seq : e \in E}
<1>0. PICK b \in Nat : \A e \in W : e.seq <= b
  BY DEF Known
<1>1. S \subseteq Nat /\ S # {} /\ \A y \in S : y <= b
  BY <1>0 DEF Known, AreEntries
<1>2. PICK x \in S : \A y \in S : y <= x
  BY <1>1, GreatestOf
<1>3. PICK n \in E : x = n.seq
  BY <1>2
<1>4. \A d \in E : d.seq <= n.seq
  BY <1>2, <1>3
<1> QED BY <1>4, NewestIs

LEMMA FirstOf ==
    ASSUME NEW W, Known(W), NEW E \in SUBSET W, E # {}
    PROVE  Tree!First(E) \in E /\ \A d \in E : d = Tree!First(E) \/ Tree!Before(Tree!First(E), d)
<1>0. PICK b \in Nat : \A e \in W : e.seq <= b
  BY DEF Known
<1>1. \A e \in E : e.key \in Nat /\ e.seq \in Nat /\ e.seq <= b
  BY <1>0, KeyNat DEF Known, AreEntries
<1>2. PICK k \in {e.key : e \in E} : \A j \in {e.key : e \in E} : k <= j
  <2>1. {e.key : e \in E} \subseteq Nat /\ {e.key : e \in E} # {}
    BY <1>1
  <2> QED BY <2>1, LeastOf
<1> DEFINE S == {e.seq : e \in {d \in E : d.key = k}}
<1>3. S \subseteq Nat /\ S # {} /\ \A y \in S : y <= b
  BY <1>1, <1>2
<1>4. PICK x \in S : \A y \in S : y <= x
  BY <1>3, GreatestOf
<1>5. PICK f \in E : f.key = k /\ f.seq = x
  BY <1>4
<1>6. \A d \in E : d = f \/ Tree!Before(f, d)
  <2> TAKE d \in E
  <2>1. k <= d.key /\ k \in Nat
    BY <1>1, <1>2
  <2>2. CASE d.key = k
    <3>1. d.seq <= x
      BY <1>4, <2>2
    <3>2. d.seq = x => d = f
      BY <1>5 DEF Known, Numbered
    <3> QED BY <1>1, <1>5, <2>2, <3>1, <3>2 DEF Tree!Before
  <2> QED BY <1>1, <1>5, <2>1, <2>2 DEF Tree!Before
<1> QED BY <1>6 DEF Tree!First

(* E and its part F give k the same value if for all that is seen of E     *)
(* something at least as new is seen of F.                                 *)
LEMMA SameValue ==
    ASSUME NEW W, Known(W), NEW E \in SUBSET W, NEW F \in SUBSET E, NEW k, NEW s,
           \A d \in Tree!Seen(E, k, s) : \E e \in Tree!Seen(F, k, s) : d.seq <= e.seq
    PROVE  Tree!ValueIn(F, k, s) = Tree!ValueIn(E, k, s)
<1>1. Tree!Seen(F, k, s) \subseteq Tree!Seen(E, k, s) /\ Tree!Seen(E, k, s) \subseteq W
  BY DEF Tree!Seen
<1>2. CASE Tree!Seen(E, k, s) = {}
  BY <1>1, <1>2 DEF Tree!ValueIn
<1>3. CASE Tree!Seen(E, k, s) # {}
  <2> DEFINE n == Tree!Newest(Tree!Seen(E, k, s))
  <2>1. n \in Tree!Seen(E, k, s) /\ \A d \in Tree!Seen(E, k, s) : d.seq <= n.seq
    BY <1>1, <1>3, NewestOf
  <2> HIDE DEF n
  <2>2. PICK e \in Tree!Seen(F, k, s) : n.seq <= e.seq
    BY <2>1
  <2>3. e.seq \in Nat /\ n.seq \in Nat /\ e.seq <= n.seq
    BY <1>1, <2>1 DEF Known, AreEntries
  <2>4. e = n
    BY <1>1, <2>1, <2>2, <2>3 DEF Known, Numbered
  <2>5. Tree!Newest(Tree!Seen(F, k, s)) = n
    BY <1>1, <2>1, <2>4, NewestIs
  <2> QED BY <1>3, <2>4, <2>5 DEF Tree!ValueIn, n
<1> QED BY <1>2, <1>3

LEMMA NoOverlap ==
    ASSUME NEW E, NEW F, AreEntries(E), AreEntries(F), Tree!Span(E) \cap Tree!Span(F) = {}
    PROVE  NoSharedKey(E, F) /\ NoSharedKey(F, E)
<1>1. (\A d \in E : d.key \in Tree!Span(E)) /\ \A e \in F : e.key \in Tree!Span(F)
  BY SpanHas
<1> QED BY <1>1 DEF NoSharedKey

-----------------------------------------------------------------------------
(* Version::Get finds the table that has something to show. *)
LEMMA TableFound ==
    ASSUME ReadInv, Clean, NEW l \in Tree!Level \ {0}, NEW k \in Tree!Key, NEW s \in Nat, NEW f \in files[l],
           Tree!Seen(f, k, s) # {}
    PROVE  Tree!TableOf(l, k, s) = {f}
<1> DEFINE target == [key |-> k, seq |-> s]
<1>1. TreeTypes /\ Tree!Disjoint(l) /\ \A g \in files[l] : g # f => NoSharedKey(f, g)
  BY DEF ReadInv, TreeInv, Tree!LevelsDisjoint, Clean, Ordered
<1>2. \A g \in files[l] : g \in SUBSET written /\ g # {}
  BY <1>1, TypeFacts
<1>3. \A g \in files[l] : Tree!First(g) \in g
  BY <1>1, <1>2, FirstOf, WrittenKnown
<1>4. \A d \in written : d.key \in Nat /\ d.seq \in Nat
  BY <1>1, KeyNat DEF TreeTypes, AreEntries
<1>5. PICK e \in f : e.key = k /\ e.seq <= s
  BY DEF Tree!Seen
<1>6. k \in Nat /\ e \in written
  BY <1>2, KeyNat
<1>7. ~ Tree!Before(e, target)
  BY <1>4, <1>5, <1>6 DEF Tree!Before
<1>8. ASSUME NEW g \in files[l], g # f
      PROVE  \/ Tree!Before(Tree!First(f), Tree!First(g)) /\ ~ Tree!Before(Tree!First(g), Tree!First(f))
             \/ /\ Tree!Before(Tree!First(g), Tree!First(f)) /\ ~ Tree!Before(Tree!First(f), Tree!First(g))
                /\ \A d \in g : Tree!Before(d, target)
  <2>1. AllBefore(f, g) \/ AllBefore(g, f)
    BY <1>1, <1>8 DEF Tree!Disjoint, AllBefore
  <2>2. Tree!First(f) \in f /\ Tree!First(g) \in g /\ Tree!First(f) \in written /\ Tree!First(g) \in written /\ g \subseteq written
    BY <1>2, <1>3
  <2>3. Tree!Before(Tree!First(f), Tree!First(g)) => ~ Tree!Before(Tree!First(g), Tree!First(f))
    BY <1>4, <2>2 DEF Tree!Before
  <2>4. CASE AllBefore(f, g)
    BY <2>2, <2>3, <2>4 DEF AllBefore
  <2>5. CASE AllBefore(g, f)
    <3>1. \A d \in g : Tree!Before(d, e) /\ d.key # e.key /\ d.key \in Nat
      BY <1>1, <1>4, <1>8, <2>2, <2>5 DEF AllBefore, NoSharedKey
    <3>2. \A d \in g : Tree!Before(d, target)
      BY <1>5, <1>6, <3>1 DEF Tree!Before
    <3> QED BY <2>2, <2>3, <2>5, <3>2 DEF AllBefore
  <2> QED BY <2>1, <2>4, <2>5
<1>9. f \in Tree!TableOf(l, k, s)
  BY <1>7, <1>8 DEF Tree!TableOf
<1>10. ASSUME NEW g \in Tree!TableOf(l, k, s), g # f PROVE FALSE
  <2>1. g \in files[l] /\ (\E d \in g : ~ Tree!Before(d, target)) /\ Tree!Before(Tree!First(g), Tree!First(f))
    BY <1>5, <1>7, <1>10 DEF Tree!TableOf
  <2> QED BY <1>8, <1>10, <2>1
<1> QED BY <1>9, <1>10

LEMMA PresentFacts ==
    ASSUME TreeTypes
    PROVE  /\ Present \subseteq written
           /\ \A d : d \in Present <=> d \in mem \/ \E l \in Tree!Level : \E f \in files[l] : d \in f
  BY DEF TreeTypes, Present, Tree!Entries

LEMMA PresentNext ==
    \A d : d \in Present' <=> d \in mem' \/ \E l \in Tree!Level : \E f \in files'[l] : d \in f
<1>1. \A d : d \in Present' <=> d \in mem' \/ d \in UNION {Tree!Entries(files'[l]) : l \in Tree!Level}
  BY DEF Present
<1>2. \A d : d \in UNION {Tree!Entries(files'[l]) : l \in Tree!Level} <=> \E l \in Tree!Level : d \in Tree!Entries(files'[l])
  OBVIOUS
<1> QED BY <1>1, <1>2 DEF Tree!Entries

LEMMA PlacesRight ==
    ASSUME ReadInv, Clean, NEW k \in Tree!Key, NEW s \in Nat
    PROVE  Tree!ValueIn(Tree!Places(k, s), k, s) = Tree!ValueIn(Present, k, s)
<1> DEFINE levels == {l \in Tree!Level : \E f \in Tree!TableOf(l, k, s) : l > 0 /\ Tree!Seen(f, k, s) # {}}
           recent == {f \in files[0] : Tree!Seen(f, k, s) # {}}
           P == Tree!Places(k, s)
<1>1. TreeTypes /\ Present \in SUBSET written
  BY PresentFacts DEF ReadInv, TreeInv
<1>2. SUFFICES P \in SUBSET Present /\ \A d \in Tree!Seen(Present, k, s) : \E e \in Tree!Seen(P, k, s) : d.seq <= e.seq
  BY <1>1, SameValue, WrittenKnown
<1>3. /\ \A l \in Tree!Level : \A f \in files[l] : AllNewer(mem, f)
      /\ \A f, g \in files[0] : f # g => AllNewer(f, g) \/ AllNewer(g, f)
      /\ Tree!EntriesNeverHop
      /\ \A l \in Tree!Level \ {0} : \A f, g \in files[l] : f # g => NoSharedKey(f, g)
  BY DEF ReadInv, Ordered
<1>4. \A d \in written : d.seq \in Nat
  BY <1>1 DEF TreeTypes, AreEntries
<1>5. 0 \in Tree!Level /\ Tree!Level \subseteq Nat
  BY LevelFacts
<1>6. ASSUME NEW d \in Tree!Seen(Present, k, s)
      PROVE  /\ d.key = k /\ d.seq <= s /\ d.seq \in Nat
             /\ d \in Tree!Seen(mem, k, s) \/ \E l \in Tree!Level : \E f \in files[l] : d \in Tree!Seen(f, k, s)
  BY <1>1, <1>4, PresentFacts DEF Tree!Seen
<1>7. CASE Tree!Seen(mem, k, s) # {}
  <2>1. P = mem
    BY <1>7 DEF Tree!Places
  <2>2. mem \subseteq Present
    BY DEF Present
  <2>3. PICK m \in Tree!Seen(mem, k, s) : TRUE
    BY <1>7
  <2>4. ASSUME NEW d \in Tree!Seen(Present, k, s) PROVE \E e \in Tree!Seen(mem, k, s) : d.seq <= e.seq
    <3>1. CASE d \in Tree!Seen(mem, k, s)
      BY <1>6, <3>1
    <3>2. CASE \E l \in Tree!Level : \E f \in files[l] : d \in Tree!Seen(f, k, s)
      <4>1. m.seq > d.seq /\ m.seq \in Nat /\ d.seq \in Nat
        BY <1>1, <1>2, <1>3, <1>4, <1>6, <2>2, <2>3, <3>2 DEF AllNewer, Tree!Seen
      <4> QED BY <2>3, <4>1
    <3> QED BY <1>6, <3>1, <3>2
  <2> QED BY <2>1, <2>2, <2>4
<1>8. CASE Tree!Seen(mem, k, s) = {} /\ recent # {}
  <2> DEFINE f == Tree!NewestTable(recent)
  <2>1. P = f
    BY <1>8 DEF Tree!Places
  <2>2. Tree!Entries(recent) \in SUBSET written /\ Tree!Entries(recent) # {}
    <3>1. \A g \in recent : g \subseteq written /\ g # {}
      BY <1>1, <1>5, TypeFacts
    <3> QED BY <1>8, <3>1 DEF Tree!Entries
  <2> DEFINE n == Tree!Newest(Tree!Entries(recent))
  <2>3. n \in Tree!Entries(recent) /\ \A d \in Tree!Entries(recent) : d.seq <= n.seq
    BY <1>1, <2>2, NewestOf, WrittenKnown
  <2>4. f \in recent /\ n \in f
    BY <2>3 DEF Tree!NewestTable, Tree!Entries
  <2> HIDE DEF f, n
  <2>5. PICK e \in Tree!Seen(f, k, s) : TRUE
    BY <2>4
  <2>6. ASSUME NEW g \in recent, g # f PROVE AllNewer(f, g)
    <3>1. PICK d \in g : TRUE
      BY <1>5, <1>1, TypeFacts, <2>6
    <3>2. d.seq \in Nat /\ n.seq \in Nat /\ d.seq <= n.seq
      BY <1>4, <2>2, <2>3, <3>1 DEF Tree!Entries
    <3>3. ~ AllNewer(g, f)
      BY <2>4, <3>1, <3>2 DEF AllNewer
    <3> QED BY <1>3, <2>4, <2>6, <3>3
  <2>7. ASSUME NEW d \in Tree!Seen(Present, k, s) PROVE \E c \in Tree!Seen(f, k, s) : d.seq <= c.seq
    <3>1. PICK l \in Tree!Level, g \in Tree!Entries({files[m] : m \in Tree!Level}) : g \in files[l] /\ d \in Tree!Seen(g, k, s)
      BY <1>6, <1>8 DEF Tree!Entries
    <3>2. e.key = k /\ e \in f /\ e \in written /\ e.seq \in Nat
      BY <1>4, <2>2, <2>4, <2>5 DEF Tree!Seen, Tree!Entries
    <3>3. CASE l = 0 /\ g = f
      BY <1>6, <3>1, <3>3
    <3>4. CASE l = 0 /\ g # f
      <4>1. d.seq < e.seq
        BY <2>6, <3>1, <3>2, <3>4 DEF AllNewer, Tree!Seen
      <4> QED BY <1>6, <2>5, <3>2, <4>1
    <3>5. CASE l # 0
      <4>1. 0 < l /\ e \in Tree!Entries(files[0]) /\ d \in Tree!Entries(files[l])
        BY <1>5, <2>4, <3>1, <3>2, <3>5 DEF Tree!Entries, Tree!Seen
      <4>2. e.seq > d.seq
        BY <1>3, <1>5, <1>6, <3>2, <4>1 DEF Tree!EntriesNeverHop
      <4> QED BY <1>6, <2>5, <3>2, <4>2
    <3> QED BY <3>3, <3>4, <3>5
  <2>8. f \subseteq Present
    BY <1>1, <1>5, <2>4, PresentFacts
  <2> QED BY <2>1, <2>7, <2>8
<1>9. CASE Tree!Seen(mem, k, s) = {} /\ recent = {} /\ levels # {}
  <2> DEFINE top == CHOOSE l \in levels : \A m \in levels : l <= m
  <2>1. P = Tree!Entries(Tree!TableOf(top, k, s))
    BY <1>9 DEF Tree!Places
  <2>2. top \in levels /\ \A m \in levels : top <= m
    <3>1. levels \subseteq Nat
      BY <1>5
    <3>2. \E l \in levels : \A m \in levels : l <= m
      BY <1>9, <3>1, LeastOf
    <3> QED BY <3>2
  <2> HIDE DEF top
  <2>3. PICK f \in Tree!TableOf(top, k, s) : Tree!Seen(f, k, s) # {}
    BY <2>2
  <2>4. top \in Tree!Level \ {0} /\ f \in files[top]
    BY <2>2, <2>3 DEF Tree!TableOf
  <2>5. P = f
    <3>1. Tree!TableOf(top, k, s) = {f}
      BY <2>3, <2>4, TableFound
    <3> QED BY <2>1, <3>1 DEF Tree!Entries
  <2>6. PICK e \in Tree!Seen(f, k, s) : TRUE
    BY <2>3
  <2>7. e.key = k /\ e \in f /\ e \in written /\ e.seq \in Nat
    BY <1>1, <1>4, <2>4, <2>6, TypeFacts DEF Tree!Seen
  <2>8. ASSUME NEW d \in Tree!Seen(Present, k, s) PROVE \E c \in Tree!Seen(f, k, s) : d.seq <= c.seq
    <3>1. PICK l \in Tree!Level, g \in Tree!Entries({files[m] : m \in Tree!Level}) : g \in files[l] /\ d \in Tree!Seen(g, k, s)
      BY <1>6, <1>9 DEF Tree!Entries
    <3>2. l # 0
      BY <1>9, <3>1
    <3>3. l \in levels
      <4>1. Tree!TableOf(l, k, s) = {g}
        BY <3>1, <3>2, TableFound
      <4> QED BY <1>5, <3>1, <3>2, <4>1
    <3>4. CASE l = top /\ g = f
      BY <1>6, <3>1, <3>4
    <3>5. CASE l = top /\ g # f
      BY <1>3, <1>6, <2>4, <2>7, <3>1, <3>5 DEF NoSharedKey, Tree!Seen
    <3>6. CASE l # top
      <4>1. top < l
        BY <1>5, <2>2, <2>4, <3>1, <3>3, <3>6
      <4>2. e \in Tree!Entries(files[top])
        BY <2>4, <2>7 DEF Tree!Entries
      <4>3. d \in Tree!Entries(files[l])
        BY <3>1 DEF Tree!Entries, Tree!Seen
      <4>4. e.seq > d.seq
        BY <1>3, <1>6, <2>4, <2>7, <3>1, <4>1, <4>2, <4>3 DEF Tree!EntriesNeverHop
      <4> QED BY <1>6, <2>6, <2>7, <4>4
    <3> QED BY <3>4, <3>5, <3>6
  <2>9. f \subseteq Present
    BY <1>1, <2>4, PresentFacts
  <2> QED BY <2>5, <2>8, <2>9
<1>10. CASE Tree!Seen(mem, k, s) = {} /\ recent = {} /\ levels = {}
  <2>1. P = {}
    BY <1>10 DEF Tree!Places
  <2>2. ASSUME NEW d \in Tree!Seen(Present, k, s) PROVE FALSE
    <3>1. PICK l \in Tree!Level, g \in Tree!Entries({files[m] : m \in Tree!Level}) : g \in files[l] /\ d \in Tree!Seen(g, k, s)
      BY <1>6, <1>10 DEF Tree!Entries
    <3>2. l # 0
      BY <1>10, <3>1
    <3>3. Tree!TableOf(l, k, s) = {g}
      BY <3>1, <3>2, TableFound
    <3> QED BY <1>5, <1>10, <3>1, <3>2, <3>3
  <2> QED BY <2>1, <2>2
<1> QED BY <1>7, <1>8, <1>9, <1>10

LEMMA ReadsShown == ReadInv => Tree!ReadsRight
<1> SUFFICES ASSUME ReadInv, ~ split, ~ gap, NEW s \in snapshots \cup {lastSeq}, NEW k \in Tree!Key
             PROVE  Tree!ValueIn(Tree!Places(k, s), k, s) = Tree!ValueIn(written, k, s)
  BY DEF Tree!ReadsRight
<1>1. Clean /\ s \in Nat
  BY DEF Clean, ReadInv, TreeInv, TreeTypes
<1>2. Tree!ValueIn(Present, k, s) = Tree!ValueIn(written, k, s)
  BY <1>1 DEF ReadInv, Values
<1> QED BY <1>1, <1>2, PlacesRight

-----------------------------------------------------------------------------
Reads == Ordered /\ JobOrdered /\ Values

LEMMA PutReads ==
    ASSUME ReadInv, NEW k \in Tree!Key, NEW del \in BOOLEAN, Tree!Put(k, del)
    PROVE  Reads'
<1> DEFINE e == [key |-> k, seq |-> lastSeq + 1, del |-> del]
<1>1. /\ mem' = mem \cup {e} /\ written' = written \cup {e} /\ lastSeq' = lastSeq + 1
      /\ UNCHANGED <<files, snapshots, job, split, gap>>
  BY DEF Tree!Put
<1>2. e.key = k /\ e.seq = lastSeq + 1 /\ lastSeq \in Nat
  BY DEF ReadInv, TreeInv, TreeTypes
<1> HIDE DEF e
<1>3. /\ TreeTypes /\ TreeTypes'
      /\ \A d \in written : d.seq \in Nat /\ d.seq <= lastSeq
  BY PutTypes DEF ReadInv, TreeInv, TreeTypes, AreEntries
<1>4. /\ Present' = Present \cup {e} /\ Present \subseteq written
      /\ Present' \in SUBSET written' /\ mem \subseteq Present
  BY <1>1, <1>3, PresentFacts DEF Present
<1>5. Ordered'
  <2>1. ASSUME NEW l \in Tree!Level, NEW f \in files[l] PROVE AllNewer(mem', f)
    <3>1. f \subseteq written /\ AllNewer(mem, f)
      BY <1>3, TypeFacts DEF ReadInv, Ordered
    <3>2. \A d \in f : e.seq > d.seq
      BY <1>2, <1>3, <3>1
    <3> QED BY <1>1, <3>1, <3>2 DEF AllNewer
  <2> QED BY <1>1, <2>1 DEF ReadInv, Ordered, Clean, Tree!EntriesNeverHop
<1>6. JobOrdered'
  <2>1. job.on => \A s \in snapshots' \cup {lastSeq'} : job.smallest <= s
    <3>1. job.on => job.smallest \in Nat /\ job.smallest <= lastSeq
      BY DEF ReadInv, JobOrdered
    <3>2. job.on => job.smallest <= lastSeq + 1
      BY <1>2, <3>1
    <3> QED BY <1>1, <3>2 DEF ReadInv, JobOrdered
  <2> QED BY <1>1, <2>1 DEF ReadInv, JobOrdered, Clean, Inputs
<1>7. Values'
  <2> SUFFICES ASSUME Clean', NEW s \in snapshots' \cup {lastSeq'}, NEW j \in Tree!Key
               PROVE  Tree!ValueIn(Present', j, s) = Tree!ValueIn(written', j, s)
    BY DEF Values
  <2>1. Clean
    BY <1>1 DEF Clean
  <2>2. CASE s <= lastSeq
    <3>1. s \in snapshots \cup {lastSeq}
      <4>1. lastSeq' # s
        BY <1>1, <1>2, <2>2
      <4> QED BY <1>1, <4>1
    <3>2. ~ (e.seq <= s)
      BY <1>2, <1>3, <2>2, <3>1 DEF TreeTypes
    <3>3. Tree!Seen(Present', j, s) = Tree!Seen(Present, j, s) /\ Tree!Seen(written', j, s) = Tree!Seen(written, j, s)
      BY <1>1, <1>4, <3>2 DEF Tree!Seen
    <3>4. Tree!ValueIn(Present, j, s) = Tree!ValueIn(written, j, s)
      BY <2>1, <3>1 DEF ReadInv, Values
    <3> QED BY <3>3, <3>4 DEF Tree!ValueIn
  <2>3. CASE ~ (s <= lastSeq) /\ j = k
    <3>1. s = lastSeq + 1
      BY <1>1, <1>2, <1>3, <2>3 DEF TreeTypes
    <3>2. /\ e \in Tree!Seen(Present', j, s) /\ e \in Tree!Seen(written', j, s)
          /\ Tree!Seen(Present', j, s) \in SUBSET written' /\ Tree!Seen(written', j, s) \in SUBSET written'
      BY <1>1, <1>2, <1>4, <2>3, <3>1 DEF Tree!Seen
    <3>3. \A d \in written' : d.seq <= e.seq
      BY <1>1, <1>2, <1>3
    <3>4. \A d \in Tree!Seen(written', j, s) : \E c \in Tree!Seen(Present', j, s) : d.seq <= c.seq
      BY <3>2, <3>3
    <3>5. Known(written')
      <4>1. AreEntries(written') /\ Numbered(written') /\ lastSeq' \in Nat /\ \A d \in written' : d.seq <= lastSeq'
        BY <1>3 DEF TreeTypes
      <4> QED BY <4>1 DEF Known
    <3>6. written' \in SUBSET written' /\ Present' \in SUBSET written'
      BY <1>4
    <3> HIDE DEF Tree!Seen
    <3> QED BY <3>4, <3>5, <3>6, SameValue
  <2>4. CASE ~ (s <= lastSeq) /\ j # k
    <3>1. s = lastSeq + 1
      BY <1>1, <1>2, <1>3, <2>4 DEF TreeTypes
    <3>2. \A d \in written : d.seq <= s
      BY <1>2, <1>3, <3>1
    <3>3. Tree!Seen(Present', j, s) = Tree!Seen(Present, j, lastSeq) /\ Tree!Seen(written', j, s) = Tree!Seen(written, j, lastSeq)
      BY <1>1, <1>2, <1>3, <1>4, <2>4, <3>2 DEF Tree!Seen
    <3>4. Tree!ValueIn(Present, j, lastSeq) = Tree!ValueIn(written, j, lastSeq)
      BY <2>1 DEF ReadInv, Values
    <3> QED BY <3>3, <3>4 DEF Tree!ValueIn
  <2> QED BY <2>2, <2>3, <2>4
<1> QED BY <1>5, <1>6, <1>7 DEF Reads

(* The snapshots, and steps that leave all but the bounds alone. *)
LEMMA SnapshotReads ==
    ASSUME ReadInv, UNCHANGED <<mem, files, lastSeq, job, written, split, gap>>,
           snapshots' \subseteq snapshots \cup {lastSeq}
    PROVE  Reads'
<1>1. Ordered'
  BY DEF ReadInv, Ordered, Clean, Tree!EntriesNeverHop
<1>2. JobOrdered'
  BY DEF ReadInv, JobOrdered, Clean, Inputs
<1>3. Values'
  BY DEF ReadInv, Values, Clean, Present
<1> QED BY <1>1, <1>2, <1>3 DEF Reads

LEMMA FlushReads == ReadInv /\ Tree!CompactMemTable => Reads'
<1> SUFFICES ASSUME ReadInv, Tree!CompactMemTable PROVE Reads'
  OBVIOUS
<1>0. TreeTypes /\ TreeInv
  BY DEF ReadInv, TreeInv
<1>1. PICK l \in Tree!FlushLevels(Tree!Span(mem)) :
        /\ files' = [files EXCEPT ![l] = @ \cup {mem}]
        /\ gap' = (gap \/ (/\ job.on /\ job.manual /\ l = job.level + 1
                           /\ Tree!Overlap(mem, Tree!Span(Inputs))))
  BY DEF Tree!CompactMemTable, Inputs
<1>2. /\ mem # {} /\ mem' = {} /\ UNCHANGED <<lastSeq, snapshots, job, written, split>>
  BY DEF Tree!CompactMemTable
<1>3. l \in Tree!Level /\ (l # 0 => \A m \in Tree!Level : m <= l => \A f \in files[m] : ~ Tree!Overlap(f, Tree!Span(mem)))
  BY FlushedBelow
<1>4. /\ \A m \in Tree!Level : files'[m] = IF m = l THEN files[l] \cup {mem} ELSE files[m]
      /\ Tree!Level \subseteq Nat
  BY <1>0, <1>1, <1>3, LevelFacts DEF TreeTypes
<1>5. ASSUME l # 0, NEW m \in Tree!Level, m <= l, NEW f \in files[m]
      PROVE  NoSharedKey(mem, f) /\ NoSharedKey(f, mem)
  <2>1. AreEntries(f) /\ AreEntries(mem) /\ Tree!Span(f) \cap Tree!Span(mem) = {}
    BY <1>0, <1>3, <1>5, TypeFacts DEF Tree!Overlap
  <2> QED BY <2>1, NoOverlap
<1>6. \A m \in Tree!Level : \A f \in files[m] : AllNewer(mem, f)
  BY DEF ReadInv, Ordered
<1>7. Clean' => Clean
  BY <1>1, <1>2 DEF Clean
<1>8. Ordered'
  <2>1. \A m \in Tree!Level : \A f \in files'[m] : AllNewer(mem', f)
    BY <1>2 DEF AllNewer
  <2>2. ASSUME NEW f \in files'[0], NEW g \in files'[0], f # g PROVE AllNewer(f, g) \/ AllNewer(g, f)
    BY <1>4, <1>6, <2>2, LevelFacts DEF ReadInv, Ordered
  <2>3. ASSUME Clean', NEW a \in Tree!Level, NEW b \in Tree!Level, a < b, NEW d \in Tree!Entries(files'[a]),
               NEW e \in Tree!Entries(files'[b]), d.key = e.key
        PROVE  d.seq > e.seq
    <3>1. PICK f \in files'[a], g \in files'[b] : d \in f /\ e \in g
      BY DEF Tree!Entries
    <3>2. CASE f \in files[a] /\ g \in files[b]
      BY <1>7, <2>3, <3>1, <3>2 DEF ReadInv, Ordered, Tree!EntriesNeverHop, Tree!Entries
    <3>3. CASE f \notin files[a]
      <4>1. f = mem /\ a = l
        BY <1>4, <3>1, <3>3
      <4>2. a # b /\ g \in files[b]
        <5>1. a # b
          BY <1>4, <2>3
        <5>2. files'[b] = files[b]
          BY <1>4, <4>1, <5>1
        <5> QED BY <3>1, <5>1, <5>2
      <4> QED BY <1>6, <3>1, <4>1, <4>2 DEF AllNewer
    <3>4. CASE f \in files[a] /\ g \notin files[b]
      <4>1. g = mem /\ b = l /\ l # 0 /\ a <= l
        BY <1>4, <2>3, <3>1, <3>4
      <4> QED BY <1>5, <2>3, <3>1, <3>4, <4>1 DEF NoSharedKey
    <3> QED BY <3>2, <3>3, <3>4
  <2>4. ASSUME Clean', NEW m \in Tree!Level \ {0}, NEW f \in files'[m], NEW g \in files'[m], f # g
        PROVE  NoSharedKey(f, g)
    <3>1. CASE f \in files[m] /\ g \in files[m]
      BY <1>7, <2>4, <3>1 DEF ReadInv, Ordered
    <3>2. CASE ~ (f \in files[m] /\ g \in files[m])
      <4>1. m = l /\ l # 0 /\ m <= l /\ ((f = mem /\ g \in files[m]) \/ (g = mem /\ f \in files[m]))
        BY <1>4, <2>4, <3>2
      <4> QED BY <1>5, <4>1
    <3> QED BY <3>1, <3>2
  <2>5. Clean' => Tree!EntriesNeverHop'
    BY <2>3 DEF Tree!EntriesNeverHop
  <2> QED BY <2>1, <2>2, <2>4, <2>5 DEF Ordered
<1>9. JobOrdered'
  <2> SUFFICES ASSUME job.on PROVE JobOrdered'
    BY <1>2 DEF JobOrdered
  <2>1. /\ job.level \in Tree!Level /\ job.level + 1 \in Tree!Level
        /\ job.upper \subseteq files[job.level] /\ job.lower \subseteq files[job.level + 1]
    BY DEF ReadInv, TreeInv, JobTypes
  <2>0. job.level \in Nat /\ l \in Nat
    <3>1. Tree!Level \subseteq Nat
      BY LevelFacts
    <3> QED BY <1>3, <2>1, <3>1
  <2>2. AllNewer(mem, Inputs)
    BY <1>6, <2>1 DEF Inputs, Tree!Entries, AllNewer
  <2>3. ASSUME l # 0, job.level + 1 <= l PROVE NoSharedKey(mem, Inputs)
    <3>1. job.level <= l
      BY <2>0, <2>3
    <3>2. \A f \in job.upper \cup job.lower : NoSharedKey(mem, f)
      BY <1>5, <2>1, <2>3, <3>1
    <3> QED BY <3>2 DEF NoSharedKey, Inputs, Tree!Entries
  <2>4. job.level = 0 => \A x \in files'[0] \ job.upper : \/ NoSharedKey(x, Tree!Entries(job.upper))
                                                          \/ AllNewer(x, Inputs)
    BY <1>4, <2>1, <2>2 DEF ReadInv, JobOrdered
  <2>5. Clean' => \A x \in files'[job.level + 1] \ job.lower : NoSharedKey(x, Inputs)
    <3>1. job.level + 1 = l => l # 0 /\ job.level + 1 <= l
      BY <2>0
    <3> QED BY <1>4, <1>7, <2>1, <2>3, <3>1 DEF ReadInv, JobOrdered
  <2>6. \A m \in Tree!Level : m >= job.level + 2 =>
            \A x \in files'[m] : x \in job.deep \/ NoSharedKey(x, Inputs)
    <3> SUFFICES ASSUME NEW m \in Tree!Level, m >= job.level + 2, NEW x \in files'[m], x \notin job.deep
                 PROVE  NoSharedKey(x, Inputs)
      OBVIOUS
    <3>1. CASE x \in files[m]
      BY <3>1 DEF ReadInv, JobOrdered
    <3>2. CASE x \notin files[m]
      <4>1. x = mem /\ m = l
        BY <1>4, <3>2
      <4>2. l # 0 /\ job.level + 1 <= l
        BY <2>0, <4>1
      <4> QED BY <2>3, <4>1, <4>2
    <3> QED BY <3>1, <3>2
  <2> QED BY <1>2, <2>4, <2>5, <2>6 DEF ReadInv, JobOrdered, Inputs
<1>10. Values'
  <2>1. Present' = Present
    <3>1. UNION {Tree!Entries(files'[m]) : m \in Tree!Level} = mem \cup UNION {Tree!Entries(files[m]) : m \in Tree!Level}
      BY <1>3, <1>4 DEF Tree!Entries
    <3> QED BY <1>2, <3>1 DEF Present
  <2> QED BY <1>2, <1>7, <2>1 DEF ReadInv, Values
<1> QED BY <1>8, <1>9, <1>10 DEF Reads

-----------------------------------------------------------------------------
(* The tables of level 0 that GetOverlappingInputs leaves. *)
LEMMA LeftInLevel0 ==
    ASSUME TreeTypes, NEW range, NEW x \in files[0] \ Tree!Overlapping(0, range)
    PROVE  NoSharedKey(x, Tree!Entries(Tree!Overlapping(0, range)))
<1> DEFINE F == Tree!Overlapping(0, range)
<1>1. F \subseteq files[0] /\ Tree!Closed(F, range)
  BY LeastClosed
<1>2. AreEntries(x) /\ AreEntries(Tree!Entries(F))
  BY <1>1, LevelFacts, TypeFacts, EntriesOf
<1>3. ~ Tree!Overlap(x, range \cup Tree!Span(Tree!Entries(F)))
  BY <1>1 DEF Tree!Closed
<1>4. Tree!Span(x) \cap Tree!Span(Tree!Entries(F)) = {}
  BY <1>3 DEF Tree!Overlap
<1> QED BY <1>2, <1>4, NoOverlap

(* The inputs that a level keeps, and the next one. *)
LEMMA InputsLeave ==
    ASSUME TreeTypes, NEW l \in 0..(NumLevels - 2), NEW U \in SUBSET files[l],
           l = 0 => \E range : U = Tree!Overlapping(0, range),
           NEW inputs \in Tree!WithOtherInputs(l, U)
    PROVE  /\ l = 0 => \A x \in files[0] \ inputs[1] : NoSharedKey(x, Tree!Entries(inputs[1]))
           /\ \A x \in files[l + 1] \ inputs[2] : NoSharedKey(x, Tree!Entries(inputs[1]))
<1>1. l \in Tree!Level /\ l + 1 \in Tree!Level
  BY LevelFacts
<1>2. l = 0 => \E range : inputs[1] = Tree!Overlapping(0, range)
  <2>1. inputs[1] = U \/ inputs[1] = Tree!Overlapping(l, Tree!Span(Tree!Entries(U \cup inputs[2])))
    BY InputsRight
  <2> QED BY <2>1
<1>3. l = 0 => \A x \in files[0] \ inputs[1] : NoSharedKey(x, Tree!Entries(inputs[1]))
  BY <1>2, LeftInLevel0
<1>4. ASSUME NEW x \in files[l + 1] \ inputs[2] PROVE NoSharedKey(x, Tree!Entries(inputs[1]))
  <2>1. inputs[1] \in SUBSET files[l]
    BY InputsRight
  <2>2. AreEntries(x) /\ AreEntries(Tree!Entries(inputs[1]))
    BY <1>1, <2>1, TypeFacts, EntriesOf
  <2>3. ~ Tree!Overlap(x, Tree!Span(Tree!Entries(inputs[1])))
    BY <1>4, InputsRight
  <2>4. Tree!Span(x) \cap Tree!Span(Tree!Entries(inputs[1])) = {}
    BY <2>3 DEF Tree!Overlap
  <2> QED BY <2>2, <2>4, NoOverlap
<1> QED BY <1>3, <1>4

LEMMA SmallestRight ==
    ASSUME TreeTypes
    PROVE  Tree!SmallestSnapshot \in Nat /\ \A s \in snapshots \cup {lastSeq} : Tree!SmallestSnapshot <= s
<1>1. lastSeq \in Nat /\ snapshots \subseteq Nat /\ \A s \in snapshots : s <= lastSeq
  BY DEF TreeTypes
<1>2. CASE snapshots = {}
  BY <1>1, <1>2 DEF Tree!SmallestSnapshot
<1>3. CASE snapshots # {}
  <2> DEFINE least == CHOOSE s \in snapshots : \A r \in snapshots : s <= r
  <2>1. least \in snapshots /\ \A r \in snapshots : least <= r
    BY <1>1, <1>3, LeastOf
  <2> HIDE DEF least
  <2>2. PICK r \in snapshots : TRUE
    BY <1>3
  <2>3. least <= lastSeq
    BY <1>1, <2>1
  <2>4. Tree!SmallestSnapshot = least
    BY <1>3 DEF Tree!SmallestSnapshot, least
  <2> QED BY <1>1, <2>1, <2>3, <2>4
<1> QED BY <1>2, <1>3

LEMMA StartReads ==
    ASSUME ReadInv, NEW l \in 0..(NumLevels - 2), NEW U \in SUBSET files[l], NEW manual,
           l = 0 => \E range : U = Tree!Overlapping(0, range),
           NEW inputs \in Tree!WithOtherInputs(l, U), Tree!Start(l, inputs, manual)
    PROVE  Reads'
<1>1. /\ job'.on = TRUE /\ job'.level = l /\ job'.upper = inputs[1] /\ job'.lower = inputs[2]
      /\ job'.deep = Tree!Deep(l) /\ job'.smallest = Tree!SmallestSnapshot
      /\ UNCHANGED <<mem, files, lastSeq, snapshots, written, split, gap>>
  BY DEF Tree!Start
<1>2. TreeTypes /\ l \in Tree!Level /\ l + 1 \in Tree!Level /\ l \in Nat /\ l + 1 # 0
  BY LevelFacts DEF ReadInv, TreeInv
<1>3. Ordered' /\ Values'
  BY <1>1 DEF ReadInv, Ordered, Values, Clean, Tree!EntriesNeverHop, Present
<1>4. job'.smallest \in Nat /\ \A s \in snapshots' \cup {lastSeq'} : job'.smallest <= s
  BY <1>1, <1>2, SmallestRight
<1>5. /\ l = 0 => \A x \in files[0] \ inputs[1] : NoSharedKey(x, Tree!Entries(inputs[1]))
      /\ \A x \in files[l + 1] \ inputs[2] : NoSharedKey(x, Tree!Entries(inputs[1]))
      /\ inputs[2] \subseteq files[l + 1]
  <2>1. inputs[2] \subseteq files[l + 1]
    BY <1>2, InputsRight
  <2> QED BY <1>2, <2>1, InputsLeave
<1>6. Clean' => \A x \in files'[l + 1] \ inputs[2] : NoSharedKey(x, Inputs')
  <2> SUFFICES ASSUME Clean', NEW x \in files[l + 1] \ inputs[2] PROVE NoSharedKey(x, Inputs')
    BY <1>1
  <2>1. \A g \in inputs[2] : NoSharedKey(x, g)
    BY <1>1, <1>2, <1>5 DEF ReadInv, Ordered, Clean
  <2>2. Inputs' = Tree!Entries(inputs[1]) \cup UNION inputs[2]
    BY <1>1 DEF Inputs, Tree!Entries
  <2>3. NoSharedKey(x, Tree!Entries(inputs[1]))
    BY <1>5
  <2> QED BY <2>1, <2>2, <2>3 DEF NoSharedKey
<1>7. \A m \in Tree!Level : m >= l + 2 => \A x \in files'[m] : x \in job'.deep
  BY <1>1 DEF Tree!Deep
<1>8. JobOrdered'
  <2>1. job'.level = 0 => \A x \in files'[0] \ job'.upper : NoSharedKey(x, Tree!Entries(job'.upper))
    BY <1>1, <1>5
  <2> QED BY <1>1, <1>4, <1>6, <1>7, <2>1 DEF JobOrdered
<1> QED BY <1>3, <1>8 DEF Reads

LEMMA PickReads == ReadInv /\ Tree!PickCompaction => Reads'
<1> SUFFICES ASSUME ReadInv, Tree!PickCompaction PROVE Reads'
  OBVIOUS
<1>1. PICK l \in 0..(NumLevels - 2) : \E f \in files[l] : \E inputs \in Tree!WithOtherInputs(l, Tree!Picked(l, f)) :
          Tree!Start(l, inputs, FALSE)
  BY DEF Tree!PickCompaction
<1>2. PICK f \in files[l] : \E inputs \in Tree!WithOtherInputs(l, Tree!Picked(l, f)) : Tree!Start(l, inputs, FALSE)
  BY <1>1
<1>3. PICK inputs \in Tree!WithOtherInputs(l, Tree!Picked(l, f)) : Tree!Start(l, inputs, FALSE)
  BY <1>2
<1>4. Tree!Picked(l, f) \in SUBSET files[l]
  BY PickedRight DEF ReadInv, TreeInv
<1>5. l = 0 => \E range : Tree!Picked(l, f) = Tree!Overlapping(0, range)
  BY DEF Tree!Picked
<1> QED BY <1>3, <1>4, <1>5, StartReads

LEMMA RangeReads == ASSUME ReadInv, NEW range, Tree!CompactRange(range) PROVE Reads'
<1>1. PICK l \in 0..(NumLevels - 2) : \E upper \in (SUBSET Tree!Overlapping(l, range)) \ {{}} :
          /\ \A f \in upper, g \in Tree!Overlapping(l, range) \ upper : l > 0 /\ Tree!Before(Tree!First(f), Tree!First(g))
          /\ \E inputs \in Tree!WithOtherInputs(l, upper) : Tree!Start(l, inputs, TRUE)
  BY DEF Tree!CompactRange
<1>2. PICK upper \in (SUBSET Tree!Overlapping(l, range)) \ {{}} :
          /\ \A f \in upper, g \in Tree!Overlapping(l, range) \ upper : l > 0 /\ Tree!Before(Tree!First(f), Tree!First(g))
          /\ \E inputs \in Tree!WithOtherInputs(l, upper) : Tree!Start(l, inputs, TRUE)
  BY <1>1
<1>3. PICK inputs \in Tree!WithOtherInputs(l, upper) : Tree!Start(l, inputs, TRUE)
  BY <1>2
<1>4. upper \in SUBSET files[l]
  BY <1>2, LeastClosed, OverlappingBelow, LevelFacts
<1>5. l = 0 => \E r : upper = Tree!Overlapping(0, r)
  <2>1. ASSUME l = 0 PROVE upper = Tree!Overlapping(0, range)
    <3>1. upper \subseteq Tree!Overlapping(0, range) /\ upper # {}
      BY <1>2, <2>1
    <3>2. ASSUME NEW g \in Tree!Overlapping(0, range), g \notin upper PROVE FALSE
      <4>1. PICK f \in upper : TRUE
        BY <3>1
      <4>2. g \in Tree!Overlapping(l, range) \ upper
        BY <2>1, <3>2
      <4>3. l > 0
        BY <1>2, <4>1, <4>2
      <4> QED BY <2>1, <4>3
    <3> QED BY <3>1, <3>2
  <2> QED BY <2>1
<1> QED BY <1>3, <1>4, <1>5, StartReads

(* BackgroundCompaction: what is moved is the only input there is. *)
LEMMA MovedAlone ==
    ASSUME ReadInv, NEW l \in 0..(NumLevels - 2), NEW f \in files[l],
           NEW inputs \in Tree!WithOtherInputs(l, Tree!Picked(l, f)), Tree!Trivial(inputs)
    PROVE  /\ l = 0 => \A x \in files[0] \ {f} : NoSharedKey(x, f)
           /\ \A x \in files[l + 1] : NoSharedKey(x, f) /\ NoSharedKey(f, x)
<1>1. TreeTypes /\ l \in Tree!Level /\ l + 1 \in Tree!Level
  BY LevelFacts DEF ReadInv, TreeInv
<1>2. Tree!Picked(l, f) \in SUBSET files[l] /\ f \in Tree!Picked(l, f)
  BY <1>1, PickedRight
<1>3. inputs[2] = {} /\ Cardinality(inputs[1]) = 1
  BY TreeCardinality DEF Tree!Trivial
<1>4. inputs[1] = Tree!Picked(l, f) /\ inputs[1] \subseteq files[l]
  BY <1>1, <1>2, <1>3, InputsRight
<1>5. IsFiniteSet(inputs[1])
  <2>1. IsFiniteSet(SUBSET written)
    BY <1>1, FS_SUBSET, Zenon DEF TreeTypes
  <2>2. inputs[1] \in SUBSET (SUBSET written)
    BY <1>1, <1>4 DEF TreeTypes
  <2> QED BY <2>1, <2>2, FS_Subset
<1>6. inputs[1] = {f}
  <2>1. PICK x : inputs[1] = {x}
    BY <1>3, <1>5, FS_Singleton
  <2> QED BY <1>2, <1>4, <2>1
<1>7. Tree!Entries(inputs[1]) = f
  BY <1>6 DEF Tree!Entries
<1>8. l = 0 => \E range : Tree!Picked(l, f) = Tree!Overlapping(0, range)
  BY DEF Tree!Picked
<1>9. /\ l = 0 => \A x \in files[0] \ inputs[1] : NoSharedKey(x, Tree!Entries(inputs[1]))
      /\ \A x \in files[l + 1] \ inputs[2] : NoSharedKey(x, Tree!Entries(inputs[1]))
  BY <1>1, <1>2, <1>8, InputsLeave
<1> QED BY <1>3, <1>6, <1>7, <1>9 DEF NoSharedKey

LEMMA MoveReads == ReadInv /\ Tree!MoveFile => Reads'
<1> SUFFICES ASSUME ReadInv, Tree!MoveFile PROVE Reads'
  OBVIOUS
<1>1. /\ ~ job.on /\ UNCHANGED <<mem, lastSeq, snapshots, job, written, split, gap>>
      /\ \E l \in 0..(NumLevels - 2) : \E f \in files[l] : \E inputs \in Tree!WithOtherInputs(l, Tree!Picked(l, f)) :
            /\ Tree!Trivial(inputs)
            /\ files' = [files EXCEPT ![l] = @ \ {f}, ![l + 1] = @ \cup {f}]
  BY DEF Tree!MoveFile
<1>2. PICK l \in 0..(NumLevels - 2) : \E f \in files[l] : \E inputs \in Tree!WithOtherInputs(l, Tree!Picked(l, f)) :
            /\ Tree!Trivial(inputs)
            /\ files' = [files EXCEPT ![l] = @ \ {f}, ![l + 1] = @ \cup {f}]
  BY <1>1
<1>3. PICK f \in files[l] : \E inputs \in Tree!WithOtherInputs(l, Tree!Picked(l, f)) :
            /\ Tree!Trivial(inputs)
            /\ files' = [files EXCEPT ![l] = @ \ {f}, ![l + 1] = @ \cup {f}]
  BY <1>2
<1>4. PICK inputs \in Tree!WithOtherInputs(l, Tree!Picked(l, f)) :
            /\ Tree!Trivial(inputs)
            /\ files' = [files EXCEPT ![l] = @ \ {f}, ![l + 1] = @ \cup {f}]
  BY <1>3
<1>5. TreeTypes /\ l \in Tree!Level /\ l + 1 \in Tree!Level /\ l # l + 1 /\ l + 1 # 0 /\ l \in Nat /\ Tree!Level \subseteq Nat
  BY LevelFacts DEF ReadInv, TreeInv
<1>6. \A m \in Tree!Level : files'[m] = IF m = l THEN files[l] \ {f}
                                   ELSE IF m = l + 1 THEN files[l + 1] \cup {f} ELSE files[m]
  <2>1. files' = [files EXCEPT ![l] = @ \ {f}, ![l + 1] = @ \cup {f}]
    BY <1>4
  <2> QED BY <1>5, <2>1 DEF TreeTypes
<1>7. /\ l = 0 => \A x \in files[0] \ {f} : NoSharedKey(x, f)
      /\ \A x \in files[l + 1] : NoSharedKey(x, f) /\ NoSharedKey(f, x)
  BY <1>4, MovedAlone
<1>8. Ordered'
  <2>1. \A m \in Tree!Level : \A x \in files'[m] : AllNewer(mem', x)
    BY <1>1, <1>5, <1>6 DEF ReadInv, Ordered
  <2>2. \A x, y \in files'[0] : x # y => AllNewer(x, y) \/ AllNewer(y, x)
    <3>1. files'[0] \subseteq files[0]
      BY <1>5, <1>6, LevelFacts
    <3> QED BY <3>1 DEF ReadInv, Ordered
  <2>3. ASSUME Clean', NEW a \in Tree!Level, NEW b \in Tree!Level, a < b, NEW d \in Tree!Entries(files'[a]),
               NEW e \in Tree!Entries(files'[b]), d.key = e.key
        PROVE  d.seq > e.seq
    <3>1. PICK x \in files'[a], y \in files'[b] : d \in x /\ e \in y
      BY DEF Tree!Entries
    <3>2. Tree!EntriesNeverHop /\ a \in Nat /\ b \in Nat
      BY <1>1, <1>5, <2>3 DEF ReadInv, Ordered, Clean
    <3>3. CASE x \in files[a] /\ y \in files[b]
      BY <2>3, <3>1, <3>2, <3>3 DEF Tree!EntriesNeverHop, Tree!Entries
    <3>4. CASE x \notin files[a]
      <4>1. x = f /\ a = l + 1
        BY <1>6, <3>1, <3>4
      <4>2. b # l /\ b # l + 1 /\ l < b
        BY <1>5, <2>3, <3>2, <4>1
      <4>3. y \in files[b]
        BY <1>6, <3>1, <4>2
      <4> QED BY <1>5, <2>3, <3>1, <3>2, <4>1, <4>2, <4>3 DEF Tree!EntriesNeverHop, Tree!Entries
    <3>5. CASE x \in files[a] /\ y \notin files[b]
      <4>1. y = f /\ b = l + 1
        BY <1>6, <3>1, <3>5
      <4>2. CASE a = l
        <5>1. x \in files[l] \ {f}
          BY <1>5, <1>6, <3>1, <4>2
        <5>2. NoSharedKey(x, f)
          BY <1>1, <1>5, <1>7, <2>3, <5>1 DEF ReadInv, Ordered, Clean
        <5> QED BY <2>3, <3>1, <4>1, <5>2 DEF NoSharedKey
      <4>3. CASE a # l
        <5>1. a < l
          BY <1>5, <2>3, <3>2, <4>1, <4>3
        <5> QED BY <1>5, <2>3, <3>1, <3>2, <3>5, <4>1, <5>1 DEF Tree!EntriesNeverHop, Tree!Entries
      <4> QED BY <4>2, <4>3
    <3> QED BY <3>3, <3>4, <3>5
  <2>4. ASSUME Clean', NEW m \in Tree!Level \ {0}, NEW x \in files'[m], NEW y \in files'[m], x # y
        PROVE  NoSharedKey(x, y)
    <3>1. CASE x \in files[m] /\ y \in files[m]
      BY <1>1, <2>4, <3>1 DEF ReadInv, Ordered, Clean
    <3>2. CASE ~ (x \in files[m] /\ y \in files[m])
      <4>1. m = l + 1
        BY <1>5, <1>6, <2>4, <3>2
      <4>2. x \in files[m] \cup {f} /\ y \in files[m] \cup {f}
        BY <1>5, <1>6, <2>4, <4>1
      <4>3. (x = f /\ y \in files[m]) \/ (y = f /\ x \in files[m])
        BY <2>4, <3>2, <4>2
      <4> QED BY <1>7, <4>1, <4>3
    <3> QED BY <3>1, <3>2
  <2>5. Clean' => Tree!EntriesNeverHop'
    BY <2>3 DEF Tree!EntriesNeverHop
  <2> QED BY <2>1, <2>2, <2>4, <2>5 DEF Ordered
<1>9. Values'
  <2>1. Present' = Present
    <3>1. \A x : (\E m \in Tree!Level : x \in files'[m]) <=> (\E m \in Tree!Level : x \in files[m])
      <4>1. ASSUME NEW x, NEW m \in Tree!Level, x \in files'[m] PROVE \E n \in Tree!Level : x \in files[n]
        <5>1. x \in files[m] \/ x = f
          BY <1>5, <1>6, <4>1
        <5> QED BY <1>5, <5>1
      <4>2. ASSUME NEW x, NEW m \in Tree!Level, x \in files[m] PROVE \E n \in Tree!Level : x \in files'[n]
        <5>1. x = f => x \in files'[l + 1]
          BY <1>5, <1>6
        <5>2. x # f => x \in files'[m]
          BY <1>5, <1>6, <4>2
        <5> QED BY <1>5, <5>1, <5>2
      <4> QED BY <4>1, <4>2
    <3>2. \A d : d \in Present' <=> d \in mem \/ \E m \in Tree!Level : \E x \in files'[m] : d \in x
      BY <1>1, PresentNext
    <3>3. \A d : d \in Present <=> d \in mem \/ \E m \in Tree!Level : \E x \in files[m] : d \in x
      BY <1>5, PresentFacts
    <3> QED BY <3>1, <3>2, <3>3
  <2> QED BY <1>1, <2>1 DEF ReadInv, Values, Clean
<1> QED BY <1>1, <1>8, <1>9 DEF Reads, JobOrdered

-----------------------------------------------------------------------------
(* What is left of the version after a compaction, of the inputs or not. *)
Left(d) ==
    \/ d \in mem
    \/ \E m \in Tree!Level : \E x \in files[m] :
          d \in x /\ ~ (m = job.level /\ x \in job.upper) /\ ~ (m = job.level + 1 /\ x \in job.lower)
    \/ d \in Kept

(* What a compaction drops changes no value that can still be read: if the *)
(* newest entry of a key is dropped, it is a deletion, and nothing older   *)
(* of its key is left.                                                     *)
LEMMA DroppedUnseen ==
    ASSUME ReadInv, job.on, Clean, NEW s \in snapshots \cup {lastSeq},
           NEW n \in Inputs, Tree!Dropped(n, Inputs), n.seq <= s,
           \A d \in Tree!Seen(Present, n.key, s) : d.seq <= n.seq
    PROVE  n.del /\ \A d \in written : Left(d) /\ d.key = n.key => ~ (d.seq <= s)
<1> DEFINE l == job.level
<1>1. /\ TreeTypes /\ Tree!EntriesNeverHop /\ Tree!Level \subseteq Nat
      /\ l \in Tree!Level /\ l + 1 \in Tree!Level /\ l \in Nat /\ l # l + 1 /\ l + 1 # 0
      /\ job.upper \subseteq files[l] /\ job.lower \subseteq files[l + 1]
      /\ job.smallest \in Nat /\ s \in Nat /\ job.smallest <= s
  <2>1. TreeTypes /\ Tree!EntriesNeverHop /\ job.smallest \in Nat /\ job.smallest <= s
    BY DEF ReadInv, TreeInv, Ordered, JobOrdered
  <2>2. /\ l \in Tree!Level /\ l + 1 \in Tree!Level
        /\ job.upper \subseteq files[l] /\ job.lower \subseteq files[l + 1]
    BY DEF ReadInv, TreeInv, JobTypes
  <2>3. Tree!Level \subseteq Nat
    BY LevelFacts
  <2>4. s \in Nat
    BY <2>1 DEF TreeTypes
  <2>5. l \in Nat /\ l # l + 1 /\ l + 1 # 0
    <3>1. job.level \in Nat
      BY <2>2, <2>3
    <3> QED BY <3>1
  <2> QED BY <2>1, <2>2, <2>3, <2>4, <2>5
<1>2. /\ Inputs \subseteq Present /\ Present \subseteq written
      /\ \A e \in written : e.seq \in Nat /\ e.key \in Tree!Key
  <2>1. Inputs \subseteq Present
    BY <1>1, PresentFacts DEF Inputs, Tree!Entries
  <2> QED BY <1>1, <2>1, PresentFacts DEF TreeTypes, AreEntries
<1>3. /\ n.seq \in Nat /\ n.key \in Tree!Key
      /\ \/ \E u \in job.upper : n \in u
         \/ \E u \in job.lower : n \in u
  BY <1>2 DEF Inputs, Tree!Entries
<1> HIDE DEF l
<1>4. ~ \E d \in Inputs : d.key = n.key /\ d.seq > n.seq /\ d.seq <= job.smallest
  <2> SUFFICES ASSUME NEW d \in Inputs, d.key = n.key, d.seq > n.seq, d.seq <= job.smallest PROVE FALSE
    OBVIOUS
  <2>1. d.seq \in Nat /\ d.seq <= s
    BY <1>1, <1>2
  <2>2. d \in Tree!Seen(Present, n.key, s)
    BY <1>2, <2>1 DEF Tree!Seen
  <2> QED BY <1>3, <2>1, <2>2
<1>5. n.del /\ n.seq <= job.smallest /\ Tree!IsBaseLevelForKey(n.key)
  BY <1>4 DEF Tree!Dropped
<1>6. ASSUME NEW d \in written, Left(d), d.key = n.key, d.seq <= s PROVE FALSE
  <2>1. d \in Present /\ d.seq \in Nat /\ d.seq <= n.seq
    <3>1. d \in Present
      BY <1>1, <1>2, <1>6, PresentFacts DEF Left, Kept
    <3>2. d \in Tree!Seen(Present, n.key, s)
      BY <1>6, <3>1 DEF Tree!Seen
    <3> QED BY <1>2, <3>1, <3>2
  <2>2. ~ (d.seq > n.seq)
    BY <1>3, <2>1
  <2>3. CASE d \in mem
    <3>1. \A x \in job.upper \cup job.lower : AllNewer(mem, x)
      BY <1>1 DEF ReadInv, Ordered, l
    <3> QED BY <1>3, <2>2, <2>3, <3>1 DEF AllNewer
  <2>4. CASE d \in Kept
    <3>1. d \in Inputs /\ ~ Tree!Dropped(d, Inputs)
      BY <2>4 DEF Kept
    <3>2. d # n
      BY <3>1
    <3>3. d.seq # n.seq
      BY <1>1, <1>2, <3>1, <3>2 DEF TreeTypes, Numbered
    <3>4. n.seq > d.seq
      BY <1>3, <2>1, <3>3
    <3> QED BY <1>5, <1>6, <3>1, <3>4 DEF Tree!Dropped
  <2>5. ASSUME NEW m \in Tree!Level, NEW x \in files[m], d \in x,
               ~ (m = l /\ x \in job.upper), ~ (m = l + 1 /\ x \in job.lower)
        PROVE  FALSE
    <3>1. m \in Nat
      BY <1>1
    <3>2. CASE m < l
      <4>1. m < l + 1 /\ d \in Tree!Entries(files[m]) /\ (n \in Tree!Entries(files[l]) \/ n \in Tree!Entries(files[l + 1]))
        BY <1>1, <1>3, <2>5, <3>1, <3>2 DEF Tree!Entries
      <4> QED BY <1>1, <1>6, <2>2, <3>2, <4>1 DEF Tree!EntriesNeverHop
    <3>3. CASE m = l /\ \E u \in job.lower : n \in u
      <4>1. l < l + 1 /\ d \in Tree!Entries(files[l]) /\ n \in Tree!Entries(files[l + 1])
        BY <1>1, <2>5, <3>3 DEF Tree!Entries
      <4> QED BY <1>1, <1>6, <2>2, <4>1 DEF Tree!EntriesNeverHop
    <3>4. CASE m = l /\ \E u \in job.upper : n \in u
      <4>1. PICK u \in job.upper : n \in u
        BY <3>4
      <4>2. x # u /\ u \in files[l] /\ x \in files[l] \ job.upper
        BY <1>1, <2>5, <3>4, <4>1
      <4>3. CASE l = 0
        <5>1. n \in Tree!Entries(job.upper)
          BY <4>1 DEF Tree!Entries
        <5>2. NoSharedKey(x, Tree!Entries(job.upper)) \/ AllNewer(x, Inputs)
          BY <4>2, <4>3 DEF ReadInv, JobOrdered, l
        <5> QED BY <1>6, <2>2, <2>5, <5>1, <5>2 DEF NoSharedKey, AllNewer
      <4>4. CASE l # 0
        <5>1. NoSharedKey(x, u)
          BY <1>1, <4>2, <4>4 DEF ReadInv, Ordered
        <5> QED BY <1>6, <2>5, <4>1, <5>1 DEF NoSharedKey
      <4> QED BY <4>3, <4>4
    <3>5. CASE m = l + 1
      <4>1. NoSharedKey(x, Inputs)
        BY <2>5, <3>5 DEF ReadInv, JobOrdered, l
      <4> QED BY <1>6, <2>5, <4>1 DEF NoSharedKey
    <3>6. CASE m >= l + 2
      <4>1. x \in job.deep \/ NoSharedKey(x, Inputs)
        BY <2>5, <3>6 DEF ReadInv, JobOrdered, l
      <4>2. n.key \in Tree!Span(x)
        <5>1. AreEntries(x)
          BY <1>1, <2>5, TypeFacts
        <5> QED BY <1>6, <2>5, <5>1, SpanHas
      <4> QED BY <1>5, <1>6, <2>5, <4>1, <4>2 DEF NoSharedKey, Tree!IsBaseLevelForKey
    <3>7. m < l \/ m = l \/ m = l + 1 \/ m >= l + 2
      BY <1>1, <3>1
    <3> QED BY <1>3, <3>2, <3>3, <3>4, <3>5, <3>6, <3>7
  <2> QED BY <1>6, <2>3, <2>4, <2>5 DEF Left, l
<1> QED BY <1>5, <1>6

LEMMA DoneReads == ReadInv /\ Tree!CompactionDone => Reads'
<1> SUFFICES ASSUME ReadInv, Tree!CompactionDone PROVE Reads'
  OBVIOUS
<1>1. /\ job.on /\ ~ job'.on /\ UNCHANGED <<mem, lastSeq, snapshots, written, gap>>
      /\ \E cuts \in SUBSET Kept :
            /\ files' = [files EXCEPT ![job.level] = @ \ job.upper,
                                      ![job.level + 1] = (@ \ job.lower) \cup Tree!Outputs(Kept, cuts)]
            /\ split' = (split \/ \E f, g \in Tree!Outputs(Kept, cuts) : \E d \in f, e \in g :
                                     f # g /\ d.key = e.key)
  <2>1. job.on /\ job' = Tree!NoJob /\ UNCHANGED <<mem, lastSeq, snapshots, written, gap>>
    BY DEF Tree!CompactionDone
  <2>2. \E cuts \in SUBSET {c \in Kept : \E e \in Kept : Tree!Before(c, e)} :
            /\ files' = [files EXCEPT ![job.level] = @ \ job.upper,
                                      ![job.level + 1] = (@ \ job.lower) \cup Tree!Outputs(Kept, cuts)]
            /\ split' = (split \/ \E f, g \in Tree!Outputs(Kept, cuts) : \E d \in f, e \in g :
                                     f # g /\ d.key = e.key)
    BY DEF Tree!CompactionDone, Kept, Inputs
  <2> QED BY <2>1, <2>2 DEF Tree!NoJob
<1>2. PICK cuts \in SUBSET Kept :
            /\ files' = [files EXCEPT ![job.level] = @ \ job.upper,
                                      ![job.level + 1] = (@ \ job.lower) \cup Tree!Outputs(Kept, cuts)]
            /\ split' = (split \/ \E f, g \in Tree!Outputs(Kept, cuts) : \E d \in f, e \in g :
                                     f # g /\ d.key = e.key)
  BY <1>1
<1> DEFINE l == job.level
           outputs == Tree!Outputs(Kept, cuts)
<1>3. /\ l \in Tree!Level /\ l + 1 \in Tree!Level /\ l \in Nat /\ l # l + 1 /\ l + 1 # 0
      /\ job.upper \subseteq files[l] /\ job.lower \subseteq files[l + 1]
      /\ Tree!Level \subseteq Nat /\ TreeTypes
  <2>1. /\ l \in Tree!Level /\ l + 1 \in Tree!Level /\ TreeTypes
        /\ job.upper \subseteq files[l] /\ job.lower \subseteq files[l + 1]
    BY <1>1 DEF ReadInv, TreeInv, JobTypes
  <2>2. Tree!Level \subseteq Nat
    BY LevelFacts
  <2>3. job.level \in Nat
    BY <2>1, <2>2
  <2> QED BY <2>1, <2>2, <2>3
<1>4. /\ \A f \in outputs : f # {} /\ f \subseteq Kept
      /\ \A d \in Kept : \E f \in outputs : d \in f
  BY OutputsHold DEF Tree!Entries
<1>5. Clean' => Clean /\ \A f, g \in outputs : f # g => NoSharedKey(f, g)
  BY <1>1, <1>2 DEF Clean, NoSharedKey
<1>6. /\ Kept \subseteq Inputs /\ Inputs \subseteq written
      /\ \A d \in Inputs : d \in Tree!Entries(files[l]) \/ d \in Tree!Entries(files[l + 1])
      /\ \A d \in Inputs : d \in Tree!Entries(job.upper) \/ d \in Tree!Entries(job.lower)
  <2>1. Inputs \subseteq written
    BY <1>3, TypeFacts DEF Inputs, Tree!Entries
  <2> QED BY <1>3, <2>1 DEF Kept, Inputs, Tree!Entries
<1> HIDE DEF outputs
<1>7. \A m \in Tree!Level : files'[m] = IF m = l THEN files[l] \ job.upper
                                   ELSE IF m = l + 1 THEN (files[l + 1] \ job.lower) \cup outputs
                                   ELSE files[m]
  <2>1. files' = [files EXCEPT ![l] = @ \ job.upper, ![l + 1] = (@ \ job.lower) \cup outputs]
    BY <1>2 DEF outputs
  <2> HIDE DEF l
  <2> QED BY <1>3, <2>1 DEF TreeTypes
<1> HIDE DEF l
<1>8. Ordered'
  <2>1. ASSUME NEW m \in Tree!Level, NEW x \in files'[m] PROVE AllNewer(mem', x)
    <3>1. \A n \in Tree!Level : \A y \in files[n] : AllNewer(mem, y)
      BY DEF ReadInv, Ordered
    <3>2. CASE x \in files[m]
      BY <1>1, <3>1, <3>2
    <3>3. CASE x \in outputs
      <4>1. \A d \in x : \E n \in Tree!Level : \E y \in files[n] : d \in y
        BY <1>3, <1>4, <1>6, <3>3 DEF Tree!Entries
      <4> QED BY <1>1, <3>1, <4>1 DEF AllNewer
    <3> QED BY <1>3, <1>7, <2>1, <3>2, <3>3
  <2>2. \A x, y \in files'[0] : x # y => AllNewer(x, y) \/ AllNewer(y, x)
    <3>1. files'[0] \subseteq files[0]
      BY <1>3, <1>7, LevelFacts
    <3> QED BY <3>1 DEF ReadInv, Ordered
  <2>3. ASSUME Clean', NEW a \in Tree!Level, NEW b \in Tree!Level, a < b, NEW d \in Tree!Entries(files'[a]),
               NEW e \in Tree!Entries(files'[b]), d.key = e.key
        PROVE  d.seq > e.seq
    <3>1. PICK x \in files'[a], y \in files'[b] : d \in x /\ e \in y
      BY DEF Tree!Entries
    <3>2. Tree!EntriesNeverHop /\ a \in Nat /\ b \in Nat /\ a # b
      BY <1>3, <1>5, <2>3 DEF ReadInv, Ordered
    <3>3. CASE x \in files[a] /\ y \in files[b]
      BY <2>3, <3>1, <3>2, <3>3 DEF Tree!EntriesNeverHop, Tree!Entries
    <3>4. CASE x \notin files[a]
      <4>1. x \in outputs /\ a = l + 1
        BY <1>3, <1>7, <3>1, <3>4
      <4>2. y \in files[b] /\ l < b
        BY <1>3, <1>7, <2>3, <3>1, <3>2, <4>1
      <4>3. d \in Tree!Entries(files[l]) \/ d \in Tree!Entries(files[l + 1])
        BY <1>4, <1>6, <3>1, <4>1
      <4> QED BY <1>3, <2>3, <3>1, <3>2, <4>1, <4>2, <4>3 DEF Tree!EntriesNeverHop, Tree!Entries
    <3>5. CASE x \in files[a] /\ y \notin files[b]
      <4>1. y \in outputs /\ b = l + 1
        BY <1>3, <1>7, <3>1, <3>5
      <4>2. e \in Inputs
        BY <1>4, <1>6, <3>1, <4>1
      <4>3. CASE a < l
        BY <1>3, <1>6, <2>3, <3>1, <3>2, <3>5, <4>1, <4>2, <4>3 DEF Tree!EntriesNeverHop, Tree!Entries
      <4>4. CASE a = l
        <5>1. x \in files[l] \ job.upper
          BY <1>3, <1>7, <3>1, <4>4
        <5>2. CASE e \in Tree!Entries(job.lower)
          <6>1. e \in Tree!Entries(files[l + 1]) /\ d \in Tree!Entries(files[l])
            BY <1>3, <3>1, <5>1, <5>2 DEF Tree!Entries
          <6> QED BY <1>3, <2>3, <3>2, <4>1, <4>4, <6>1 DEF Tree!EntriesNeverHop
        <5>3. CASE e \in Tree!Entries(job.upper) /\ l = 0
          <6>1. NoSharedKey(x, Tree!Entries(job.upper)) \/ AllNewer(x, Inputs)
            BY <1>1, <5>1, <5>3 DEF ReadInv, JobOrdered, l
          <6> QED BY <2>3, <3>1, <4>2, <5>3, <6>1 DEF NoSharedKey, AllNewer
        <5>4. CASE e \in Tree!Entries(job.upper) /\ l # 0
          <6>1. PICK u \in job.upper : e \in u
            BY <5>4 DEF Tree!Entries
          <6>2. NoSharedKey(x, u)
            BY <1>3, <1>5, <2>3, <5>1, <5>4, <6>1 DEF ReadInv, Ordered
          <6> QED BY <2>3, <3>1, <6>1, <6>2 DEF NoSharedKey
        <5> QED BY <1>6, <4>2, <5>2, <5>3, <5>4
      <4> QED BY <1>3, <2>3, <3>2, <4>1, <4>3, <4>4
    <3> QED BY <3>3, <3>4, <3>5
  <2>4. ASSUME Clean', NEW m \in Tree!Level \ {0}, NEW x \in files'[m], NEW y \in files'[m], x # y
        PROVE  NoSharedKey(x, y)
    <3>1. CASE x \in files[m] /\ y \in files[m]
      BY <1>5, <2>4, <3>1 DEF ReadInv, Ordered
    <3>2. CASE ~ (x \in files[m] /\ y \in files[m])
      <4>1. m = l + 1
        BY <1>3, <1>7, <2>4, <3>2
      <4>2. /\ x \in (files[l + 1] \ job.lower) \cup outputs
            /\ y \in (files[l + 1] \ job.lower) \cup outputs
        BY <1>3, <1>7, <2>4, <4>1
      <4>3. ASSUME NEW f \in files[l + 1] \ job.lower, NEW g \in outputs
            PROVE  NoSharedKey(f, g) /\ NoSharedKey(g, f)
        <5>1. NoSharedKey(f, Inputs)
          BY <1>1, <1>5, <2>4, <4>3 DEF ReadInv, JobOrdered, l
        <5> QED BY <1>4, <1>6, <4>3, <5>1 DEF NoSharedKey
      <4> QED BY <1>5, <2>4, <3>2, <4>1, <4>2, <4>3
    <3> QED BY <3>1, <3>2
  <2>5. Clean' => Tree!EntriesNeverHop'
    BY <2>3 DEF Tree!EntriesNeverHop
  <2> QED BY <2>1, <2>2, <2>4, <2>5 DEF Ordered
<1>9. \A d : d \in Present' <=> Left(d)
  <2>1. \A d : d \in Present' <=> d \in mem \/ \E m \in Tree!Level : \E x \in files'[m] : d \in x
    BY <1>1, PresentNext
  <2>2. ASSUME NEW d, NEW m \in Tree!Level, NEW x \in files'[m], d \in x PROVE Left(d)
    <3>1. CASE x \in outputs
      BY <1>4, <2>2, <3>1 DEF Left
    <3>2. CASE x \notin outputs
      <4>1. x \in files[m] /\ ~ (m = l /\ x \in job.upper) /\ ~ (m = l + 1 /\ x \in job.lower)
        BY <1>3, <1>7, <2>2, <3>2
      <4> QED BY <2>2, <4>1 DEF Left, l
    <3> QED BY <3>1, <3>2
  <2>3. ASSUME NEW d, NEW m \in Tree!Level, NEW x \in files[m], d \in x,
               ~ (m = l /\ x \in job.upper), ~ (m = l + 1 /\ x \in job.lower)
        PROVE  \E n \in Tree!Level : \E y \in files'[n] : d \in y
    <3>1. x \in files'[m]
      BY <1>3, <1>7, <2>3
    <3> QED BY <2>3, <3>1
  <2>4. ASSUME NEW d \in Kept PROVE \E n \in Tree!Level : \E y \in files'[n] : d \in y
    <3>1. PICK f \in outputs : d \in f
      BY <1>4
    <3>2. f \in files'[l + 1]
      BY <1>3, <1>7, <3>1
    <3> QED BY <1>3, <3>1, <3>2
  <2> QED BY <2>1, <2>2, <2>3, <2>4 DEF Left, l
<1>10. \A d \in Present : Left(d) \/ (d \in Inputs /\ Tree!Dropped(d, Inputs))
  <2> SUFFICES ASSUME NEW d \in Present, ~ Left(d) PROVE d \in Inputs /\ d \notin Kept
    BY DEF Kept
  <2>1. PICK m \in Tree!Level : \E x \in files[m] :
            d \in x /\ ((m = l /\ x \in job.upper) \/ (m = l + 1 /\ x \in job.lower))
    BY <1>3, PresentFacts DEF Left, l
  <2> QED BY <2>1 DEF Left, Inputs, Tree!Entries
<1>11. Values'
  <2> SUFFICES ASSUME Clean', NEW s \in snapshots \cup {lastSeq}, NEW k \in Tree!Key
               PROVE  Tree!ValueIn(Present', k, s) = Tree!ValueIn(written', k, s)
    BY <1>1 DEF Values
  <2>1. Clean /\ Tree!ValueIn(Present, k, s) = Tree!ValueIn(written, k, s)
    BY <1>5 DEF ReadInv, Values
  <2>2. Tree!ValueIn(Present', k, s) = Tree!ValueIn(Present, k, s)
    <3> DEFINE seen == Tree!Seen(Present, k, s)
               n == Tree!Newest(seen)
    <3>1. Present \in SUBSET written /\ Known(written)
      BY <1>3, PresentFacts, WrittenKnown
    <3>2. Present' \in SUBSET Present
      BY <1>3, <1>6, <1>9, PresentFacts DEF Left, Tree!Entries
    <3>3. CASE seen = {}
      BY <3>2, <3>3 DEF Tree!Seen, Tree!ValueIn
    <3>4. ASSUME seen # {} PROVE n \in seen /\ n.key = k /\ n.seq <= s /\ n \in Present
                                 /\ \A d \in seen : d.seq <= n.seq
      <4>1. seen \in SUBSET written
        BY <3>1 DEF Tree!Seen
      <4>2. n \in seen /\ \A d \in seen : d.seq <= n.seq
        BY <3>1, <3>4, <4>1, NewestOf
      <4> QED BY <4>2 DEF Tree!Seen
    <3> HIDE DEF n
    <3>5. CASE seen # {} /\ Left(n)
      <4>1. n \in Tree!Seen(Present', k, s)
        BY <1>9, <3>4, <3>5 DEF Tree!Seen
      <4>2. \A d \in Tree!Seen(Present, k, s) : \E e \in Tree!Seen(Present', k, s) : d.seq <= e.seq
        BY <3>4, <3>5, <4>1
      <4> QED BY <3>1, <3>2, <4>2, SameValue
    <3>6. CASE seen # {} /\ ~ Left(n)
      <4>1. n \in Inputs /\ Tree!Dropped(n, Inputs) /\ n.seq <= s /\ \A d \in Tree!Seen(Present, n.key, s) : d.seq <= n.seq
        BY <1>10, <3>4, <3>6
      <4>2. n.del /\ \A d \in written : Left(d) /\ d.key = n.key => ~ (d.seq <= s)
        BY <1>1, <2>1, <4>1, DroppedUnseen
      <4>3. Tree!Seen(Present', k, s) = {}
        BY <1>9, <3>1, <3>2, <3>4, <3>6, <4>2 DEF Tree!Seen
      <4> QED BY <3>6, <4>2, <4>3 DEF Tree!ValueIn, n
    <3> QED BY <3>3, <3>5, <3>6
  <2> QED BY <1>1, <2>1, <2>2
<1> QED BY <1>1, <1>8, <1>11 DEF Reads, JobOrdered

LEMMA ReadsInit == Tree!Init => Reads
<1> SUFFICES ASSUME Tree!Init PROVE Reads
  OBVIOUS
<1>1. /\ mem = {} /\ ~ job.on
      /\ files = [l \in Tree!Level |-> IF l = MaxMemLevel THEN {written} \ {{}} ELSE {}]
  BY DEF Tree!Init, Tree!NoJob
<1>2. \A l \in Tree!Level : \A f \in files[l] : l = MaxMemLevel /\ f = written
  BY <1>1
<1>3. Tree!EntriesNeverHop
  <2>1. Tree!Level \subseteq Nat
    BY LevelFacts
  <2> QED BY <1>2, <2>1 DEF Tree!EntriesNeverHop, Tree!Entries
<1>4. Ordered
  BY <1>1, <1>2, <1>3, LevelFacts DEF Ordered, AllNewer
<1>5. Present = written
  <2>1. \A d \in Present : d \in written
    BY <1>1, <1>2 DEF Present, Tree!Entries
  <2>2. \A d \in written : d \in Present
    <3> SUFFICES ASSUME NEW d \in written PROVE d \in Present
      OBVIOUS
    <3>1. MaxMemLevel \in Tree!Level /\ written \in files[MaxMemLevel]
      BY <1>1, LevelFacts
    <3> QED BY <3>1 DEF Present, Tree!Entries
  <2> QED BY <2>1, <2>2
<1> QED BY <1>1, <1>4, <1>5 DEF Reads, JobOrdered, Values

LEMMA ReadStep == ReadInv /\ [Tree!Next]_Tree!vars => ReadInv'
<1> SUFFICES ASSUME ReadInv, [Tree!Next]_Tree!vars PROVE ReadInv'
  OBVIOUS
<1>1. TreeInv'
  BY TreeStep DEF ReadInv
<1>2. SUFFICES Reads'
  BY <1>1 DEF Reads, ReadInv
<1>3. ASSUME NEW k \in Tree!Key, NEW del \in BOOLEAN, Tree!Put(k, del) PROVE Reads'
  BY <1>3, PutReads
<1>4. CASE Tree!GetSnapshot \/ (\E s \in snapshots : Tree!ReleaseSnapshot(s)) \/ UNCHANGED Tree!vars
  <2>1. UNCHANGED <<mem, files, lastSeq, job, written, split, gap>> /\ snapshots' \subseteq snapshots \cup {lastSeq}
    BY <1>4 DEF Tree!GetSnapshot, Tree!ReleaseSnapshot, Tree!vars
  <2> QED BY <2>1, SnapshotReads
<1>5. ASSUME NEW lo \in Tree!Key, NEW hi \in Tree!Key, Tree!CompactRange(lo..hi) PROVE Reads'
  BY <1>5, RangeReads
<1> QED BY <1>3, <1>4, <1>5, FlushReads, PickReads, MoveReads, DoneReads DEF Tree!Next

-----------------------------------------------------------------------------
LEMMA TreeStays ==
    ASSUME [StorageNext]_storage, part' = "tree"
    PROVE  part = "tree" /\ [Tree!Next]_Tree!vars
  BY DEF StorageNext, storage, tree, Tree!vars

LEMMA TreeAlways == StorageSpec => [](part = "tree" => ReadInv)
<1> DEFINE Inv == part = "tree" => ReadInv
<1>1. StorageInit => Inv
  BY TreeInitInv, ReadsInit DEF StorageInit, ReadInv, Reads
<1>2. Inv /\ [StorageNext]_storage => Inv'
  <2> SUFFICES ASSUME Inv, [StorageNext]_storage, part' = "tree" PROVE ReadInv'
    OBVIOUS
  <2> QED BY TreeStays, ReadStep
<1> QED BY <1>1, <1>2, PTL DEF StorageSpec

(* With no manual compaction that a memtable went past, the tables of a    *)
(* level below 0 never overlap (MaybeAddFile's assertion, version_set.cc), *)
(* for any number of levels and keys.                                      *)
THEOREM LevelsAreDisjoint == StorageSpec => []LevelsDisjoint
<1>1. (part = "tree" => ReadInv) => LevelsDisjoint
  BY DEF ReadInv, TreeInv, LevelsDisjoint
<1> QED BY <1>1, TreeAlways, PTL

(* "Entries never hop across levels" (version_set.cc:346), as long as no   *)
(* compaction cut between two entries of a key and no memtable went past a *)
(* manual compaction: what is newer of a key is in a level above.          *)
THEOREM NeverHopUnlessSplit ==
    StorageSpec => [](part = "tree" => (~ split /\ ~ gap => Tree!EntriesNeverHop))
<1>1. (part = "tree" => ReadInv) => (part = "tree" => (~ split /\ ~ gap => Tree!EntriesNeverHop))
  BY DEF ReadInv, Ordered, Clean
<1> QED BY <1>1, TreeAlways, PTL

(* Version::Get finds of every key the newest entry that was written and   *)
(* that the snapshot may see, whatever was flushed, moved, merged and      *)
(* dropped since, for any number of keys, levels, writes and snapshots.    *)
THEOREM ReadsAreRight == StorageSpec => []ReadsRight
<1>1. (part = "tree" => ReadInv) => ReadsRight
  BY ReadsShown DEF ReadsRight
<1> QED BY <1>1, TreeAlways, PTL

-----------------------------------------------------------------------------
(***************************************************************************)
(* The cache of open tables.  The inductive invariant: the entries, lists, *)
(* table and usage of the cache agree, each entry has as many references   *)
(* as clients use it and one more while it is in the cache, the handle of  *)
(* a client is of an entry of its file, and entries and clients are of     *)
(* files that are not deleted.  The usage is a sum over the entries, which *)
(* needs the sum to be the same in whatever order it is taken.             *)
(***************************************************************************)
LEMMA TablesConstants == Tables!TableCacheAssumption /\ Tables!CapacityAssumption
  BY StorageAssumption

LEMMA TablesCardinality == \A S : Tables!Cardinality(S) = Cardinality(S)
  BY DEF Tables!Cardinality, Cardinality

LEMMA TablesFinite == \A S : Tables!IsFiniteSet(S) <=> IsFiniteSet(S)
  BY DEF Tables!IsFiniteSet, IsFiniteSet

(* The sum of f over a finite set, whatever its order. *)
Some(s) == CHOOSE x \in s : TRUE
IsSum(f, S, g) ==
    g = [s \in SUBSET S |-> IF s = {} THEN 0 ELSE f[Some(s)] + g[s \ {Some(s)}]]
Sum(f, S) == (CHOOSE g : IsSum(f, S, g))[S]

LEMMA SumIs == ASSUME NEW f, NEW S PROVE Tables!SumFunctionOnSet(f, S) = Sum(f, S)
  BY Zenon DEF Tables!SumFunctionOnSet, Tables!FoldFunctionOnSet, Tables!MapThenFoldSet, Sum, IsSum, Some

(* A statement of all numbers holds if no number is the least without it. *)
LEMMA FewestOf ==
    ASSUME NEW F, F # {}, \A S \in F : IsFiniteSet(S)
    PROVE  \E S \in F : \A R \in F : Cardinality(S) <= Cardinality(R)
<1> DEFINE N == {Cardinality(S) : S \in F}
<1>1. N \subseteq Nat /\ N # {}
  BY FS_CardinalityType
<1>2. PICK n \in N : \A m \in N : n <= m
  BY <1>1, LeastOf
<1> QED BY <1>2

LEMMA Fewer ==
    ASSUME NEW S, NEW R, IsFiniteSet(S), R \subseteq S, R # S
    PROVE  IsFiniteSet(R) /\ Cardinality(R) < Cardinality(S)
<1>1. IsFiniteSet(R)
  BY FS_Subset
<1>2. PICK x \in S : x \notin R
  OBVIOUS
<1>3. R \subseteq S \ {x}
  BY <1>2
<1>4. Cardinality(S \ {x}) = Cardinality(S) - 1 /\ IsFiniteSet(S \ {x})
  BY <1>2, FS_RemoveElement
<1>5. Cardinality(R) <= Cardinality(S \ {x})
  BY <1>3, <1>4, FS_Subset
<1>6. Cardinality(R) \in Nat /\ Cardinality(S) \in Nat
  BY <1>1, FS_CardinalityType
<1> QED BY <1>1, <1>4, <1>5, <1>6

LEMMA SumsAgree ==
    ASSUME NEW f, NEW S, NEW R, IsFiniteSet(S), NEW g, NEW h, IsSum(f, S, g), IsSum(f, R, h),
           NEW s, s \subseteq S, s \subseteq R
    PROVE  g[s] = h[s]
<1> DEFINE F == {r \in SUBSET (S \cap R) : g[r] # h[r]}
<1>1. SUFFICES F = {}
  OBVIOUS
<1>2. SUFFICES ASSUME F # {} PROVE FALSE
  OBVIOUS
<1>3. \A r \in F : IsFiniteSet(r)
  BY FS_Subset
<1>4. PICK r \in F : \A q \in F : Cardinality(r) <= Cardinality(q)
  BY <1>2, <1>3, FewestOf
<1>5. r # {}
  BY <1>4 DEF IsSum
<1>6. Some(r) \in r
  BY <1>5 DEF Some
<1>7. r \ {Some(r)} \notin F
  <2>1. Cardinality(r \ {Some(r)}) < Cardinality(r) /\ Cardinality(r) \in Nat
    BY <1>3, <1>4, <1>6, Fewer, FS_CardinalityType
  <2>2. Cardinality(r \ {Some(r)}) \in Nat
    BY <1>3, <1>4, <1>6, Fewer, FS_CardinalityType
  <2> QED BY <1>4, <2>1, <2>2
<1>8. g[r \ {Some(r)}] = h[r \ {Some(r)}]
  BY <1>4, <1>7
<1>9. r \in SUBSET S /\ r \in SUBSET R
  BY <1>4
<1>10. g[r] = f[Some(r)] + g[r \ {Some(r)}] /\ h[r] = f[Some(r)] + h[r \ {Some(r)}]
  BY <1>5, <1>9 DEF IsSum
<1> QED BY <1>4, <1>8, <1>10

LEMMA SumExists == ASSUME NEW f, NEW S, IsFiniteSet(S) PROVE \E g : IsSum(f, S, g)
<1> DEFINE F == {R \in SUBSET S : ~ \E g : IsSum(f, R, g)}
<1>1. SUFFICES ASSUME F # {} PROVE FALSE
  OBVIOUS
<1>2. \A R \in F : IsFiniteSet(R)
  BY FS_Subset
<1>3. PICK R \in F : \A Q \in F : Cardinality(R) <= Cardinality(Q)
  BY <1>1, <1>2, FewestOf
<1>4. ASSUME NEW Q, Q \subseteq R, Q # R PROVE \E g : IsSum(f, Q, g)
  <2>1. Cardinality(Q) < Cardinality(R) /\ Cardinality(R) \in Nat /\ Cardinality(Q) \in Nat
    BY <1>2, <1>3, <1>4, Fewer, FS_CardinalityType
  <2>2. Q \notin F
    BY <1>3, <2>1
  <2> QED BY <1>3, <1>4, <2>2
<1> DEFINE Rest(s) == s \ {Some(s)}
           G == [s \in SUBSET R |-> IF s = {} THEN 0 ELSE f[Some(s)] + Sum(f, Rest(s))]
<1>5. ASSUME NEW s \in SUBSET R, s # {} PROVE G[Rest(s)] = Sum(f, Rest(s))
  <2>1. Some(s) \in s
    BY <1>5 DEF Some
  <2>2. Rest(s) \subseteq R /\ Rest(s) # R /\ IsFiniteSet(Rest(s))
    <3>1. Rest(s) \subseteq R /\ Rest(s) # R
      BY <2>1
    <3>2. IsFiniteSet(R)
      BY <1>2, <1>3
    <3> QED BY <3>1, <3>2, FS_Subset
  <2> DEFINE r == Rest(s)
  <2> HIDE DEF r
  <2>3. IsSum(f, r, CHOOSE g : IsSum(f, r, g))
    BY <1>4, <2>2 DEF r
  <2>4. PICK g : IsSum(f, r, g) /\ Sum(f, r) = g[r]
    BY <2>3 DEF Sum
  <2>5. CASE r = {}
    <3>1. g[r] = 0
      BY <2>4, <2>5 DEF IsSum
    <3>2. G[r] = 0
      BY <2>5
    <3> QED BY <2>4, <3>1, <3>2 DEF r
  <2>6. CASE r # {}
    <3>1. Some(r) \in r
      BY <2>6 DEF Some
    <3>2. g[r] = f[Some(r)] + g[Rest(r)]
      BY <2>4, <2>6 DEF IsSum
    <3>3. G[r] = f[Some(r)] + Sum(f, Rest(r))
      BY <2>2, <2>6 DEF r
    <3>4. IsSum(f, Rest(r), CHOOSE h : IsSum(f, Rest(r), h))
      <4>1. Rest(r) \subseteq R /\ Rest(r) # R
        BY <2>2, <3>1 DEF r
      <4> QED BY <1>4, <4>1
    <3>5. Rest(r) \subseteq r /\ Rest(r) \subseteq Rest(r) /\ IsFiniteSet(r)
      BY <2>2 DEF r
    <3>6. g[Rest(r)] = Sum(f, Rest(r))
      BY <2>4, <3>4, <3>5, SumsAgree DEF Sum
    <3> QED BY <2>4, <3>2, <3>3, <3>6 DEF r
  <2> QED BY <2>5, <2>6
<1>6. IsSum(f, R, G)
  BY <1>5 DEF IsSum
<1> QED BY <1>3, <1>6

(* The sum of nothing; a sum with the one that CHOOSE takes set apart. *)
LEMMA SumStep ==
    ASSUME NEW f, NEW S, IsFiniteSet(S)
    PROVE  Sum(f, S) = IF S = {} THEN 0 ELSE f[Some(S)] + Sum(f, S \ {Some(S)})
<1>1. IsSum(f, S, CHOOSE g : IsSum(f, S, g))
  BY SumExists
<1>2. PICK g : IsSum(f, S, g) /\ Sum(f, S) = g[S]
  BY <1>1 DEF Sum
<1>3. CASE S = {}
  BY <1>2, <1>3 DEF IsSum
<1>4. CASE S # {}
  <2> DEFINE R == S \ {Some(S)}
  <2>1. Some(S) \in S /\ R \subseteq S /\ IsFiniteSet(R)
    BY <1>4, FS_Subset DEF Some
  <2> HIDE DEF R
  <2>2. IsSum(f, R, CHOOSE h : IsSum(f, R, h))
    BY <2>1, SumExists
  <2>3. g[R] = Sum(f, R)
    BY <1>2, <2>1, <2>2, SumsAgree DEF Sum
  <2>4. g[S] = f[Some(S)] + g[R]
    BY <1>2, <1>4 DEF IsSum, R
  <2> QED BY <1>2, <1>4, <2>3, <2>4 DEF R
<1> QED BY <1>3, <1>4

(* What holds of a set if it does of its proper subsets holds of it: G has *)
(* the subsets of S of which it holds.                                     *)
LEMMA BySubsets ==
    ASSUME NEW S, IsFiniteSet(S), NEW G,
           \A R \in SUBSET S : (\A Q \in SUBSET R : Q # R => Q \in G) => R \in G
    PROVE  S \in G
<1> DEFINE F == {R \in SUBSET S : R \notin G}
<1>1. SUFFICES ASSUME F # {} PROVE FALSE
  OBVIOUS
<1>2. \A R \in F : IsFiniteSet(R)
  BY FS_Subset
<1>3. PICK R \in F : \A Q \in F : Cardinality(R) <= Cardinality(Q)
  BY <1>1, <1>2, FewestOf
<1>4. ASSUME NEW Q \in SUBSET R, Q # R PROVE Q \in G
  <2>1. Cardinality(Q) < Cardinality(R) /\ Cardinality(R) \in Nat /\ Cardinality(Q) \in Nat
    BY <1>2, <1>3, <1>4, Fewer, FS_CardinalityType
  <2> QED BY <1>3, <2>1
<1> QED BY <1>3, <1>4

LEMMA SumType ==
    ASSUME NEW f, NEW S, IsFiniteSet(S), \A x \in S : f[x] \in Nat
    PROVE  Sum(f, S) \in Nat
<1> DEFINE G == {R \in SUBSET S : Sum(f, R) \in Nat}
<1>1. ASSUME NEW R \in SUBSET S, \A Q \in SUBSET R : Q # R => Q \in G PROVE R \in G
  <2>1. IsFiniteSet(R)
    BY FS_Subset
  <2>2. CASE R = {}
    <3>1. Sum(f, R) = 0
      BY <2>1, <2>2, SumStep
    <3> QED BY <3>1
  <2>3. CASE R # {}
    <3>1. Some(R) \in R
      BY <2>3 DEF Some
    <3>2. Sum(f, R) = f[Some(R)] + Sum(f, R \ {Some(R)})
      BY <2>1, <2>3, SumStep
    <3>3. R \ {Some(R)} \in G
      BY <1>1, <3>1
    <3> QED BY <3>1, <3>2, <3>3
  <2> QED BY <2>2, <2>3
<1>2. S \in G
  <2> HIDE DEF G
  <2> QED BY <1>1, BySubsets
<1> QED BY <1>2

LEMMA SumSame ==
    ASSUME NEW f, NEW g, NEW S, IsFiniteSet(S), \A x \in S : f[x] = g[x]
    PROVE  Sum(f, S) = Sum(g, S)
<1> DEFINE G == {R \in SUBSET S : Sum(f, R) = Sum(g, R)}
<1>1. ASSUME NEW R \in SUBSET S, \A Q \in SUBSET R : Q # R => Q \in G PROVE R \in G
  <2>1. IsFiniteSet(R)
    BY FS_Subset
  <2>2. CASE R = {}
    BY <2>1, <2>2, SumStep
  <2>3. CASE R # {}
    <3>1. Some(R) \in R
      BY <2>3 DEF Some
    <3>2. /\ Sum(f, R) = f[Some(R)] + Sum(f, R \ {Some(R)})
          /\ Sum(g, R) = g[Some(R)] + Sum(g, R \ {Some(R)})
      BY <2>1, <2>3, SumStep
    <3>3. R \ {Some(R)} \in G
      BY <1>1, <3>1
    <3> QED BY <3>1, <3>2, <3>3
  <2> QED BY <2>2, <2>3
<1>2. S \in G
  <2> HIDE DEF G
  <2> QED BY <1>1, BySubsets
<1> QED BY <1>2

(* Any element can be set apart. *)
LEMMA SumApart ==
    ASSUME NEW f, NEW S, IsFiniteSet(S), \A x \in S : f[x] \in Nat
    PROVE  \A x \in S : Sum(f, S) = f[x] + Sum(f, S \ {x})
<1> DEFINE G == {R \in SUBSET S : \A x \in R : Sum(f, R) = f[x] + Sum(f, R \ {x})}
<1>1. ASSUME NEW R \in SUBSET S, \A Q \in SUBSET R : Q # R => Q \in G PROVE R \in G
  <2> SUFFICES ASSUME NEW x \in R PROVE Sum(f, R) = f[x] + Sum(f, R \ {x})
    OBVIOUS
  <2>1. \A Q \in SUBSET R : IsFiniteSet(Q) /\ Sum(f, Q) \in Nat
    <3> SUFFICES ASSUME NEW Q \in SUBSET R PROVE IsFiniteSet(Q) /\ Sum(f, Q) \in Nat
      OBVIOUS
    <3>1. IsFiniteSet(Q)
      BY FS_Subset
    <3> QED BY <3>1, SumType
  <2> DEFINE y == Some(R)
  <2>2. y \in R
    BY DEF Some
  <2>3. Sum(f, R) = f[y] + Sum(f, R \ {y})
    BY <2>1, SumStep
  <2> HIDE DEF y
  <2>4. CASE x = y
    BY <2>3, <2>4
  <2>5. CASE x # y
    <3>1. Sum(f, R \ {y}) = f[x] + Sum(f, (R \ {y}) \ {x})
      <4>1. R \ {y} \in G /\ x \in R \ {y}
        BY <1>1, <2>2, <2>5
      <4> QED BY <4>1
    <3>2. Sum(f, R \ {x}) = f[y] + Sum(f, (R \ {x}) \ {y})
      <4>1. R \ {x} \in G /\ y \in R \ {x}
        BY <1>1, <2>2, <2>5
      <4> QED BY <4>1
    <3>3. (R \ {y}) \ {x} = (R \ {x}) \ {y}
      OBVIOUS
    <3>4. f[x] \in Nat /\ f[y] \in Nat /\ Sum(f, (R \ {x}) \ {y}) \in Nat
      BY <2>1, <2>2
    <3> QED BY <2>3, <3>1, <3>2, <3>3, <3>4
  <2> QED BY <2>4, <2>5
<1>2. S \in G
  <2> HIDE DEF G
  <2> QED BY <1>1, BySubsets
<1> QED BY <1>2

LEMMA SumWithout ==
    ASSUME NEW f, NEW S, IsFiniteSet(S), \A x \in S : f[x] \in Nat, NEW T \in SUBSET S
    PROVE  Sum(f, S \ T) = Sum(f, S) - Sum(f, T)
<1> DEFINE G == {R \in SUBSET T : Sum(f, S \ R) = Sum(f, S) - Sum(f, R)}
<1>0. \A Q \in SUBSET S : IsFiniteSet(Q) /\ Sum(f, Q) \in Nat
  <2> SUFFICES ASSUME NEW Q \in SUBSET S PROVE IsFiniteSet(Q) /\ Sum(f, Q) \in Nat
    OBVIOUS
  <2>1. IsFiniteSet(Q)
    BY FS_Subset
  <2> QED BY <2>1, SumType
<1>1. ASSUME NEW R \in SUBSET T, \A Q \in SUBSET R : Q # R => Q \in G PROVE R \in G
  <2>1. CASE R = {}
    <3>1. Sum(f, R) = 0 /\ S \ R = S
      BY <1>0, <2>1, SumStep
    <3> QED BY <1>0, <3>1
  <2>2. CASE R # {}
    <3>1. PICK x \in R : TRUE
      BY <2>2
    <3> DEFINE Q == R \ {x}
    <3>2. Sum(f, S \ Q) = Sum(f, S) - Sum(f, Q)
      <4>1. Q \in G
        BY <1>1
      <4> QED BY <4>1
    <3>3. Sum(f, R) = f[x] + Sum(f, Q)
      BY <1>0, SumApart
    <3>4. Sum(f, S \ Q) = f[x] + Sum(f, S \ R)
      <4>1. Sum(f, S \ Q) = f[x] + Sum(f, (S \ Q) \ {x})
        BY <1>0, SumApart
      <4>2. (S \ Q) \ {x} = S \ R
        OBVIOUS
      <4> QED BY <4>1, <4>2
    <3>5. f[x] \in Nat /\ Sum(f, Q) \in Nat /\ Sum(f, S) \in Nat /\ Sum(f, S \ R) \in Nat
      BY <1>0
    <3>6. \A a, b, c, d, e, n \in Nat : c = e - b /\ a = n + b /\ c = n + d => d = e - a
      OBVIOUS
    <3>7. Sum(f, S \ R) = Sum(f, S) - Sum(f, R)
      <4>1. Sum(f, S \ Q) \in Nat /\ Sum(f, R) \in Nat
        BY <1>0
      <4> HIDE DEF Q
      <4> QED BY <3>2, <3>3, <3>4, <3>5, <3>6, <4>1
    <3> QED BY <3>7
  <2> QED BY <2>1, <2>2
<1>2. T \in G
  <2>1. IsFiniteSet(T)
    BY <1>0
  <2> HIDE DEF G
  <2> QED BY <1>1, <2>1, BySubsets
<1> QED BY <1>2

-----------------------------------------------------------------------------
(* Lists without an entry twice. *)
Once(s) == \A i, j \in DOMAIN s : s[i] = s[j] => i = j

LEMMA JoinedIs ==
    ASSUME NEW S, NEW a \in Seq(S), NEW b \in Seq(S)
    PROVE  /\ a \o b \in Seq(S) /\ Len(a \o b) = Len(a) + Len(b)
           /\ \A i \in 1..(Len(a) + Len(b)) : (a \o b)[i] = IF i <= Len(a) THEN a[i] ELSE b[i - Len(a)]
<1>1. a \o b \in Seq(S) /\ Len(a \o b) = Len(a) + Len(b)
  OBVIOUS
<1>2. \A i \in 1..(Len(a) + Len(b)) : (a \o b)[i] = IF i <= Len(a) THEN a[i] ELSE b[i - Len(a)]
  OBVIOUS
<1> QED BY <1>1, <1>2

LEMMA DroppedIs ==
    ASSUME NEW S, NEW s \in Seq(S), Once(s), NEW h
    PROVE  Tables!Dropped(s, h) \in Seq(S) /\ Once(Tables!Dropped(s, h)) /\ Tables!Range(Tables!Dropped(s, h)) = Tables!Range(s) \ {h}
<1>1. CASE h \notin Tables!Range(s)
  BY <1>1 DEF Tables!Dropped
<1>2. CASE h \in Tables!Range(s)
  <2> DEFINE n == CHOOSE n \in DOMAIN s : s[n] = h
             d == SubSeq(s, 1, n - 1) \o SubSeq(s, n + 1, Len(s))
  <2>1. Tables!Dropped(s, h) = d
    BY <1>2 DEF Tables!Dropped
  <2>2. n \in 1..Len(s) /\ s[n] = h
    <3>1. \E i \in DOMAIN s : s[i] = h
      BY <1>2 DEF Tables!Range
    <3> QED BY <3>1
  <2> HIDE DEF n
  <2>3. /\ d \in Seq(S) /\ Len(d) = Len(s) - 1
        /\ \A i \in 1..(Len(s) - 1) : d[i] = s[IF i < n THEN i ELSE i + 1]
    <3>1. SubSeq(s, 1, n - 1) \in Seq(S) /\ Len(SubSeq(s, 1, n - 1)) = n - 1
      BY <2>2
    <3>2. SubSeq(s, n + 1, Len(s)) \in Seq(S) /\ Len(SubSeq(s, n + 1, Len(s))) = Len(s) - n
      BY <2>2
    <3>3. \A i \in 1..(n - 1) : SubSeq(s, 1, n - 1)[i] = s[i]
      BY <2>2
    <3>4. \A i \in 1..(Len(s) - n) : SubSeq(s, n + 1, Len(s))[i] = s[n + i]
      BY <2>2
    <3> DEFINE a == SubSeq(s, 1, n - 1)
               b == SubSeq(s, n + 1, Len(s))
    <3> HIDE DEF a, b
    <3>5. a \in Seq(S) /\ b \in Seq(S) /\ Len(a) = n - 1 /\ Len(b) = Len(s) - n
      BY <3>1, <3>2 DEF a, b
    <3>6. /\ a \o b \in Seq(S) /\ Len(a \o b) = Len(a) + Len(b)
          /\ \A i \in 1..(Len(a) + Len(b)) : (a \o b)[i] = IF i <= Len(a) THEN a[i] ELSE b[i - Len(a)]
      <4>1. a \in Seq(S) /\ b \in Seq(S)
        BY <3>5
      <4> QED BY <4>1, JoinedIs, Zenon
    <3>7. Len(a) + Len(b) = Len(s) - 1
      BY <2>2, <3>5
    <3>8. ASSUME NEW i \in 1..(Len(s) - 1) PROVE (a \o b)[i] = s[IF i < n THEN i ELSE i + 1]
      <4>1. CASE i < n
        <5>1. i <= Len(a) /\ i \in 1..(n - 1)
          BY <2>2, <3>5, <4>1
        <5> QED BY <3>3, <3>6, <3>7, <4>1, <5>1 DEF a
      <4>2. CASE ~ (i < n)
        <5>1. ~ (i <= Len(a)) /\ i - Len(a) \in 1..(Len(s) - n) /\ n + (i - Len(a)) = i + 1
          BY <2>2, <3>5, <4>2
        <5>2. b[i - Len(a)] = s[i + 1]
          BY <3>4, <5>1 DEF b
        <5> QED BY <3>6, <3>7, <4>2, <5>1, <5>2
      <4> QED BY <4>1, <4>2
    <3> QED BY <3>6, <3>7, <3>8 DEF a, b
  <2> HIDE DEF d
  <2>4. Once(d)
    BY <2>2, <2>3 DEF Once
  <2>5. \A x : x \in Tables!Range(d) <=> x \in Tables!Range(s) /\ x # h
    <3>1. ASSUME NEW x \in Tables!Range(d) PROVE x \in Tables!Range(s) /\ x # h
      BY <2>2, <2>3 DEF Once, Tables!Range
    <3>2. ASSUME NEW x \in Tables!Range(s), x # h PROVE x \in Tables!Range(d)
      <4>1. PICK i \in 1..Len(s) : s[i] = x
        BY DEF Tables!Range
      <4>2. CASE i < n
        BY <2>2, <2>3, <4>1, <4>2 DEF Tables!Range
      <4>3. CASE i > n
        <5>1. i - 1 \in DOMAIN d /\ d[i - 1] = x
          BY <2>2, <2>3, <4>1, <4>3
        <5> QED BY <5>1 DEF Tables!Range
      <4> QED BY <2>2, <3>2, <4>1, <4>2, <4>3
    <3> QED BY <3>1, <3>2
  <2> QED BY <2>1, <2>3, <2>4, <2>5
<1> QED BY <1>1, <1>2

(* A new entry is added at the end. *)
AppendedTo(S, s, h) ==
    Append(s, h) \in Seq(S) /\ Once(Append(s, h)) /\ Tables!Range(Append(s, h)) = Tables!Range(s) \cup {h}

LEMMA AppendedIs ==
    ASSUME NEW S, NEW s \in Seq(S), Once(s), NEW h \in S, h \notin Tables!Range(s)
    PROVE  AppendedTo(S, s, h)
<1>1. Once(Append(s, h))
  BY DEF Once, Tables!Range
<1>2. \A x : x \in Tables!Range(Append(s, h)) <=> x \in Tables!Range(s) \/ x = h
  <2>1. ASSUME NEW x \in Tables!Range(Append(s, h)) PROVE x \in Tables!Range(s) \/ x = h
    BY DEF Tables!Range
  <2>2. ASSUME NEW x \in Tables!Range(s) PROVE x \in Tables!Range(Append(s, h))
    <3>1. PICK i \in 1..Len(s) : s[i] = x
      BY DEF Tables!Range
    <3>2. i \in DOMAIN Append(s, h) /\ Append(s, h)[i] = x
      BY <3>1
    <3> QED BY <3>2 DEF Tables!Range
  <2>3. h \in Tables!Range(Append(s, h))
    <3>1. Len(s) + 1 \in DOMAIN Append(s, h) /\ Append(s, h)[Len(s) + 1] = h
      OBVIOUS
    <3> QED BY <3>1 DEF Tables!Range
  <2> QED BY <2>1, <2>2, <2>3
<1> QED BY <1>1, <1>2 DEF AppendedTo

(* The first n entries, and the list r of the others. *)
FrontOf(s, n) == {s[i] : i \in 1..n}
RestOf(S, s, n, r) == /\ r \in Seq(S) /\ Once(r) /\ Tables!Range(r) = Tables!Range(s) \ FrontOf(s, n)
                      /\ FrontOf(s, n) \subseteq Tables!Range(s)

LEMMA RestIs ==
    ASSUME NEW S, NEW s \in Seq(S), Once(s), NEW n \in 0..Len(s), NEW r, r = SubSeq(s, n + 1, Len(s))
    PROVE  RestOf(S, s, n, r)
<1> DEFINE F == FrontOf(s, n)
<1>0. \A x : x \in F <=> \E i \in 1..n : x = s[i]
  BY DEF FrontOf
<1> HIDE DEF F
<1>1. /\ r \in Seq(S) /\ Len(r) = Len(s) - n
      /\ \A i \in 1..(Len(s) - n) : r[i] = s[n + i]
  OBVIOUS
<1>2. Once(r)
  BY <1>1 DEF Once
<1>3. F \subseteq Tables!Range(s)
  BY <1>0 DEF Tables!Range
<1>4. \A x : x \in Tables!Range(r) <=> x \in Tables!Range(s) /\ x \notin F
  <2>1. ASSUME NEW x \in Tables!Range(r) PROVE x \in Tables!Range(s) /\ x \notin F
    <3>1. PICK i \in DOMAIN r : r[i] = x
      BY DEF Tables!Range
    <3>2. i \in 1..(Len(s) - n) /\ n + i \in DOMAIN s /\ s[n + i] = x
      BY <1>1, <3>1
    <3>3. \A j \in 1..n : j \in DOMAIN s /\ j # n + i
      BY <3>2
    <3>4. \A j \in 1..n : s[j] # x
      BY <3>2, <3>3 DEF Once
    <3> QED BY <1>0, <3>2, <3>4 DEF Tables!Range
  <2>2. ASSUME NEW x \in Tables!Range(s), x \notin F PROVE x \in Tables!Range(r)
    <3>1. PICK i \in 1..Len(s) : s[i] = x
      BY DEF Tables!Range
    <3>2. i > n
      <4>1. i \notin 1..n
        BY <1>0, <2>2, <3>1
      <4> QED BY <4>1
    <3>3. i - n \in DOMAIN r /\ r[i - n] = x
      BY <1>1, <3>1, <3>2
    <3> QED BY <3>3 DEF Tables!Range
  <2> QED BY <2>1, <2>2
<1>5. Tables!Range(r) = Tables!Range(s) \ F
  BY <1>4
<1> QED BY <1>1, <1>2, <1>3, <1>5 DEF F, RestOf

-----------------------------------------------------------------------------
Entry == [key : File, refs : Nat \ {0}, inCache : BOOLEAN, charge : Nat]
Cached(c) == {h \in DOMAIN c.handle : c.handle[h].inCache}

IsCache(c) == c = [f \in {"handle", "table", "lru", "inUse", "usage"} |-> c[f]]
CacheTypes(c) ==
    /\ IsCache(c)
    /\ IsFiniteSet(DOMAIN c.handle) /\ c.handle \in [DOMAIN c.handle -> Entry]
    /\ c.table \in [DOMAIN c.table -> DOMAIN c.handle]
    /\ c.lru \in Seq(DOMAIN c.handle) /\ c.inUse \subseteq DOMAIN c.handle

(* The lists, the table and the usage agree but for the entries out, which *)
(* table_ has let go and FinishErase has yet to take from the lists.       *)
CacheRight(c, out) ==
    /\ CacheTypes(c) /\ Once(c.lru)
    /\ \A h \in DOMAIN c.handle :
         /\ h \in Tables!Range(c.lru) <=> c.handle[h].inCache /\ c.handle[h].refs = 1
         /\ h \in c.inUse <=> c.handle[h].inCache /\ c.handle[h].refs > 1
         /\ c.handle[h].inCache /\ h \notin out =>
              c.handle[h].key \in DOMAIN c.table /\ c.table[c.handle[h].key] = h
    /\ \A k \in DOMAIN c.table :
         c.table[k] \notin out /\ c.handle[c.table[k]].inCache /\ c.handle[c.table[k]].key = k
    /\ c.usage = Tables!Charged(c, Cached(c))

LEMMA CacheRightShows == ASSUME NEW c, CacheRight(c, {}) PROVE Tables!ListsRight(c)
<1>1. \A h \in Tables!Range(c.lru) : h \in DOMAIN c.handle
  BY DEF CacheRight, CacheTypes, Tables!Range
<1>2. Tables!Range(c.lru) = {h \in Cached(c) : c.handle[h].refs = 1}
  <2>1. \A h : h \in Tables!Range(c.lru) <=> h \in {g \in Cached(c) : c.handle[g].refs = 1}
    BY <1>1 DEF CacheRight, Cached
  <2> QED BY <2>1
<1>3. c.inUse = {h \in Cached(c) : c.handle[h].refs > 1}
  <2>1. \A h : h \in c.inUse <=> h \in {g \in Cached(c) : c.handle[g].refs > 1}
    BY DEF CacheRight, CacheTypes, Cached
  <2> QED BY <2>1
<1>4. Cached(c) = {c.table[k] : k \in DOMAIN c.table}
  <2>1. ASSUME NEW h \in Cached(c) PROVE h \in {c.table[k] : k \in DOMAIN c.table}
    BY DEF CacheRight, Cached
  <2>2. ASSUME NEW k \in DOMAIN c.table PROVE c.table[k] \in Cached(c)
    BY DEF CacheRight, CacheTypes, Cached
  <2> QED BY <2>1, <2>2
<1>5. Tables!Range(c.lru) \cap c.inUse = {}
  BY <1>2, <1>3
<1>6. Once(c.lru) /\ c.usage = Tables!Charged(c, Cached(c)) /\ \A k \in DOMAIN c.table : c.handle[c.table[k]].key = k
  BY DEF CacheRight
<1> QED BY <1>2, <1>3, <1>4, <1>5, <1>6 DEF Tables!ListsRight, Once, Cached

(* What entries are charged with, in two caches. *)
LEMMA ChargedSame ==
    ASSUME NEW c, NEW d, NEW S, IsFiniteSet(S), S \subseteq DOMAIN c.handle, S \subseteq DOMAIN d.handle,
           \A h \in S : d.handle[h].charge = c.handle[h].charge
    PROVE  Tables!Charged(d, S) = Tables!Charged(c, S)
<1> DEFINE f == [h \in DOMAIN c.handle |-> c.handle[h].charge]
           g == [h \in DOMAIN d.handle |-> d.handle[h].charge]
<1>1. Tables!Charged(c, S) = Sum(f, S) /\ Tables!Charged(d, S) = Sum(g, S)
  BY SumIs DEF Tables!Charged
<1>2. \A h \in S : g[h] = f[h]
  OBVIOUS
<1> HIDE DEF f, g
<1> QED BY <1>1, <1>2, SumSame

LEMMA ChargedWithout ==
    ASSUME NEW c, NEW S, IsFiniteSet(S), S \subseteq DOMAIN c.handle, \A h \in S : c.handle[h].charge \in Nat,
           NEW T \in SUBSET S
    PROVE  Tables!Charged(c, S \ T) = Tables!Charged(c, S) - Tables!Charged(c, T)
<1> DEFINE f == [h \in DOMAIN c.handle |-> c.handle[h].charge]
<1>1. \A R : Tables!Charged(c, R) = Sum(f, R)
  BY SumIs DEF Tables!Charged
<1>2. \A h \in S : f[h] \in Nat
  OBVIOUS
<1> HIDE DEF f
<1> QED BY <1>1, <1>2, SumWithout

(* An entry is set apart from the sum of the charges. *)
SetApart(c, S, h) ==
    /\ Tables!Charged(c, S) = c.handle[h].charge + Tables!Charged(c, S \ {h})
    /\ Tables!Charged(c, S) \in Nat /\ Tables!Charged(c, S \ {h}) \in Nat

LEMMA ChargedApart ==
    ASSUME NEW c, NEW S, IsFiniteSet(S), S \subseteq DOMAIN c.handle, \A h \in S : c.handle[h].charge \in Nat,
           NEW h \in S
    PROVE  SetApart(c, S, h)
<1> DEFINE f == [g \in DOMAIN c.handle |-> c.handle[g].charge]
<1>1. \A R : Tables!Charged(c, R) = Sum(f, R)
  BY SumIs DEF Tables!Charged
<1>2. \A g \in S : f[g] \in Nat
  OBVIOUS
<1>3. f[h] = c.handle[h].charge
  OBVIOUS
<1>4. IsFiniteSet(S \ {h})
  BY FS_RemoveElement
<1> HIDE DEF f
<1>5. Sum(f, S) = f[h] + Sum(f, S \ {h})
  BY <1>2, SumApart
<1>6. Sum(f, S) \in Nat
  BY <1>2, SumType
<1>7. Sum(f, S \ {h}) \in Nat
  BY <1>2, <1>4, SumType
<1> QED BY <1>1, <1>3, <1>5, <1>6, <1>7 DEF SetApart

-----------------------------------------------------------------------------
(* The entry leaves the list that it is on. *)
LEMMA RemovedIs ==
    ASSUME NEW c, CacheTypes(c), Once(c.lru), NEW h, NEW d, d = Tables!LRU_Remove(c, h)
    PROVE  /\ CacheTypes(d) /\ Once(d.lru) /\ Tables!Range(d.lru) = Tables!Range(c.lru) \ {h}
           /\ d.inUse = c.inUse \ {h} /\ d.handle = c.handle /\ d.table = c.table /\ d.usage = c.usage
<1>1. /\ d.lru = Tables!Dropped(c.lru, h) /\ d.inUse = c.inUse \ {h}
      /\ d.handle = c.handle /\ d.table = c.table /\ d.usage = c.usage
      /\ IsCache(d)
  BY DEF CacheTypes, Tables!LRU_Remove, IsCache
<1>2. d.lru \in Seq(DOMAIN c.handle) /\ Once(d.lru) /\ Tables!Range(d.lru) = Tables!Range(c.lru) \ {h}
  BY <1>1, DroppedIs DEF CacheTypes
<1> QED BY <1>1, <1>2 DEF CacheTypes

(* A caller gets one more reference. *)
LEMMA RefIs ==
    ASSUME NEW c, CacheRight(c, {}), NEW h \in DOMAIN c.handle, NEW d, d = Tables!Ref(c, h)
    PROVE  /\ CacheRight(d, {}) /\ d.table = c.table
           /\ d.handle = [c.handle EXCEPT ![h].refs = @ + 1]
<1> DEFINE e == c.handle[h]
           b == IF e.refs = 1 /\ e.inCache THEN [Tables!LRU_Remove(c, h) EXCEPT !.inUse = @ \cup {h}] ELSE c
<1>1. d = [b EXCEPT !.handle[h].refs = @ + 1]
  BY DEF Tables!Ref
<1>2. e \in Entry
  BY DEF CacheRight, CacheTypes
<1>3. /\ CacheTypes(b) /\ Once(b.lru) /\ b.handle = c.handle /\ b.table = c.table /\ b.usage = c.usage
      /\ \A g \in DOMAIN c.handle :
            /\ g \in Tables!Range(b.lru) <=> g # h /\ g \in Tables!Range(c.lru)
            /\ g \in b.inUse <=> (g = h /\ e.inCache) \/ g \in c.inUse
  <2>1. CASE e.refs = 1 /\ e.inCache
    <3> DEFINE r == Tables!LRU_Remove(c, h)
    <3>1. /\ CacheTypes(r) /\ Once(r.lru) /\ Tables!Range(r.lru) = Tables!Range(c.lru) \ {h}
          /\ r.inUse = c.inUse \ {h} /\ r.handle = c.handle /\ r.table = c.table /\ r.usage = c.usage
      <4>1. CacheTypes(c) /\ Once(c.lru)
        BY DEF CacheRight
      <4> HIDE DEF b, e
      <4> QED BY <4>1, RemovedIs
    <3> HIDE DEF r
    <3>2. b = [r EXCEPT !.inUse = @ \cup {h}]
      BY <2>1 DEF r
    <3> HIDE DEF b
    <3>3. /\ b.lru = r.lru /\ b.inUse = r.inUse \cup {h} /\ b.handle = r.handle /\ b.table = r.table
          /\ b.usage = r.usage
          /\ IsCache(b)
      BY <3>1, <3>2 DEF CacheTypes, IsCache
    <3> QED BY <2>1, <3>1, <3>3 DEF CacheTypes
  <2>2. CASE ~ (e.refs = 1 /\ e.inCache)
    <3>1. b = c
      BY <2>2
    <3>2. h \notin Tables!Range(c.lru) /\ (e.inCache => h \in c.inUse)
      <4>1. e.refs \in Nat \ {0} /\ e.inCache \in BOOLEAN
        BY <1>2 DEF Entry
      <4>2. /\ h \in Tables!Range(c.lru) <=> e.inCache /\ e.refs = 1
            /\ h \in c.inUse <=> e.inCache /\ e.refs > 1
        BY DEF CacheRight
      <4> QED BY <2>2, <4>1, <4>2
    <3> HIDE DEF b
    <3> QED BY <3>1, <3>2 DEF CacheRight
  <2> QED BY <2>1, <2>2
<1> HIDE DEF b
<1>4. /\ d.lru = b.lru /\ d.inUse = b.inUse /\ d.table = b.table /\ d.usage = b.usage
      /\ d.handle = [c.handle EXCEPT ![h].refs = @ + 1]
      /\ IsCache(d)
  BY <1>1, <1>3 DEF CacheTypes, IsCache
<1>5. /\ DOMAIN d.handle = DOMAIN c.handle
      /\ \A g \in DOMAIN c.handle :
            /\ d.handle[g] \in Entry /\ d.handle[g].refs = IF g = h THEN c.handle[g].refs + 1 ELSE c.handle[g].refs
            /\ d.handle[g].key = c.handle[g].key /\ d.handle[g].inCache = c.handle[g].inCache
            /\ d.handle[g].charge = c.handle[g].charge
  <2>1. c.handle \in [DOMAIN c.handle -> Entry]
    BY DEF CacheRight, CacheTypes
  <2>2. d.handle = [g \in DOMAIN c.handle |-> IF g = h THEN [c.handle[g] EXCEPT !.refs = @ + 1] ELSE c.handle[g]]
    BY <1>4, <2>1
  <2>3. \A x \in Entry : LET y == [x EXCEPT !.refs = @ + 1]
                         IN  y \in Entry /\ y.refs = x.refs + 1 /\ y.key = x.key
                             /\ y.inCache = x.inCache /\ y.charge = x.charge
    BY DEF Entry
  <2> QED BY <2>1, <2>2, <2>3
<1>6. d.handle \in [DOMAIN d.handle -> Entry]
  BY <1>4, <1>5
<1>7. CacheTypes(d)
  BY <1>3, <1>4, <1>5, <1>6 DEF CacheTypes
<1>8. Cached(d) = Cached(c) /\ IsFiniteSet(Cached(c)) /\ Cached(c) \subseteq DOMAIN c.handle
  <2>1. Cached(d) = Cached(c)
    BY <1>5 DEF Cached
  <2>2. Cached(c) \subseteq DOMAIN c.handle /\ IsFiniteSet(DOMAIN c.handle)
    BY DEF Cached, CacheRight, CacheTypes
  <2> QED BY <2>1, <2>2, FS_Subset
<1>9. Tables!Charged(d, Cached(d)) = Tables!Charged(c, Cached(c))
  BY <1>5, <1>8, ChargedSame
<1>10. \A g \in DOMAIN c.handle : c.handle[g].refs \in Nat \ {0}
  BY DEF CacheRight, CacheTypes, Entry
<1> QED BY <1>3, <1>4, <1>5, <1>7, <1>9, <1>10 DEF CacheRight

LEMMA UsageSame ==
    ASSUME NEW c, NEW d, IsFiniteSet(DOMAIN c.handle), c.usage = Tables!Charged(c, Cached(c)), d.usage = c.usage,
           Cached(d) = Cached(c), \A h \in Cached(c) : d.handle[h].charge = c.handle[h].charge
    PROVE  d.usage = Tables!Charged(d, Cached(d))
<1>1. Cached(c) \subseteq DOMAIN c.handle /\ Cached(d) \subseteq DOMAIN d.handle
  BY DEF Cached
<1>2. IsFiniteSet(Cached(c))
  BY <1>1, FS_Subset
<1>3. Tables!Charged(d, Cached(c)) = Tables!Charged(c, Cached(c))
  BY <1>1, <1>2, ChargedSame
<1> QED BY <1>3

(* A reference is given back: the last one of an entry that table_ does    *)
(* not have frees it, the last of a client's makes it the newest of lru_.  *)
LEMMA UnrefIs ==
    ASSUME NEW c, CacheRight(c, {}), NEW h \in DOMAIN c.handle,
           c.handle[h].refs = 1 => ~ c.handle[h].inCache, NEW d, d = Tables!Unref(c, h)
    PROVE  /\ CacheRight(d, {}) /\ d.table = c.table
           /\ d.handle = IF c.handle[h].refs = 1 THEN Tables!Without(c.handle, h)
                         ELSE [c.handle EXCEPT ![h].refs = @ - 1]
<1> DEFINE x == c.handle[h]
           e == [x EXCEPT !.refs = @ - 1]
<1>1. x \in Entry /\ CacheTypes(c) /\ Once(c.lru) /\ c.usage = Tables!Charged(c, Cached(c)) /\ IsFiniteSet(DOMAIN c.handle)
  BY DEF CacheRight, CacheTypes
<1>2. /\ e.refs = x.refs - 1 /\ e.inCache = x.inCache /\ e.key = x.key /\ e.charge = x.charge
      /\ x.refs \in Nat \ {0} /\ x.inCache \in BOOLEAN /\ (x.refs # 1 => e \in Entry)
  BY <1>1 DEF Entry
<1>3. d = CASE e.refs = 0 -> [c EXCEPT !.handle = Tables!Without(@, h)]
            [] e.refs = 1 /\ e.inCache ->
                  [Tables!LRU_Remove(c, h) EXCEPT !.handle[h] = e, !.lru = Append(@, h)]
            [] OTHER -> [c EXCEPT !.handle[h] = e]
  BY DEF Tables!Unref
<1>4. \A g \in DOMAIN c.handle : /\ c.handle[g].refs \in Nat \ {0}
                                 /\ g \in Tables!Range(c.lru) <=> c.handle[g].inCache /\ c.handle[g].refs = 1
                                 /\ g \in c.inUse <=> c.handle[g].inCache /\ c.handle[g].refs > 1
  BY DEF CacheRight, CacheTypes, Entry
<1>5. \A g \in Tables!Range(c.lru) : g \in DOMAIN c.handle
  BY <1>1 DEF CacheTypes, Tables!Range
<1> HIDE DEF e
<1>6. CASE x.refs = 1
  <2>1. d = [c EXCEPT !.handle = Tables!Without(@, h)]
    BY <1>2, <1>3, <1>6
  <2>2. /\ d.lru = c.lru /\ d.inUse = c.inUse /\ d.table = c.table /\ d.usage = c.usage
        /\ d.handle = Tables!Without(c.handle, h)
        /\ IsCache(d)
    BY <1>1, <2>1 DEF CacheTypes, IsCache
  <2>3. DOMAIN d.handle = DOMAIN c.handle \ {h} /\ \A g \in DOMAIN d.handle : d.handle[g] = c.handle[g]
    BY <2>2 DEF Tables!Without
  <2>4. ~ x.inCache /\ h \notin Tables!Range(c.lru) /\ h \notin c.inUse
    BY <1>4, <1>6
  <2>5. d.lru \in Seq(DOMAIN d.handle)
    <3>1. \A i \in 1..Len(c.lru) : c.lru[i] \in DOMAIN d.handle
      BY <1>1, <1>5, <2>3, <2>4 DEF CacheTypes, Tables!Range
    <3> QED BY <1>1, <2>2, <3>1 DEF CacheTypes
  <2>6. d.table \in [DOMAIN d.table -> DOMAIN d.handle]
    <3>1. \A k \in DOMAIN c.table : c.table[k] \in DOMAIN c.handle /\ c.table[k] # h
      BY <1>1, <2>4 DEF CacheRight, CacheTypes
    <3> QED BY <1>1, <2>2, <2>3, <3>1 DEF CacheTypes
  <2>7. IsFiniteSet(DOMAIN d.handle)
    BY <1>1, <2>3, FS_RemoveElement
  <2>8. d.handle \in [DOMAIN d.handle -> Entry]
    BY <1>1, <2>2, <2>3 DEF CacheTypes, Tables!Without
  <2>9. CacheTypes(d)
    BY <1>1, <2>2, <2>3, <2>4, <2>5, <2>6, <2>7, <2>8 DEF CacheTypes
  <2>10. Cached(d) = Cached(c) /\ \A g \in Cached(c) : d.handle[g] = c.handle[g]
    BY <2>3, <2>4 DEF Cached
  <2>11. d.usage = Tables!Charged(d, Cached(d))
    BY <1>1, <2>2, <2>10, UsageSame
  <2>12. CacheRight(d, {})
    <3>1. \A k \in DOMAIN d.table : d.table[k] \in DOMAIN d.handle
      BY <2>6
    <3> QED BY <1>1, <2>2, <2>3, <2>9, <2>11, <3>1 DEF CacheRight
  <2> QED BY <1>6, <2>2, <2>12
<1>7. CASE x.refs = 2 /\ x.inCache
  <2> DEFINE r == Tables!LRU_Remove(c, h)
  <2>1. /\ CacheTypes(r) /\ Once(r.lru) /\ Tables!Range(r.lru) = Tables!Range(c.lru) \ {h}
        /\ r.inUse = c.inUse \ {h} /\ r.handle = c.handle /\ r.table = c.table /\ r.usage = c.usage
    BY <1>1, RemovedIs
  <2>2. d = [r EXCEPT !.handle[h] = e, !.lru = Append(@, h)]
    BY <1>2, <1>3, <1>7
  <2> HIDE DEF r
  <2>3. /\ d.lru = Append(r.lru, h) /\ d.inUse = c.inUse \ {h} /\ d.table = c.table /\ d.usage = c.usage
        /\ d.handle = [c.handle EXCEPT ![h] = e]
        /\ IsCache(d)
    BY <2>1, <2>2 DEF CacheTypes, IsCache
  <2>4. /\ Append(r.lru, h) \in Seq(DOMAIN c.handle) /\ Once(Append(r.lru, h))
        /\ Tables!Range(Append(r.lru, h)) = Tables!Range(r.lru) \cup {h}
    <3>1. r.lru \in Seq(DOMAIN c.handle) /\ Once(r.lru) /\ h \notin Tables!Range(r.lru) /\ h \in DOMAIN c.handle
      BY <2>1 DEF CacheTypes
    <3>2. AppendedTo(DOMAIN c.handle, r.lru, h)
      BY <3>1, AppendedIs
    <3> QED BY <3>2 DEF AppendedTo
  <2>5. DOMAIN d.handle = DOMAIN c.handle /\ \A g \in DOMAIN c.handle : d.handle[g] = IF g = h THEN e ELSE c.handle[g]
    BY <1>1, <2>3 DEF CacheTypes
  <2>6. d.handle \in [DOMAIN d.handle -> Entry]
    BY <1>1, <1>2, <1>7, <2>3 DEF CacheTypes
  <2>7. CacheTypes(d)
    BY <1>1, <2>3, <2>4, <2>5, <2>6 DEF CacheTypes
  <2>8. Cached(d) = Cached(c) /\ \A g \in Cached(c) : d.handle[g].charge = c.handle[g].charge
    BY <1>2, <2>5 DEF Cached
  <2>9. d.usage = Tables!Charged(d, Cached(d))
    <3>1. IsFiniteSet(DOMAIN c.handle) /\ c.usage = Tables!Charged(c, Cached(c)) /\ d.usage = c.usage
      BY <1>1, <2>3
    <3> QED BY <2>8, <3>1, UsageSame
  <2>10. \A g \in DOMAIN d.handle :
            /\ g \in Tables!Range(d.lru) <=> d.handle[g].inCache /\ d.handle[g].refs = 1
            /\ g \in d.inUse <=> d.handle[g].inCache /\ d.handle[g].refs > 1
    <3>1. e.refs = 1 /\ e.inCache /\ h \in Tables!Range(d.lru) /\ h \notin d.inUse
      BY <1>2, <1>7, <2>1, <2>3, <2>4
    <3>2. \A g : g # h => /\ g \in Tables!Range(d.lru) <=> g \in Tables!Range(c.lru)
                          /\ g \in d.inUse <=> g \in c.inUse
      BY <2>1, <2>3, <2>4
    <3> SUFFICES ASSUME NEW g \in DOMAIN c.handle
                 PROVE  /\ g \in Tables!Range(d.lru) <=> d.handle[g].inCache /\ d.handle[g].refs = 1
                        /\ g \in d.inUse <=> d.handle[g].inCache /\ d.handle[g].refs > 1
      BY <2>5
    <3>3. CASE g = h
      BY <2>5, <3>1, <3>3
    <3>4. CASE g # h
      BY <1>4, <2>5, <3>2, <3>4
    <3> QED BY <3>3, <3>4
  <2>11. \A g \in DOMAIN d.handle : d.handle[g].key = c.handle[g].key /\ d.handle[g].inCache = c.handle[g].inCache
    BY <1>2, <2>5
  <2>12. CacheRight(d, {})
    <3>1. \A k \in DOMAIN c.table : c.table[k] \in DOMAIN c.handle
      BY <1>1 DEF CacheTypes
    <3> QED BY <2>3, <2>4, <2>5, <2>7, <2>9, <2>10, <2>11, <3>1 DEF CacheRight
  <2> QED BY <1>7, <2>3, <2>12 DEF e
<1>8. CASE x.refs # 1 /\ ~ (x.refs = 2 /\ x.inCache)
  <2>1. d = [c EXCEPT !.handle[h] = e]
    BY <1>2, <1>3, <1>8
  <2>2. /\ d.lru = c.lru /\ d.inUse = c.inUse /\ d.table = c.table /\ d.usage = c.usage
        /\ d.handle = [c.handle EXCEPT ![h] = e]
        /\ IsCache(d)
    BY <1>1, <2>1 DEF CacheTypes, IsCache
  <2>3. DOMAIN d.handle = DOMAIN c.handle /\ \A g \in DOMAIN c.handle : d.handle[g] = IF g = h THEN e ELSE c.handle[g]
    BY <1>1, <2>2 DEF CacheTypes
  <2>4. d.handle \in [DOMAIN d.handle -> Entry]
    BY <1>1, <1>2, <1>8, <2>2 DEF CacheTypes
  <2>5. CacheTypes(d)
    BY <1>1, <2>2, <2>3, <2>4 DEF CacheTypes
  <2>6. Cached(d) = Cached(c) /\ \A g \in Cached(c) : d.handle[g].charge = c.handle[g].charge
    BY <1>2, <2>3 DEF Cached
  <2>7. d.usage = Tables!Charged(d, Cached(d))
    <3>1. IsFiniteSet(DOMAIN c.handle) /\ c.usage = Tables!Charged(c, Cached(c)) /\ d.usage = c.usage
      BY <1>1, <2>2
    <3> QED BY <2>6, <3>1, UsageSame
  <2>8. \A g \in DOMAIN d.handle :
            /\ g \in Tables!Range(d.lru) <=> d.handle[g].inCache /\ d.handle[g].refs = 1
            /\ g \in d.inUse <=> d.handle[g].inCache /\ d.handle[g].refs > 1
    BY <1>2, <1>4, <1>8, <2>2, <2>3
  <2>9. \A g \in DOMAIN d.handle : d.handle[g].key = c.handle[g].key /\ d.handle[g].inCache = c.handle[g].inCache
    BY <1>2, <2>3
  <2>10. CacheRight(d, {})
    <3>1. \A k \in DOMAIN c.table : c.table[k] \in DOMAIN c.handle
      BY <1>1 DEF CacheTypes
    <3> QED BY <1>1, <2>2, <2>3, <2>5, <2>7, <2>8, <2>9, <3>1 DEF CacheRight
  <2> QED BY <1>8, <2>2, <2>10 DEF e
<1> QED BY <1>6, <1>7, <1>8

(* An entry that table_ has let go leaves the lists and the usage, and is  *)
(* freed once nobody has a reference.                                      *)
LetGo(c, h, d) ==
    /\ DOMAIN d.handle = IF c.handle[h].refs = 1 THEN DOMAIN c.handle \ {h} ELSE DOMAIN c.handle
    /\ \A g \in DOMAIN d.handle :
          d.handle[g] = IF g = h THEN [c.handle[g] EXCEPT !.inCache = FALSE, !.refs = @ - 1] ELSE c.handle[g]

LEMMA FinishEraseIs ==
    ASSUME NEW c, NEW h, CacheRight(c, {h}), h \in DOMAIN c.handle, c.handle[h].inCache, NEW d, d = Tables!FinishErase(c, h)
    PROVE  CacheRight(d, {}) /\ d.table = c.table /\ LetGo(c, h, d)
<1> DEFINE x == c.handle[h]
           r == Tables!LRU_Remove(c, h)
           b == [r EXCEPT !.handle[h].inCache = FALSE, !.usage = @ - x.charge]
           y == [x EXCEPT !.inCache = FALSE]
<1>1. d = Tables!Unref(b, h)
  BY DEF Tables!FinishErase
<1>2. x \in Entry /\ CacheTypes(c) /\ Once(c.lru) /\ c.usage = Tables!Charged(c, Cached(c)) /\ IsFiniteSet(DOMAIN c.handle)
  BY DEF CacheRight, CacheTypes
<1>3. /\ CacheTypes(r) /\ Once(r.lru) /\ Tables!Range(r.lru) = Tables!Range(c.lru) \ {h}
      /\ r.inUse = c.inUse \ {h} /\ r.handle = c.handle /\ r.table = c.table /\ r.usage = c.usage
  BY <1>2, RemovedIs
<1> HIDE DEF r
<1>4. /\ b.lru = r.lru /\ b.inUse = r.inUse /\ b.table = c.table /\ b.usage = c.usage - x.charge
      /\ b.handle = [c.handle EXCEPT ![h] = y]
  BY <1>3 DEF CacheTypes
<1>5. IsCache(b)
  BY <1>3 DEF CacheTypes, IsCache
<1>6. y \in Entry /\ y.refs = x.refs /\ y.key = x.key /\ y.charge = x.charge /\ ~ y.inCache
  BY <1>2 DEF Entry
<1> HIDE DEF b, y
<1>7. DOMAIN b.handle = DOMAIN c.handle /\ \A g \in DOMAIN c.handle : b.handle[g] = IF g = h THEN y ELSE c.handle[g]
  BY <1>2, <1>4 DEF CacheTypes
<1>8. b.handle \in [DOMAIN b.handle -> Entry]
  BY <1>2, <1>4, <1>6 DEF CacheTypes
<1>9. CacheTypes(b)
  BY <1>2, <1>3, <1>4, <1>5, <1>7, <1>8 DEF CacheTypes
<1>10. Cached(b) = Cached(c) \ {h} /\ \A g \in Cached(b) : b.handle[g].charge = c.handle[g].charge
  BY <1>6, <1>7 DEF Cached
<1>11. b.usage = Tables!Charged(b, Cached(b))
  <2>1. Cached(c) \subseteq DOMAIN c.handle /\ h \in Cached(c)
    BY DEF Cached
  <2>2. IsFiniteSet(Cached(c)) /\ \A g \in Cached(c) : c.handle[g].charge \in Nat
    <3>1. IsFiniteSet(Cached(c))
      BY <1>2, <2>1, FS_Subset
    <3>2. \A g \in Cached(c) : c.handle[g].charge \in Nat
      BY <1>2, <2>1 DEF CacheTypes, Entry
    <3> QED BY <3>1, <3>2
  <2>3. /\ Tables!Charged(c, Cached(c)) = x.charge + Tables!Charged(c, Cached(c) \ {h})
        /\ Tables!Charged(c, Cached(c)) \in Nat /\ Tables!Charged(c, Cached(c) \ {h}) \in Nat
    <3>1. SetApart(c, Cached(c), h)
      BY <2>1, <2>2, ChargedApart
    <3> QED BY <3>1 DEF SetApart
  <2>4. IsFiniteSet(Cached(b)) /\ Cached(b) \subseteq DOMAIN c.handle /\ Cached(b) \subseteq DOMAIN b.handle
    BY <1>7, <1>10, <2>1, <2>2, FS_RemoveElement
  <2>5. Tables!Charged(b, Cached(b)) = Tables!Charged(c, Cached(b))
    BY <1>10, <2>4, ChargedSame
  <2>6. x.charge \in Nat
    BY <2>1, <2>2
  <2>7. Tables!Charged(c, Cached(b)) = c.usage - x.charge
    <3>1. \A m, n, o \in Nat : m = n + o => o = m - n
      OBVIOUS
    <3> QED BY <1>2, <1>10, <2>3, <2>6, <3>1
  <2> QED BY <1>4, <2>5, <2>7
<1>12. \A g \in DOMAIN b.handle : /\ b.handle[g].key = c.handle[g].key
                                  /\ b.handle[g].refs = c.handle[g].refs
                                  /\ g # h => b.handle[g].inCache = c.handle[g].inCache
                                  /\ g = h => ~ b.handle[g].inCache
  BY <1>6, <1>7
<1>13. CacheRight(b, {})
  <2>1. \A k \in DOMAIN c.table : c.table[k] \in DOMAIN c.handle /\ c.table[k] # h
    BY <1>2 DEF CacheTypes, CacheRight
  <2>2. \A g \in DOMAIN b.handle :
            /\ g \in Tables!Range(b.lru) <=> b.handle[g].inCache /\ b.handle[g].refs = 1
            /\ g \in b.inUse <=> b.handle[g].inCache /\ b.handle[g].refs > 1
            /\ b.handle[g].inCache => b.handle[g].key \in DOMAIN b.table /\ b.table[b.handle[g].key] = g
    <3> SUFFICES ASSUME NEW g \in DOMAIN c.handle
                 PROVE  /\ g \in Tables!Range(b.lru) <=> b.handle[g].inCache /\ b.handle[g].refs = 1
                        /\ g \in b.inUse <=> b.handle[g].inCache /\ b.handle[g].refs > 1
                        /\ b.handle[g].inCache => b.handle[g].key \in DOMAIN b.table /\ b.table[b.handle[g].key] = g
      BY <1>7
    <3>1. CASE g = h
      BY <1>3, <1>4, <1>7, <1>12, <3>1
    <3>2. CASE g # h
      BY <1>3, <1>4, <1>7, <3>2 DEF CacheRight
    <3> QED BY <3>1, <3>2
  <2>3. \A k \in DOMAIN b.table : b.handle[b.table[k]].inCache /\ b.handle[b.table[k]].key = k
    BY <1>4, <1>7, <1>12, <2>1 DEF CacheRight
  <2>4. Once(b.lru)
    BY <1>3, <1>4
  <2> QED BY <1>9, <1>11, <2>2, <2>3, <2>4 DEF CacheRight
<1>14. /\ CacheRight(d, {}) /\ d.table = b.table
       /\ d.handle = IF b.handle[h].refs = 1 THEN Tables!Without(b.handle, h)
                     ELSE [b.handle EXCEPT ![h].refs = @ - 1]
  <2>1. h \in DOMAIN b.handle /\ ~ b.handle[h].inCache
    BY <1>7, <1>12
  <2> QED BY <1>1, <1>13, <2>1, UnrefIs
<1>15. b.handle[h].refs = x.refs /\ b.handle[h] = y
  BY <1>6, <1>7
<1>16. CASE x.refs = 1
  BY <1>4, <1>7, <1>14, <1>15, <1>16 DEF Tables!Without, LetGo
<1>17. CASE x.refs # 1
  <2>1. d.handle = [b.handle EXCEPT ![h].refs = @ - 1]
    BY <1>14, <1>15, <1>17
  <2>2. /\ DOMAIN d.handle = DOMAIN c.handle
        /\ \A g \in DOMAIN c.handle : d.handle[g] = IF g = h THEN [y EXCEPT !.refs = @ - 1] ELSE c.handle[g]
    BY <1>7, <1>8, <2>1
  <2>3. [y EXCEPT !.refs = @ - 1] = [x EXCEPT !.inCache = FALSE, !.refs = @ - 1]
    BY <1>2, SMTT(30) DEF y, Entry
  <2> QED BY <1>4, <1>14, <1>17, <2>2, <2>3 DEF LetGo
<1> QED BY <1>16, <1>17

LEMMA EraseIs ==
    ASSUME NEW c, CacheRight(c, {}), NEW k \in DOMAIN c.table, NEW h, h = c.table[k], NEW d, d = Tables!Erase(c, k)
    PROVE  CacheRight(d, {}) /\ DOMAIN d.table = DOMAIN c.table \ {k} /\ LetGo(c, h, d)
<1> DEFINE b == [c EXCEPT !.table = Tables!Without(@, k)]
<1>1. d = Tables!FinishErase(b, h)
  BY DEF Tables!Erase
<1>2. /\ b.handle = c.handle /\ b.lru = c.lru /\ b.inUse = c.inUse /\ b.usage = c.usage
      /\ b.table = Tables!Without(c.table, k)
  BY DEF CacheRight, CacheTypes
<1>3. IsCache(b)
  BY DEF CacheRight, CacheTypes, IsCache
<1> HIDE DEF b
<1>4. DOMAIN b.table = DOMAIN c.table \ {k} /\ \A j \in DOMAIN b.table : b.table[j] = c.table[j]
  BY <1>2 DEF Tables!Without
<1>5. CacheTypes(b)
  BY <1>2, <1>3, <1>4 DEF CacheTypes, CacheRight, Tables!Without
<1>6. h \in DOMAIN c.handle /\ c.handle[h].inCache /\ c.handle[h].key = k
  BY DEF CacheRight, CacheTypes
<1>7. b.usage = Tables!Charged(b, Cached(b))
  BY <1>2, <1>6 DEF CacheRight, Tables!Charged, Cached
<1>8. CacheRight(b, {h})
  <2>1. \A j \in DOMAIN b.table : b.table[j] # h
    BY <1>4, <1>6 DEF CacheRight
  <2> QED BY <1>2, <1>4, <1>5, <1>6, <1>7, <2>1 DEF CacheRight
<1>9. CacheRight(d, {}) /\ d.table = b.table /\ LetGo(b, h, d)
  <2>1. h \in DOMAIN b.handle /\ b.handle[h].inCache
    BY <1>2, <1>6
  <2> QED BY <1>1, <1>8, <2>1, FinishEraseIs
<1> QED BY <1>2, <1>4, <1>9 DEF LetGo

(* Entries that no client has a reference to are freed; the others stay. *)
Shed(c, d) ==
    /\ DOMAIN d.handle \subseteq DOMAIN c.handle
    /\ \A g \in DOMAIN d.handle : d.handle[g] = c.handle[g]
    /\ \A g \in DOMAIN c.handle \ DOMAIN d.handle : c.handle[g].inCache /\ c.handle[g].refs = 1
    /\ DOMAIN d.table \subseteq DOMAIN c.table

LEMMA EraseOldestIs ==
    ASSUME NEW c, CacheRight(c, {}), NEW n \in 0..Len(c.lru), NEW d, d = Tables!EraseOldest(c, n)
    PROVE  CacheRight(d, {}) /\ Shed(c, d)
<1> DEFINE old == {c.lru[i] : i \in 1..n}
           keys == {c.handle[h].key : h \in old}
<1>1. CacheTypes(c) /\ Once(c.lru) /\ c.usage = Tables!Charged(c, Cached(c)) /\ IsFiniteSet(DOMAIN c.handle)
  BY DEF CacheRight, CacheTypes
<1>2. /\ d.handle = [h \in DOMAIN c.handle \ old |-> c.handle[h]]
      /\ d.table = [k \in DOMAIN c.table \ keys |-> c.table[k]]
      /\ d.lru = SubSeq(c.lru, n + 1, Len(c.lru)) /\ d.inUse = c.inUse
      /\ d.usage = c.usage - Tables!Charged(c, old) /\ IsCache(d)
  BY <1>1 DEF Tables!EraseOldest, CacheTypes, IsCache
<1>3. d.lru \in Seq(DOMAIN c.handle) /\ Once(d.lru) /\ Tables!Range(d.lru) = Tables!Range(c.lru) \ old /\ old \subseteq Tables!Range(c.lru)
  <2>1. c.lru \in Seq(DOMAIN c.handle)
    BY <1>1 DEF CacheTypes
  <2>2. old = FrontOf(c.lru, n)
    BY DEF FrontOf
  <2>3. d.lru = SubSeq(c.lru, n + 1, Len(c.lru))
    BY <1>2
  <2> HIDE DEF old
  <2>4. RestOf(DOMAIN c.handle, c.lru, n, d.lru)
    BY <1>1, <2>1, <2>3, RestIs
  <2> QED BY <2>2, <2>4 DEF RestOf
<1> HIDE DEF old
<1>4. \A g \in Tables!Range(c.lru) : g \in DOMAIN c.handle /\ c.handle[g].inCache /\ c.handle[g].refs = 1
  <2>1. \A g \in Tables!Range(c.lru) : g \in DOMAIN c.handle
    BY <1>1 DEF CacheTypes, Tables!Range
  <2> QED BY <2>1 DEF CacheRight
<1>5. DOMAIN d.handle = DOMAIN c.handle \ old /\ \A g \in DOMAIN d.handle : d.handle[g] = c.handle[g]
  BY <1>2
<1>6. \A k \in DOMAIN c.table : /\ k \in DOMAIN d.table <=> c.table[k] \notin old
                                /\ k \in DOMAIN d.table => d.table[k] = c.table[k]
  <2> SUFFICES ASSUME NEW k \in DOMAIN c.table PROVE k \in keys <=> c.table[k] \in old
    BY <1>2
  <2>1. c.handle[c.table[k]].key = k
    BY DEF CacheRight
  <2>2. ASSUME NEW h \in old, c.handle[h].key = k PROVE c.table[k] = h
    BY <1>3, <1>4, <2>2 DEF CacheRight
  <2> QED BY <2>1, <2>2
<1>7. DOMAIN d.table \subseteq DOMAIN c.table
  BY <1>2
<1>8. CacheTypes(d)
  <2>1. IsFiniteSet(DOMAIN d.handle)
    BY <1>1, <1>5, FS_Subset
  <2>2. d.handle \in [DOMAIN d.handle -> Entry]
    BY <1>1, <1>2, <1>5 DEF CacheTypes
  <2>3. d.table \in [DOMAIN d.table -> DOMAIN d.handle]
    <3>1. \A k \in DOMAIN d.table : d.table[k] \in DOMAIN d.handle
      BY <1>1, <1>5, <1>6, <1>7 DEF CacheTypes
    <3> QED BY <1>2, <3>1
  <2>4. d.lru \in Seq(DOMAIN d.handle)
    <3>1. \A i \in 1..Len(d.lru) : d.lru[i] \in DOMAIN d.handle
      <4>1. \A g \in Tables!Range(d.lru) : g \in DOMAIN d.handle
        BY <1>3, <1>4, <1>5
      <4> QED BY <1>3, <4>1 DEF Tables!Range
    <3> QED BY <1>3, <3>1
  <2>5. d.inUse \subseteq DOMAIN d.handle
    <3>1. \A g \in c.inUse : g \in DOMAIN c.handle /\ c.handle[g].refs # 1
      BY <1>1 DEF CacheRight, CacheTypes
    <3> QED BY <1>2, <1>3, <1>4, <1>5, <3>1
  <2> QED BY <1>2, <2>1, <2>2, <2>3, <2>4, <2>5 DEF CacheTypes
<1>9. Cached(d) = Cached(c) \ old
  BY <1>5 DEF Cached
<1>10. d.usage = Tables!Charged(d, Cached(d))
  <2>1. Cached(c) \subseteq DOMAIN c.handle /\ old \subseteq Cached(c) /\ Cached(d) \subseteq DOMAIN d.handle
    BY <1>3, <1>4 DEF Cached
  <2>2. IsFiniteSet(Cached(c)) /\ IsFiniteSet(Cached(d))
    BY <1>1, <1>9, <2>1, FS_Subset
  <2>3. \A g \in Cached(c) : c.handle[g].charge \in Nat
    BY <1>1, <2>1 DEF CacheTypes, Entry
  <2>4. Tables!Charged(c, Cached(c) \ old) = Tables!Charged(c, Cached(c)) - Tables!Charged(c, old)
    BY <2>1, <2>2, <2>3, ChargedWithout
  <2>5. Cached(d) \subseteq DOMAIN c.handle /\ \A g \in Cached(d) : d.handle[g].charge = c.handle[g].charge
    BY <1>5, <2>1
  <2>6. Tables!Charged(d, Cached(d)) = Tables!Charged(c, Cached(d))
    BY <2>1, <2>2, <2>5, ChargedSame
  <2> QED BY <1>1, <1>2, <1>9, <2>4, <2>6
<1>11. CacheRight(d, {})
  <2>1. \A g \in DOMAIN d.handle :
            /\ g \in Tables!Range(d.lru) <=> d.handle[g].inCache /\ d.handle[g].refs = 1
            /\ g \in d.inUse <=> d.handle[g].inCache /\ d.handle[g].refs > 1
            /\ d.handle[g].inCache => d.handle[g].key \in DOMAIN d.table /\ d.table[d.handle[g].key] = g
    <3> SUFFICES ASSUME NEW g \in DOMAIN c.handle, g \notin old
                 PROVE  /\ g \in Tables!Range(d.lru) <=> c.handle[g].inCache /\ c.handle[g].refs = 1
                        /\ g \in d.inUse <=> c.handle[g].inCache /\ c.handle[g].refs > 1
                        /\ c.handle[g].inCache => c.handle[g].key \in DOMAIN d.table /\ d.table[c.handle[g].key] = g
      BY <1>5
    <3> QED BY <1>2, <1>3, <1>6 DEF CacheRight
  <2>2. \A k \in DOMAIN d.table : d.handle[d.table[k]].inCache /\ d.handle[d.table[k]].key = k
    <3>1. \A k \in DOMAIN d.table : k \in DOMAIN c.table /\ d.table[k] = c.table[k] /\ d.table[k] \in DOMAIN d.handle
      BY <1>6, <1>7, <1>8 DEF CacheTypes
    <3> QED BY <1>5, <3>1 DEF CacheRight
  <2> QED BY <1>3, <1>8, <1>10, <2>1, <2>2 DEF CacheRight
<1>12. Shed(c, d)
  BY <1>3, <1>4, <1>5, <1>7 DEF Shed
<1> QED BY <1>11, <1>12

LEMMA PruneIs ==
    ASSUME NEW c, CacheRight(c, {}), NEW d, d = Tables!Prune(c)
    PROVE  CacheRight(d, {}) /\ Shed(c, d)
<1>1. Len(c.lru) \in 0..Len(c.lru)
  BY DEF CacheRight, CacheTypes
<1> QED BY <1>1, EraseOldestIs DEF Tables!Prune

LEMMA ShrunkIs ==
    ASSUME NEW c, CacheRight(c, {}), NEW d, d = Tables!Shrunk(c)
    PROVE  CacheRight(d, {}) /\ Shed(c, d)
<1> DEFINE enough == {n \in 0..Len(c.lru) : n = Len(c.lru) \/ Tables!EraseOldest(c, n).usage <= Capacity}
           least == CHOOSE n \in enough : \A m \in enough : n <= m
<1>1. Len(c.lru) \in enough /\ enough \subseteq Nat
  BY DEF CacheRight, CacheTypes
<1>2. \E n \in enough : \A m \in enough : n <= m
  <2> HIDE DEF enough
  <2> QED BY <1>1, LeastOf
<1>3. least \in 0..Len(c.lru)
  BY <1>2
<1>4. d = Tables!EraseOldest(c, least)
  BY DEF Tables!Shrunk
<1> HIDE DEF least
<1> QED BY <1>3, <1>4, EraseOldestIs

-----------------------------------------------------------------------------
(* How many clients the reference count of an entry stands for. *)
UsedBy(e) == IF e.inCache THEN e.refs - 1 ELSE e.refs

(* Of the entries a, those that no client uses may have gone; those of b   *)
(* are used as before.                                                     *)
KeptUsed(a, b) ==
    /\ DOMAIN b \subseteq DOMAIN a
    /\ \A g \in DOMAIN b : b[g].key = a[g].key /\ UsedBy(b[g]) = UsedBy(a[g])
    /\ \A g \in DOMAIN a \ DOMAIN b : UsedBy(a[g]) = 0

LEMMA KeptBoth == ASSUME NEW a, NEW b, NEW c, KeptUsed(a, b), KeptUsed(b, c) PROVE KeptUsed(a, c)
  BY DEF KeptUsed

LEMMA ShedKeeps == ASSUME NEW c, NEW d, Shed(c, d) PROVE KeptUsed(c.handle, d.handle)
  BY DEF Shed, KeptUsed, UsedBy

LEMMA LetGoKeeps ==
    ASSUME NEW c, NEW h \in DOMAIN c.handle, c.handle[h] \in Entry, c.handle[h].inCache, NEW d, LetGo(c, h, d)
    PROVE  KeptUsed(c.handle, d.handle)
<1> DEFINE x == c.handle[h]
           y == [x EXCEPT !.inCache = FALSE, !.refs = @ - 1]
<1>1. y.key = x.key /\ y.refs = x.refs - 1 /\ ~ y.inCache /\ x.refs \in Nat
  BY DEF Entry
<1>2. /\ DOMAIN d.handle = IF x.refs = 1 THEN DOMAIN c.handle \ {h} ELSE DOMAIN c.handle
      /\ \A g \in DOMAIN d.handle : d.handle[g] = IF g = h THEN y ELSE c.handle[g]
  BY DEF LetGo
<1> HIDE DEF y
<1>3. UsedBy(x) = x.refs - 1 /\ UsedBy(y) = x.refs - 1
  BY <1>1 DEF UsedBy
<1> QED BY <1>1, <1>2, <1>3 DEF KeptUsed

(* A new entry, which table_ does not have. *)
LEMMA UncachedIs ==
    ASSUME NEW c, CacheRight(c, {}), NEW h, h \notin DOMAIN c.handle, NEW e \in Entry, ~ e.inCache,
           NEW d, d = [c EXCEPT !.handle = Tables!With(@, h, e)]
    PROVE  CacheRight(d, {}) /\ d.handle = Tables!With(c.handle, h, e)
<1>1. CacheTypes(c) /\ Once(c.lru) /\ c.usage = Tables!Charged(c, Cached(c)) /\ IsFiniteSet(DOMAIN c.handle)
  BY DEF CacheRight, CacheTypes
<1>2. /\ d.lru = c.lru /\ d.inUse = c.inUse /\ d.table = c.table /\ d.usage = c.usage
      /\ d.handle = Tables!With(c.handle, h, e) /\ IsCache(d)
  BY <1>1 DEF CacheTypes, IsCache
<1>3. /\ DOMAIN d.handle = DOMAIN c.handle \cup {h} /\ d.handle[h] = e
      /\ \A g \in DOMAIN c.handle : d.handle[g] = c.handle[g]
  BY <1>2 DEF Tables!With
<1>4. CacheTypes(d)
  <2>1. IsFiniteSet(DOMAIN d.handle)
    BY <1>1, <1>3, FS_AddElement
  <2>2. d.handle \in [DOMAIN d.handle -> Entry]
    BY <1>1, <1>2, <1>3 DEF CacheTypes, Tables!With
  <2>3. d.table \in [DOMAIN d.table -> DOMAIN d.handle] /\ d.inUse \subseteq DOMAIN d.handle
    BY <1>1, <1>2, <1>3 DEF CacheTypes
  <2>4. d.lru \in Seq(DOMAIN d.handle)
    BY <1>1, <1>2, <1>3 DEF CacheTypes
  <2> QED BY <1>2, <2>1, <2>2, <2>3, <2>4 DEF CacheTypes
<1>5. Cached(d) = Cached(c) /\ \A g \in Cached(c) : d.handle[g].charge = c.handle[g].charge
  BY <1>3 DEF Cached
<1>6. d.usage = Tables!Charged(d, Cached(d))
  BY <1>1, <1>2, <1>5, UsageSame
<1>7. h \notin Tables!Range(d.lru) /\ h \notin d.inUse
  BY <1>1, <1>2 DEF CacheTypes, Tables!Range
<1>8. CacheRight(d, {})
  <2>1. \A k \in DOMAIN c.table : c.table[k] \in DOMAIN c.handle
    BY <1>1 DEF CacheTypes
  <2>2. \A g \in DOMAIN d.handle :
            /\ g \in Tables!Range(d.lru) <=> d.handle[g].inCache /\ d.handle[g].refs = 1
            /\ g \in d.inUse <=> d.handle[g].inCache /\ d.handle[g].refs > 1
            /\ d.handle[g].inCache => d.handle[g].key \in DOMAIN d.table /\ d.table[d.handle[g].key] = g
    <3> SUFFICES ASSUME NEW g \in DOMAIN d.handle
                 PROVE  /\ g \in Tables!Range(d.lru) <=> d.handle[g].inCache /\ d.handle[g].refs = 1
                        /\ g \in d.inUse <=> d.handle[g].inCache /\ d.handle[g].refs > 1
                        /\ d.handle[g].inCache => d.handle[g].key \in DOMAIN d.table /\ d.table[d.handle[g].key] = g
      OBVIOUS
    <3>1. CASE g = h
      BY <1>3, <1>7, <3>1
    <3>2. CASE g # h
      BY <1>2, <1>3, <3>2 DEF CacheRight
    <3> QED BY <3>1, <3>2
  <2>3. \A k \in DOMAIN d.table : d.handle[d.table[k]].inCache /\ d.handle[d.table[k]].key = k
    BY <1>2, <1>3, <2>1 DEF CacheRight
  <2> QED BY <1>1, <1>2, <1>4, <1>6, <2>2, <2>3 DEF CacheRight
<1> QED BY <1>2, <1>8

(* A new entry, which table_ now has for its key. *)
AddedTo(c, k, h, e) ==
    [c EXCEPT !.handle = Tables!With(@, h, e), !.table = Tables!With(@, k, h), !.inUse = @ \cup {h}, !.usage = @ + e.charge]

(* The entry that table_ had for the key. *)
Replaced(c, k) == {g \in DOMAIN c.handle : k \in DOMAIN c.table /\ g = c.table[k]}

LEMMA AddedIs ==
    ASSUME NEW c, CacheRight(c, {}), NEW h, h \notin DOMAIN c.handle, NEW e \in Entry, e.inCache, e.refs = 2,
           NEW k, k = e.key,
           NEW d, d = AddedTo(c, k, h, e),
           NEW out, out = Replaced(c, k)
    PROVE  CacheRight(d, out) /\ d.handle = Tables!With(c.handle, h, e)
<1>1. CacheTypes(c) /\ Once(c.lru) /\ c.usage = Tables!Charged(c, Cached(c)) /\ IsFiniteSet(DOMAIN c.handle)
  BY DEF CacheRight, CacheTypes
<1>2. /\ d.lru = c.lru /\ d.inUse = c.inUse \cup {h} /\ d.table = Tables!With(c.table, k, h)
      /\ d.usage = c.usage + e.charge /\ d.handle = Tables!With(c.handle, h, e) /\ IsCache(d)
  BY <1>1 DEF AddedTo, CacheTypes, IsCache
<1>3. /\ DOMAIN d.handle = DOMAIN c.handle \cup {h} /\ d.handle[h] = e
      /\ \A g \in DOMAIN c.handle : d.handle[g] = c.handle[g]
  BY <1>2 DEF Tables!With
<1>4. /\ DOMAIN d.table = DOMAIN c.table \cup {k} /\ d.table[k] = h
      /\ \A j \in DOMAIN c.table : j # k => d.table[j] = c.table[j]
  BY <1>2 DEF Tables!With
<1>5. \A j \in DOMAIN c.table : c.table[j] \in DOMAIN c.handle
  BY <1>1 DEF CacheTypes
<1>6. CacheTypes(d)
  <2>1. IsFiniteSet(DOMAIN d.handle)
    BY <1>1, <1>3, FS_AddElement
  <2>2. d.handle \in [DOMAIN d.handle -> Entry]
    BY <1>1, <1>2, <1>3 DEF CacheTypes, Tables!With
  <2>3. d.table \in [DOMAIN d.table -> DOMAIN d.handle]
    <3>1. \A j \in DOMAIN d.table : d.table[j] \in DOMAIN d.handle
      BY <1>3, <1>4, <1>5
    <3>2. d.table = [j \in DOMAIN d.table |-> d.table[j]]
      BY <1>2 DEF Tables!With
    <3> QED BY <3>1, <3>2
  <2>4. d.lru \in Seq(DOMAIN d.handle) /\ d.inUse \subseteq DOMAIN d.handle
    BY <1>1, <1>2, <1>3 DEF CacheTypes
  <2> QED BY <1>2, <2>1, <2>2, <2>3, <2>4 DEF CacheTypes
<1>7. Cached(d) = Cached(c) \cup {h} /\ h \notin Cached(c)
  BY <1>3 DEF Cached
<1>8. d.usage = Tables!Charged(d, Cached(d))
  <2>1. Cached(c) \subseteq DOMAIN c.handle /\ Cached(d) \subseteq DOMAIN d.handle /\ Cached(c) \subseteq DOMAIN d.handle
    BY <1>3 DEF Cached
  <2>2. IsFiniteSet(Cached(c)) /\ IsFiniteSet(Cached(d))
    <3>1. IsFiniteSet(Cached(c))
      BY <1>1, <2>1, FS_Subset
    <3>2. IsFiniteSet(Cached(c) \cup {h})
      BY <3>1, FS_AddElement
    <3> QED BY <1>7, <3>1, <3>2
  <2>3. \A g \in Cached(c) : d.handle[g].charge = c.handle[g].charge
    BY <1>3, <2>1
  <2>4. Tables!Charged(d, Cached(c)) = Tables!Charged(c, Cached(c))
    BY <2>1, <2>2, <2>3, ChargedSame
  <2>5. \A g \in Cached(d) : d.handle[g].charge \in Nat
    <3>1. \A g \in DOMAIN d.handle : d.handle[g] \in Entry
      BY <1>6 DEF CacheTypes
    <3>2. \A x \in Entry : x.charge \in Nat
      BY DEF Entry
    <3> QED BY <2>1, <3>1, <3>2
  <2>6. h \in Cached(d) /\ Cached(d) \ {h} = Cached(c) /\ d.handle[h].charge = e.charge
    BY <1>3, <1>7
  <2>7. /\ Tables!Charged(d, Cached(d)) = d.handle[h].charge + Tables!Charged(d, Cached(d) \ {h})
        /\ Tables!Charged(d, Cached(d)) \in Nat /\ Tables!Charged(d, Cached(d) \ {h}) \in Nat
    <3>1. Cached(d) \subseteq DOMAIN d.handle /\ IsFiniteSet(Cached(d)) /\ h \in Cached(d)
      BY <2>1, <2>2, <2>6
    <3>2. SetApart(d, Cached(d), h)
      BY <2>5, <3>1, ChargedApart
    <3> QED BY <3>2 DEF SetApart
  <2>8. \A m, n, o \in Nat : m = n + o => m = o + n
    OBVIOUS
  <2>9. e.charge \in Nat /\ Tables!Charged(d, Cached(d)) = e.charge + Tables!Charged(c, Cached(c)) /\ Tables!Charged(c, Cached(c)) \in Nat
    BY <2>4, <2>5, <2>6, <2>7
  <2>10. Tables!Charged(d, Cached(d)) = Tables!Charged(c, Cached(c)) + e.charge
    BY <2>7, <2>8, <2>9
  <2> QED BY <1>1, <1>2, <2>10
<1>9. h \notin Tables!Range(d.lru) /\ h \in d.inUse /\ \A g : g # h => (g \in d.inUse <=> g \in c.inUse)
  BY <1>1, <1>2 DEF CacheTypes, Tables!Range
<1>10. CacheRight(d, out)
  <2>1. ASSUME NEW g \in DOMAIN d.handle
        PROVE  /\ g \in Tables!Range(d.lru) <=> d.handle[g].inCache /\ d.handle[g].refs = 1
               /\ g \in d.inUse <=> d.handle[g].inCache /\ d.handle[g].refs > 1
               /\ d.handle[g].inCache /\ g \notin out =>
                     d.handle[g].key \in DOMAIN d.table /\ d.table[d.handle[g].key] = g
    <3>1. CASE g = h
      BY <1>3, <1>4, <1>9, <3>1
    <3>0. g \notin out <=> ~ (k \in DOMAIN c.table /\ g = c.table[k]) \/ g \notin DOMAIN c.handle
      BY DEF Replaced
    <3>2. CASE g # h
      <4>1. g \in DOMAIN c.handle /\ d.handle[g] = c.handle[g]
        BY <1>3, <3>2
      <4>2. g \in Tables!Range(d.lru) <=> d.handle[g].inCache /\ d.handle[g].refs = 1
        BY <1>2, <4>1 DEF CacheRight
      <4>3. g \in d.inUse <=> d.handle[g].inCache /\ d.handle[g].refs > 1
        BY <1>9, <3>2, <4>1 DEF CacheRight
      <4>4. c.handle[g].inCache => c.handle[g].key \in DOMAIN c.table /\ c.table[c.handle[g].key] = g
        BY <4>1 DEF CacheRight
      <4> QED BY <1>4, <3>0, <4>1, <4>2, <4>3, <4>4
    <3> QED BY <3>1, <3>2
  <2>2. ASSUME NEW j \in DOMAIN d.table
        PROVE  d.table[j] \notin out /\ d.handle[d.table[j]].inCache /\ d.handle[d.table[j]].key = j
    <3>1. CASE j = k
      BY <1>3, <1>4, <3>1 DEF Replaced
    <3>2. CASE j # k
      <4>1. j \in DOMAIN c.table /\ d.table[j] = c.table[j] /\ c.table[j] \in DOMAIN c.handle
        BY <1>4, <1>5, <3>2
      <4>2. \A i \in DOMAIN c.table : c.handle[c.table[i]].inCache /\ c.handle[c.table[i]].key = i
        BY DEF CacheRight
      <4> QED BY <1>3, <3>2, <4>1, <4>2 DEF Replaced
    <3> QED BY <3>1, <3>2
  <2>3. Once(d.lru)
    BY <1>1, <1>2
  <2> QED BY <1>6, <1>8, <2>1, <2>2, <2>3 DEF CacheRight
<1> QED BY <1>2, <1>10

(* The new entry is used by the client that inserted it. *)
Opened(c, k, h, d) ==
    \E e \in Entry : e.key = k /\ UsedBy(e) = 1 /\ KeptUsed(Tables!With(c.handle, h, e), d.handle)

LEMMA InsertIs ==
    ASSUME Tables!CapacityAssumption, NEW c, CacheRight(c, {}), NEW h, h \notin DOMAIN c.handle, NEW k \in File, NEW n \in Nat,
           NEW d, d = Tables!Insert(c, k, h, n)
    PROVE  CacheRight(d, {}) /\ Opened(c, k, h, d)
<1> DEFINE e == [key |-> k, refs |-> 1, inCache |-> FALSE, charge |-> n]
           f == [e EXCEPT !.refs = 2, !.inCache = TRUE]
           added == AddedTo(c, k, h, f)
           uncached == [c EXCEPT !.handle = Tables!With(@, h, e)]
           m == CASE Capacity = 0 -> uncached
                  [] Capacity > 0 /\ k \in DOMAIN c.table -> Tables!FinishErase(added, c.table[k])
                  [] OTHER -> added
<1>1. d = Tables!Shrunk(m)
  BY DEF Tables!Insert, AddedTo
<1>2. e \in Entry /\ ~ e.inCache /\ e.key = k /\ UsedBy(e) = 1
  BY DEF Entry, UsedBy
<1>3. f \in Entry /\ f.inCache /\ f.refs = 2 /\ f.key = k /\ UsedBy(f) = 1
  <2>1. e \in Entry
    BY DEF Entry
  <2>2. e.key = k
    OBVIOUS
  <2> HIDE DEF e
  <2>3. f \in Entry
    <3> DEFINE twice == [e EXCEPT !.refs = 2]
    <3>1. twice \in Entry
      BY <2>1 DEF Entry
    <3>2. f = [twice EXCEPT !.inCache = TRUE]
      OBVIOUS
    <3> HIDE DEF twice, f
    <3> QED BY <3>1, <3>2 DEF Entry
  <2>4. f.inCache
    BY <2>1 DEF Entry
  <2>5. f.refs = 2
    BY <2>1 DEF Entry
  <2>6. f.key = e.key
    BY <2>1 DEF Entry
  <2> QED BY <2>2, <2>3, <2>4, <2>5, <2>6 DEF UsedBy
<1>4. Capacity \in Nat
  BY DEF Tables!CapacityAssumption
<1> HIDE DEF e, f
<1>5. CacheRight(m, {}) /\ Opened(c, k, h, m)
  <2>1. CASE Capacity = 0
    <3>1. m = uncached
      BY <2>1
    <3> HIDE DEF m
    <3>2. CacheRight(uncached, {}) /\ uncached.handle = Tables!With(c.handle, h, e)
      BY <1>2, UncachedIs
    <3> HIDE DEF uncached
    <3>3. KeptUsed(Tables!With(c.handle, h, e), m.handle)
      BY <3>1, <3>2 DEF KeptUsed
    <3> QED BY <1>2, <3>1, <3>2, <3>3 DEF Opened
  <2> DEFINE out == Replaced(c, k)
  <2>2. CacheRight(added, out) /\ added.handle = Tables!With(c.handle, h, f)
    <3>1. added = AddedTo(c, k, h, f) /\ out = Replaced(c, k) /\ k = f.key
      BY <1>3
    <3> HIDE DEF added, out
    <3>2. CacheRight(added, out)
      BY <1>3, <3>1, AddedIs
    <3>3. added.handle = Tables!With(c.handle, h, f)
      BY <1>3, <3>1, AddedIs
    <3> QED BY <3>2, <3>3
  <2>3. CASE Capacity > 0 /\ k \in DOMAIN c.table
    <3> DEFINE old == c.table[k]
    <3>1. m = Tables!FinishErase(added, old)
      BY <1>4, <2>3
    <3>2. old \in DOMAIN c.handle /\ c.handle[old].inCache
      BY <2>3 DEF CacheRight, CacheTypes
    <3>3. out = {old}
      BY <2>3, <3>2 DEF Replaced
    <3> HIDE DEF m, added, old, out
    <3>4. old \in DOMAIN added.handle /\ added.handle[old].inCache /\ added.handle[old] \in Entry
      <4>1. old \in DOMAIN added.handle /\ added.handle[old] = c.handle[old]
        BY <2>2, <3>2 DEF Tables!With
      <4>2. c.handle \in [DOMAIN c.handle -> Entry]
        BY DEF CacheRight, CacheTypes
      <4> QED BY <3>2, <4>1, <4>2
    <3>5. CacheRight(m, {}) /\ LetGo(added, old, m)
      <4>1. CacheRight(added, {old})
        BY <2>2, <3>3
      <4> QED BY <3>1, <3>4, <4>1, FinishEraseIs
    <3>6. KeptUsed(added.handle, m.handle)
      BY <3>4, <3>5, LetGoKeeps
    <3> QED BY <1>3, <2>2, <3>5, <3>6 DEF Opened
  <2>4. CASE ~ (Capacity = 0) /\ ~ (Capacity > 0 /\ k \in DOMAIN c.table)
    <3>1. m = added
      BY <2>4
    <3>2. out = {}
      BY <1>4, <2>4 DEF Replaced
    <3> HIDE DEF m, added, out
    <3>3. KeptUsed(Tables!With(c.handle, h, f), m.handle)
      BY <2>2, <3>1 DEF KeptUsed
    <3> QED BY <1>3, <2>2, <3>1, <3>2, <3>3 DEF Opened
  <2> QED BY <2>1, <2>3, <2>4
<1> HIDE DEF m
<1>6. CacheRight(d, {}) /\ Shed(m, d)
  BY <1>1, <1>5, ShrunkIs
<1>7. KeptUsed(m.handle, d.handle)
  BY <1>6, ShedKeeps
<1>8. Opened(c, k, h, d)
  <2>1. PICK x \in Entry : x.key = k /\ UsedBy(x) = 1 /\ KeptUsed(Tables!With(c.handle, h, x), m.handle)
    BY <1>5 DEF Opened
  <2>2. KeptUsed(Tables!With(c.handle, h, x), d.handle)
    BY <1>7, <2>1, KeptBoth
  <2> QED BY <2>1, <2>2 DEF Opened
<1> QED BY <1>6, <1>8

-----------------------------------------------------------------------------
(* The clients and the references they have. *)
HoldersOf(cl, h) == {t \in Client : cl[t].pc = "reads" /\ cl[t].handle = h}
Counts(cl, a) == \A h \in DOMAIN a : UsedBy(a[h]) = Cardinality(HoldersOf(cl, h))
Holds(cl, a) ==
    \A t \in Client : cl[t].pc = "reads" => cl[t].handle \in DOMAIN a /\ a[cl[t].handle].key = cl[t].file

ClientRecord == [pc : {"idle", "opens", "reads"}, file : File \cup {0}, handle : Nat]

TablesInv ==
    /\ CacheRight(cache, {}) /\ Counts(client, cache.handle) /\ Holds(client, cache.handle)
    /\ opened \in Nat /\ DOMAIN cache.handle \subseteq 1..opened
    /\ live \subseteq File /\ \A h \in DOMAIN cache.handle : cache.handle[h].key \in live
    /\ client \in [Client -> ClientRecord]
    /\ \A t \in Client : client[t].pc # "idle" => client[t].file \in live

LEMMA HoldersFinite ==
    ASSUME NEW cl, NEW h
    PROVE  /\ IsFiniteSet(HoldersOf(cl, h)) /\ Cardinality(HoldersOf(cl, h)) \in Nat
           /\ Cardinality(HoldersOf(cl, h)) = 0 => HoldersOf(cl, h) = {}
<1>1. IsFiniteSet(HoldersOf(cl, h))
  <2>1. IsFiniteSet(Client) /\ HoldersOf(cl, h) \subseteq Client
    BY TablesConstants, TablesFinite DEF Tables!TableCacheAssumption, HoldersOf
  <2> QED BY <2>1, FS_Subset
<1> QED BY <1>1, FS_CardinalityType, FS_EmptySet

(* What no client uses may go. *)
LEMMA KeptUse ==
    ASSUME NEW cl, NEW a, NEW b, KeptUsed(a, b), Counts(cl, a), Holds(cl, a)
    PROVE  Counts(cl, b) /\ Holds(cl, b)
<1>1. Counts(cl, b)
  BY DEF KeptUsed, Counts
<1>2. ASSUME NEW t \in Client, cl[t].pc = "reads" PROVE cl[t].handle \in DOMAIN b
  <2>1. t \in HoldersOf(cl, cl[t].handle)
    BY <1>2 DEF HoldersOf
  <2>2. cl[t].handle \in DOMAIN a /\ UsedBy(a[cl[t].handle]) = Cardinality(HoldersOf(cl, cl[t].handle))
    BY <1>2 DEF Counts, Holds
  <2>3. Cardinality(HoldersOf(cl, cl[t].handle)) # 0
    BY <2>1, HoldersFinite
  <2> QED BY <2>2, <2>3 DEF KeptUsed
<1> QED BY <1>1, <1>2 DEF KeptUsed, Holds

(* A client that reads nothing gets a reference to h. *)
LEMMA HoldersTake ==
    ASSUME NEW cl, NEW cm, NEW t \in Client, cl[t].pc # "reads", NEW h, cm[t].pc = "reads", cm[t].handle = h,
           \A u \in Client : u # t => cm[u] = cl[u]
    PROVE  \A g : Cardinality(HoldersOf(cm, g)) = Cardinality(HoldersOf(cl, g)) + (IF g = h THEN 1 ELSE 0)
<1> SUFFICES ASSUME NEW g
             PROVE  Cardinality(HoldersOf(cm, g)) = Cardinality(HoldersOf(cl, g)) + (IF g = h THEN 1 ELSE 0)
  OBVIOUS
<1>1. IsFiniteSet(HoldersOf(cl, g)) /\ Cardinality(HoldersOf(cl, g)) \in Nat /\ t \notin HoldersOf(cl, g)
  BY HoldersFinite DEF HoldersOf
<1>2. CASE g = h
  <2>1. HoldersOf(cm, g) = HoldersOf(cl, g) \cup {t}
    <3>1. \A u : u \in HoldersOf(cm, g) <=> u \in HoldersOf(cl, g) \cup {t}
      BY <1>2 DEF HoldersOf
    <3> QED BY <3>1
  <2>2. Cardinality(HoldersOf(cl, g) \cup {t}) = Cardinality(HoldersOf(cl, g)) + 1
    BY <1>1, FS_AddElement
  <2> QED BY <1>2, <2>1, <2>2
<1>3. CASE g # h
  <2>1. \A u : u \in HoldersOf(cm, g) <=> u \in HoldersOf(cl, g)
    BY <1>3 DEF HoldersOf
  <2>2. HoldersOf(cm, g) = HoldersOf(cl, g)
    BY <2>1
  <2> QED BY <1>1, <1>3, <2>2
<1> QED BY <1>2, <1>3

(* A client gives up its reference to h. *)
LEMMA HoldersGive ==
    ASSUME NEW cl, NEW cm, NEW t \in Client, cm[t].pc # "reads", NEW h, cl[t].pc = "reads", cl[t].handle = h,
           \A u \in Client : u # t => cm[u] = cl[u]
    PROVE  \A g : Cardinality(HoldersOf(cm, g)) = Cardinality(HoldersOf(cl, g)) - (IF g = h THEN 1 ELSE 0)
<1>1. \A g : Cardinality(HoldersOf(cl, g)) = Cardinality(HoldersOf(cm, g)) + (IF g = h THEN 1 ELSE 0)
  BY HoldersTake
<1>2. \A g : Cardinality(HoldersOf(cm, g)) \in Nat
  BY HoldersFinite
<1> QED BY <1>1, <1>2

LEMMA HoldersSame ==
    ASSUME NEW cl, NEW cm, NEW t \in Client, cl[t].pc # "reads", cm[t].pc # "reads",
           \A u \in Client : u # t => cm[u] = cl[u], NEW a, Counts(cl, a), Holds(cl, a)
    PROVE  Counts(cm, a) /\ Holds(cm, a)
<1>1. \A h : HoldersOf(cm, h) = HoldersOf(cl, h)
  <2> SUFFICES ASSUME NEW h PROVE \A u : u \in HoldersOf(cm, h) <=> u \in HoldersOf(cl, h)
    OBVIOUS
  <2> QED BY DEF HoldersOf
<1>2. Counts(cm, a)
  BY <1>1 DEF Counts
<1> QED BY <1>2 DEF Holds

-----------------------------------------------------------------------------
LEMMA TablesInit == Tables!Init => TablesInv
<1> SUFFICES ASSUME Tables!Init PROVE TablesInv
  OBVIOUS
<1>1. /\ cache.handle = <<>> /\ cache.table = <<>> /\ cache.lru = <<>> /\ cache.inUse = {} /\ cache.usage = 0
      /\ IsCache(cache)
  BY DEF Tables!Init, Tables!EmptyCache, IsCache
<1>2. DOMAIN cache.handle = {} /\ DOMAIN cache.table = {}
  BY <1>1
<1>3. CacheTypes(cache)
  <2>1. IsFiniteSet(DOMAIN cache.handle)
    BY <1>2, FS_EmptySet
  <2> QED BY <1>1, <1>2, <2>1 DEF CacheTypes
<1>4. cache.usage = Tables!Charged(cache, Cached(cache))
  <2>1. Cached(cache) = {}
    BY <1>2 DEF Cached
  <2> DEFINE f == [h \in DOMAIN cache.handle |-> cache.handle[h].charge]
  <2>2. Tables!Charged(cache, {}) = Sum(f, {})
    BY SumIs DEF Tables!Charged
  <2>3. Sum(f, {}) = 0
    <3>1. IsFiniteSet({})
      BY FS_EmptySet
    <3> HIDE DEF f
    <3> QED BY <3>1, SumStep
  <2> QED BY <1>1, <2>1, <2>2, <2>3
<1>5. CacheRight(cache, {})
  <2>1. Once(cache.lru)
    BY <1>1 DEF Once
  <2> QED BY <1>2, <1>3, <1>4, <2>1 DEF CacheRight
<1>6. client \in [Client -> ClientRecord] /\ \A t \in Client : client[t].pc = "idle"
  BY DEF Tables!Init, Tables!Idle, ClientRecord
<1>7. Counts(client, cache.handle) /\ Holds(client, cache.handle)
  BY <1>2, <1>6 DEF Counts, Holds
<1>8. opened \in Nat /\ live \subseteq File
  BY DEF Tables!Init
<1> QED BY <1>2, <1>5, <1>6, <1>7, <1>8 DEF TablesInv

(* FindTable finds the table in the cache, *)
LEMMA FoundInv ==
    ASSUME TablesInv, NEW t \in Client, NEW f \in File, Tables!FindTable(t, f), f \in DOMAIN cache.table
    PROVE  TablesInv'
<1> DEFINE h == cache.table[f]
<1>1. /\ client[t].pc = "idle" /\ f \in live /\ UNCHANGED <<live, opened>>
      /\ client' = [client EXCEPT ![t] = [pc |-> "reads", file |-> f, handle |-> h]]
      /\ cache' = Tables!Ref(cache, h)
  BY DEF Tables!FindTable, Tables!Lookup
<1>2. CacheRight(cache, {}) /\ h \in DOMAIN cache.handle /\ cache.handle[h].key = f
  BY DEF TablesInv, CacheRight, CacheTypes
<1> HIDE DEF h
<1>3. CacheRight(cache', {}) /\ cache'.handle = [cache.handle EXCEPT ![h].refs = @ + 1]
  BY <1>1, <1>2, RefIs
<1>4. \A g \in DOMAIN cache.handle : cache.handle[g] \in Entry
  BY <1>2 DEF CacheRight, CacheTypes
<1>5. /\ DOMAIN cache'.handle = DOMAIN cache.handle
      /\ \A g \in DOMAIN cache.handle :
            /\ cache'.handle[g].key = cache.handle[g].key
            /\ UsedBy(cache'.handle[g]) = UsedBy(cache.handle[g]) + (IF g = h THEN 1 ELSE 0)
  <2>1. /\ DOMAIN cache'.handle = DOMAIN cache.handle
        /\ \A g \in DOMAIN cache.handle :
              cache'.handle[g] = IF g = h THEN [cache.handle[g] EXCEPT !.refs = @ + 1] ELSE cache.handle[g]
    BY <1>3
  <2>2. \A e \in Entry : LET x == [e EXCEPT !.refs = @ + 1]
                         IN  x.key = e.key /\ x.inCache = e.inCache /\ x.refs = e.refs + 1 /\ e.refs \in Nat
    BY DEF Entry
  <2>3. \A e \in Entry : UsedBy(e) \in Int /\ UsedBy([e EXCEPT !.refs = @ + 1]) = UsedBy(e) + 1
    BY <2>2 DEF UsedBy
  <2>4. ASSUME NEW g \in DOMAIN cache.handle
        PROVE  /\ cache'.handle[g].key = cache.handle[g].key
               /\ UsedBy(cache'.handle[g]) = UsedBy(cache.handle[g]) + (IF g = h THEN 1 ELSE 0)
    <3>1. cache.handle[g] \in Entry /\ UsedBy(cache.handle[g]) \in Int
      BY <1>4, <2>3
    <3>2. CASE g = h
      <4>1. cache'.handle[g] = [cache.handle[g] EXCEPT !.refs = @ + 1]
        BY <2>1, <3>2
      <4> QED BY <2>2, <2>3, <3>1, <3>2, <4>1
    <3>3. CASE g # h
      <4>1. cache'.handle[g] = cache.handle[g]
        BY <2>1, <3>3
      <4> QED BY <3>1, <3>3, <4>1
    <3> QED BY <3>2, <3>3
  <2> QED BY <2>1, <2>4
<1>6. /\ client'[t] = [pc |-> "reads", file |-> f, handle |-> h]
      /\ \A u \in Client : u # t => client'[u] = client[u]
  BY <1>1 DEF TablesInv
<1>7. \A g : Cardinality(HoldersOf(client', g)) = Cardinality(HoldersOf(client, g)) + (IF g = h THEN 1 ELSE 0)
  <2>1. client[t].pc # "reads"
    BY <1>1
  <2>2. client'[t].pc = "reads" /\ client'[t].handle = h /\ \A u \in Client : u # t => client'[u] = client[u]
    BY <1>6
  <2> QED BY <2>1, <2>2, HoldersTake
<1>8. Counts(client', cache'.handle)
  BY <1>5, <1>7 DEF TablesInv, Counts
<1>9. Holds(client', cache'.handle)
  BY <1>2, <1>5, <1>6 DEF TablesInv, Holds
<1>10. client' \in [Client -> ClientRecord] /\ \A u \in Client : client'[u].pc # "idle" => client'[u].file \in live'
  <2>1. h \in Nat
    BY <1>2 DEF TablesInv
  <2>2. [pc |-> "reads", file |-> f, handle |-> h] \in ClientRecord
    BY <2>1 DEF ClientRecord
  <2>3. client' \in [Client -> ClientRecord]
    BY <1>1, <2>2 DEF TablesInv
  <2> QED BY <1>1, <1>6, <2>3 DEF TablesInv
<1> QED BY <1>1, <1>3, <1>5, <1>8, <1>9, <1>10 DEF TablesInv

(* or has to open it. *)
LEMMA MissedInv ==
    ASSUME TablesInv, NEW t \in Client, NEW f \in File, Tables!FindTable(t, f), f \notin DOMAIN cache.table
    PROVE  TablesInv'
<1>1. /\ client[t].pc = "idle" /\ f \in live /\ UNCHANGED <<live, opened>> /\ cache' = cache
      /\ client' = [client EXCEPT ![t] = [pc |-> "opens", file |-> f, handle |-> 0]]
  BY DEF Tables!FindTable, Tables!Lookup
<1>2. /\ client'[t] = [pc |-> "opens", file |-> f, handle |-> 0]
      /\ \A u \in Client : u # t => client'[u] = client[u]
  BY <1>1 DEF TablesInv
<1>3. Counts(client', cache.handle) /\ Holds(client', cache.handle)
  <2>1. client[t].pc # "reads" /\ client'[t].pc # "reads"
    BY <1>1, <1>2
  <2> QED BY <1>2, <2>1, HoldersSame DEF TablesInv
<1>4. client' \in [Client -> ClientRecord]
  <2>1. [pc |-> "opens", file |-> f, handle |-> 0] \in ClientRecord
    BY DEF ClientRecord
  <2> QED BY <1>1, <2>1 DEF TablesInv
<1> QED BY <1>1, <1>2, <1>3, <1>4 DEF TablesInv

LEMMA FailsInv == ASSUME TablesInv, NEW t \in Client, Tables!OpenFails(t) PROVE TablesInv'
<1>1. /\ client[t].pc = "opens" /\ UNCHANGED <<cache, live, opened>>
      /\ client' = [client EXCEPT ![t] = Tables!Idle]
  BY DEF Tables!OpenFails
<1>2. client'[t] = Tables!Idle /\ \A u \in Client : u # t => client'[u] = client[u]
  BY <1>1 DEF TablesInv
<1>3. Counts(client', cache.handle) /\ Holds(client', cache.handle)
  <2>1. client[t].pc # "reads" /\ client'[t].pc # "reads"
    BY <1>1, <1>2 DEF Tables!Idle
  <2> QED BY <1>2, <2>1, HoldersSame DEF TablesInv
<1>4. client' \in [Client -> ClientRecord]
  <2>1. Tables!Idle \in ClientRecord
    BY DEF Tables!Idle, ClientRecord
  <2> QED BY <1>1, <2>1 DEF TablesInv
<1> QED BY <1>1, <1>2, <1>3, <1>4 DEF TablesInv, Tables!Idle

(* The table that was opened is a new entry, and the client's. *)
LEMMA InsertTableInv == ASSUME TablesInv, NEW t \in Client, Tables!InsertTable(t) PROVE TablesInv'
<1> DEFINE h == opened + 1
           f == client[t].file
<1>1. /\ client[t].pc = "opens" /\ opened' = h /\ live' = live
      /\ cache' = Tables!Insert(cache, f, h, Charge[f])
      /\ client' = [client EXCEPT ![t].pc = "reads", ![t].handle = h]
  BY DEF Tables!InsertTable
<1>2. CacheRight(cache, {}) /\ opened \in Nat /\ DOMAIN cache.handle \subseteq 1..opened /\ f \in live /\ f \in File
  BY <1>1 DEF TablesInv
<1>3. h \notin DOMAIN cache.handle /\ h \in Nat
  BY <1>2
<1>4. Charge[f] \in Nat
  BY <1>2, TablesConstants DEF Tables!TableCacheAssumption
<1> HIDE DEF h, f
<1>5. CacheRight(cache', {}) /\ Opened(cache, f, h, cache')
  BY <1>1, <1>2, <1>3, <1>4, TablesConstants, InsertIs
<1>6. PICK e \in Entry : e.key = f /\ UsedBy(e) = 1 /\ KeptUsed(Tables!With(cache.handle, h, e), cache'.handle)
  BY <1>5 DEF Opened
<1> DEFINE a == Tables!With(cache.handle, h, e)
<1>7. /\ DOMAIN a = DOMAIN cache.handle \cup {h} /\ a[h] = e
      /\ \A g \in DOMAIN cache.handle : a[g] = cache.handle[g]
  BY <1>3 DEF Tables!With
<1> HIDE DEF a
<1>8. /\ client'[t].pc = "reads" /\ client'[t].handle = h /\ client'[t].file = f /\ client'[t] \in ClientRecord
      /\ \A u \in Client : u # t => client'[u] = client[u]
      /\ client' \in [Client -> ClientRecord]
  <2>1. client'[t] = [client[t] EXCEPT !.pc = "reads", !.handle = h] /\ client[t] \in ClientRecord
    BY <1>1 DEF TablesInv
  <2>2. \A r \in ClientRecord : LET s == [r EXCEPT !.pc = "reads", !.handle = h]
                                IN  s \in ClientRecord /\ s.pc = "reads" /\ s.handle = h /\ s.file = r.file
    BY <1>3 DEF ClientRecord
  <2>3. client' = [client EXCEPT ![t] = client'[t]] /\ \A u \in Client : u # t => client'[u] = client[u]
    BY <1>1 DEF TablesInv
  <2>4. client'[t] \in ClientRecord
    BY <2>1, <2>2
  <2>5. client' \in [Client -> ClientRecord]
    BY <2>3, <2>4 DEF TablesInv
  <2> QED BY <2>1, <2>2, <2>3, <2>4, <2>5 DEF f
<1>9. \A g : Cardinality(HoldersOf(client', g)) = Cardinality(HoldersOf(client, g)) + (IF g = h THEN 1 ELSE 0)
  <2>1. client[t].pc # "reads"
    BY <1>1
  <2> QED BY <1>8, <2>1, HoldersTake
<1>10. HoldersOf(client, h) = {}
  BY <1>3 DEF HoldersOf, TablesInv, Holds
<1>11. Counts(client', a)
  <2>1. Cardinality(HoldersOf(client, h)) = 0
    BY <1>10, FS_EmptySet
  <2>2. ASSUME NEW g \in DOMAIN cache.handle PROVE UsedBy(a[g]) = Cardinality(HoldersOf(client', g))
    <3>1. g # h /\ Cardinality(HoldersOf(client, g)) \in Nat
      BY <1>3, HoldersFinite
    <3> QED BY <1>7, <1>9, <3>1 DEF TablesInv, Counts
  <2> QED BY <1>6, <1>7, <1>9, <2>1, <2>2 DEF Counts
<1>12. Holds(client', a)
  BY <1>3, <1>6, <1>7, <1>8 DEF TablesInv, Holds
<1>13. KeptUsed(a, cache'.handle)
  BY <1>6 DEF a
<1>14. Counts(client', cache'.handle) /\ Holds(client', cache'.handle)
  BY <1>11, <1>12, <1>13, KeptUse
<1>15. \A g \in DOMAIN cache'.handle : g \in DOMAIN a /\ cache'.handle[g].key = a[g].key
  BY <1>13 DEF KeptUsed
<1>16. DOMAIN cache'.handle \subseteq 1..opened'
  <2>1. DOMAIN a \subseteq 1..h
    BY <1>2, <1>7 DEF h
  <2> QED BY <1>1, <1>15, <2>1
<1>17. \A g \in DOMAIN cache'.handle : cache'.handle[g].key \in live'
  BY <1>1, <1>2, <1>6, <1>7, <1>15 DEF TablesInv
<1>18. \A u \in Client : client'[u].pc # "idle" => client'[u].file \in live'
  BY <1>1, <1>2, <1>8 DEF TablesInv
<1> QED BY <1>1, <1>3, <1>5, <1>8, <1>14, <1>16, <1>17, <1>18 DEF TablesInv

(* A client gives its table back. *)
LEMMA ReleaseInv == ASSUME TablesInv, NEW t \in Client, Tables!ReleaseTable(t) PROVE TablesInv'
<1> DEFINE h == client[t].handle
           a == [cache.handle EXCEPT ![h].refs = @ - 1]
<1>1. /\ client[t].pc = "reads" /\ UNCHANGED <<live, opened>>
      /\ client' = [client EXCEPT ![t] = Tables!Idle] /\ cache' = Tables!Unref(cache, h)
  BY DEF Tables!ReleaseTable, Tables!Release
<1>2. CacheRight(cache, {}) /\ h \in DOMAIN cache.handle
  BY <1>1 DEF TablesInv, Holds
<1>3. \A g \in DOMAIN cache.handle : cache.handle[g] \in Entry
  BY <1>2 DEF CacheRight, CacheTypes
<1>4. \A e \in Entry : LET x == [e EXCEPT !.refs = @ - 1]
                       IN  /\ x.key = e.key /\ x.inCache = e.inCache /\ x.refs = e.refs - 1
                           /\ e.refs \in Nat /\ e.inCache \in BOOLEAN
  BY DEF Entry
<1>5. \A e \in Entry : UsedBy(e) \in Int /\ UsedBy([e EXCEPT !.refs = @ - 1]) = UsedBy(e) - 1
  BY <1>4 DEF UsedBy
<1>6. client'[t] = Tables!Idle /\ \A u \in Client : u # t => client'[u] = client[u]
  BY <1>1 DEF TablesInv
<1>7. \A g : Cardinality(HoldersOf(client', g)) = Cardinality(HoldersOf(client, g)) - (IF g = h THEN 1 ELSE 0)
  <2>1. client[t].handle = h /\ client'[t].pc # "reads"
    BY <1>6 DEF Tables!Idle
  <2>2. client[t].pc = "reads" /\ \A u \in Client : u # t => client'[u] = client[u]
    BY <1>1, <1>6
  <2> HIDE DEF h, a
  <2> QED BY <2>1, <2>2, HoldersGive
<1>8. cache.handle[h].refs = 1 => ~ cache.handle[h].inCache
  <2>1. t \in HoldersOf(client, h)
    BY <1>1 DEF HoldersOf
  <2>2. UsedBy(cache.handle[h]) = Cardinality(HoldersOf(client, h))
    BY <1>2 DEF TablesInv, Counts
  <2>3. UsedBy(cache.handle[h]) # 0
    BY <2>1, <2>2, HoldersFinite
  <2> QED BY <2>3 DEF UsedBy
<1> HIDE DEF h
<1>9. /\ CacheRight(cache', {})
      /\ cache'.handle = IF cache.handle[h].refs = 1 THEN Tables!Without(cache.handle, h) ELSE a
  BY <1>1, <1>2, <1>8, UnrefIs
<1>10. /\ DOMAIN a = DOMAIN cache.handle
       /\ \A g \in DOMAIN cache.handle : a[g] = IF g = h THEN [cache.handle[g] EXCEPT !.refs = @ - 1] ELSE cache.handle[g]
  OBVIOUS
<1> HIDE DEF a
<1>11. \A g \in DOMAIN a : /\ a[g].key = cache.handle[g].key
                           /\ UsedBy(a[g]) = UsedBy(cache.handle[g]) - (IF g = h THEN 1 ELSE 0)
  <2> SUFFICES ASSUME NEW g \in DOMAIN cache.handle
               PROVE  /\ a[g].key = cache.handle[g].key
                      /\ UsedBy(a[g]) = UsedBy(cache.handle[g]) - (IF g = h THEN 1 ELSE 0)
    BY <1>10
  <2>1. cache.handle[g] \in Entry /\ UsedBy(cache.handle[g]) \in Int
    BY <1>3, <1>5
  <2>2. CASE g = h
    <3>1. a[g] = [cache.handle[g] EXCEPT !.refs = @ - 1]
      BY <1>10, <2>2
    <3> QED BY <1>4, <1>5, <2>1, <2>2, <3>1
  <2>3. CASE g # h
    <3>1. a[g] = cache.handle[g]
      BY <1>10, <2>3
    <3> QED BY <2>1, <2>3, <3>1
  <2> QED BY <2>2, <2>3
<1>12. Counts(client', a) /\ Holds(client', a)
  <2>1. Counts(client', a)
    BY <1>7, <1>10, <1>11 DEF TablesInv, Counts
  <2>2. Holds(client', a)
    BY <1>6, <1>10, <1>11 DEF TablesInv, Holds, Tables!Idle
  <2> QED BY <2>1, <2>2
<1>13. KeptUsed(a, cache'.handle)
  <2>1. CASE cache.handle[h].refs = 1
    <3>1. UsedBy(cache.handle[h]) = 1
      BY <1>8, <2>1 DEF UsedBy
    <3>2. UsedBy(a[h]) = 0
      BY <1>2, <1>10, <1>11, <3>1
    <3>3. /\ DOMAIN cache'.handle = DOMAIN a \ {h}
          /\ \A g \in DOMAIN cache'.handle : cache'.handle[g] = a[g]
      BY <1>9, <1>10, <2>1 DEF Tables!Without
    <3> QED BY <3>2, <3>3 DEF KeptUsed
  <2>2. CASE cache.handle[h].refs # 1
    BY <1>9, <2>2 DEF KeptUsed
  <2> QED BY <2>1, <2>2
<1>14. Counts(client', cache'.handle) /\ Holds(client', cache'.handle)
  BY <1>12, <1>13, KeptUse
<1>15. \A g \in DOMAIN cache'.handle : g \in DOMAIN cache.handle /\ cache'.handle[g].key = cache.handle[g].key
  BY <1>10, <1>11, <1>13 DEF KeptUsed
<1>16. client' \in [Client -> ClientRecord]
  <2>1. Tables!Idle \in ClientRecord
    BY DEF Tables!Idle, ClientRecord
  <2> QED BY <1>1, <2>1 DEF TablesInv
<1>17. \A u \in Client : client'[u].pc # "idle" => client'[u].file \in live'
  BY <1>1, <1>6 DEF TablesInv, Tables!Idle
<1> QED BY <1>1, <1>9, <1>14, <1>15, <1>16, <1>17 DEF TablesInv

(* Entries that no client uses go. *)
LEMMA KeptInv ==
    ASSUME TablesInv, CacheRight(cache', {}), KeptUsed(cache.handle, cache'.handle), UNCHANGED <<client, opened>>,
           live' \subseteq live, \A h \in DOMAIN cache'.handle : cache.handle[h].key \in live',
           \A t \in Client : client[t].pc # "idle" => client[t].file \in live'
    PROVE  TablesInv'
<1>1. Counts(client', cache'.handle) /\ Holds(client', cache'.handle)
  <2>1. Counts(client', cache.handle) /\ Holds(client', cache.handle)
    BY DEF TablesInv
  <2> QED BY <2>1, KeptUse
<1>2. \A g \in DOMAIN cache'.handle : g \in DOMAIN cache.handle /\ cache'.handle[g].key = cache.handle[g].key
  BY DEF KeptUsed
<1> QED BY <1>1, <1>2 DEF TablesInv

LEMMA PruneInv == ASSUME TablesInv, Tables!PruneCache PROVE TablesInv'
<1>1. cache' = Tables!Prune(cache) /\ UNCHANGED <<client, live, opened>>
  BY DEF Tables!PruneCache
<1>2. CacheRight(cache', {}) /\ Shed(cache, cache')
  BY <1>1, PruneIs DEF TablesInv
<1>3. KeptUsed(cache.handle, cache'.handle)
  BY <1>2, ShedKeeps
<1>4. \A h \in DOMAIN cache'.handle : cache.handle[h].key \in live'
  BY <1>1, <1>3 DEF KeptUsed, TablesInv
<1>5. \A t \in Client : client[t].pc # "idle" => client[t].file \in live'
  BY <1>1 DEF TablesInv
<1> QED BY <1>1, <1>2, <1>3, <1>4, <1>5, KeptInv

(* A file is deleted that nobody reads: its table was not open, or the     *)
(* cache alone had it and closes it.                                       *)
LEMMA EvictInv == ASSUME TablesInv, NEW f \in File, Tables!Evict(f) PROVE TablesInv'
<1>1. /\ f \in live /\ \A t \in Client : client[t].file # f
      /\ live' = live \ {f} /\ cache' = Tables!Erase(cache, f) /\ UNCHANGED <<client, opened>>
  BY DEF Tables!Evict
<1>2. CacheRight(cache, {})
  BY DEF TablesInv
<1>3. \A h \in DOMAIN cache.handle : cache.handle[h] \in Entry
  BY <1>2 DEF CacheRight, CacheTypes
<1>4. ASSUME NEW h \in DOMAIN cache.handle, cache.handle[h].key = f
      PROVE  f \in DOMAIN cache.table /\ cache.table[f] = h /\ cache.handle[h].refs = 1
  <2>1. HoldersOf(client, h) = {}
    BY <1>1, <1>4 DEF HoldersOf, TablesInv, Holds
  <2>2. UsedBy(cache.handle[h]) = 0
    BY <2>1, FS_EmptySet DEF TablesInv, Counts
  <2>3. cache.handle[h].inCache /\ cache.handle[h].refs = 1
    <3>1. cache.handle[h].refs \in Nat \ {0}
      BY <1>3 DEF Entry
    <3> QED BY <2>2, <3>1 DEF UsedBy
  <2> QED BY <1>2, <1>4, <2>3 DEF CacheRight
<1>5. CacheRight(cache', {}) /\ KeptUsed(cache.handle, cache'.handle) /\ \A h \in DOMAIN cache'.handle : cache.handle[h].key # f
  <2>1. CASE f \notin DOMAIN cache.table
    <3>1. cache' = cache
      BY <1>1, <2>1 DEF Tables!Erase
    <3> QED BY <1>2, <1>4, <2>1, <3>1 DEF KeptUsed
  <2>2. CASE f \in DOMAIN cache.table
    <3> DEFINE h == cache.table[f]
    <3>1. h \in DOMAIN cache.handle /\ cache.handle[h].inCache /\ cache.handle[h].key = f
      BY <1>2, <2>2 DEF CacheRight, CacheTypes
    <3>2. CacheRight(cache', {}) /\ LetGo(cache, h, cache')
      BY <1>1, <1>2, <2>2, EraseIs
    <3> HIDE DEF h
    <3>3. KeptUsed(cache.handle, cache'.handle)
      BY <1>3, <3>1, <3>2, LetGoKeeps
    <3>4. cache.handle[h].refs = 1
      BY <1>4, <3>1
    <3>5. DOMAIN cache'.handle = DOMAIN cache.handle \ {h}
      BY <3>2, <3>4 DEF LetGo
    <3>6. \A g \in DOMAIN cache'.handle : cache.handle[g].key # f
      BY <1>4, <3>1, <3>5
    <3> QED BY <3>2, <3>3, <3>6
  <2> QED BY <2>1, <2>2
<1>6. \A h \in DOMAIN cache'.handle : cache.handle[h].key \in live'
  BY <1>1, <1>5 DEF KeptUsed, TablesInv
<1>7. \A t \in Client : client[t].pc # "idle" => client[t].file \in live'
  BY <1>1 DEF TablesInv
<1>8. live' \subseteq live
  BY <1>1
<1> QED BY <1>1, <1>5, <1>6, <1>7, <1>8, KeptInv

LEMMA TablesStep == TablesInv /\ [Tables!Next]_Tables!vars => TablesInv'
<1> SUFFICES ASSUME TablesInv, [Tables!Next]_Tables!vars PROVE TablesInv'
  OBVIOUS
<1>1. ASSUME NEW t \in Client, NEW f \in File, Tables!FindTable(t, f) PROVE TablesInv'
  BY <1>1, FoundInv, MissedInv
<1>2. ASSUME NEW t \in Client, Tables!InsertTable(t) \/ Tables!OpenFails(t) \/ Tables!ReleaseTable(t) PROVE TablesInv'
  BY <1>2, InsertTableInv, FailsInv, ReleaseInv
<1>3. ASSUME NEW f \in File, Tables!Evict(f) PROVE TablesInv'
  BY <1>3, EvictInv
<1>4. CASE UNCHANGED Tables!vars
  BY <1>4 DEF TablesInv, Tables!vars
<1> QED BY <1>1, <1>2, <1>3, <1>4, PruneInv DEF Tables!Next

LEMMA TablesShown == TablesInv => Tables!TablesRight
<1> SUFFICES ASSUME TablesInv PROVE Tables!TablesRight
  OBVIOUS
<1>1. Tables!ListsRight(cache)
  BY CacheRightShows DEF TablesInv
<1>2. Tables!UsedOpen
  BY DEF TablesInv, Holds, Tables!UsedOpen
<1>3. Tables!UnusedClosed
  <2> SUFFICES ASSUME NEW h \in DOMAIN cache.handle
               PROVE  /\ cache.handle[h].refs = Cardinality(Tables!Holders(h)) + (IF cache.handle[h].inCache THEN 1 ELSE 0)
                      /\ cache.handle[h].refs > 0 /\ cache.handle[h].key \in live
    BY TablesCardinality DEF Tables!UnusedClosed
  <2>1. cache.handle[h].refs \in Nat \ {0}
    BY DEF TablesInv, CacheRight, CacheTypes, Entry
  <2>2. Tables!Holders(h) = HoldersOf(client, h)
    BY DEF Tables!Holders, HoldersOf
  <2>3. UsedBy(cache.handle[h]) = Cardinality(HoldersOf(client, h))
    BY DEF TablesInv, Counts
  <2>4. cache.handle[h].refs = UsedBy(cache.handle[h]) + (IF cache.handle[h].inCache THEN 1 ELSE 0)
    BY <2>1 DEF UsedBy
  <2> QED BY <2>1, <2>2, <2>3, <2>4 DEF TablesInv
<1> QED BY <1>1, <1>2, <1>3 DEF Tables!TablesRight

-----------------------------------------------------------------------------
(* No table is closed while a client reads it, whatever is evicted, pruned *)
(* or inserted again meanwhile; nothing else is open but what the cache    *)
(* holds of files that are not deleted; and the lists, the table and the   *)
(* usage of the cache agree (the comments at lru_ and in_use_, cache.cc),  *)
(* for any clients, files, charges and capacity.                           *)
THEOREM TablesAreRight == StorageSpec => []TablesRight
<1> DEFINE Inv == part = "tables" => TablesInv
<1>1. StorageInit => Inv
  BY TablesInit DEF StorageInit
<1>2. Inv /\ [StorageNext]_storage => Inv'
  <2> SUFFICES ASSUME Inv, [StorageNext]_storage, part' = "tables" PROVE TablesInv'
    OBVIOUS
  <2>1. part = "tables" /\ [Tables!Next]_Tables!vars
    BY DEF StorageNext, storage, tables, Tables!vars
  <2> QED BY <2>1, TablesStep
<1>3. Inv => TablesRight
  BY TablesShown DEF TablesRight
<1> QED BY <1>1, <1>2, <1>3, PTL DEF StorageSpec

-----------------------------------------------------------------------------
(***************************************************************************)
(* The iterator.  The inductive invariant: where each child of the         *)
(* MergingIterator is, relative to the entry that is current; which of the *)
(* entries as of the snapshot are to come; and in each loop of DBIter what *)
(* is expected in terms of those entries and the key that is saved.        *)
(***************************************************************************)
AtOrBefore(a, b) == a = b \/ Cursor!Before(a, b)
Seen(c) == {e \in children[c] : e.seq <= Snapshot}
Visible == {e \in Cursor!Entries : e.seq <= Snapshot}

(* The children, which only grow. *)
Base == children \in [Child -> SUBSET Cursor!Written] /\ Cursor!Numbered(children)

MergeTypes ==
    merge \in [at : [Child -> SUBSET Cursor!Written], current : SUBSET Child, forward : BOOLEAN, last : SUBSET Child]
Calls == [pc : {"idle", "next", "prev", "back", "scan"}, then : {"idle", "scan", "prev"},
          valid : BOOLEAN, forward : BOOLEAN, saved : Nat, savedSeq : Nat,
          skipping : BOOLEAN, found : BOOLEAN]
CallTypes == iter \in Calls

(* A child is at an entry of its own, and current_ is one child. *)
AtRight ==
    /\ \A c \in Child : merge.at[c] \subseteq children[c] /\ \A x, y \in merge.at[c] : x = y
    /\ Cursor!Valid(merge) => \E c \in Child : merge.current = {c} /\ merge.at[c] # {}
    /\ merge.last \cap merge.current = {}

(* Forward, no child is behind key(), and none has passed an entry that is *)
(* visible and not before it.                                              *)
AheadRight ==
    merge.forward /\ Cursor!Valid(merge) => \A c \in Child :
        /\ \A p \in merge.at[c] : AtOrBefore(Cursor!Entry, p)
        /\ \A e \in Seen(c) : ~ Cursor!Before(e, Cursor!Entry) => \E p \in merge.at[c] : AtOrBefore(p, e)

(* In reverse, the visible entries that are to come: with key() or before  *)
(* it, and with each one all before it.                                    *)
Remaining(c) ==
    IF c \in merge.last THEN Seen(c) ELSE {e \in Seen(c) : \E p \in merge.at[c] : AtOrBefore(e, p)}
Rest == UNION {Remaining(c) : c \in Child}
RestRight ==
    ~ merge.forward =>
        /\ \A e \in Rest : Cursor!Valid(merge) /\ AtOrBefore(e, Cursor!Entry)
        /\ \A e \in Rest, d \in Visible : Cursor!Before(d, e) => d \in Rest

(* FindNextUserEntry: what is expected is the first live key that is to    *)
(* come and not skipped; a key of which some entries are passed is.        *)
Skipped(k) == iter.skipping /\ k <= iter.saved
NextRight ==
    /\ iter.forward /\ merge.forward /\ Cursor!Valid(merge)
    /\ expected = Cursor!LeastKey({k \in Cursor!Live : ~ Skipped(k) /\ \E e \in Cursor!Newest(k) : ~ Cursor!Before(e, Cursor!Entry)})
    /\ \A f \in Visible : ~ Cursor!Before(f, Cursor!Entry) =>
          /\ iter.skipping => iter.saved <= f.key
          /\ \A e \in Visible : Cursor!Before(e, Cursor!Entry) /\ e.key = f.key => Skipped(f.key)

(* FindPrevUserEntry: the last visible entry passed, if it is no deletion, *)
(* is what will be returned unless a newer one of its key is to come.      *)
PrevRight(R) ==
    /\ ~ iter.forward /\ ~ merge.forward
    /\ iter.found => \E q \in Visible \ R :
          /\ q.key = iter.saved /\ q.seq = iter.savedSeq /\ ~ q.del
          /\ \A e \in Visible \ R : AtOrBefore(q, e)
    /\ expected = Cursor!GreatestKey({k \in Cursor!Live : \E e \in Cursor!Newest(k) :
                      e \in R \/ (iter.found /\ e.key = iter.saved /\ e.seq = iter.savedSeq)})

(* Prev's loop back to the entries of smaller keys. *)
ScanRight ==
    /\ expected = Cursor!GreatestKey({k \in Cursor!Live : k < iter.saved})
    /\ ~ merge.forward => \A e \in Visible : e.key < iter.saved => e \in Rest

AtEntry ==
    /\ merge.forward /\ Cursor!Valid(merge)
    /\ Cursor!Newest(Cursor!Entry.key) = {Cursor!Entry} /\ ~ Cursor!Entry.del /\ expected = Cursor!Entry.key
BeforeEntries ==
    /\ ~ merge.forward /\ expected = iter.saved /\ iter.saved \in Cursor!Live
    /\ \E e \in Cursor!Newest(iter.saved) : iter.savedSeq = e.seq
    /\ \A e \in Visible \ Rest : iter.saved <= e.key
    /\ Cursor!Valid(merge) => Cursor!Entry.seq <= Snapshot /\ Cursor!Entry.key < iter.saved

CallRight ==
    /\ Cursor!Idle => IF ~ iter.valid THEN expected = 0
               ELSE IF iter.forward THEN AtEntry ELSE BeforeEntries
    /\ iter.pc = "next" => NextRight
    /\ iter.pc = "prev" => PrevRight(Rest)
    /\ iter.pc = "scan" => ~ merge.forward /\ ScanRight /\ iter.then = "scan"
    /\ iter.pc = "back" =>
          /\ Cursor!Valid(merge) /\ iter.then # "idle"
          /\ iter.then = "prev" => PrevRight(Rest \ {Cursor!Entry})
          /\ iter.then = "scan" =>
                /\ ScanRight
                /\ IF merge.forward THEN Cursor!Entry.key = iter.saved /\ Cursor!Entry.seq <= Snapshot
                   ELSE iter.saved <= Cursor!Entry.key

MergeInv == MergeTypes /\ AtRight /\ AheadRight /\ RestRight
IterInv == Base /\ MergeInv /\ CallTypes /\ CallRight

-----------------------------------------------------------------------------
LEMMA IteratorConstants == Cursor!IteratorAssumption
  BY StorageAssumption

(* The instance names its own copies of the operators of FiniteSets. *)
LEMMA CursorCardinality == \A S : Cursor!Cardinality(S) = Cardinality(S)
  BY DEF Cursor!Cardinality, Cardinality

LEMMA CursorFinite == \A S : Cursor!IsFiniteSet(S) <=> IsFiniteSet(S)
  BY DEF Cursor!IsFiniteSet, IsFiniteSet

-----------------------------------------------------------------------------
(* A finite set that a relation puts in an order has a first member. *)
LEMMA FirstIn ==
    ASSUME NEW E, NEW R, IsFiniteSet(E), E # {},
           \A a, b \in E : a = b \/ <<a, b>> \in R \/ <<b, a>> \in R,
           \A a, b, c \in E : <<a, b>> \in R /\ <<b, c>> \in R => <<a, c>> \in R
    PROVE  \E m \in E : \A d \in E : d = m \/ <<m, d>> \in R
<1> DEFINE HasFirst(T) == \E m \in T : \A d \in T : d = m \/ <<m, d>> \in R
           Bad == {T \in SUBSET E : T # {} /\ ~ HasFirst(T)}
<1>1. SUFFICES ASSUME Bad # {} PROVE FALSE
  <2>1. E \in SUBSET E
    OBVIOUS
  <2> QED BY <2>1
<1>2. \A T \in Bad : IsFiniteSet(T) /\ Cardinality(T) \in Nat
  BY FS_Subset, FS_CardinalityType
<1> DEFINE N == {Cardinality(T) : T \in Bad}
<1>3. PICK n \in N : \A k \in N : n <= k
  <2>1. N \subseteq Nat /\ N # {}
    BY <1>1, <1>2
  <2> HIDE DEF N
  <2> QED BY <2>1, LeastOf
<1>4. PICK T \in Bad : n = Cardinality(T)
  BY <1>3
<1>5. PICK x \in T : TRUE
  BY <1>4
<1>6. IsFiniteSet(T \ {x}) /\ Cardinality(T \ {x}) = n - 1 /\ n \in Nat
  BY <1>2, <1>4, <1>5, FS_RemoveElement
<1>7. T \ {x} \notin Bad
  <2>1. ASSUME T \ {x} \in Bad PROVE FALSE
    <3>1. n - 1 \in N
      BY <2>1, <1>6
    <3> HIDE DEF N
    <3> QED BY <3>1, <1>3, <1>6
  <2> QED BY <2>1
<1>8. T \ {x} # {}
  <2>1. ASSUME T \ {x} = {} PROVE FALSE
    <3>1. \A d \in T : d = x
      BY <2>1
    <3>2. HasFirst(T)
      BY <3>1, <1>5
    <3> QED BY <3>2, <1>4
  <2> QED BY <2>1
<1>9. PICK y \in T \ {x} : \A d \in T \ {x} : d = y \/ <<y, d>> \in R
  BY <1>4, <1>7, <1>8
<1>10. x \in E /\ y \in E /\ x # y /\ T \subseteq E
  BY <1>4, <1>5, <1>9
<1>11. CASE <<x, y>> \in R
  <2>1. \A d \in T : d = x \/ <<x, d>> \in R
    BY <1>9, <1>10, <1>11
  <2> QED BY <2>1, <1>4, <1>5
<1>12. CASE <<y, x>> \in R
  <2>1. \A d \in T : d = y \/ <<y, d>> \in R
    BY <1>9, <1>10, <1>12
  <2> QED BY <2>1, <1>4, <1>9
<1> QED BY <1>10, <1>11, <1>12

-----------------------------------------------------------------------------
(* The order of entries. *)
LEMMA BeforeIs ==
    ASSUME NEW a \in Cursor!Written, NEW b \in Cursor!Written
    PROVE  /\ a.key \in Nat /\ a.seq \in Nat /\ a.key \in UserKey /\ a.key > 0
           /\ ~ (Cursor!Before(a, b) /\ Cursor!Before(b, a)) /\ ~ Cursor!Before(a, a)
           /\ Cursor!Before(a, b) \/ Cursor!Before(b, a) \/ (a.key = b.key /\ a.seq = b.seq)
           /\ Cursor!Before(a, b) => a.key <= b.key
<1>1. a.key \in UserKey /\ b.key \in UserKey /\ a.seq \in Nat /\ b.seq \in Nat
  BY DEF Cursor!Written
<1>2. a.key \in Nat /\ b.key \in Nat /\ a.key > 0
  <2>1. UserKey \subseteq Nat \ {0}
    BY IteratorConstants DEF Cursor!IteratorAssumption
  <2>2. \A k \in UserKey : k \in Nat /\ k # 0
    BY <2>1
  <2>3. \A k \in UserKey : k \in Nat /\ k > 0
    BY <2>2
  <2>4. a.key \in UserKey /\ b.key \in UserKey
    BY <1>1
  <2> QED BY <2>3, <2>4
<1> QED BY <1>1, <1>2 DEF Cursor!Before

LEMMA BeforeTransitive ==
    ASSUME NEW a \in Cursor!Written, NEW b \in Cursor!Written, NEW c \in Cursor!Written
    PROVE  /\ Cursor!Before(a, b) /\ Cursor!Before(b, c) => Cursor!Before(a, c)
           /\ Cursor!Before(a, b) /\ AtOrBefore(b, c) => Cursor!Before(a, c)
           /\ AtOrBefore(a, b) /\ Cursor!Before(b, c) => Cursor!Before(a, c)
           /\ AtOrBefore(a, b) /\ AtOrBefore(b, c) => AtOrBefore(a, c)
<1>1. \A e \in {a, b, c} : e.key \in Nat /\ e.seq \in Nat
  BY BeforeIs
<1>2. Cursor!Before(a, b) /\ Cursor!Before(b, c) => Cursor!Before(a, c)
  BY <1>1 DEF Cursor!Before
<1> QED BY <1>2 DEF AtOrBefore

LEMMA OneChild ==
    ASSUME Base, NEW c \in Child, NEW d \in Child, NEW a \in children[c], NEW b \in children[d],
           a.seq = b.seq
    PROVE  c = d /\ a = b
  BY DEF Base, Cursor!Numbered

LEMMA EntriesIn ==
    ASSUME Base
    PROVE  /\ Cursor!Entries \subseteq Cursor!Written /\ IsFiniteSet(Cursor!Entries)
           /\ \A c \in Child : children[c] \subseteq Cursor!Entries /\ Seen(c) \subseteq children[c]
           /\ \A c \in Child : Seen(c) \subseteq Visible
           /\ Visible \subseteq Cursor!Entries
           /\ \A e \in Cursor!Entries : \E c \in Child : e \in children[c]
           /\ \A e \in Visible : \E c \in Child : e \in Seen(c)
<1>1. IsFiniteSet(Cursor!Entries)
  BY CursorFinite DEF Base, Cursor!Numbered, Cursor!Entries
<1>2. Cursor!Entries \subseteq Cursor!Written
  BY DEF Base, Cursor!Entries
<1>3. /\ \A c \in Child : children[c] \subseteq Cursor!Entries
      /\ \A e \in Cursor!Entries : \E c \in Child : e \in children[c]
  BY DEF Cursor!Entries
<1> QED BY <1>1, <1>2, <1>3 DEF Seen, Visible

LEMMA Total ==
    ASSUME Base, NEW a \in Cursor!Entries, NEW b \in Cursor!Entries
    PROVE  /\ a = b \/ Cursor!Before(a, b) \/ Cursor!Before(b, a)
           /\ ~ Cursor!Before(a, b) <=> AtOrBefore(b, a)
           /\ ~ Cursor!Before(a, a) /\ ~ (Cursor!Before(a, b) /\ Cursor!Before(b, a))
<1>1. PICK c \in Child, d \in Child : a \in children[c] /\ b \in children[d]
  BY EntriesIn
<1>2. a \in Cursor!Written /\ b \in Cursor!Written
  BY EntriesIn
<1>3. a.key = b.key /\ a.seq = b.seq => a = b
  BY <1>1, OneChild
<1> QED BY <1>2, <1>3, BeforeIs DEF AtOrBefore

LEMMA LeastIs ==
    ASSUME Base, NEW E, E \subseteq Cursor!Entries
    PROVE  /\ Cursor!Least(E) \subseteq E
           /\ \A m \in Cursor!Least(E), d \in E : AtOrBefore(m, d)
           /\ \A x, y \in Cursor!Least(E) : x = y
           /\ E # {} => \E m \in E : Cursor!Least(E) = {m}
<1>1. Cursor!Least(E) \subseteq E /\ \A m \in Cursor!Least(E), d \in E : AtOrBefore(m, d)
  BY DEF Cursor!Least, AtOrBefore
<1>2. \A x, y \in Cursor!Least(E) : x = y
  <2> SUFFICES ASSUME NEW x \in Cursor!Least(E), NEW y \in Cursor!Least(E) PROVE x = y
    OBVIOUS
  <2>1. x \in Cursor!Entries /\ y \in Cursor!Entries /\ AtOrBefore(x, y) /\ AtOrBefore(y, x)
    BY <1>1
  <2> QED BY <2>1, Total DEF AtOrBefore
<1>3. ASSUME E # {} PROVE \E m \in E : Cursor!Least(E) = {m}
  <2> DEFINE R == {p \in E \X E : Cursor!Before(p[1], p[2])}
  <2>1. \A a, b \in E : <<a, b>> \in R <=> Cursor!Before(a, b)
    OBVIOUS
  <2>2. IsFiniteSet(E)
    BY EntriesIn, FS_Subset
  <2>3. \A a, b \in E : a = b \/ Cursor!Before(a, b) \/ Cursor!Before(b, a)
    BY Total
  <2>4. \A a, b, c \in E : Cursor!Before(a, b) /\ Cursor!Before(b, c) => Cursor!Before(a, c)
    BY EntriesIn, BeforeTransitive
  <2> HIDE DEF R
  <2>5. \A a, b \in E : a = b \/ <<a, b>> \in R \/ <<b, a>> \in R
    BY <2>1, <2>3
  <2>6. \A a, b, c \in E : <<a, b>> \in R /\ <<b, c>> \in R => <<a, c>> \in R
    BY <2>1, <2>4
  <2>7. PICK m \in E : \A d \in E : d = m \/ <<m, d>> \in R
    BY <1>3, <2>2, <2>5, <2>6, FirstIn
  <2>8. m \in Cursor!Least(E)
    BY <2>1, <2>7 DEF Cursor!Least
  <2> QED BY <2>8, <1>2
<1> QED BY <1>1, <1>2, <1>3

LEMMA GreatestIs ==
    ASSUME Base, NEW E, E \subseteq Cursor!Entries
    PROVE  /\ Cursor!Greatest(E) \subseteq E
           /\ \A m \in Cursor!Greatest(E), d \in E : AtOrBefore(d, m)
           /\ \A x, y \in Cursor!Greatest(E) : x = y
           /\ E # {} => \E m \in E : Cursor!Greatest(E) = {m}
<1>1. Cursor!Greatest(E) \subseteq E /\ \A m \in Cursor!Greatest(E), d \in E : AtOrBefore(d, m)
  BY DEF Cursor!Greatest, AtOrBefore
<1>2. \A x, y \in Cursor!Greatest(E) : x = y
  <2> SUFFICES ASSUME NEW x \in Cursor!Greatest(E), NEW y \in Cursor!Greatest(E) PROVE x = y
    OBVIOUS
  <2>1. x \in Cursor!Entries /\ y \in Cursor!Entries /\ AtOrBefore(x, y) /\ AtOrBefore(y, x)
    BY <1>1
  <2> QED BY <2>1, Total DEF AtOrBefore
<1>3. ASSUME E # {} PROVE \E m \in E : Cursor!Greatest(E) = {m}
  <2> DEFINE R == {p \in E \X E : Cursor!Before(p[2], p[1])}
  <2>1. \A a, b \in E : <<a, b>> \in R <=> Cursor!Before(b, a)
    OBVIOUS
  <2>2. IsFiniteSet(E)
    BY EntriesIn, FS_Subset
  <2>3. \A a, b \in E : a = b \/ Cursor!Before(a, b) \/ Cursor!Before(b, a)
    BY Total
  <2>4. \A a, b, c \in E : Cursor!Before(b, a) /\ Cursor!Before(c, b) => Cursor!Before(c, a)
    BY EntriesIn, BeforeTransitive
  <2> HIDE DEF R
  <2>5. \A a, b \in E : a = b \/ <<a, b>> \in R \/ <<b, a>> \in R
    BY <2>1, <2>3
  <2>6. \A a, b, c \in E : <<a, b>> \in R /\ <<b, c>> \in R => <<a, c>> \in R
    BY <2>1, <2>4
  <2>7. PICK m \in E : \A d \in E : d = m \/ <<m, d>> \in R
    BY <1>3, <2>2, <2>5, <2>6, FirstIn
  <2>8. m \in Cursor!Greatest(E)
    BY <2>1, <2>7 DEF Cursor!Greatest
  <2> QED BY <2>8, <1>2
<1> QED BY <1>1, <1>2, <1>3

LEMMA LeastKeyIs ==
    ASSUME NEW K, K \subseteq Nat, NEW k \in K, \A l \in K : k <= l
    PROVE  Cursor!LeastKey(K) = k
<1>1. \A j \in K : (\A l \in K : j <= l) => j = k
  <2> SUFFICES ASSUME NEW j \in K, \A l \in K : j <= l PROVE j = k
    OBVIOUS
  <2>1. j <= k /\ k <= j /\ j \in Nat /\ k \in Nat
    OBVIOUS
  <2> QED BY <2>1
<1> QED BY <1>1 DEF Cursor!LeastKey

LEMMA GreatestKeyIs ==
    ASSUME NEW K, K \subseteq Nat, NEW k \in K, \A l \in K : l <= k
    PROVE  Cursor!GreatestKey(K) = k
<1>1. \A j \in K : (\A l \in K : l <= j) => j = k
  <2> SUFFICES ASSUME NEW j \in K, \A l \in K : l <= j PROVE j = k
    OBVIOUS
  <2>1. j <= k /\ k <= j /\ j \in Nat /\ k \in Nat
    OBVIOUS
  <2> QED BY <2>1
<1> QED BY <1>1 DEF Cursor!GreatestKey

LEMMA NoKeys == Cursor!LeastKey({}) = 0 /\ Cursor!GreatestKey({}) = 0
  BY DEF Cursor!LeastKey, Cursor!GreatestKey

-----------------------------------------------------------------------------
(* The moves of the MergingIterator. *)
EntryOf(m) == CHOOSE e \in UNION {m.at[c] : c \in m.current} : TRUE
AtOf(at) ==
    /\ at \in [Child -> SUBSET Cursor!Written]
    /\ \A c \in Child : at[c] \subseteq children[c] /\ \A x, y \in at[c] : x = y

LEMMA EntryIs ==
    ASSUME NEW m, NEW c, NEW P, m.current = {c}, m.at[c] = {P}
    PROVE  EntryOf(m) = P
<1>1. UNION {m.at[d] : d \in m.current} = {P}
  OBVIOUS
<1> QED BY <1>1 DEF EntryOf

LEMMA EntrySame == Cursor!Entry = EntryOf(merge) /\ Cursor!Entry' = EntryOf(merge')
  BY DEF Cursor!Entry, EntryOf

LEMMA EntryHas ==
    ASSUME Base, AtRight, Cursor!Valid(merge)
    PROVE  \E c \in Child : /\ merge.current = {c} /\ merge.at[c] = {Cursor!Entry}
                            /\ Cursor!Entry \in children[c] /\ Cursor!Entry \in Cursor!Entries
<1>1. PICK c \in Child : merge.current = {c} /\ merge.at[c] # {}
  BY DEF AtRight
<1>2. PICK P \in merge.at[c] : TRUE
  BY <1>1
<1>3. merge.at[c] = {P} /\ P \in children[c]
  BY <1>1, <1>2 DEF AtRight
<1>4. Cursor!Entry = P
  BY <1>1, <1>3, EntryIs, EntrySame
<1> QED BY <1>1, <1>3, <1>4, EntriesIn

LEMMA SameEntries ==
    ASSUME UNCHANGED children
    PROVE  /\ Cursor!Entries' = Cursor!Entries /\ Visible' = Visible /\ Cursor!Live' = Cursor!Live
           /\ \A k : Cursor!Newest(k)' = Cursor!Newest(k)
           /\ \A c : Seen(c)' = Seen(c)
  BY DEF Cursor!Entries, Visible, Cursor!Live, Cursor!Newest, Seen

(* The union of where the children are. *)
LEMMA PlacesIn ==
    ASSUME Base, NEW at, AtOf(at)
    PROVE  /\ UNION {at[d] : d \in Child} \subseteq Cursor!Entries
           /\ \A c \in Child : \A P \in at[c] : at[c] = {P}
           /\ \A c, d \in Child : \A P \in at[c] : P \in at[d] => c = d
<1>1. \A c \in Child : at[c] \subseteq children[c] /\ children[c] \subseteq Cursor!Entries
  BY EntriesIn DEF AtOf
<1>2. UNION {at[d] : d \in Child} \subseteq Cursor!Entries
  BY <1>1
<1>3. \A c \in Child : \A P \in at[c] : at[c] = {P}
  BY DEF AtOf
<1>4. ASSUME NEW c \in Child, NEW d \in Child, NEW P \in at[c], P \in at[d] PROVE c = d
  BY <1>1, <1>4, OneChild
<1> QED BY <1>2, <1>3, <1>4

LEMMA ForwardIs ==
    ASSUME Base, NEW at, AtOf(at), NEW m, m = Cursor!Forward(at)
    PROVE  /\ m \in [at : [Child -> SUBSET Cursor!Written], current : SUBSET Child, forward : BOOLEAN, last : SUBSET Child]
           /\ m.at = at /\ m.forward /\ m.last = {} /\ m.current = Cursor!FindSmallest(at)
           /\ ~ Cursor!Valid(m) => \A c \in Child : at[c] = {}
           /\ Cursor!Valid(m) => \E c \in Child : \E P \in children[c] :
                 /\ m.current = {c} /\ at[c] = {P} /\ EntryOf(m) = P
                 /\ \A d \in Child : \A p \in at[d] : AtOrBefore(P, p)
<1> DEFINE U == UNION {at[d] : d \in Child}
<1>1. m.at = at /\ m.forward /\ m.last = {} /\ m.current = Cursor!FindSmallest(at)
  BY DEF Cursor!Forward
<1>2. Cursor!FindSmallest(at) = {c \in Child : at[c] # {} /\ at[c] = Cursor!Least(U)}
  BY DEF Cursor!FindSmallest
<1>3. m \in [at : [Child -> SUBSET Cursor!Written], current : SUBSET Child, forward : BOOLEAN, last : SUBSET Child]
  <2>1. Cursor!FindSmallest(at) \in SUBSET Child
    BY <1>2
  <2>2. at \in [Child -> SUBSET Cursor!Written]
    BY DEF AtOf
  <2> QED BY <2>1, <2>2 DEF Cursor!Forward
<1>4. U \subseteq Cursor!Entries
  BY PlacesIn
<1>5. ASSUME NEW c \in Child, at[c] # {} 
      PROVE  \E d \in Child : \E P \in children[d] :
                 /\ m.current = {d} /\ at[d] = {P} /\ EntryOf(m) = P
                 /\ \A e \in Child : \A p \in at[e] : AtOrBefore(P, p)
  <2>1. U # {}
    BY <1>5
  <2>2. PICK P \in U : Cursor!Least(U) = {P}
    BY <1>4, <2>1, LeastIs
  <2>3. \A e \in U : AtOrBefore(P, e)
    <3>1. P \in Cursor!Least(U)
      BY <2>2
    <3> HIDE DEF U
    <3> QED BY <1>4, <3>1, LeastIs
  <2>4. PICK d \in Child : P \in at[d]
    BY <2>2
  <2>5. at[d] = {P} /\ P \in children[d]
    BY <2>4, PlacesIn DEF AtOf
  <2>6. \A e \in Child : at[e] = {P} => e = d
    BY <2>4, PlacesIn
  <2>7. m.current = {d}
    BY <1>1, <1>2, <2>2, <2>5, <2>6
  <2>8. EntryOf(m) = P
    BY <1>1, <2>5, <2>7, EntryIs
  <2>9. \A e \in Child : \A p \in at[e] : AtOrBefore(P, p)
    BY <2>3
  <2> QED BY <2>5, <2>7, <2>8, <2>9
<1>6. ASSUME ~ Cursor!Valid(m) PROVE \A c \in Child : at[c] = {}
  <2> SUFFICES ASSUME NEW c \in Child, at[c] # {} PROVE FALSE
    OBVIOUS
  <2>1. m.current # {}
    BY <1>5
  <2> QED BY <1>6, <2>1 DEF Cursor!Valid
<1>7. ASSUME Cursor!Valid(m) PROVE \E c \in Child : at[c] # {}
  BY <1>1, <1>2, <1>7 DEF Cursor!Valid
<1> HIDE DEF U
<1> QED BY <1>1, <1>3, <1>5, <1>6, <1>7

LEMMA ReverseIs ==
    ASSUME Base, NEW at, AtOf(at), NEW m, m = Cursor!Reverse(at)
    PROVE  /\ m \in [at : [Child -> SUBSET Cursor!Written], current : SUBSET Child, forward : BOOLEAN, last : SUBSET Child]
           /\ m.at = at /\ ~ m.forward /\ m.last = {} /\ m.current = Cursor!FindLargest(at)
           /\ ~ Cursor!Valid(m) => \A c \in Child : at[c] = {}
           /\ Cursor!Valid(m) => \E c \in Child : \E P \in children[c] :
                 /\ m.current = {c} /\ at[c] = {P} /\ EntryOf(m) = P
                 /\ \A d \in Child : \A p \in at[d] : AtOrBefore(p, P)
<1> DEFINE U == UNION {at[d] : d \in Child}
<1>1. m.at = at /\ ~ m.forward /\ m.last = {} /\ m.current = Cursor!FindLargest(at)
  BY DEF Cursor!Reverse
<1>2. Cursor!FindLargest(at) = {c \in Child : at[c] # {} /\ at[c] = Cursor!Greatest(U)}
  BY DEF Cursor!FindLargest
<1>3. m \in [at : [Child -> SUBSET Cursor!Written], current : SUBSET Child, forward : BOOLEAN, last : SUBSET Child]
  <2>1. Cursor!FindLargest(at) \in SUBSET Child
    BY <1>2
  <2>2. at \in [Child -> SUBSET Cursor!Written]
    BY DEF AtOf
  <2> QED BY <2>1, <2>2 DEF Cursor!Reverse
<1>4. U \subseteq Cursor!Entries
  BY PlacesIn
<1>5. ASSUME NEW c \in Child, at[c] # {} 
      PROVE  \E d \in Child : \E P \in children[d] :
                 /\ m.current = {d} /\ at[d] = {P} /\ EntryOf(m) = P
                 /\ \A e \in Child : \A p \in at[e] : AtOrBefore(p, P)
  <2>1. U # {}
    BY <1>5
  <2>2. PICK P \in U : Cursor!Greatest(U) = {P}
    BY <1>4, <2>1, GreatestIs
  <2>3. \A e \in U : AtOrBefore(e, P)
    <3>1. P \in Cursor!Greatest(U)
      BY <2>2
    <3> HIDE DEF U
    <3> QED BY <1>4, <3>1, GreatestIs
  <2>4. PICK d \in Child : P \in at[d]
    BY <2>2
  <2>5. at[d] = {P} /\ P \in children[d]
    BY <2>4, PlacesIn DEF AtOf
  <2>6. \A e \in Child : at[e] = {P} => e = d
    BY <2>4, PlacesIn
  <2>7. m.current = {d}
    BY <1>1, <1>2, <2>2, <2>5, <2>6
  <2>8. EntryOf(m) = P
    BY <1>1, <2>5, <2>7, EntryIs
  <2>9. \A e \in Child : \A p \in at[e] : AtOrBefore(p, P)
    BY <2>3
  <2> QED BY <2>5, <2>7, <2>8, <2>9
<1>6. ASSUME ~ Cursor!Valid(m) PROVE \A c \in Child : at[c] = {}
  <2> SUFFICES ASSUME NEW c \in Child, at[c] # {} PROVE FALSE
    OBVIOUS
  <2>1. m.current # {}
    BY <1>5
  <2> QED BY <1>6, <2>1 DEF Cursor!Valid
<1>7. ASSUME Cursor!Valid(m) PROVE \E c \in Child : at[c] # {}
  BY <1>1, <1>2, <1>7 DEF Cursor!Valid
<1> HIDE DEF U
<1> QED BY <1>1, <1>3, <1>5, <1>6, <1>7

-----------------------------------------------------------------------------
(* A step to the first of the visible entries S, which are to come; and    *)
(* one to the last of them.                                                *)
Going(S) ==
    /\ MergeInv' /\ merge'.forward
    /\ ~ Cursor!Valid(merge') => S = {}
    /\ Cursor!Valid(merge') => Cursor!Entry' \in Cursor!Entries /\ \A e \in Visible : e \in S <=> ~ Cursor!Before(e, Cursor!Entry')
Coming(S) == MergeInv' /\ ~ merge'.forward /\ Rest' = S

LEMMA GoingFrom ==
    ASSUME Base, UNCHANGED children, NEW at, AtOf(at), merge' = Cursor!Forward(at), NEW S, S \subseteq Visible,
           \A c \in Child : \A e \in Seen(c) : e \in S => \E p \in at[c] : AtOrBefore(p, e),
           \A c \in Child : \A p \in at[c] : \A e \in Visible \ S : Cursor!Before(e, p)
    PROVE  Going(S)
<1>1. /\ MergeTypes' /\ merge'.at = at /\ merge'.forward /\ merge'.last = {}
      /\ ~ Cursor!Valid(merge') => \A c \in Child : at[c] = {}
      /\ Cursor!Valid(merge') => \E c \in Child : \E P \in children[c] :
            /\ merge'.current = {c} /\ at[c] = {P} /\ EntryOf(merge') = P
            /\ \A d \in Child : \A p \in at[d] : AtOrBefore(P, p)
  BY ForwardIs DEF MergeTypes
<1>2. AtRight'
  <2>1. \A c \in Child : at[c] \subseteq children'[c] /\ \A x, y \in at[c] : x = y
    BY DEF AtOf
  <2>2. Cursor!Valid(merge') => \E c \in Child : merge'.current = {c} /\ at[c] # {}
    BY <1>1
  <2> QED BY <1>1, <2>1, <2>2 DEF AtRight
<1>3. ASSUME ~ Cursor!Valid(merge') PROVE S = {}
  <2> SUFFICES ASSUME NEW e \in S PROVE FALSE
    OBVIOUS
  <2>1. PICK c \in Child : e \in Seen(c)
    BY EntriesIn
  <2>2. \E p \in at[c] : AtOrBefore(p, e)
    BY <2>1
  <2> QED BY <1>1, <1>3, <2>2
<1>4. ASSUME Cursor!Valid(merge')
      PROVE  /\ Cursor!Entry' \in Cursor!Entries /\ \A e \in Visible : e \in S <=> ~ Cursor!Before(e, Cursor!Entry')
             /\ \A c \in Child :
                   /\ \A p \in at[c] : AtOrBefore(Cursor!Entry', p)
                   /\ \A e \in Seen(c) : ~ Cursor!Before(e, Cursor!Entry') => \E p \in at[c] : AtOrBefore(p, e)
  <2>a. PICK c \in Child : \E P \in children[c] :
            /\ merge'.current = {c} /\ at[c] = {P} /\ EntryOf(merge') = P
            /\ \A d \in Child : \A p \in at[d] : AtOrBefore(P, p)
    BY <1>1, <1>4
  <2>1. PICK P \in children[c] :
            /\ merge'.current = {c} /\ at[c] = {P} /\ EntryOf(merge') = P
            /\ \A d \in Child : \A p \in at[d] : AtOrBefore(P, p)
    BY <2>a
  <2>2. Cursor!Entry' = P /\ P \in Cursor!Entries
    BY <2>1, EntrySame, EntriesIn
  <2>3. ASSUME NEW e \in Visible PROVE e \in S <=> ~ Cursor!Before(e, P)
    <3>1. e \in Cursor!Entries
      BY EntriesIn
    <3>2. ASSUME e \notin S PROVE Cursor!Before(e, P)
      BY <2>1, <3>2
    <3>3. ASSUME e \in S PROVE ~ Cursor!Before(e, P)
      <4>1. PICK d \in Child : e \in Seen(d)
        BY EntriesIn
      <4>2. PICK p \in at[d] : AtOrBefore(p, e)
        BY <3>3, <4>1
      <4>3. p \in Cursor!Entries /\ AtOrBefore(P, p)
        BY <2>1, <4>2, EntriesIn DEF AtOf
      <4>4. AtOrBefore(P, e)
        BY <2>2, <3>1, <4>2, <4>3, EntriesIn, BeforeTransitive
      <4> QED BY <2>2, <3>1, <4>4, Total
    <3> QED BY <3>2, <3>3
  <2>4. ASSUME NEW d \in Child, NEW e \in Seen(d), ~ Cursor!Before(e, P) PROVE \E p \in at[d] : AtOrBefore(p, e)
    <3>1. e \in Visible
      BY EntriesIn
    <3> QED BY <2>3, <2>4, <3>1
  <2> QED BY <2>1, <2>2, <2>3, <2>4
<1>5. AheadRight'
  <2>1. \A c \in Child : Seen(c)' = Seen(c)
    BY SameEntries
  <2> SUFFICES ASSUME Cursor!Valid(merge'), NEW c \in Child
               PROVE  /\ \A p \in at[c] : AtOrBefore(Cursor!Entry', p)
                      /\ \A e \in Seen(c) : ~ Cursor!Before(e, Cursor!Entry') => \E p \in at[c] : AtOrBefore(p, e)
    BY <1>1, <2>1 DEF AheadRight, AtOrBefore, Cursor!Before
  <2> QED BY <1>4
<1>6. RestRight'
  BY <1>1 DEF RestRight
<1> QED BY <1>1, <1>2, <1>3, <1>4, <1>5, <1>6 DEF Going, MergeInv

LEMMA ComingFrom ==
    ASSUME Base, UNCHANGED children, NEW at, AtOf(at), merge' = Cursor!Reverse(at), NEW S, S \subseteq Visible,
           \A c \in Child : \A e \in Seen(c) : e \in S <=> \E p \in at[c] : AtOrBefore(e, p),
           \A e \in S, d \in Visible : Cursor!Before(d, e) => d \in S
    PROVE  Coming(S)
<1>1. /\ MergeTypes' /\ merge'.at = at /\ ~ merge'.forward /\ merge'.last = {}
      /\ ~ Cursor!Valid(merge') => \A c \in Child : at[c] = {}
      /\ Cursor!Valid(merge') => \E c \in Child : \E P \in children[c] :
            /\ merge'.current = {c} /\ at[c] = {P} /\ EntryOf(merge') = P
            /\ \A d \in Child : \A p \in at[d] : AtOrBefore(p, P)
  BY ReverseIs DEF MergeTypes
<1>2. AtRight'
  <2>1. \A c \in Child : at[c] \subseteq children'[c] /\ \A x, y \in at[c] : x = y
    BY DEF AtOf
  <2>2. Cursor!Valid(merge') => \E c \in Child : merge'.current = {c} /\ at[c] # {}
    BY <1>1
  <2> QED BY <1>1, <2>1, <2>2 DEF AtRight
<1>3. \A c \in Child : Remaining(c)' = {e \in Seen(c) : \E p \in at[c] : AtOrBefore(e, p)}
  BY <1>1, SameEntries DEF Remaining, AtOrBefore, Cursor!Before
<1>4. Rest' = S
  <2>1. Rest' = UNION {Remaining(c)' : c \in Child}
    BY DEF Rest
  <2>2. ASSUME NEW e \in S PROVE e \in Rest'
    <3>1. PICK c \in Child : e \in Seen(c)
      BY EntriesIn
    <3>2. \E p \in at[c] : AtOrBefore(e, p)
      BY <3>1
    <3>3. e \in Remaining(c)'
      BY <1>3, <3>1, <3>2
    <3> QED BY <2>1, <3>3
  <2>3. ASSUME NEW e \in Rest' PROVE e \in S
    <3>1. PICK c \in Child : e \in Remaining(c)'
      BY <2>1
    <3>2. e \in Seen(c) /\ \E p \in at[c] : AtOrBefore(e, p)
      BY <1>3, <3>1
    <3> QED BY <3>2
  <2> QED BY <2>2, <2>3
<1>5. ASSUME NEW e \in S PROVE Cursor!Valid(merge') /\ AtOrBefore(e, Cursor!Entry')
  <2>1. PICK c \in Child : e \in Seen(c)
    BY EntriesIn
  <2>2. PICK p \in at[c] : AtOrBefore(e, p)
    BY <2>1
  <2>3. Cursor!Valid(merge')
    BY <1>1, <2>2
  <2>a. PICK d \in Child : \E P \in children[d] :
            EntryOf(merge') = P /\ \A b \in Child : \A q \in at[b] : AtOrBefore(q, P)
    BY <1>1, <2>3
  <2>4. PICK P \in children[d] :
            EntryOf(merge') = P /\ \A b \in Child : \A q \in at[b] : AtOrBefore(q, P)
    BY <2>a
  <2>5. P \in Cursor!Entries /\ e \in Cursor!Entries /\ p \in Cursor!Entries /\ AtOrBefore(p, P) /\ Cursor!Entry' = P
    BY <2>1, <2>2, <2>4, EntriesIn, EntrySame DEF AtOf
  <2>6. AtOrBefore(e, P)
    BY <2>2, <2>5, EntriesIn, BeforeTransitive
  <2> QED BY <2>3, <2>5, <2>6
<1>6. RestRight'
  <2>1. Visible' = Visible
    BY SameEntries
  <2> QED BY <1>4, <1>5, <2>1 DEF RestRight, AtOrBefore, Cursor!Before
<1>7. AheadRight'
  BY <1>1 DEF AheadRight
<1> QED BY <1>1, <1>2, <1>4, <1>6, <1>7 DEF Coming, MergeInv

-----------------------------------------------------------------------------
Placed(c, s) == s \subseteq children[c] /\ \A x, y \in s : x = y

LEMMA FirstOfChild ==
    ASSUME Base, NEW c \in Child, NEW F, F \subseteq children[c]
    PROVE  Placed(c, Cursor!Least(F)) /\ Cursor!Least(F) \subseteq F /\ \A e \in F : \E p \in Cursor!Least(F) : AtOrBefore(p, e)
<1>1. F \subseteq Cursor!Entries
  BY EntriesIn
<1>2. \A e \in F : \E p \in Cursor!Least(F) : AtOrBefore(p, e)
  <2> SUFFICES ASSUME NEW e \in F PROVE \E p \in Cursor!Least(F) : AtOrBefore(p, e)
    OBVIOUS
  <2>1. \E p \in F : Cursor!Least(F) = {p}
    BY <1>1, LeastIs
  <2> QED BY <1>1, <2>1, LeastIs
<1> QED BY <1>1, <1>2, LeastIs DEF Placed

LEMMA LastOfChild ==
    ASSUME Base, NEW c \in Child, NEW F, F \subseteq children[c]
    PROVE  Placed(c, Cursor!Greatest(F)) /\ Cursor!Greatest(F) \subseteq F /\ \A e \in F : \E p \in Cursor!Greatest(F) : AtOrBefore(e, p)
<1>1. F \subseteq Cursor!Entries
  BY EntriesIn
<1>2. \A e \in F : \E p \in Cursor!Greatest(F) : AtOrBefore(e, p)
  <2> SUFFICES ASSUME NEW e \in F PROVE \E p \in Cursor!Greatest(F) : AtOrBefore(e, p)
    OBVIOUS
  <2>1. \E p \in F : Cursor!Greatest(F) = {p}
    BY <1>1, GreatestIs
  <2> QED BY <1>1, <2>1, GreatestIs
<1> QED BY <1>1, <1>2, GreatestIs DEF Placed

LEMMA NextInIs ==
    ASSUME Base, NEW c \in Child, NEW P
    PROVE  /\ Placed(c, Cursor!NextIn(c, {P}))
           /\ \A p \in Cursor!NextIn(c, {P}) : Cursor!Before(P, p)
           /\ \A e \in children[c] : Cursor!Before(P, e) => \E p \in Cursor!NextIn(c, {P}) : AtOrBefore(p, e)
<1> DEFINE F == {e \in children[c] : \A p \in {P} : Cursor!Before(p, e)}
<1>1. Cursor!NextIn(c, {P}) = Cursor!Least(F) /\ F \subseteq children[c] /\ \A e \in children[c] : e \in F <=> Cursor!Before(P, e)
  BY DEF Cursor!NextIn
<1> HIDE DEF F
<1>2. Placed(c, Cursor!Least(F)) /\ Cursor!Least(F) \subseteq F /\ \A e \in F : \E p \in Cursor!Least(F) : AtOrBefore(p, e)
  BY <1>1, FirstOfChild
<1> QED BY <1>1, <1>2

LEMMA PrevInIs ==
    ASSUME Base, NEW c \in Child, NEW P
    PROVE  /\ Placed(c, Cursor!PrevIn(c, {P}))
           /\ \A p \in Cursor!PrevIn(c, {P}) : Cursor!Before(p, P)
           /\ \A e \in children[c] : Cursor!Before(e, P) => \E p \in Cursor!PrevIn(c, {P}) : AtOrBefore(e, p)
<1> DEFINE F == {e \in children[c] : \A p \in {P} : Cursor!Before(e, p)}
<1>1. Cursor!PrevIn(c, {P}) = Cursor!Greatest(F) /\ F \subseteq children[c] /\ \A e \in children[c] : e \in F <=> Cursor!Before(e, P)
  BY DEF Cursor!PrevIn
<1> HIDE DEF F
<1>2. Placed(c, Cursor!Greatest(F)) /\ Cursor!Greatest(F) \subseteq F /\ \A e \in F : \E p \in Cursor!Greatest(F) : AtOrBefore(e, p)
  BY <1>1, LastOfChild
<1> QED BY <1>1, <1>2

LEMMA SeekInIs ==
    ASSUME Base, NEW c \in Child, NEW t
    PROVE  /\ Placed(c, Cursor!SeekIn(c, t))
           /\ \A p \in Cursor!SeekIn(c, t) : ~ Cursor!Before(p, t)
           /\ \A e \in children[c] : ~ Cursor!Before(e, t) => \E p \in Cursor!SeekIn(c, t) : AtOrBefore(p, e)
<1> DEFINE F == {e \in children[c] : ~ Cursor!Before(e, t)}
<1>1. Cursor!SeekIn(c, t) = Cursor!Least(F) /\ F \subseteq children[c] /\ \A e \in children[c] : e \in F <=> ~ Cursor!Before(e, t)
  BY DEF Cursor!SeekIn
<1> HIDE DEF F
<1>2. Placed(c, Cursor!Least(F)) /\ Cursor!Least(F) \subseteq F /\ \A e \in F : \E p \in Cursor!Least(F) : AtOrBefore(p, e)
  BY <1>1, FirstOfChild
<1> QED BY <1>1, <1>2

LEMMA AtAll ==
    ASSUME Base, NEW at, DOMAIN at = Child, at = [c \in Child |-> at[c]], \A c \in Child : Placed(c, at[c])
    PROVE  AtOf(at)
<1>1. \A c \in Child : at[c] \subseteq children[c] /\ children[c] \subseteq Cursor!Written
  BY DEF Placed, Base
<1>2. \A c \in Child : at[c] \in SUBSET Cursor!Written
  BY <1>1
<1>3. at \in [Child -> SUBSET Cursor!Written]
  BY <1>2
<1> QED BY <1>3 DEF AtOf, Placed

LEMMA FirstMove ==
    ASSUME Base, UNCHANGED children, merge' = Cursor!MergeFirst
    PROVE  Going(Visible)
<1> DEFINE at == [c \in Child |-> Cursor!Least(children[c])]
<1>1. /\ merge' = Cursor!Forward(at) /\ DOMAIN at = Child /\ at = [c \in Child |-> at[c]]
      /\ \A c \in Child : at[c] = Cursor!Least(children[c])
  BY DEF Cursor!MergeFirst
<1> HIDE DEF at
<1>2. AtOf(at)
  BY <1>1, FirstOfChild, AtAll
<1>3. \A c \in Child : \A e \in Seen(c) : e \in Visible => \E p \in at[c] : AtOrBefore(p, e)
  BY <1>1, FirstOfChild, EntriesIn
<1> QED BY <1>1, <1>2, <1>3, GoingFrom

LEMMA SeekMove ==
    ASSUME Base, UNCHANGED children, NEW t, t.key \in Nat, t.seq \in Nat, merge' = Cursor!MergeSeek(t)
    PROVE  Going({e \in Visible : ~ Cursor!Before(e, t)})
<1> DEFINE at == [c \in Child |-> Cursor!SeekIn(c, t)]
           S == {e \in Visible : ~ Cursor!Before(e, t)}
<1>1. /\ merge' = Cursor!Forward(at) /\ DOMAIN at = Child /\ at = [c \in Child |-> at[c]]
      /\ \A c \in Child : at[c] = Cursor!SeekIn(c, t)
  BY DEF Cursor!MergeSeek
<1>2. S \subseteq Visible /\ \A e \in Visible : e \in S <=> ~ Cursor!Before(e, t)
  OBVIOUS
<1> HIDE DEF at
<1>3. AtOf(at)
  BY <1>1, SeekInIs, AtAll
<1> HIDE DEF S
<1>4. \A c \in Child : \A e \in Seen(c) : e \in S => \E p \in at[c] : AtOrBefore(p, e)
  BY <1>1, <1>2, SeekInIs, EntriesIn
<1>5. ASSUME NEW c \in Child, NEW p \in at[c], NEW e \in Visible \ S PROVE Cursor!Before(e, p)
  <2>1. ~ Cursor!Before(p, t) /\ Cursor!Before(e, t) /\ p \in children[c]
    BY <1>1, <1>2, <1>5, SeekInIs DEF Placed
  <2>2. p \in Cursor!Written /\ e \in Cursor!Written
    BY <2>1, EntriesIn
  <2>3. p.key \in Nat /\ p.seq \in Nat /\ e.key \in Nat /\ e.seq \in Nat
    BY <2>2, BeforeIs
  <2> QED BY <2>1, <2>3 DEF Cursor!Before
<1>6. Going(S)
  BY <1>1, <1>2, <1>3, <1>4, <1>5, GoingFrom
<1> QED BY <1>6 DEF S

LEMMA NextMove ==
    ASSUME Base, MergeInv, Cursor!Valid(merge), UNCHANGED children, merge' = Cursor!MergeNext
    PROVE  Going({e \in Visible : Cursor!Before(Cursor!Entry, e)})
<1> DEFINE at == [c \in Child |-> IF c \in merge.current \/ ~ merge.forward
                                  THEN Cursor!NextIn(c, {Cursor!Entry}) ELSE merge.at[c]]
           S == {e \in Visible : Cursor!Before(Cursor!Entry, e)}
<1>1. /\ merge' = Cursor!Forward(at) /\ DOMAIN at = Child /\ at = [c \in Child |-> at[c]]
      /\ \A c \in Child : at[c] = IF c \in merge.current \/ ~ merge.forward
                                  THEN Cursor!NextIn(c, {Cursor!Entry}) ELSE merge.at[c]
  BY DEF Cursor!MergeNext
<1>2. S \subseteq Visible /\ \A e \in Visible : e \in S <=> Cursor!Before(Cursor!Entry, e)
  OBVIOUS
<1>3. PICK b \in Child : /\ merge.current = {b} /\ merge.at[b] = {Cursor!Entry}
                         /\ Cursor!Entry \in children[b] /\ Cursor!Entry \in Cursor!Entries
  BY EntryHas DEF MergeInv
<1> HIDE DEF at
<1>4. \A c \in Child : Placed(c, merge.at[c])
  BY DEF MergeInv, AtRight, Placed
<1>5. AtOf(at)
  <2>1. \A c \in Child : Placed(c, at[c])
    <3> SUFFICES ASSUME NEW c \in Child PROVE Placed(c, at[c])
      OBVIOUS
    <3>1. Placed(c, Cursor!NextIn(c, {Cursor!Entry})) /\ Placed(c, merge.at[c])
      BY <1>4, NextInIs
    <3> QED BY <1>1, <3>1
  <2> QED BY <1>1, <2>1, AtAll
<1> HIDE DEF S
<1>6. ASSUME NEW c \in Child, NEW e \in Seen(c), e \in S PROVE \E p \in at[c] : AtOrBefore(p, e)
  <2>1. e \in children[c] /\ e \in Cursor!Entries /\ Cursor!Before(Cursor!Entry, e)
    BY <1>2, <1>6, EntriesIn
  <2>2. CASE c \in merge.current \/ ~ merge.forward
    BY <1>1, <2>1, <2>2, NextInIs
  <2>3. CASE ~ (c \in merge.current \/ ~ merge.forward)
    <3>1. ~ Cursor!Before(e, Cursor!Entry)
      BY <1>3, <2>1, Total
    <3> QED BY <1>1, <2>3, <3>1 DEF MergeInv, AheadRight
  <2> QED BY <2>2, <2>3
<1>7. ASSUME NEW c \in Child, NEW p \in at[c], NEW e \in Visible \ S PROVE Cursor!Before(e, p)
  <2>1. e \in Cursor!Entries /\ ~ Cursor!Before(Cursor!Entry, e) /\ p \in children[c] /\ p \in Cursor!Entries
    BY <1>2, <1>5, EntriesIn DEF AtOf
  <2>2. AtOrBefore(e, Cursor!Entry)
    BY <1>3, <2>1, Total
  <2>3. Cursor!Before(Cursor!Entry, p)
    <3>1. CASE c \in merge.current \/ ~ merge.forward
      BY <1>1, <3>1, NextInIs
    <3>2. CASE ~ (c \in merge.current \/ ~ merge.forward)
      <4>1. p \in merge.at[c] /\ c # b
        BY <1>1, <1>3, <3>2
      <4>2. AtOrBefore(Cursor!Entry, p)
        BY <3>2, <4>1 DEF MergeInv, AheadRight
      <4>3. p # Cursor!Entry
        BY <1>3, <2>1, <4>1, OneChild
      <4> QED BY <4>2, <4>3 DEF AtOrBefore
    <3> QED BY <3>1, <3>2
  <2> QED BY <1>3, <2>1, <2>2, <2>3, EntriesIn, BeforeTransitive
<1>8. Going(S)
  BY <1>1, <1>2, <1>5, <1>6, <1>7, GoingFrom
<1> QED BY <1>8 DEF S

LEMMA LastMove ==
    ASSUME Base, UNCHANGED children, merge' = Cursor!MergeLast
    PROVE  Coming(Visible)
<1> DEFINE at == [c \in Child |-> Cursor!Greatest(children[c])]
<1>1. /\ merge' = Cursor!Reverse(at) /\ DOMAIN at = Child /\ at = [c \in Child |-> at[c]]
      /\ \A c \in Child : at[c] = Cursor!Greatest(children[c])
  BY DEF Cursor!MergeLast
<1> HIDE DEF at
<1>2. AtOf(at)
  BY <1>1, LastOfChild, AtAll
<1>3. \A c \in Child : \A e \in Seen(c) : e \in Visible <=> \E p \in at[c] : AtOrBefore(e, p)
  BY <1>1, LastOfChild, EntriesIn
<1> QED BY <1>1, <1>2, <1>3, ComingFrom

LEMMA RemainingIs ==
    ASSUME Base, NEW e, NEW c \in Child, e \in Seen(c)
    PROVE  e \in Rest <=> c \in merge.last \/ \E p \in merge.at[c] : AtOrBefore(e, p)
<1>1. e \in Remaining(c) <=> c \in merge.last \/ \E p \in merge.at[c] : AtOrBefore(e, p)
  BY DEF Remaining
<1>2. ASSUME e \in Rest PROVE e \in Remaining(c)
  <2>1. PICK d \in Child : e \in Remaining(d)
    BY <1>2 DEF Rest
  <2>2. e \in Seen(d)
    BY <2>1 DEF Remaining
  <2>3. d = c
    BY <2>2, EntriesIn, OneChild
  <2> QED BY <2>1, <2>3
<1>3. ASSUME e \in Remaining(c) PROVE e \in Rest
  BY <1>3 DEF Rest
<1> QED BY <1>1, <1>2, <1>3

LEMMA RestVisible == Rest \subseteq Visible
<1>1. \A c \in Child : Remaining(c) \subseteq Visible
  BY DEF Remaining, Seen, Visible, Cursor!Entries
<1> QED BY <1>1 DEF Rest

LEMMA PrevMove ==
    ASSUME Base, MergeInv, Cursor!Valid(merge), ~ merge.forward, UNCHANGED children, merge' = Cursor!MergePrev
    PROVE  Coming(Rest \ {Cursor!Entry})
<1> DEFINE at == [c \in Child |-> CASE c \in merge.current -> Cursor!PrevIn(c, merge.at[c])
                                    [] c \in merge.last -> Cursor!Greatest(children[c])
                                    [] OTHER -> merge.at[c]]
           S == Rest \ {Cursor!Entry}
<1>1. /\ merge' = Cursor!Reverse(at) /\ DOMAIN at = Child /\ at = [c \in Child |-> at[c]]
      /\ \A c \in Child : at[c] = CASE c \in merge.current -> Cursor!PrevIn(c, merge.at[c])
                                    [] c \in merge.last -> Cursor!Greatest(children[c])
                                    [] OTHER -> merge.at[c]
  BY DEF Cursor!MergePrev
<1> HIDE DEF at
<1>2. PICK b \in Child : /\ merge.current = {b} /\ merge.at[b] = {Cursor!Entry}
                         /\ Cursor!Entry \in children[b] /\ Cursor!Entry \in Cursor!Entries
  BY EntryHas DEF MergeInv
<1>3. /\ at[b] = Cursor!PrevIn(b, {Cursor!Entry}) /\ b \notin merge.last
      /\ \A c \in Child \ {b} : IF c \in merge.last THEN at[c] = Cursor!Greatest(children[c]) ELSE at[c] = merge.at[c]
  BY <1>1, <1>2 DEF MergeInv, AtRight
<1>4. AtOf(at)
  <2>1. ASSUME NEW c \in Child PROVE Placed(c, at[c])
    <3>1. Placed(c, merge.at[c])
      BY DEF MergeInv, AtRight, Placed
    <3>2. Placed(c, Cursor!PrevIn(c, {Cursor!Entry})) /\ Placed(c, Cursor!Greatest(children[c]))
      BY PrevInIs, LastOfChild
    <3> QED BY <1>3, <3>1, <3>2
  <2> QED BY <1>1, <2>1, AtAll
<1> HIDE DEF S
<1>5. S \subseteq Visible
  BY RestVisible DEF S
<1>6. ASSUME NEW c \in Child, NEW e \in Seen(c) PROVE e \in S <=> \E p \in at[c] : AtOrBefore(e, p)
  <2>1. e \in children[c] /\ e \in Cursor!Entries
    BY EntriesIn
  <2>2. e \in Rest <=> c \in merge.last \/ \E p \in merge.at[c] : AtOrBefore(e, p)
    BY RemainingIs
  <2>3. e \in S <=> e \in Rest /\ e # Cursor!Entry
    BY DEF S
  <2>4. CASE c = b
    <3>1. e \in Rest <=> AtOrBefore(e, Cursor!Entry)
      BY <1>2, <1>3, <2>2, <2>4
    <3>2. e \in S <=> Cursor!Before(e, Cursor!Entry)
      BY <1>2, <2>1, <2>3, <3>1, Total DEF AtOrBefore
    <3>3. ASSUME Cursor!Before(e, Cursor!Entry) PROVE \E p \in at[c] : AtOrBefore(e, p)
      BY <1>3, <2>1, <2>4, <3>3, PrevInIs
    <3>4. ASSUME NEW p \in at[c], AtOrBefore(e, p) PROVE Cursor!Before(e, Cursor!Entry)
      <4>1. Cursor!Before(p, Cursor!Entry) /\ p \in Cursor!Entries
        BY <1>3, <1>4, <2>4, PrevInIs, EntriesIn DEF AtOf
      <4> QED BY <1>2, <2>1, <3>4, <4>1, EntriesIn, BeforeTransitive
    <3> QED BY <3>2, <3>3, <3>4
  <2>5. CASE c # b
    <3>1. e # Cursor!Entry
      BY <1>2, <2>1, <2>5, OneChild
    <3>2. CASE c \in merge.last
      <4>1. at[c] = Cursor!Greatest(children[c])
        BY <1>3, <2>5, <3>2
      <4>2. \E p \in Cursor!Greatest(children[c]) : AtOrBefore(e, p)
        BY <2>1, LastOfChild
      <4> QED BY <2>2, <2>3, <3>1, <3>2, <4>1, <4>2
    <3>3. CASE c \notin merge.last
      <4>1. at[c] = merge.at[c]
        BY <1>3, <2>5, <3>3
      <4> QED BY <2>2, <2>3, <3>1, <3>3, <4>1
    <3> QED BY <3>2, <3>3
  <2> QED BY <2>4, <2>5
<1>7. ASSUME NEW e \in S, NEW d \in Visible, Cursor!Before(d, e) PROVE d \in S
  <2>1. e \in Rest /\ e # Cursor!Entry
    BY DEF S
  <2>2. d \in Rest /\ AtOrBefore(e, Cursor!Entry)
    BY <1>7, <2>1 DEF MergeInv, RestRight
  <2>3. Cursor!Before(d, Cursor!Entry)
    BY <1>2, <1>5, <1>7, <2>2, EntriesIn, BeforeTransitive
  <2>4. d # Cursor!Entry
    BY <1>2, <2>3, Total
  <2> QED BY <2>2, <2>4 DEF S
<1>8. Coming(S)
  BY <1>1, <1>4, <1>5, <1>6, <1>7, ComingFrom
<1> QED BY <1>8 DEF S

(* Turning back leaves it where it is. *)
LEMMA TurnMove ==
    ASSUME Base, MergeInv, Cursor!Valid(merge), merge.forward, UNCHANGED children, merge' = Cursor!MergeTurns
    PROVE  /\ Coming({e \in Visible : AtOrBefore(e, Cursor!Entry)})
           /\ Cursor!Valid(merge') /\ Cursor!Entry' = Cursor!Entry
<1>1. PICK b \in Child : /\ merge.current = {b} /\ merge.at[b] = {Cursor!Entry}
                         /\ Cursor!Entry \in children[b] /\ Cursor!Entry \in Cursor!Entries
  BY EntryHas DEF MergeInv
<1> DEFINE others == Child \ merge.current
           behind == {c \in others : Cursor!SeekIn(c, Cursor!Entry) = {}}
           at == [c \in Child |-> IF c \in others THEN Cursor!PrevIn(c, {Cursor!Entry}) ELSE merge.at[c]]
           S == {e \in Visible : AtOrBefore(e, Cursor!Entry)}
<1>2. merge' = [merge EXCEPT !.at = at, !.forward = FALSE, !.last = behind]
  <2>1. merge.at \in [Child -> SUBSET Cursor!Written]
    BY DEF MergeInv, MergeTypes
  <2> QED BY <2>1 DEF Cursor!MergeTurns
<1>3. /\ DOMAIN at = Child /\ at = [c \in Child |-> at[c]] /\ at[b] = {Cursor!Entry}
      /\ \A c \in Child \ {b} : at[c] = Cursor!PrevIn(c, {Cursor!Entry})
  BY <1>1
<1>4. behind \in SUBSET Child /\ b \notin behind /\ \A c \in Child \ {b} : c \in behind <=> Cursor!SeekIn(c, Cursor!Entry) = {}
  BY <1>1
<1> HIDE DEF at, behind
<1>5. AtOf(at)
  <2>1. ASSUME NEW c \in Child PROVE Placed(c, at[c])
    <3>1. Placed(b, {Cursor!Entry}) /\ Placed(c, Cursor!PrevIn(c, {Cursor!Entry}))
      BY <1>1, PrevInIs DEF Placed
    <3> QED BY <1>3, <3>1
  <2> QED BY <1>3, <2>1, AtAll
<1>6. /\ merge' \in [at : [Child -> SUBSET Cursor!Written], current : SUBSET Child, forward : BOOLEAN, last : SUBSET Child]
      /\ merge'.at = at /\ ~ merge'.forward /\ merge'.last = behind /\ merge'.current = {b}
  BY <1>1, <1>2, <1>4, <1>5 DEF MergeInv, MergeTypes, AtOf
<1>7. Cursor!Valid(merge') /\ Cursor!Entry' = Cursor!Entry
  <2>1. EntryOf(merge') = Cursor!Entry
    BY <1>3, <1>6, EntryIs
  <2> QED BY <1>6, <2>1, EntrySame DEF Cursor!Valid
<1>8. AtRight'
  <2>1. \A c \in Child : at[c] \subseteq children'[c] /\ \A x, y \in at[c] : x = y
    BY <1>5 DEF AtOf
  <2> QED BY <1>3, <1>4, <1>6, <2>1 DEF AtRight
<1>9. ASSUME NEW c \in Child, NEW e \in Seen(c)
      PROVE  AtOrBefore(e, Cursor!Entry) <=> c \in behind \/ \E p \in at[c] : AtOrBefore(e, p)
  <2>1. e \in children[c] /\ e \in Cursor!Entries
    BY EntriesIn
  <2>2. CASE c = b
    BY <1>3, <1>4, <2>2
  <2>3. CASE c # b
    <3>1. e # Cursor!Entry
      BY <1>1, <2>1, <2>3, OneChild
    <3>2. AtOrBefore(e, Cursor!Entry) <=> Cursor!Before(e, Cursor!Entry)
      BY <1>1, <2>1, <3>1, Total DEF AtOrBefore
    <3>3. ASSUME Cursor!Before(e, Cursor!Entry) PROVE \E p \in at[c] : AtOrBefore(e, p)
      BY <1>3, <2>1, <2>3, <3>3, PrevInIs
    <3>4. ASSUME NEW p \in at[c], AtOrBefore(e, p) PROVE Cursor!Before(e, Cursor!Entry)
      <4>1. Cursor!Before(p, Cursor!Entry) /\ p \in Cursor!Entries
        BY <1>3, <1>5, <2>3, PrevInIs, EntriesIn DEF AtOf
      <4> QED BY <1>1, <2>1, <3>4, <4>1, EntriesIn, BeforeTransitive
    <3>5. ASSUME c \in behind PROVE Cursor!Before(e, Cursor!Entry)
      <4>1. Cursor!SeekIn(c, Cursor!Entry) = {}
        BY <1>4, <2>3, <3>5
      <4> QED BY <2>1, <4>1, SeekInIs
    <3> QED BY <3>2, <3>3, <3>4, <3>5
  <2> QED BY <2>2, <2>3
<1>10. Rest' = S
  <2>1. \A c \in Child : Remaining(c)' = {e \in Seen(c) : c \in behind \/ \E p \in at[c] : AtOrBefore(e, p)}
    BY <1>6, SameEntries DEF Remaining, AtOrBefore, Cursor!Before
  <2>2. Rest' = UNION {Remaining(c)' : c \in Child}
    BY DEF Rest
  <2>3. ASSUME NEW e \in S PROVE e \in Rest'
    <3>1. PICK c \in Child : e \in Seen(c)
      BY EntriesIn
    <3>2. e \in Remaining(c)'
      BY <1>9, <2>1, <3>1
    <3> QED BY <2>2, <3>2
  <2>4. ASSUME NEW e \in Rest' PROVE e \in S
    <3>1. PICK c \in Child : e \in Remaining(c)'
      BY <2>2
    <3>2. e \in Seen(c) /\ AtOrBefore(e, Cursor!Entry)
      BY <1>9, <2>1, <3>1
    <3> QED BY <3>2, EntriesIn
  <2> QED BY <2>3, <2>4
<1>11. RestRight'
  <2>1. \A e \in S, d \in Visible : Cursor!Before(d, e) => d \in S
    <3> SUFFICES ASSUME NEW e \in S, NEW d \in Visible, Cursor!Before(d, e) PROVE Cursor!Before(d, Cursor!Entry)
      BY DEF AtOrBefore
    <3> QED BY <1>1, EntriesIn, BeforeTransitive
  <2>2. Visible' = Visible
    BY SameEntries
  <2>3. \A e \in S : AtOrBefore(e, Cursor!Entry)
    OBVIOUS
  <2> HIDE DEF S
  <2> QED BY <1>7, <1>10, <2>1, <2>2, <2>3 DEF RestRight, AtOrBefore, Cursor!Before
<1>12. AheadRight'
  BY <1>6 DEF AheadRight
<1>13. Coming(S)
  BY <1>6, <1>8, <1>10, <1>11, <1>12 DEF Coming, MergeInv, MergeTypes
<1> QED BY <1>7, <1>13

-----------------------------------------------------------------------------
(* What the iterator is over. *)
LEMMA NewestEntryIs ==
    ASSUME Base, NEW k
    PROVE  /\ Cursor!Newest(k) \subseteq Visible
           /\ \A n \in Cursor!Newest(k) : n.key = k /\ \A d \in Visible : d.key = k => AtOrBefore(n, d)
           /\ \A n \in Visible : n.key = k /\ (\A d \in Visible : d.key = k => AtOrBefore(n, d)) => Cursor!Newest(k) = {n}
           /\ \A n \in Cursor!Newest(k) : Cursor!Newest(k) = {n}
<1> DEFINE E == {e \in Cursor!Entries : e.key = k /\ e.seq <= Snapshot}
<1>1. Cursor!Newest(k) = Cursor!Least(E) /\ E \subseteq Cursor!Entries /\ \A e : e \in E <=> e \in Visible /\ e.key = k
  BY DEF Cursor!Newest, Visible
<1> HIDE DEF E
<1>2. /\ Cursor!Newest(k) \subseteq E /\ \A n \in Cursor!Newest(k), d \in E : AtOrBefore(n, d)
      /\ \A x, y \in Cursor!Newest(k) : x = y
  BY <1>1, LeastIs
<1>3. ASSUME NEW n \in Visible, n.key = k, \A d \in Visible : d.key = k => AtOrBefore(n, d)
      PROVE  Cursor!Newest(k) = {n}
  <2>1. n \in E /\ \A d \in E : d = n \/ Cursor!Before(n, d)
    BY <1>1, <1>3 DEF AtOrBefore
  <2>2. n \in Cursor!Least(E)
    BY <2>1 DEF Cursor!Least
  <2> QED BY <1>1, <1>2, <2>2
<1> QED BY <1>1, <1>2, <1>3

LEMMA LiveIs ==
    ASSUME Base
    PROVE  /\ Cursor!Live \subseteq UserKey /\ Cursor!Live \subseteq Nat /\ 0 \notin Cursor!Live
           /\ \A k \in Cursor!Live : \E n \in Visible :
                 /\ Cursor!Newest(k) = {n} /\ n.key = k /\ ~ n.del
                 /\ \A d \in Visible : d.key = k => AtOrBefore(n, d)
           /\ \A n \in Visible : ~ n.del /\ (\A d \in Visible : d.key = n.key => AtOrBefore(n, d)) =>
                 n.key \in Cursor!Live /\ Cursor!Newest(n.key) = {n}
<1>1. Cursor!Live = {k \in UserKey : \E e \in Cursor!Newest(k) : ~ e.del}
  BY DEF Cursor!Live
<1>2. UserKey \subseteq Nat \ {0}
  BY IteratorConstants DEF Cursor!IteratorAssumption
<1>3. Cursor!Live \subseteq UserKey /\ Cursor!Live \subseteq Nat /\ 0 \notin Cursor!Live
  BY <1>1, <1>2
<1>4. ASSUME NEW k \in Cursor!Live
      PROVE  \E n \in Visible : /\ Cursor!Newest(k) = {n} /\ n.key = k /\ ~ n.del
                                /\ \A d \in Visible : d.key = k => AtOrBefore(n, d)
  <2>1. PICK n \in Cursor!Newest(k) : ~ n.del
    BY <1>1
  <2> QED BY <2>1, NewestEntryIs
<1>5. ASSUME NEW n \in Visible, ~ n.del, \A d \in Visible : d.key = n.key => AtOrBefore(n, d)
      PROVE  n.key \in Cursor!Live /\ Cursor!Newest(n.key) = {n}
  <2>1. Cursor!Newest(n.key) = {n}
    BY <1>5, NewestEntryIs
  <2>2. n.key \in UserKey
    BY EntriesIn, BeforeIs
  <2> QED BY <1>1, <1>5, <2>1, <2>2
<1> QED BY <1>3, <1>4, <1>5

LEMMA VisibleIs ==
    ASSUME Base, NEW e \in Visible
    PROVE  /\ e \in Cursor!Entries /\ e \in Cursor!Written /\ e.seq <= Snapshot
           /\ e.key \in Nat /\ e.seq \in Nat /\ e.key \in UserKey /\ e.key # 0 /\ e.del \in BOOLEAN
<1>1. e \in Cursor!Entries /\ e \in Cursor!Written /\ e.seq <= Snapshot
  BY EntriesIn DEF Visible
<1>2. e.key \in Nat /\ e.seq \in Nat /\ e.key \in UserKey /\ e.key > 0
  BY <1>1, BeforeIs
<1>3. e.del \in BOOLEAN
  BY <1>1 DEF Cursor!Written
<1>4. e.key # 0
  BY <1>2
<1> QED BY <1>1, <1>2, <1>3, <1>4

LEMMA InitIter == Cursor!Init => IterInv
<1> SUFFICES ASSUME Cursor!Init PROVE IterInv
  OBVIOUS
<1>1. Base
  BY IteratorConstants DEF Cursor!Init, Base, Cursor!IteratorAssumption
<1>2. merge = [at |-> [c \in Child |-> {}], current |-> {}, forward |-> TRUE, last |-> {}]
  BY DEF Cursor!Init
<1>3. ~ Cursor!Valid(merge) /\ merge.forward /\ merge.last = {} /\ \A c \in Child : merge.at[c] = {}
  BY <1>2 DEF Cursor!Valid
<1>4. MergeInv
  <2>1. MergeTypes
    <3>1. [c \in Child |-> {}] \in [Child -> SUBSET Cursor!Written]
      OBVIOUS
    <3> QED BY <1>2, <3>1 DEF MergeTypes
  <2>2. AtRight /\ AheadRight /\ RestRight
    BY <1>3 DEF AtRight, AheadRight, RestRight
  <2> QED BY <2>1, <2>2 DEF MergeInv
<1>5. CallTypes
  BY DEF Cursor!Init, CallTypes, Calls
<1>6. CallRight
  BY DEF Cursor!Init, CallRight, Cursor!Idle
<1> QED BY <1>1, <1>4, <1>5, <1>6 DEF IterInv

(* A write is of an entry that is not visible. *)
LEMMA InsertBase ==
    ASSUME Base, NEW k \in UserKey, Cursor!Insert(k)
    PROVE  /\ Base' /\ Visible' = Visible
           /\ \A c \in Child : Seen(c)' = Seen(c) /\ children[c] \subseteq children'[c]
<1> DEFINE later == {e \in Cursor!Entries : e.seq > Snapshot}
           new == [key |-> k, seq |-> Snapshot + Cardinality(later) + 1, del |-> FALSE]
<1>1. 1 \in Child /\ Snapshot \in Nat
  BY IteratorConstants DEF Cursor!IteratorAssumption
<1>2. IsFiniteSet(Cursor!Entries) /\ IsFiniteSet(later) /\ Cardinality(later) \in Nat
  <2>1. later \subseteq Cursor!Entries
    OBVIOUS
  <2> HIDE DEF later
  <2> QED BY <2>1, EntriesIn, FS_Subset, FS_CardinalityType
<1>3. children' = [children EXCEPT ![1] = @ \cup {new}]
  BY CursorCardinality DEF Cursor!Insert
<1>4. new \in Cursor!Written /\ new.seq = Snapshot + Cardinality(later) + 1
  BY <1>1, <1>2 DEF Cursor!Written
<1>5. \A e \in Cursor!Entries : e.seq <= Snapshot + Cardinality(later) /\ e.seq \in Nat
  <2>1. \A e \in Cursor!Entries : e.seq <= Snapshot + Cardinality(later)
    BY CursorCardinality DEF Base, Cursor!Numbered, Cursor!Entries
  <2>2. \A e \in Cursor!Entries : e.seq \in Nat
    BY EntriesIn, BeforeIs
  <2> QED BY <2>1, <2>2
<1>6. new.seq > Snapshot /\ ~ (new.seq <= Snapshot) /\ \A e \in Cursor!Entries : e.seq # new.seq
  <2> DEFINE n == Cardinality(later)
  <2>1. n \in Nat /\ new.seq = Snapshot + n + 1 /\ \A e \in Cursor!Entries : e.seq <= Snapshot + n /\ e.seq \in Nat
    BY <1>2, <1>4, <1>5
  <2> HIDE DEF n, new, later
  <2> QED BY <1>1, <2>1
<1> HIDE DEF new
<1>7. /\ children' \in [Child -> SUBSET Cursor!Written] /\ children'[1] = children[1] \cup {new}
      /\ \A c \in Child \ {1} : children'[c] = children[c]
  BY <1>1, <1>3, <1>4 DEF Base
<1>8. Cursor!Entries' = Cursor!Entries \cup {new}
  <2>1. Cursor!Entries' = UNION {children'[c] : c \in Child}
    BY DEF Cursor!Entries
  <2> QED BY <1>1, <1>7, <2>1 DEF Cursor!Entries
<1>9. Cursor!Numbered(children')
  <2>1. UNION {children'[d] : d \in Child} = Cursor!Entries \cup {new}
    BY <1>8 DEF Cursor!Entries
  <2>2. IsFiniteSet(Cursor!Entries \cup {new})
    BY <1>2, FS_AddElement
  <2>3. ASSUME NEW d \in Child, NEW e \in Child, NEW a \in children'[d], NEW b \in children'[e], a.seq = b.seq
        PROVE  d = e /\ a = b
    <3>1. (a \in children[d] \/ (a = new /\ d = 1)) /\ (b \in children[e] \/ (b = new /\ e = 1))
      BY <1>7
    <3>2. \A c \in Child : \A x \in children[c] : x.seq # new.seq
      BY <1>6, EntriesIn
    <3>3. CASE a = new /\ d = 1
      BY <2>3, <3>1, <3>2, <3>3
    <3>4. CASE b = new /\ e = 1
      BY <2>3, <3>1, <3>2, <3>4
    <3>5. CASE a \in children[d] /\ b \in children[e]
      BY <2>3, <3>5, OneChild
    <3> QED BY <3>1, <3>3, <3>4, <3>5
  <2>4. {b \in Cursor!Entries \cup {new} : b.seq > Snapshot} = later \cup {new}
    BY <1>6
  <2>5. Cardinality(later \cup {new}) = Cardinality(later) + 1
    <3>1. new \notin later
      BY <1>6
    <3> HIDE DEF later
    <3> QED BY <1>2, <3>1, FS_AddElement
  <2>6. \A a \in Cursor!Entries \cup {new} : a.seq <= Snapshot + Cardinality(later \cup {new})
    <3> DEFINE n == Cardinality(later)
    <3>1. n \in Nat /\ new.seq = Snapshot + n + 1 /\ \A e \in Cursor!Entries : e.seq <= Snapshot + n /\ e.seq \in Nat
      BY <1>2, <1>4, <1>5
    <3>2. Cardinality(later \cup {new}) = n + 1
      BY <2>5
    <3> HIDE DEF n, later
    <3> QED BY <1>1, <3>1, <3>2
  <2> HIDE DEF later
  <2> QED BY <2>1, <2>2, <2>3, <2>4, <2>6, CursorCardinality, CursorFinite DEF Cursor!Numbered
<1>10. Visible' = Visible
  BY <1>1, <1>6, <1>8 DEF Visible
<1>11. \A c \in Child : Seen(c)' = Seen(c) /\ children[c] \subseteq children'[c]
  <2> SUFFICES ASSUME NEW c \in Child PROVE Seen(c)' = Seen(c) /\ children[c] \subseteq children'[c]
    OBVIOUS
  <2>1. CASE c = 1
    BY <1>1, <1>6, <1>7, <2>1 DEF Seen
  <2>2. CASE c # 1
    BY <1>7, <2>2 DEF Seen
  <2> QED BY <2>1, <2>2
<1> QED BY <1>7, <1>9, <1>10, <1>11 DEF Base

LEMMA StaysSame ==
    ASSUME Visible' = Visible, \A c \in Child : Seen(c)' = Seen(c), UNCHANGED merge
    PROVE  /\ Cursor!Entry' = Cursor!Entry /\ Rest' = Rest /\ Cursor!Valid(merge)' = Cursor!Valid(merge)
           /\ Cursor!Live' = Cursor!Live /\ \A k : Cursor!Newest(k)' = Cursor!Newest(k)
<1>1. Cursor!Entry' = Cursor!Entry /\ Cursor!Valid(merge)' = Cursor!Valid(merge)
  BY DEF Cursor!Entry, Cursor!Valid
<1>2. Rest' = Rest
  <2>1. \A c \in Child : Remaining(c)' = Remaining(c)
    BY DEF Remaining, AtOrBefore, Cursor!Before
  <2> QED BY <2>1 DEF Rest
<1>3. \A k : Cursor!Newest(k)' = Cursor!Newest(k)
  <2>1. \A k : {e \in Cursor!Entries : e.key = k /\ e.seq <= Snapshot} = {e \in Visible : e.key = k}
    BY DEF Visible
  <2>2. \A k : {e \in Cursor!Entries' : e.key = k /\ e.seq <= Snapshot} = {e \in Visible' : e.key = k}
    BY DEF Visible
  <2>3. \A k : Cursor!Newest(k) = Cursor!Least({e \in Visible : e.key = k})
    BY <2>1 DEF Cursor!Newest
  <2>4. \A k : Cursor!Newest(k)' = Cursor!Least({e \in Visible' : e.key = k})
    BY <2>2 DEF Cursor!Newest, Cursor!Least, Cursor!Before
  <2> QED BY <2>3, <2>4
<1>4. Cursor!Live' = Cursor!Live
  BY <1>3 DEF Cursor!Live
<1> QED BY <1>1, <1>2, <1>3, <1>4

(* A step that leaves the MergingIterator and what is visible alone. *)
LEMMA MergeStays ==
    ASSUME Visible' = Visible, \A c \in Child : Seen(c)' = Seen(c) /\ children[c] \subseteq children'[c],
           UNCHANGED merge, MergeInv
    PROVE  MergeInv'
<1>1. Cursor!Entry' = Cursor!Entry /\ Rest' = Rest /\ Cursor!Valid(merge)' = Cursor!Valid(merge)
  BY StaysSame
<1>2. MergeTypes' /\ AtRight'
  BY <1>1 DEF MergeInv, MergeTypes, AtRight
<1>3. AheadRight'
  BY <1>1 DEF MergeInv, AheadRight, AtOrBefore, Cursor!Before
<1>4. RestRight'
  BY <1>1 DEF MergeInv, RestRight, AtOrBefore, Cursor!Before
<1> QED BY <1>2, <1>3, <1>4 DEF MergeInv

LEMMA CallStays ==
    ASSUME Visible' = Visible, \A c \in Child : Seen(c)' = Seen(c), UNCHANGED <<merge, iter, expected>>, CallRight
    PROVE  CallRight'
<1>1. /\ Cursor!Entry' = Cursor!Entry /\ Rest' = Rest /\ Cursor!Valid(merge)' = Cursor!Valid(merge)
      /\ Cursor!Live' = Cursor!Live /\ \A k : Cursor!Newest(k)' = Cursor!Newest(k)
  BY StaysSame
<1>2. \A k : Skipped(k)' <=> Skipped(k)
  BY DEF Skipped
<1>3. NextRight' <=> NextRight
  <2>1. {k \in Cursor!Live' : ~ Skipped(k)' /\ \E e \in Cursor!Newest(k)' : ~ Cursor!Before(e, Cursor!Entry')}
          = {k \in Cursor!Live : ~ Skipped(k) /\ \E e \in Cursor!Newest(k) : ~ Cursor!Before(e, Cursor!Entry)}
    BY <1>1, <1>2
  <2>2. expected' = Cursor!LeastKey({k \in Cursor!Live' : ~ Skipped(k)' /\ \E e \in Cursor!Newest(k)' : ~ Cursor!Before(e, Cursor!Entry')})
          <=> expected = Cursor!LeastKey({k \in Cursor!Live : ~ Skipped(k) /\ \E e \in Cursor!Newest(k) : ~ Cursor!Before(e, Cursor!Entry)})
    BY <2>1
  <2> QED BY <1>1, <1>2, <2>2 DEF NextRight, Cursor!LeastKey, Cursor!Before
<1>4. ASSUME NEW R PROVE PrevRight(R)' <=> PrevRight(R)
  <2>1. {k \in Cursor!Live' : \E e \in Cursor!Newest(k)' : e \in R \/ (iter.found /\ e.key = iter.saved /\ e.seq = iter.savedSeq)}
          = {k \in Cursor!Live : \E e \in Cursor!Newest(k) : e \in R \/ (iter.found /\ e.key = iter.saved /\ e.seq = iter.savedSeq)}
    BY <1>1
  <2> QED BY <1>1, <2>1 DEF PrevRight, AtOrBefore, Cursor!Before, Cursor!GreatestKey
<1>5. (ScanRight' <=> ScanRight) /\ (AtEntry' <=> AtEntry) /\ (BeforeEntries' <=> BeforeEntries)
  BY <1>1 DEF ScanRight, AtEntry, BeforeEntries, Cursor!GreatestKey
<1> QED BY <1>1, <1>3, <1>4, <1>5 DEF CallRight, Cursor!Idle
LEMMA InsertStep == ASSUME IterInv, NEW k \in UserKey, Cursor!Insert(k) PROVE IterInv'
<1>1. Base' /\ Visible' = Visible /\ \A c \in Child : Seen(c)' = Seen(c) /\ children[c] \subseteq children'[c]
  BY InsertBase DEF IterInv
<1>2. UNCHANGED <<merge, iter, expected>>
  BY DEF Cursor!Insert
<1>3. MergeInv' /\ CallRight'
  BY <1>1, <1>2, MergeStays, CallStays DEF IterInv
<1>4. CallTypes'
  BY <1>2 DEF IterInv, CallTypes
<1> QED BY <1>1, <1>3, <1>4 DEF IterInv

LEMMA SameChildren ==
    ASSUME IterInv, UNCHANGED children
    PROVE  /\ Base' /\ Visible' = Visible
           /\ \A c \in Child : Seen(c)' = Seen(c) /\ children[c] \subseteq children'[c]
           /\ Cursor!Live' = Cursor!Live /\ \A k : Cursor!Newest(k)' = Cursor!Newest(k)
<1>1. Base'
  BY DEF IterInv, Base, Cursor!Numbered
<1>2. \A c \in Child : children[c] \subseteq children'[c]
  OBVIOUS
<1> QED BY <1>1, <1>2, SameEntries

-----------------------------------------------------------------------------
(* FindNextUserEntry.  It begins, or goes on, with the visible entries S   *)
(* to come and what the call it says is skipped.                           *)
SkippedBy(it, k) == it.skipping /\ k <= it.saved
Onward(it, S) == {k \in Cursor!Live : ~ SkippedBy(it, k) /\ \E e \in Cursor!Newest(k) : e \in S}
OnwardRight(it, S) ==
    \A f \in S : /\ it.skipping => it.saved <= f.key
                 /\ \A e \in Visible \ S : e.key = f.key => SkippedBy(it, f.key)

LEMMA NextFrom ==
    ASSUME IterInv, UNCHANGED children, MergeInv', merge'.forward, Cursor!Valid(merge'), NEW S, S \subseteq Visible,
           \A e \in Visible : e \in S <=> ~ Cursor!Before(e, Cursor!Entry'),
           NEW it \in Calls, it.forward, iter' = [it EXCEPT !.pc = "next"],
           expected' = Cursor!LeastKey(Onward(it, S)), OnwardRight(it, S)
    PROVE  IterInv'
<1>1. Base' /\ Visible' = Visible /\ Cursor!Live' = Cursor!Live /\ \A k : Cursor!Newest(k)' = Cursor!Newest(k)
  BY SameChildren
<1>2. CallTypes' /\ iter'.pc = "next" /\ iter'.forward /\ iter'.skipping = it.skipping /\ iter'.saved = it.saved
  BY DEF Calls, CallTypes
<1>3. \A k : Skipped(k)' <=> SkippedBy(it, k)
  BY <1>2 DEF Skipped, SkippedBy
<1>4. expected' = Cursor!LeastKey({k \in Cursor!Live : ~ Skipped(k)' /\ \E e \in Cursor!Newest(k) : ~ Cursor!Before(e, Cursor!Entry')})
  <2>1. \A k : \A e \in Cursor!Newest(k) : e \in S <=> ~ Cursor!Before(e, Cursor!Entry')
    BY NewestEntryIs DEF IterInv
  <2>2. Onward(it, S) = {k \in Cursor!Live : ~ Skipped(k)' /\ \E e \in Cursor!Newest(k) : ~ Cursor!Before(e, Cursor!Entry')}
    BY <1>3, <2>1 DEF Onward
  <2> QED BY <2>2
<1>5. \A f \in Visible : ~ Cursor!Before(f, Cursor!Entry') =>
          /\ iter'.skipping => iter'.saved <= f.key
          /\ \A e \in Visible : Cursor!Before(e, Cursor!Entry') /\ e.key = f.key => Skipped(f.key)'
  <2> SUFFICES ASSUME NEW f \in Visible, ~ Cursor!Before(f, Cursor!Entry')
               PROVE  /\ iter'.skipping => iter'.saved <= f.key
                      /\ \A e \in Visible : Cursor!Before(e, Cursor!Entry') /\ e.key = f.key => Skipped(f.key)'
    OBVIOUS
  <2>1. f \in S
    OBVIOUS
  <2>2. \A e \in Visible : Cursor!Before(e, Cursor!Entry') => e \in Visible \ S
    OBVIOUS
  <2> QED BY <1>2, <1>3, <2>1, <2>2 DEF OnwardRight
<1>6. NextRight'
  BY <1>1, <1>2, <1>4, <1>5 DEF NextRight, Cursor!LeastKey, Cursor!Before
<1>7. CallRight'
  BY <1>2, <1>6 DEF CallRight, Cursor!Idle
<1> QED BY <1>1, <1>2, <1>7 DEF IterInv

LEMMA FindNextFrom ==
    ASSUME IterInv, UNCHANGED children, NEW S, S \subseteq Visible, Going(S),
           NEW it \in Calls, it.forward, iter' = Cursor!FindNextIn(merge', it),
           expected' = Cursor!LeastKey(Onward(it, S)), OnwardRight(it, S)
    PROVE  IterInv'
<1>1. CASE Cursor!Valid(merge')
  <2>1. iter' = [it EXCEPT !.pc = "next"]
    BY <1>1 DEF Cursor!FindNextIn
  <2>2. MergeInv' /\ merge'.forward /\ \A e \in Visible : e \in S <=> ~ Cursor!Before(e, Cursor!Entry')
    BY <1>1 DEF Going
  <2> QED BY <1>1, <2>1, <2>2, NextFrom
<1>2. CASE ~ Cursor!Valid(merge')
  <2>1. iter' = [Cursor!Invalid EXCEPT !.forward = TRUE]
    BY <1>2 DEF Cursor!FindNextIn
  <2>2. Cursor!Invalid \in Calls /\ Cursor!Invalid.pc = "idle" /\ Cursor!Invalid.valid = FALSE
    BY DEF Cursor!Invalid, IterInv, CallTypes, Calls
  <2>3. iter' \in Calls /\ iter'.pc = "idle" /\ iter'.valid = FALSE
    BY <2>1, <2>2 DEF Calls
  <2>4. expected' = 0
    <3>1. S = {} /\ Onward(it, {}) = {}
      BY <1>2 DEF Going, Onward
    <3> QED BY <3>1, NoKeys
  <2>5. CallRight'
    BY <2>3, <2>4 DEF CallRight, Cursor!Idle
  <2> QED BY <2>3, <2>5, SameChildren DEF Going, IterInv, CallTypes
<1> QED BY <1>1, <1>2

LEMMA SeekFrom ==
    ASSUME IterInv, NEW m, Cursor!Sought(m), NEW S, S \subseteq Visible, Going(S),
           expected' = Cursor!LeastKey({k \in Cursor!Live : \E e \in Cursor!Newest(k) : e \in S}),
           \A f \in S, e \in Visible \ S : e.key # f.key
    PROVE  IterInv'
<1> DEFINE it == [iter EXCEPT !.forward = TRUE, !.saved = 0, !.savedSeq = 0, !.skipping = FALSE]
<1>1. it \in Calls /\ it.forward /\ it.skipping = FALSE
  BY DEF IterInv, CallTypes, Calls
<1>2. iter' = Cursor!FindNextIn(merge', it) /\ UNCHANGED children
  BY DEF Cursor!Sought
<1> HIDE DEF it
<1>3. Onward(it, S) = {k \in Cursor!Live : \E e \in Cursor!Newest(k) : e \in S}
  BY <1>1 DEF Onward, SkippedBy
<1>4. OnwardRight(it, S)
  BY <1>1 DEF OnwardRight
<1> QED BY <1>1, <1>2, <1>3, <1>4, FindNextFrom

LEMMA SeekToFirstStep == ASSUME IterInv, Cursor!SeekToFirst PROVE IterInv'
<1>1. Cursor!Sought(Cursor!MergeFirst) /\ merge' = Cursor!MergeFirst /\ UNCHANGED children /\ expected' = Cursor!LeastKey(Cursor!Live)
  BY DEF Cursor!SeekToFirst, Cursor!Sought
<1>2. Going(Visible)
  BY <1>1, FirstMove DEF IterInv
<1>3. {k \in Cursor!Live : \E e \in Cursor!Newest(k) : e \in Visible} = Cursor!Live
  BY LiveIs DEF IterInv
<1> QED BY <1>1, <1>2, <1>3, SeekFrom

LEMMA SeekStep == ASSUME IterInv, NEW t \in UserKey, Cursor!Seek(t) PROVE IterInv'
<1> DEFINE T == [key |-> t, seq |-> Snapshot]
           S == {e \in Visible : ~ Cursor!Before(e, T)}
<1>1. /\ Cursor!Sought(Cursor!MergeSeek(T)) /\ merge' = Cursor!MergeSeek(T) /\ UNCHANGED children
      /\ expected' = Cursor!LeastKey({k \in Cursor!Live : k >= t})
  BY DEF Cursor!Seek, Cursor!Sought
<1>2. T.key = t /\ T.seq = Snapshot /\ t \in Nat /\ Snapshot \in Nat
  <2>1. UserKey \subseteq Nat \ {0} /\ Snapshot \in Nat
    BY IteratorConstants DEF Cursor!IteratorAssumption
  <2> QED BY <2>1
<1> HIDE DEF T
<1>3. Going(S)
  BY <1>1, <1>2, SeekMove DEF IterInv
<1>4. \A e \in Visible : e \in S <=> e.key >= t
  <2> SUFFICES ASSUME NEW e \in Visible PROVE ~ Cursor!Before(e, T) <=> e.key >= t
    OBVIOUS
  <2>1. e.key \in Nat /\ e.seq \in Nat /\ e.seq <= Snapshot
    BY VisibleIs DEF IterInv
  <2> QED BY <1>2, <2>1 DEF Cursor!Before
<1>5. S \subseteq Visible
  OBVIOUS
<1> HIDE DEF S
<1>6. {k \in Cursor!Live : k >= t} = {k \in Cursor!Live : \E e \in Cursor!Newest(k) : e \in S}
  <2>1. \A k \in Cursor!Live : k >= t <=> \E e \in Cursor!Newest(k) : e \in S
    <3> SUFFICES ASSUME NEW k \in Cursor!Live PROVE k >= t <=> \E e \in Cursor!Newest(k) : e \in S
      OBVIOUS
    <3>1. PICK n \in Visible : Cursor!Newest(k) = {n} /\ n.key = k
      BY LiveIs DEF IterInv
    <3> QED BY <1>4, <3>1
  <2> QED BY <2>1
<1>7. \A f \in S, e \in Visible \ S : e.key # f.key
  BY <1>4, <1>5
<1> QED BY <1>1, <1>3, <1>5, <1>6, <1>7, SeekFrom

LEMMA DBIterNextStep == ASSUME IterInv, Cursor!DBIterNext PROVE IterInv'
<1> DEFINE K == {k \in Cursor!Live : k > expected}
<1>1. /\ Cursor!Idle /\ iter.valid /\ UNCHANGED children /\ expected' = Cursor!LeastKey(K)
      /\ iter \in Calls /\ Base /\ MergeInv
  BY DEF Cursor!DBIterNext, IterInv, CallTypes
<1>2. /\ Base' /\ Visible' = Visible
      /\ \A c \in Child : Seen(c)' = Seen(c) /\ children[c] \subseteq children'[c]
  BY <1>1, SameChildren
<1>3. CASE iter.forward
  <2> DEFINE it == [iter EXCEPT !.saved = Cursor!Entry.key, !.skipping = TRUE]
             S == {e \in Visible : ~ Cursor!Before(e, Cursor!Entry)}
  <2>1. /\ iter' = [iter EXCEPT !.pc = "next", !.saved = Cursor!Entry.key, !.skipping = TRUE] /\ UNCHANGED merge
    BY <1>3 DEF Cursor!DBIterNext
  <2>2. AtEntry
    BY <1>1, <1>3 DEF IterInv, CallRight
  <2>3. merge.forward /\ Cursor!Valid(merge) /\ Cursor!Entry \in Visible /\ expected = Cursor!Entry.key
    BY <1>1, <2>2, NewestEntryIs DEF AtEntry
  <2>4. Cursor!Entry.key \in Nat /\ Cursor!Entry \in Cursor!Entries /\ Cursor!Entry \in Cursor!Written
    BY <1>1, <2>3, VisibleIs
  <2>5. it \in Calls /\ it.forward /\ it.skipping /\ it.saved = Cursor!Entry.key /\ iter' = [it EXCEPT !.pc = "next"]
    BY <1>1, <1>3, <2>1, <2>4 DEF Calls
  <2> HIDE DEF it
  <2>6. MergeInv' /\ Cursor!Entry' = Cursor!Entry /\ merge'.forward /\ Cursor!Valid(merge')
    BY <1>1, <1>2, <2>1, <2>3, MergeStays, StaysSame DEF Cursor!Valid
  <2>7. S \subseteq Visible /\ \A e \in Visible : e \in S <=> ~ Cursor!Before(e, Cursor!Entry)
    OBVIOUS
  <2> HIDE DEF S
  <2>8. \A e \in Visible : (e \in S => Cursor!Entry.key <= e.key) /\ (e \notin S => e.key <= Cursor!Entry.key)
    <3> SUFFICES ASSUME NEW e \in Visible
                 PROVE  (e \in S => Cursor!Entry.key <= e.key) /\ (e \notin S => e.key <= Cursor!Entry.key)
      OBVIOUS
    <3>1. e \in Cursor!Entries /\ e \in Cursor!Written /\ e.key \in Nat
      BY <1>1, VisibleIs
    <3>2. Cursor!Before(e, Cursor!Entry) \/ Cursor!Before(Cursor!Entry, e) \/ e = Cursor!Entry
      BY <1>1, <2>4, <3>1, Total
    <3>3. e = Cursor!Entry => ~ Cursor!Before(e, Cursor!Entry)
      BY <1>1, <2>4, <3>1, Total
    <3>4. (Cursor!Before(e, Cursor!Entry) => e.key <= Cursor!Entry.key) /\ (Cursor!Before(Cursor!Entry, e) => Cursor!Entry.key <= e.key)
      BY <2>4, <3>1, BeforeIs
    <3>5. e = Cursor!Entry => Cursor!Entry.key <= e.key
      BY <2>4
    <3> QED BY <2>7, <3>2, <3>3, <3>4, <3>5
  <2>9. Onward(it, S) = K
    <3> SUFFICES ASSUME NEW k \in Cursor!Live
                 PROVE  (~ SkippedBy(it, k) /\ \E e \in Cursor!Newest(k) : e \in S) <=> k > expected
      BY DEF Onward
    <3>1. PICK n \in Visible : Cursor!Newest(k) = {n} /\ n.key = k
      BY <1>1, LiveIs
    <3>2. k \in Nat
      BY <1>1, LiveIs
    <3>3. SkippedBy(it, k) <=> ~ (k > expected)
      BY <2>3, <2>4, <2>5, <3>2 DEF SkippedBy
    <3>4. k > expected => n \in S
      BY <2>3, <2>4, <2>8, <3>1, <3>2
    <3> QED BY <3>1, <3>3, <3>4
  <2>10. OnwardRight(it, S)
    <3> SUFFICES ASSUME NEW f \in S
                 PROVE  it.saved <= f.key /\ \A e \in Visible \ S : e.key = f.key => f.key <= it.saved
      BY <2>5 DEF OnwardRight, SkippedBy
    <3> QED BY <2>5, <2>7, <2>8
  <2> QED BY <1>1, <2>5, <2>6, <2>7, <2>9, <2>10, NextFrom
<1>4. CASE ~ iter.forward
  <2> DEFINE it == [iter EXCEPT !.forward = TRUE, !.skipping = TRUE]
             S == IF Cursor!Valid(merge) THEN {e \in Visible : Cursor!Before(Cursor!Entry, e)} ELSE Visible
  <2>1. /\ merge' = (IF Cursor!Valid(merge) THEN Cursor!MergeNext ELSE Cursor!MergeFirst)
        /\ iter' = Cursor!FindNextIn(merge', it)
    BY <1>4 DEF Cursor!DBIterNext
  <2>2. BeforeEntries
    BY <1>1, <1>4 DEF IterInv, CallRight
  <2>3. /\ ~ merge.forward /\ expected = iter.saved /\ iter.saved \in Cursor!Live
        /\ \A e \in Visible \ Rest : iter.saved <= e.key
        /\ Cursor!Valid(merge) => Cursor!Entry.seq <= Snapshot /\ Cursor!Entry.key < iter.saved
    BY <2>2 DEF BeforeEntries
  <2>4. it \in Calls /\ it.forward /\ it.skipping /\ it.saved = expected
    BY <1>1, <2>3 DEF Calls
  <2> HIDE DEF it
  <2>5. Going(S)
    <3>1. CASE Cursor!Valid(merge)
      BY <1>1, <2>1, <3>1, NextMove
    <3>2. CASE ~ Cursor!Valid(merge)
      BY <1>1, <2>1, <3>2, FirstMove
    <3> QED BY <3>1, <3>2
  <2>6. S \subseteq Visible
    OBVIOUS
  <2>7. expected \in Nat
    BY <1>1, <2>3, LiveIs
  <2>8. \A e \in Visible : IF e \in S THEN expected <= e.key ELSE e.key < expected
    <3> SUFFICES ASSUME NEW e \in Visible PROVE IF e \in S THEN expected <= e.key ELSE e.key < expected
      OBVIOUS
    <3>1. e \in Cursor!Entries /\ e \in Cursor!Written /\ e.key \in Nat
      BY <1>1, VisibleIs
    <3>2. CASE ~ Cursor!Valid(merge)
      <4>1. e \notin Rest
        BY <1>1, <2>3, <3>2 DEF MergeInv, RestRight
      <4> QED BY <2>3, <3>2, <4>1
    <3>3. CASE Cursor!Valid(merge)
      <4>1. Cursor!Entry \in Cursor!Entries /\ Cursor!Entry \in Cursor!Written
        BY <1>1, <3>3, EntryHas, EntriesIn DEF MergeInv
      <4>2. Cursor!Entry.key \in Nat /\ Cursor!Entry.key < expected
        BY <2>3, <3>3, <4>1, BeforeIs
      <4>3. CASE Cursor!Before(Cursor!Entry, e)
        <5>1. e \in S
          BY <3>3, <4>3
        <5>2. e \notin Rest
          <6>1. ~ AtOrBefore(e, Cursor!Entry)
            BY <1>1, <3>1, <4>1, <4>3, Total
          <6> QED BY <1>1, <2>3, <6>1 DEF MergeInv, RestRight
        <5> QED BY <2>3, <5>1, <5>2
      <4>4. CASE ~ Cursor!Before(Cursor!Entry, e)
        <5>1. e \notin S
          BY <3>3, <4>4
        <5>2. AtOrBefore(e, Cursor!Entry)
          BY <1>1, <3>1, <4>1, <4>4, Total
        <5>3. e.key <= Cursor!Entry.key
          BY <3>1, <4>1, <4>2, <5>2, BeforeIs DEF AtOrBefore
        <5>4. e.key < expected
          BY <2>7, <3>1, <4>2, <5>3
        <5> QED BY <5>1, <5>4
      <4> QED BY <4>3, <4>4
    <3> QED BY <3>2, <3>3
  <2> HIDE DEF S
  <2>9. Onward(it, S) = K
    <3> SUFFICES ASSUME NEW k \in Cursor!Live
                 PROVE  (~ SkippedBy(it, k) /\ \E e \in Cursor!Newest(k) : e \in S) <=> k > expected
      BY DEF Onward
    <3>1. PICK n \in Visible : Cursor!Newest(k) = {n} /\ n.key = k
      BY <1>1, LiveIs
    <3>2. k \in Nat
      BY <1>1, LiveIs
    <3>3. SkippedBy(it, k) <=> ~ (k > expected)
      BY <2>4, <2>7, <3>2 DEF SkippedBy
    <3>4. k > expected => n \in S
      BY <2>7, <2>8, <3>1, <3>2
    <3> QED BY <3>1, <3>3, <3>4
  <2>10. OnwardRight(it, S)
    <3> SUFFICES ASSUME NEW f \in S
                 PROVE  expected <= f.key /\ \A e \in Visible \ S : e.key # f.key
      BY <2>4 DEF OnwardRight
    <3>1. f \in Visible /\ expected <= f.key /\ f.key \in Nat
      BY <1>1, <2>6, <2>8, VisibleIs
    <3>2. ASSUME NEW e \in Visible \ S PROVE e.key # f.key
      <4>1. e.key < expected /\ e.key \in Nat
        BY <1>1, <2>8, VisibleIs
      <4> QED BY <2>7, <3>1, <4>1
    <3> QED BY <3>1, <3>2
  <2> QED BY <1>1, <2>1, <2>4, <2>5, <2>6, <2>9, <2>10, FindNextFrom
<1> QED BY <1>3, <1>4

LEMMA FindNextStep == ASSUME IterInv, Cursor!FindNextUserEntry PROVE IterInv'
<1> DEFINE S == {e \in Visible : ~ Cursor!Before(e, Cursor!Entry)}
           T == {e \in Visible : Cursor!Before(Cursor!Entry, e)}
           returned == Cursor!Entry.seq <= Snapshot /\ ~ Cursor!Entry.del /\ ~ (iter.skipping /\ Cursor!Entry.key <= iter.saved)
<1>1. /\ iter.pc = "next" /\ UNCHANGED <<children, expected>>
      /\ iter \in Calls /\ Base /\ MergeInv /\ NextRight
  BY DEF Cursor!FindNextUserEntry, IterInv, CallTypes, CallRight
<1>2. /\ Base' /\ Visible' = Visible
      /\ \A c \in Child : Seen(c)' = Seen(c) /\ children[c] \subseteq children'[c]
  BY <1>1, SameChildren
<1>3. iter.forward /\ merge.forward /\ Cursor!Valid(merge) /\ Cursor!Entry \in Cursor!Entries /\ Cursor!Entry \in Cursor!Written
  BY <1>1, EntryHas, EntriesIn DEF NextRight, MergeInv
<1>4. Cursor!Entry.key \in Nat /\ Cursor!Entry.key \in UserKey /\ Cursor!Entry.del \in BOOLEAN /\ (Cursor!Entry \in Visible <=> Cursor!Entry.seq <= Snapshot)
  BY <1>3, BeforeIs DEF Cursor!Written, Visible
<1>5. S \subseteq Visible /\ T \subseteq Visible /\ \A e \in Visible : e \in S <=> ~ Cursor!Before(e, Cursor!Entry)
  OBVIOUS
<1>6. \A e \in Visible : (e \in T <=> Cursor!Before(Cursor!Entry, e)) /\ (e \in S <=> e \in T \/ e = Cursor!Entry)
  <2> SUFFICES ASSUME NEW e \in Visible PROVE ~ Cursor!Before(e, Cursor!Entry) <=> Cursor!Before(Cursor!Entry, e) \/ e = Cursor!Entry
    OBVIOUS
  <2>1. e \in Cursor!Entries
    BY <1>1, VisibleIs
  <2> QED BY <1>1, <1>3, <2>1, Total
<1> HIDE DEF S, T
<1>7. expected = Cursor!LeastKey(Onward(iter, S))
  <2>1. \A k : \A e \in Cursor!Newest(k) : e \in S <=> ~ Cursor!Before(e, Cursor!Entry)
    BY <1>1, <1>5, NewestEntryIs
  <2>2. Onward(iter, S) = {k \in Cursor!Live : ~ Skipped(k) /\ \E e \in Cursor!Newest(k) : ~ Cursor!Before(e, Cursor!Entry)}
    BY <2>1 DEF Onward, SkippedBy, Skipped
  <2> QED BY <1>1, <2>2 DEF NextRight
<1>8. OnwardRight(iter, S)
  <2> SUFFICES ASSUME NEW f \in S
               PROVE  /\ iter.skipping => iter.saved <= f.key
                      /\ \A e \in Visible \ S : e.key = f.key => SkippedBy(iter, f.key)
    BY DEF OnwardRight
  <2>1. f \in Visible /\ ~ Cursor!Before(f, Cursor!Entry)
    BY <1>5
  <2>2. \A e \in Visible \ S : Cursor!Before(e, Cursor!Entry)
    BY <1>5
  <2> QED BY <1>1, <2>1, <2>2 DEF NextRight, SkippedBy, Skipped
<1>9. CASE returned
  <2>1. iter' = [iter EXCEPT !.pc = "idle", !.valid = TRUE, !.saved = 0] /\ UNCHANGED merge
    BY <1>9 DEF Cursor!FindNextUserEntry
  <2>2. iter' \in Calls /\ iter'.pc = "idle" /\ iter'.valid /\ iter'.forward
    BY <1>1, <1>3, <2>1 DEF Calls
  <2>3. /\ MergeInv' /\ Cursor!Entry' = Cursor!Entry /\ merge'.forward /\ Cursor!Valid(merge')
        /\ Cursor!Live' = Cursor!Live /\ \A k : Cursor!Newest(k)' = Cursor!Newest(k)
    BY <1>1, <1>2, <1>3, <2>1, MergeStays, StaysSame DEF Cursor!Valid
  <2>4. Cursor!Entry \in Visible /\ Cursor!Entry \in S
    BY <1>4, <1>6, <1>9
  <2>5. \A d \in Visible : d.key = Cursor!Entry.key => AtOrBefore(Cursor!Entry, d)
    <3> SUFFICES ASSUME NEW d \in Visible, d.key = Cursor!Entry.key, ~ AtOrBefore(Cursor!Entry, d) PROVE FALSE
      OBVIOUS
    <3>1. d \in Visible \ S
      BY <1>6 DEF AtOrBefore
    <3>2. SkippedBy(iter, Cursor!Entry.key)
      BY <1>8, <2>4, <3>1 DEF OnwardRight
    <3> QED BY <1>9, <3>2 DEF SkippedBy
  <2>6. Cursor!Entry.key \in Cursor!Live /\ Cursor!Newest(Cursor!Entry.key) = {Cursor!Entry}
    BY <1>1, <1>9, <2>4, <2>5, LiveIs
  <2>7. Cursor!Entry.key \in Onward(iter, S)
    BY <1>9, <2>4, <2>6 DEF Onward, SkippedBy
  <2>8. \A k \in Onward(iter, S) : Cursor!Entry.key <= k /\ k \in Nat
    <3> SUFFICES ASSUME NEW k \in Onward(iter, S) PROVE Cursor!Entry.key <= k /\ k \in Nat
      OBVIOUS
    <3>1. k \in Cursor!Live /\ \E e \in Cursor!Newest(k) : e \in S
      BY DEF Onward
    <3>2. PICK e \in Visible : Cursor!Newest(k) = {e} /\ e.key = k
      BY <1>1, <3>1, LiveIs
    <3>3. e \in S /\ k \in Nat
      BY <1>1, <3>1, <3>2, LiveIs
    <3>4. AtOrBefore(Cursor!Entry, e)
      BY <1>6, <3>3 DEF AtOrBefore
    <3>5. e \in Cursor!Written
      BY <1>1, VisibleIs
    <3> QED BY <1>3, <1>4, <3>2, <3>3, <3>4, <3>5, BeforeIs DEF AtOrBefore
  <2>9. expected = Cursor!Entry.key
    <3>1. Onward(iter, S) \subseteq Nat
      BY <2>8
    <3> QED BY <1>7, <2>7, <2>8, <3>1, LeastKeyIs
  <2>10. AtEntry'
    BY <1>1, <1>9, <2>3, <2>6, <2>9 DEF AtEntry
  <2>11. CallRight'
    BY <2>2, <2>10 DEF CallRight, Cursor!Idle
  <2> QED BY <1>2, <2>2, <2>3, <2>11 DEF IterInv, CallTypes
<1>10. CASE ~ returned
  <2> DEFINE it == IF Cursor!Entry.seq <= Snapshot /\ Cursor!Entry.del
                   THEN [iter EXCEPT !.skipping = TRUE, !.saved = Cursor!Entry.key] ELSE iter
  <2>1. merge' = Cursor!MergeNext /\ iter' = Cursor!FindNextIn(merge', it)
    BY <1>10 DEF Cursor!FindNextUserEntry
  <2>2. Going(T)
    <3>1. T = {e \in Visible : Cursor!Before(Cursor!Entry, e)}
      BY DEF T
    <3> QED BY <1>1, <1>3, <2>1, <3>1, NextMove
  <2>3. it \in Calls /\ it.forward
    BY <1>1, <1>3, <1>4 DEF Calls
  <2>4. Onward(it, T) = Onward(iter, S) /\ OnwardRight(it, T)
    <3>1. CASE ~ (Cursor!Entry.seq <= Snapshot)
      <4>1. it = iter /\ Cursor!Entry \notin Visible
        BY <1>4, <3>1
      <4>2. T = S
        BY <1>5, <1>6, <4>1
      <4> QED BY <1>8, <4>1, <4>2
    <3>2. CASE Cursor!Entry.seq <= Snapshot /\ Cursor!Entry.del
      <4>1. it.skipping /\ it.saved = Cursor!Entry.key
        BY <1>1, <1>4, <3>2 DEF Calls
      <4>2. Cursor!Entry \in Visible /\ Cursor!Entry \in S
        BY <1>4, <1>6, <3>2
      <4> HIDE DEF it
      <4>3. \A e \in Visible : (e \in T => Cursor!Entry.key <= e.key) /\ (e \notin T => e.key <= Cursor!Entry.key)
        <5> SUFFICES ASSUME NEW e \in Visible
                     PROVE  (e \in T => Cursor!Entry.key <= e.key) /\ (e \notin T => e.key <= Cursor!Entry.key)
          OBVIOUS
        <5>1. e \in Cursor!Entries /\ e \in Cursor!Written
          BY <1>1, VisibleIs
        <5>2. e \in T => Cursor!Before(Cursor!Entry, e)
          BY <1>6
        <5>3. e \notin T => AtOrBefore(e, Cursor!Entry)
          BY <1>1, <1>3, <1>6, <5>1, Total
        <5> QED BY <1>3, <1>4, <5>1, <5>2, <5>3, BeforeIs DEF AtOrBefore
      <4>4. ASSUME NEW k \in Cursor!Live
            PROVE  (~ SkippedBy(it, k) /\ \E e \in Cursor!Newest(k) : e \in T)
                     <=> (~ SkippedBy(iter, k) /\ \E e \in Cursor!Newest(k) : e \in S)
        <5>1. PICK n \in Visible : /\ Cursor!Newest(k) = {n} /\ n.key = k /\ ~ n.del
                                   /\ \A d \in Visible : d.key = k => AtOrBefore(n, d)
          BY <1>1, LiveIs
        <5>2. k \in Nat /\ n \in Cursor!Entries
          BY <1>1, <5>1, LiveIs, VisibleIs
        <5>3. n # Cursor!Entry
          BY <3>2, <5>1
        <5>4. n \in S <=> n \in T
          BY <1>6, <5>1, <5>3
        <5>5. ASSUME n \in T PROVE k # Cursor!Entry.key
          <6>1. ASSUME k = Cursor!Entry.key PROVE FALSE
            <7>1. AtOrBefore(n, Cursor!Entry)
              BY <4>2, <5>1, <6>1
            <7>2. Cursor!Before(Cursor!Entry, n)
              BY <1>6, <5>1, <5>5
            <7> QED BY <1>1, <1>3, <5>2, <7>1, <7>2, Total
          <6> QED BY <6>1
        <5>6. ASSUME n \in T PROVE Cursor!Entry.key < k
          <6>1. Cursor!Entry.key <= k
            BY <4>3, <5>1, <5>6
          <6> QED BY <1>4, <5>2, <5>5, <5>6, <6>1
        <5>7. n \in T => ~ SkippedBy(it, k)
          BY <1>4, <4>1, <5>2, <5>6 DEF SkippedBy
        <5>8. n \in T => ~ SkippedBy(iter, k)
          <6>1. iter.skipping => iter.saved <= Cursor!Entry.key
            BY <1>8, <4>2 DEF OnwardRight
          <6>2. iter.saved \in Nat
            BY <1>1 DEF Calls
          <6> QED BY <1>4, <5>2, <5>6, <6>1, <6>2 DEF SkippedBy
        <5> QED BY <5>1, <5>4, <5>7, <5>8
      <4>5. Onward(it, T) = Onward(iter, S)
        BY <4>4 DEF Onward
      <4>6. OnwardRight(it, T)
        <5> SUFFICES ASSUME NEW f \in T
                     PROVE  it.saved <= f.key /\ \A e \in Visible \ T : e.key = f.key => f.key <= it.saved
          BY <4>1 DEF OnwardRight, SkippedBy
        <5> QED BY <1>5, <4>1, <4>3
      <4> QED BY <4>5, <4>6
    <3>3. CASE Cursor!Entry.seq <= Snapshot /\ ~ Cursor!Entry.del
      <4>1. it = iter /\ SkippedBy(iter, Cursor!Entry.key) /\ Cursor!Entry \in S
        BY <1>4, <1>6, <1>10, <3>3 DEF SkippedBy
      <4> HIDE DEF it
      <4>2. Onward(iter, T) = Onward(iter, S)
        <5> SUFFICES ASSUME NEW k \in Cursor!Live, ~ SkippedBy(iter, k)
                     PROVE  (\E e \in Cursor!Newest(k) : e \in T) <=> (\E e \in Cursor!Newest(k) : e \in S)
          BY DEF Onward
        <5>1. PICK n \in Visible : Cursor!Newest(k) = {n} /\ n.key = k
          BY <1>1, LiveIs
        <5>2. n # Cursor!Entry
          BY <4>1, <5>1
        <5> QED BY <1>6, <5>1, <5>2
      <4>3. OnwardRight(iter, T)
        <5> SUFFICES ASSUME NEW f \in T
                     PROVE  /\ iter.skipping => iter.saved <= f.key
                            /\ \A e \in Visible \ T : e.key = f.key => SkippedBy(iter, f.key)
          BY DEF OnwardRight
        <5>1. f \in S
          BY <1>5, <1>6
        <5>2. \A e \in Visible \ T : e \in Visible \ S \/ e = Cursor!Entry
          BY <1>6
        <5>3. \A e \in Visible \ S : e.key = f.key => SkippedBy(iter, f.key)
          BY <1>8, <5>1 DEF OnwardRight
        <5>4. iter.skipping => iter.saved <= f.key
          BY <1>8, <5>1 DEF OnwardRight
        <5> QED BY <4>1, <5>2, <5>3, <5>4
      <4> QED BY <4>1, <4>2, <4>3
    <3> QED BY <1>4, <3>1, <3>2, <3>3
  <2> HIDE DEF it
  <2> QED BY <1>1, <1>5, <1>7, <2>1, <2>2, <2>3, <2>4, FindNextFrom
<1> QED BY <1>9, <1>10

-----------------------------------------------------------------------------
(* FindPrevUserEntry and the way to it. *)
Found(it, R) ==
    it.found => \E q \in Visible \ R : /\ q.key = it.saved /\ q.seq = it.savedSeq /\ ~ q.del
                                       /\ \A e \in Visible \ R : AtOrBefore(q, e)
Wanted(it, R) ==
    {k \in Cursor!Live : \E e \in Cursor!Newest(k) : e \in R \/ (it.found /\ e.key = it.saved /\ e.seq = it.savedSeq)}

LEMMA PrevIs ==
    /\ PrevRight(Rest) <=> ~ iter.forward /\ ~ merge.forward /\ Found(iter, Rest) /\ expected = Cursor!GreatestKey(Wanted(iter, Rest))
    /\ PrevRight(Rest \ {Cursor!Entry}) <=> /\ ~ iter.forward /\ ~ merge.forward /\ Found(iter, Rest \ {Cursor!Entry})
                                            /\ expected = Cursor!GreatestKey(Wanted(iter, Rest \ {Cursor!Entry}))
  BY DEF PrevRight, Found, Wanted

LEMMA PrevFrom ==
    ASSUME IterInv, UNCHANGED children, ~ merge'.forward, NEW it \in Calls, ~ it.forward,
           iter'.forward = it.forward, iter'.found = it.found, iter'.saved = it.saved, iter'.savedSeq = it.savedSeq,
           NEW R, R \subseteq Visible, Found(it, R), expected' = Cursor!GreatestKey(Wanted(it, R))
    PROVE  /\ Rest' = R => PrevRight(Rest)'
           /\ Rest' \ {Cursor!Entry'} = R => PrevRight(Rest \ {Cursor!Entry})'
<1>1. Visible' = Visible /\ Cursor!Live' = Cursor!Live /\ \A k : Cursor!Newest(k)' = Cursor!Newest(k)
  BY SameChildren
<1>2. expected' = Cursor!GreatestKey({k \in Cursor!Live' : \E e \in Cursor!Newest(k)' :
                      e \in R \/ (iter'.found /\ e.key = iter'.saved /\ e.seq = iter'.savedSeq)})
  <2>1. Wanted(it, R) = {k \in Cursor!Live' : \E e \in Cursor!Newest(k)' :
                      e \in R \/ (iter'.found /\ e.key = iter'.saved /\ e.seq = iter'.savedSeq)}
    BY <1>1 DEF Wanted
  <2> QED BY <2>1
<1>3. iter'.found => \E q \in Visible' \ R :
          /\ q.key = iter'.saved /\ q.seq = iter'.savedSeq /\ ~ q.del
          /\ \A e \in Visible' \ R : AtOrBefore(q, e)
  BY <1>1 DEF Found
<1>4. ASSUME Rest' = R PROVE PrevRight(Rest)'
  BY <1>2, <1>3, <1>4, ~ iter'.forward, ~ merge'.forward DEF PrevRight
<1>5. ASSUME Rest' \ {Cursor!Entry'} = R PROVE PrevRight(Rest \ {Cursor!Entry})'
  BY <1>2, <1>3, <1>5, ~ iter'.forward, ~ merge'.forward DEF PrevRight
<1> QED BY <1>4, <1>5

LEMMA SeekToLastStep == ASSUME IterInv, Cursor!SeekToLast PROVE IterInv'
<1> DEFINE it == [iter EXCEPT !.pc = "prev", !.forward = FALSE, !.savedSeq = 0, !.found = FALSE]
<1>1. merge' = Cursor!MergeLast /\ UNCHANGED children /\ expected' = Cursor!GreatestKey(Cursor!Live) /\ iter' = it
  BY DEF Cursor!SeekToLast
<1>2. it \in Calls /\ ~ it.forward /\ it.found = FALSE /\ it.pc = "prev"
  BY DEF IterInv, CallTypes, Calls
<1> HIDE DEF it
<1>3. Coming(Visible)
  BY <1>1, LastMove DEF IterInv
<1>4. Wanted(it, Visible) = Cursor!Live
  <2>1. \A k \in Cursor!Live : \E e \in Cursor!Newest(k) : e \in Visible
    BY LiveIs DEF IterInv
  <2> QED BY <2>1 DEF Wanted
<1>5. Found(it, Visible)
  BY <1>2 DEF Found
<1>6. PrevRight(Rest)'
  BY <1>1, <1>2, <1>3, <1>4, <1>5, PrevFrom DEF Coming
<1>7. CallRight'
  BY <1>1, <1>2, <1>6 DEF CallRight, Cursor!Idle
<1> QED BY <1>1, <1>2, <1>3, <1>7, SameChildren DEF IterInv, CallTypes, Coming

(* The live keys that are smaller than saved, when the entries of keys     *)
(* that are not are passed.                                                *)
LEMMA SmallerWanted ==
    ASSUME IterInv, ~ merge.forward, NEW s \in Nat, \A e \in Visible : e.key < s <=> e \in Rest,
           NEW it \in Calls, it.found = FALSE
    PROVE  Wanted(it, Rest) = {k \in Cursor!Live : k < s} /\ Found(it, Rest)
<1>1. Found(it, Rest)
  BY DEF Found
<1>2. ASSUME NEW k \in Cursor!Live PROVE (\E e \in Cursor!Newest(k) : e \in Rest) <=> k < s
  <2>1. PICK n \in Visible : Cursor!Newest(k) = {n} /\ n.key = k
    BY LiveIs DEF IterInv
  <2> QED BY <2>1
<1> QED BY <1>1, <1>2 DEF Wanted

LEMMA SmallerRest ==
    ASSUME IterInv, ~ merge.forward, NEW s \in Nat, Cursor!Valid(merge) => Cursor!Entry.key < s,
           \A e \in Visible : e.key < s => e \in Rest
    PROVE  \A e \in Visible : e.key < s <=> e \in Rest
<1> SUFFICES ASSUME NEW e \in Rest, e \in Visible PROVE e.key < s
  OBVIOUS
<1>1. Cursor!Valid(merge) /\ AtOrBefore(e, Cursor!Entry)
  BY DEF IterInv, MergeInv, RestRight
<1>2. Cursor!Entry \in Cursor!Written /\ e \in Cursor!Written
  BY <1>1, EntryHas, EntriesIn, VisibleIs DEF IterInv, MergeInv
<1>3. e.key <= Cursor!Entry.key /\ e.key \in Nat /\ Cursor!Entry.key \in Nat
  BY <1>1, <1>2, BeforeIs DEF AtOrBefore
<1> QED BY <1>1, <1>3

LEMMA DBIterPrevStep == ASSUME IterInv, Cursor!DBIterPrev PROVE IterInv'
<1>1. /\ Cursor!Idle /\ iter.valid /\ UNCHANGED <<children, merge>>
      /\ expected' = Cursor!GreatestKey({k \in Cursor!Live : k < expected})
      /\ iter' = IF iter.forward THEN [iter EXCEPT !.pc = "back", !.then = "scan", !.saved = Cursor!Entry.key]
                 ELSE [iter EXCEPT !.pc = "prev", !.found = FALSE]
      /\ iter \in Calls /\ Base /\ MergeInv
  BY DEF Cursor!DBIterPrev, IterInv, CallTypes
<1>2. /\ Base' /\ Visible' = Visible
      /\ \A c \in Child : Seen(c)' = Seen(c) /\ children[c] \subseteq children'[c]
  BY <1>1, SameChildren
<1>3. /\ MergeInv' /\ Cursor!Entry' = Cursor!Entry /\ Rest' = Rest /\ Cursor!Valid(merge)' = Cursor!Valid(merge)
      /\ Cursor!Live' = Cursor!Live /\ merge' = merge
  BY <1>1, <1>2, MergeStays, StaysSame
<1>4. CASE iter.forward
  <2>1. AtEntry
    BY <1>1, <1>4 DEF IterInv, CallRight
  <2>2. merge.forward /\ Cursor!Valid(merge) /\ Cursor!Entry \in Visible /\ expected = Cursor!Entry.key
    BY <1>1, <2>1, NewestEntryIs DEF AtEntry
  <2>3. Cursor!Entry.key \in Nat /\ Cursor!Entry.seq <= Snapshot
    BY <1>1, <2>2, VisibleIs
  <2>4. iter' \in Calls /\ iter'.pc = "back" /\ iter'.then = "scan" /\ iter'.saved = Cursor!Entry.key
    BY <1>1, <1>4, <2>3 DEF Calls
  <2>5. ScanRight'
    <3>1. {k \in Cursor!Live : k < expected} = {k \in Cursor!Live' : k < iter'.saved}
      BY <1>3, <2>2, <2>4
    <3>2. expected' = Cursor!GreatestKey({k \in Cursor!Live' : k < iter'.saved})
      BY <1>1, <3>1
    <3> QED BY <1>3, <2>2, <3>2 DEF ScanRight
  <2>6. Cursor!Valid(merge)'
    BY <1>3, <2>2
  <2>7. CallRight'
    BY <1>3, <2>2, <2>3, <2>4, <2>5, <2>6 DEF CallRight, Cursor!Idle
  <2> QED BY <1>2, <1>3, <2>4, <2>7 DEF IterInv, CallTypes
<1>5. CASE ~ iter.forward
  <2>1. BeforeEntries
    BY <1>1, <1>5 DEF IterInv, CallRight
  <2>2. iter' \in Calls /\ iter'.pc = "prev" /\ iter'.found = FALSE /\ ~ iter'.forward
    BY <1>1, <1>5 DEF Calls
  <2>3. expected = iter.saved /\ expected \in Nat /\ ~ merge.forward
    BY <1>1, <2>1, LiveIs DEF BeforeEntries
  <2>4. \A e \in Visible : e.key < expected => e \in Rest
    <3> SUFFICES ASSUME NEW e \in Visible, e.key < expected, e \notin Rest PROVE FALSE
      OBVIOUS
    <3>1. expected <= e.key
      BY <2>1 DEF BeforeEntries
    <3>2. e.key \in Nat
      BY <1>1, VisibleIs
    <3> QED BY <2>3, <3>1, <3>2
  <2>5. \A e \in Visible : e.key < expected <=> e \in Rest
    BY <2>1, <2>3, <2>4, SmallerRest DEF BeforeEntries
  <2>6. ASSUME NEW it \in Calls, it.found = FALSE
        PROVE  Wanted(it, Rest) = {k \in Cursor!Live : k < expected} /\ Found(it, Rest)
    BY <2>3, <2>5, <2>6, SmallerWanted
  <2> DEFINE it == [iter EXCEPT !.pc = "prev", !.found = FALSE]
  <2>7. iter' = it /\ it \in Calls /\ it.found = FALSE /\ ~ it.forward
    BY <1>1, <1>5 DEF Calls
  <2> HIDE DEF it
  <2>8. Wanted(it, Rest) = {k \in Cursor!Live : k < expected} /\ Found(it, Rest)
    BY <2>6, <2>7
  <2>9. PrevRight(Rest)'
    BY <1>1, <1>3, <2>3, <2>7, <2>8, RestVisible, PrevFrom
  <2>10. CallRight'
    BY <2>2, <2>9 DEF CallRight, Cursor!Idle
  <2> QED BY <1>2, <1>3, <2>2, <2>10 DEF IterInv, CallTypes
<1> QED BY <1>4, <1>5

LEMMA InternalPrevStep == ASSUME IterInv, Cursor!InternalPrev PROVE IterInv'
<1>1. /\ iter.pc = "back" /\ UNCHANGED <<children, expected>>
      /\ iter \in Calls /\ Base /\ MergeInv /\ Cursor!Valid(merge) /\ iter.then \in {"scan", "prev"}
      /\ iter.then = "prev" => PrevRight(Rest \ {Cursor!Entry})
      /\ iter.then = "scan" =>
            /\ ScanRight
            /\ IF merge.forward THEN Cursor!Entry.key = iter.saved /\ Cursor!Entry.seq <= Snapshot ELSE iter.saved <= Cursor!Entry.key
  BY DEF Cursor!InternalPrev, IterInv, CallTypes, CallRight, Calls
<1>2. Base' /\ Visible' = Visible /\ Cursor!Live' = Cursor!Live
  BY <1>1, SameChildren
<1>3. Cursor!Entry \in Cursor!Written /\ iter.saved \in Nat /\ Cursor!Entry.key \in Nat
  <2>1. Cursor!Entry \in Cursor!Written
    BY <1>1, EntryHas, EntriesIn DEF MergeInv
  <2> QED BY <1>1, <2>1, BeforeIs DEF Calls
<1>4. {k \in Cursor!Live : k < iter.saved} = {k \in Cursor!Live' : k < iter.saved}
  BY <1>2
<1>5. CASE merge.forward
  <2>1. merge' = Cursor!MergeTurns /\ UNCHANGED iter
    BY <1>5 DEF Cursor!InternalPrev
  <2>2. iter.then = "scan"
    BY <1>1, <1>5 DEF PrevRight
  <2>3. /\ Coming({e \in Visible : AtOrBefore(e, Cursor!Entry)})
        /\ Cursor!Valid(merge') /\ Cursor!Entry' = Cursor!Entry
    BY <1>1, <1>5, <2>1, TurnMove
  <2>4. MergeInv' /\ ~ merge'.forward /\ Rest' = {e \in Visible : AtOrBefore(e, Cursor!Entry)}
    BY <2>3 DEF Coming
  <2>5. Cursor!Entry.key = iter.saved /\ expected = Cursor!GreatestKey({k \in Cursor!Live : k < iter.saved})
    BY <1>1, <1>5, <2>2 DEF ScanRight
  <2>6. \A e \in Visible' : e.key < iter.saved => e \in Rest'
    BY <1>2, <2>4, <2>5 DEF AtOrBefore, Cursor!Before
  <2>7. expected' = Cursor!GreatestKey({k \in Cursor!Live' : k < iter'.saved})
    BY <1>1, <1>4, <2>1, <2>5
  <2>8. ScanRight'
    BY <2>1, <2>6, <2>7 DEF ScanRight
  <2>9. iter'.saved <= Cursor!Entry'.key /\ Cursor!Valid(merge)'
    BY <1>3, <2>1, <2>3, <2>5 DEF Cursor!Valid
  <2>10. CallRight'
    BY <1>1, <2>1, <2>2, <2>4, <2>8, <2>9 DEF CallRight, Cursor!Idle
  <2> QED BY <1>1, <1>2, <2>1, <2>4, <2>10 DEF IterInv, CallTypes
<1>6. CASE ~ merge.forward
  <2>1. merge' = Cursor!MergePrev /\ iter' = [iter EXCEPT !.pc = iter.then]
    BY <1>6 DEF Cursor!InternalPrev
  <2>2. Coming(Rest \ {Cursor!Entry})
    BY <1>1, <1>6, <2>1, PrevMove
  <2>3. MergeInv' /\ ~ merge'.forward /\ Rest' = Rest \ {Cursor!Entry}
    BY <2>2 DEF Coming
  <2>4. /\ iter' \in Calls /\ iter'.pc = iter.then /\ iter'.then = iter.then /\ iter'.saved = iter.saved
        /\ iter'.savedSeq = iter.savedSeq /\ iter'.found = iter.found /\ iter'.forward = iter.forward
    BY <1>1, <2>1 DEF Calls
  <2>5. ASSUME iter.then = "scan" PROVE CallRight'
    <3>1. /\ expected = Cursor!GreatestKey({k \in Cursor!Live : k < iter.saved}) /\ iter.saved <= Cursor!Entry.key
          /\ \A e \in Visible : e.key < iter.saved => e \in Rest
      BY <1>1, <1>6, <2>5 DEF ScanRight
    <3>2. expected' = Cursor!GreatestKey({k \in Cursor!Live' : k < iter'.saved})
      BY <1>1, <1>4, <2>4, <3>1
    <3>3. \A e \in Visible' : e.key < iter'.saved => e \in Rest'
      <4> SUFFICES ASSUME NEW e \in Visible, e.key < iter.saved PROVE e \in Rest \ {Cursor!Entry}
        BY <1>2, <2>3, <2>4
      <4> QED BY <1>3, <3>1
    <3>4. ScanRight'
      BY <3>2, <3>3 DEF ScanRight
    <3> QED BY <2>3, <2>4, <2>5, <3>4 DEF CallRight, Cursor!Idle
  <2>6. ASSUME iter.then = "prev" PROVE CallRight'
    <3>1. /\ ~ iter.forward /\ Found(iter, Rest \ {Cursor!Entry})
          /\ expected' = Cursor!GreatestKey(Wanted(iter, Rest \ {Cursor!Entry}))
      BY <1>1, <2>6, PrevIs
    <3>2. Rest \ {Cursor!Entry} \subseteq Visible
      BY RestVisible
    <3>3. PrevRight(Rest)'
      BY <1>1, <2>3, <2>4, <3>1, <3>2, PrevFrom
    <3> QED BY <2>4, <2>6, <3>3 DEF CallRight, Cursor!Idle
  <2> QED BY <1>1, <1>2, <2>3, <2>4, <2>5, <2>6 DEF IterInv, CallTypes
<1> QED BY <1>5, <1>6

LEMMA ScanBackStep == ASSUME IterInv, Cursor!ScanBack PROVE IterInv'
<1>1. /\ iter.pc = "scan" /\ UNCHANGED <<children, merge, expected>>
      /\ iter \in Calls /\ Base /\ MergeInv /\ ~ merge.forward /\ iter.then = "scan"
      /\ ScanRight
  BY DEF Cursor!ScanBack, IterInv, CallTypes, CallRight
<1>2. /\ Base' /\ Visible' = Visible
      /\ \A c \in Child : Seen(c)' = Seen(c) /\ children[c] \subseteq children'[c]
  BY <1>1, SameChildren
<1>3. /\ MergeInv' /\ Cursor!Entry' = Cursor!Entry /\ Rest' = Rest /\ Cursor!Valid(merge)' = Cursor!Valid(merge)
      /\ Cursor!Live' = Cursor!Live /\ merge' = merge
  BY <1>1, <1>2, MergeStays, StaysSame
<1>4. /\ expected = Cursor!GreatestKey({k \in Cursor!Live : k < iter.saved}) /\ iter.saved \in Nat
      /\ \A e \in Visible : e.key < iter.saved => e \in Rest
  BY <1>1 DEF ScanRight, Calls
<1>5. CASE ~ Cursor!Valid(merge)
  <2>1. iter' = Cursor!Invalid
    BY <1>5 DEF Cursor!ScanBack
  <2>2. iter' \in Calls /\ iter'.pc = "idle" /\ ~ iter'.valid
    BY <1>1, <2>1 DEF Calls, Cursor!Invalid
  <2>3. {k \in Cursor!Live : k < iter.saved} = {}
    <3> SUFFICES ASSUME NEW k \in Cursor!Live, k < iter.saved PROVE FALSE
      OBVIOUS
    <3>1. PICK n \in Visible : n.key = k
      BY <1>1, LiveIs
    <3>2. n \in Rest
      BY <1>4, <3>1
    <3> QED BY <1>1, <1>5, <3>2 DEF MergeInv, RestRight
  <2>4. expected' = 0
    BY <1>1, <1>4, <2>3, NoKeys
  <2>5. CallRight'
    BY <2>2, <2>4 DEF CallRight, Cursor!Idle
  <2> QED BY <1>2, <1>3, <2>2, <2>5 DEF IterInv, CallTypes
<1>6. CASE Cursor!Valid(merge) /\ Cursor!Entry.key < iter.saved
  <2> DEFINE it == [iter EXCEPT !.pc = "prev", !.forward = FALSE, !.found = FALSE]
  <2>1. iter' = it
    <3>1. Cursor!Entry \in Cursor!Written
      BY <1>1, <1>6, EntryHas, EntriesIn DEF MergeInv
    <3>2. Cursor!Entry.key \in Nat
      BY <3>1, BeforeIs
    <3>3. ~ (Cursor!Entry.key >= iter.saved)
      BY <1>4, <1>6, <3>2
    <3> QED BY <1>6, <3>3 DEF Cursor!ScanBack
  <2>2. it \in Calls /\ it.pc = "prev" /\ it.found = FALSE /\ ~ it.forward
    BY <1>1 DEF Calls
  <2> HIDE DEF it
  <2>3. \A e \in Visible : e.key < iter.saved <=> e \in Rest
    BY <1>1, <1>4, <1>6, SmallerRest
  <2>4. Wanted(it, Rest) = {k \in Cursor!Live : k < iter.saved} /\ Found(it, Rest)
    BY <1>1, <1>4, <2>2, <2>3, SmallerWanted
  <2>5. PrevRight(Rest)'
    BY <1>1, <1>3, <1>4, <2>1, <2>2, <2>4, RestVisible, PrevFrom
  <2>6. CallRight'
    BY <2>1, <2>2, <2>5 DEF CallRight, Cursor!Idle
  <2> QED BY <1>2, <1>3, <2>1, <2>2, <2>6 DEF IterInv, CallTypes
<1>7. CASE Cursor!Valid(merge) /\ Cursor!Entry.key >= iter.saved
  <2>1. iter' = [iter EXCEPT !.pc = "back"]
    <3>1. Cursor!Entry \in Cursor!Written
      BY <1>1, <1>7, EntryHas, EntriesIn DEF MergeInv
    <3>2. Cursor!Entry.key \in Nat
      BY <3>1, BeforeIs
    <3>3. ~ (Cursor!Entry.key < iter.saved)
      BY <1>4, <1>7, <3>2
    <3> QED BY <1>7, <3>3 DEF Cursor!ScanBack
  <2>2. iter' \in Calls /\ iter'.pc = "back" /\ iter'.then = "scan" /\ iter'.saved = iter.saved
    BY <1>1, <2>1 DEF Calls
  <2>3. {k \in Cursor!Live : k < iter.saved} = {k \in Cursor!Live' : k < iter'.saved}
    BY <1>3, <2>2
  <2>4. expected' = Cursor!GreatestKey({k \in Cursor!Live' : k < iter'.saved})
    BY <1>1, <1>4, <2>3
  <2>5. ScanRight'
    BY <1>2, <1>3, <1>4, <2>2, <2>4 DEF ScanRight
  <2>6. Cursor!Valid(merge)' /\ ~ merge'.forward /\ iter'.saved <= Cursor!Entry'.key
    <3>1. Cursor!Entry \in Cursor!Written
      BY <1>1, <1>7, EntryHas, EntriesIn DEF MergeInv
    <3>2. Cursor!Entry.key \in Nat
      BY <3>1, BeforeIs
    <3> QED BY <1>1, <1>3, <1>4, <1>7, <2>2, <3>2
  <2>7. CallRight'
    BY <2>2, <2>5, <2>6 DEF CallRight, Cursor!Idle
  <2> QED BY <1>2, <1>3, <2>2, <2>7 DEF IterInv, CallTypes
<1>8. Cursor!Valid(merge) => Cursor!Entry.key < iter.saved \/ Cursor!Entry.key >= iter.saved
  <2> SUFFICES ASSUME Cursor!Valid(merge) PROVE Cursor!Entry.key < iter.saved \/ Cursor!Entry.key >= iter.saved
    OBVIOUS
  <2>1. Cursor!Entry \in Cursor!Written
    BY <1>1, EntryHas, EntriesIn DEF MergeInv
  <2>2. Cursor!Entry.key \in Nat
    BY <2>1, BeforeIs
  <2> QED BY <1>4, <2>2
<1> QED BY <1>5, <1>6, <1>7, <1>8

LEMMA FindPrevStep == ASSUME IterInv, Cursor!FindPrevUserEntry PROVE IterInv'
<1> DEFINE visible == Cursor!Entry.seq <= Snapshot
           over == ~ Cursor!Valid(merge) \/ (visible /\ iter.found /\ Cursor!Entry.key < iter.saved)
           passed == CASE ~ visible -> iter
                       [] visible /\ Cursor!Entry.del -> [iter EXCEPT !.found = FALSE, !.saved = 0, !.savedSeq = 0]
                       [] visible /\ ~ Cursor!Entry.del ->
                             [iter EXCEPT !.found = TRUE, !.saved = Cursor!Entry.key, !.savedSeq = Cursor!Entry.seq]
<1>1. /\ iter.pc = "prev" /\ UNCHANGED <<children, merge, expected>>
      /\ iter \in Calls /\ Base /\ MergeInv /\ PrevRight(Rest)
      /\ iter' = CASE over /\ iter.found -> [iter EXCEPT !.pc = "idle", !.valid = TRUE]
                   [] over /\ ~ iter.found -> [Cursor!Invalid EXCEPT !.forward = TRUE]
                   [] ~ over -> [passed EXCEPT !.pc = "back", !.then = "prev"]
  BY DEF Cursor!FindPrevUserEntry, IterInv, CallTypes, CallRight
<1>2. /\ Base' /\ Visible' = Visible
      /\ \A c \in Child : Seen(c)' = Seen(c) /\ children[c] \subseteq children'[c]
  BY <1>1, SameChildren
<1>3. /\ MergeInv' /\ Cursor!Entry' = Cursor!Entry /\ Rest' = Rest /\ Cursor!Valid(merge)' = Cursor!Valid(merge)
      /\ Cursor!Live' = Cursor!Live /\ merge' = merge /\ \A k : Cursor!Newest(k)' = Cursor!Newest(k)
  BY <1>1, <1>2, MergeStays, StaysSame
<1>4. /\ ~ iter.forward /\ ~ merge.forward /\ Found(iter, Rest)
      /\ expected = Cursor!GreatestKey(Wanted(iter, Rest)) /\ Rest \subseteq Visible
  BY <1>1, PrevIs, RestVisible
<1>5. iter.saved \in Nat /\ iter.savedSeq \in Nat /\ iter.found \in BOOLEAN
  BY <1>1 DEF Calls
<1>6. /\ \A e \in Rest : Cursor!Valid(merge) /\ AtOrBefore(e, Cursor!Entry)
      /\ \A e \in Rest, d \in Visible : Cursor!Before(d, e) => d \in Rest
  BY <1>1, <1>4 DEF MergeInv, RestRight
<1>7. Cursor!Valid(merge) => /\ Cursor!Entry \in Cursor!Entries /\ Cursor!Entry \in Cursor!Written /\ Cursor!Entry.key \in Nat /\ Cursor!Entry.seq \in Nat
                             /\ Cursor!Entry.del \in BOOLEAN /\ (Cursor!Entry \in Visible <=> visible)
  <2> SUFFICES ASSUME Cursor!Valid(merge)
               PROVE  /\ Cursor!Entry \in Cursor!Entries /\ Cursor!Entry \in Cursor!Written /\ Cursor!Entry.key \in Nat /\ Cursor!Entry.seq \in Nat
                      /\ Cursor!Entry.del \in BOOLEAN /\ (Cursor!Entry \in Visible <=> visible)
    OBVIOUS
  <2>1. Cursor!Entry \in Cursor!Entries /\ Cursor!Entry \in Cursor!Written
    BY <1>1, EntryHas, EntriesIn DEF MergeInv
  <2> QED BY <2>1, BeforeIs DEF Cursor!Written, Visible
<1>8. \A e \in Visible : e \in Cursor!Entries /\ e \in Cursor!Written /\ e.key \in Nat
  BY <1>1, VisibleIs
<1>9. ASSUME NEW e \in Rest PROVE e.key <= Cursor!Entry.key
  <2>1. AtOrBefore(e, Cursor!Entry) /\ Cursor!Valid(merge)
    BY <1>6
  <2>2. e \in Cursor!Written /\ Cursor!Entry \in Cursor!Written
    BY <1>4, <1>7, <1>8, <2>1
  <2> QED BY <2>1, <2>2, BeforeIs DEF AtOrBefore
<1>10. CASE over /\ iter.found
  <2>1. iter' = [iter EXCEPT !.pc = "idle", !.valid = TRUE]
    BY <1>1, <1>10
  <2>2. /\ iter' \in Calls /\ iter'.pc = "idle" /\ iter'.valid /\ ~ iter'.forward
        /\ iter'.saved = iter.saved /\ iter'.savedSeq = iter.savedSeq
    BY <1>1, <1>4, <2>1 DEF Calls
  <2>3. PICK q \in Visible \ Rest : /\ q.key = iter.saved /\ q.seq = iter.savedSeq /\ ~ q.del
                                    /\ \A e \in Visible \ Rest : AtOrBefore(q, e)
    BY <1>4, <1>10 DEF Found
  <2>4. \A e \in Rest : e.key < iter.saved
    <3> SUFFICES ASSUME NEW e \in Rest PROVE e.key < iter.saved
      OBVIOUS
    <3>1. Cursor!Valid(merge)
      BY <1>6
    <3>2. Cursor!Entry.key < iter.saved
      BY <1>10, <3>1
    <3>3. e.key <= Cursor!Entry.key /\ e.key \in Nat /\ Cursor!Entry.key \in Nat
      BY <1>4, <1>7, <1>8, <1>9, <3>1
    <3> QED BY <1>5, <3>2, <3>3
  <2>5. \A d \in Visible : d.key = q.key => AtOrBefore(q, d)
    <3> SUFFICES ASSUME NEW d \in Visible, d.key = q.key PROVE AtOrBefore(q, d)
      OBVIOUS
    <3>1. d \notin Rest
      <4> SUFFICES ASSUME d \in Rest PROVE FALSE
        OBVIOUS
      <4>1. d.key < iter.saved
        BY <2>4
      <4> QED BY <1>5, <2>3, <4>1
    <3> QED BY <2>3, <3>1
  <2>6. iter.saved \in Cursor!Live /\ Cursor!Newest(iter.saved) = {q}
    <3>1. q.key \in Cursor!Live /\ Cursor!Newest(q.key) = {q}
      BY <1>1, <2>3, <2>5, LiveIs
    <3> QED BY <2>3, <3>1
  <2>7. expected = iter.saved
    <3>1. iter.saved \in Wanted(iter, Rest)
      BY <1>10, <2>3, <2>6 DEF Wanted
    <3>2. \A k \in Wanted(iter, Rest) : k \in Nat /\ k <= iter.saved
      <4> SUFFICES ASSUME NEW k \in Wanted(iter, Rest) PROVE k \in Nat /\ k <= iter.saved
        OBVIOUS
      <4>1. k \in Cursor!Live /\ \E e \in Cursor!Newest(k) : e \in Rest \/ e.key = iter.saved
        BY DEF Wanted
      <4>2. PICK e \in Cursor!Newest(k) : e \in Rest \/ e.key = iter.saved
        BY <4>1
      <4>3. e.key = k /\ e \in Visible
        BY <1>1, <4>2, NewestEntryIs
      <4>4. e.key \in Nat
        BY <1>8, <4>3
      <4> QED BY <1>5, <2>4, <4>2, <4>3, <4>4
    <3>3. Wanted(iter, Rest) \subseteq Nat
      BY <3>2
    <3> QED BY <1>4, <3>1, <3>2, <3>3, GreatestKeyIs
  <2>8. \A e \in Visible \ Rest : iter.saved <= e.key
    <3> SUFFICES ASSUME NEW e \in Visible \ Rest PROVE iter.saved <= e.key
      OBVIOUS
    <3>1. AtOrBefore(q, e) /\ q \in Cursor!Written /\ e \in Cursor!Written
      BY <1>8, <2>3
    <3>2. q.key <= e.key
      BY <3>1, BeforeIs DEF AtOrBefore
    <3> QED BY <2>3, <3>2
  <2>9. Cursor!Valid(merge) => Cursor!Entry.seq <= Snapshot /\ Cursor!Entry.key < iter.saved
    BY <1>10
  <2>10. \E e \in Cursor!Newest(iter.saved) : iter.savedSeq = e.seq
    BY <2>3, <2>6, SMTT(30)
  <2>11. BeforeEntries'
    BY <1>1, <1>2, <1>3, <1>4, <2>2, <2>6, <2>7, <2>8, <2>9, <2>10 DEF BeforeEntries
  <2>12. CallRight'
    BY <2>2, <2>11 DEF CallRight, Cursor!Idle
  <2> QED BY <1>2, <1>3, <2>2, <2>12 DEF IterInv, CallTypes
<1>11. CASE over /\ ~ iter.found
  <2>1. iter' = [Cursor!Invalid EXCEPT !.forward = TRUE]
    BY <1>1, <1>11
  <2>2. iter' \in Calls /\ iter'.pc = "idle" /\ ~ iter'.valid
    <3>1. Cursor!Invalid \in Calls /\ Cursor!Invalid.pc = "idle" /\ Cursor!Invalid.valid = FALSE
      BY <1>1 DEF Calls, Cursor!Invalid
    <3> QED BY <2>1, <3>1 DEF Calls
  <2>3. Rest = {}
    BY <1>6, <1>11
  <2>4. Wanted(iter, Rest) = {}
    BY <1>11, <2>3 DEF Wanted
  <2>5. expected' = 0
    BY <1>1, <1>4, <2>4, NoKeys
  <2>6. CallRight'
    BY <2>2, <2>5 DEF CallRight, Cursor!Idle
  <2> QED BY <1>2, <1>3, <2>2, <2>6 DEF IterInv, CallTypes
<1>12. CASE ~ over
  <2> DEFINE R == Rest \ {Cursor!Entry}
  <2>1. Cursor!Valid(merge) /\ iter' = [passed EXCEPT !.pc = "back", !.then = "prev"]
    BY <1>1, <1>12
  <2>2. R \subseteq Visible /\ (visible => Cursor!Entry \in Rest)
    <3>1. ASSUME visible PROVE Cursor!Entry \in Rest
      <4>1. PICK c \in Child : merge.at[c] = {Cursor!Entry} /\ Cursor!Entry \in children[c]
        BY <1>1, <2>1, EntryHas DEF MergeInv
      <4>2. Cursor!Entry \in Seen(c)
        BY <3>1, <4>1 DEF Seen
      <4> QED BY <1>1, <4>1, <4>2, RemainingIs DEF AtOrBefore
    <3> QED BY <1>4, <3>1
  <2>3. ASSUME visible, NEW k \in Cursor!Live, NEW n \in Cursor!Newest(k), iter.found, n.key = iter.saved, n.seq = iter.savedSeq
        PROVE  FALSE
    <3>1. PICK q \in Visible \ Rest : q.key = iter.saved /\ q.seq = iter.savedSeq
      BY <1>4, <2>3 DEF Found
    <3>2. n \in Visible /\ Cursor!Newest(k) = {n} /\ n.key = k /\ \A d \in Visible : d.key = k => AtOrBefore(n, d)
      BY <1>1, <2>3, NewestEntryIs
    <3>3. n = q
      <4>1. PICK c \in Child : n \in children[c]
        BY <1>1, <1>8, <3>2, EntriesIn
      <4>2. PICK d \in Child : q \in children[d]
        BY <1>1, <1>8, <3>1, EntriesIn
      <4> QED BY <1>1, <2>3, <3>1, <4>1, <4>2, OneChild
    <3>4. Cursor!Entry \in Visible /\ Cursor!Entry \in Rest /\ q # Cursor!Entry
      BY <1>4, <2>2, <2>3, <3>1
    <3>5. AtOrBefore(Cursor!Entry, q) /\ ~ Cursor!Before(q, Cursor!Entry)
      <4>1. ~ Cursor!Before(q, Cursor!Entry)
        BY <1>6, <3>1, <3>4
      <4> QED BY <1>1, <1>8, <3>1, <3>4, <4>1, Total
    <3>6. Cursor!Entry.key <= q.key
      <4>1. Cursor!Entry \in Cursor!Written /\ q \in Cursor!Written
        BY <1>8, <3>1, <3>4
      <4> QED BY <3>5, <4>1, BeforeIs DEF AtOrBefore
    <3>7. ~ (Cursor!Entry.key < iter.saved)
      BY <1>12, <2>3
    <3>8. Cursor!Entry.key = k
      <4>1. Cursor!Entry.key \in Nat
        BY <1>8, <3>4
      <4> QED BY <1>5, <2>3, <3>1, <3>2, <3>6, <3>7, <4>1
    <3>9. AtOrBefore(q, Cursor!Entry)
      BY <3>2, <3>3, <3>4, <3>8
    <3> QED BY <3>4, <3>5, <3>9 DEF AtOrBefore
  <2>4. visible => \A k \in Cursor!Live : \A n \in Cursor!Newest(k) : ~ (iter.found /\ n.key = iter.saved /\ n.seq = iter.savedSeq)
    BY <2>3
  <2>5. /\ passed \in Calls /\ ~ passed.forward
        /\ Found(passed, R) /\ Wanted(passed, R) = Wanted(iter, Rest)
    <3>1. CASE ~ visible
      <4>1. passed = iter
        BY <3>1
      <4>2. R = Rest
        BY <1>4, <1>7, <2>1, <3>1
      <4> HIDE DEF passed, R
      <4> QED BY <1>1, <1>4, <4>1, <4>2
    <3>2. CASE visible /\ Cursor!Entry.del
      <4>1. passed = [iter EXCEPT !.found = FALSE, !.saved = 0, !.savedSeq = 0]
        BY <3>2
      <4>2. passed \in Calls /\ ~ passed.forward /\ passed.found = FALSE
        BY <1>1, <1>4, <4>1 DEF Calls
      <4> HIDE DEF passed
      <4>3. ASSUME NEW k \in Cursor!Live
            PROVE  (\E e \in Cursor!Newest(k) : e \in R)
                     <=> \E e \in Cursor!Newest(k) : e \in Rest \/ (iter.found /\ e.key = iter.saved /\ e.seq = iter.savedSeq)
        <5>1. PICK n \in Visible : Cursor!Newest(k) = {n} /\ ~ n.del
          BY <1>1, LiveIs
        <5>2. ~ (iter.found /\ n.key = iter.saved /\ n.seq = iter.savedSeq)
          BY <2>4, <3>2, <5>1
        <5> QED BY <3>2, <5>1, <5>2
      <4>4. Wanted(passed, R) = Wanted(iter, Rest)
        BY <4>2, <4>3 DEF Wanted
      <4> QED BY <4>2, <4>4 DEF Found
    <3>3. CASE visible /\ ~ Cursor!Entry.del
      <4>1. passed = [iter EXCEPT !.found = TRUE, !.saved = Cursor!Entry.key, !.savedSeq = Cursor!Entry.seq]
        BY <3>3
      <4>2. /\ passed \in Calls /\ ~ passed.forward /\ passed.found = TRUE
            /\ passed.saved = Cursor!Entry.key /\ passed.savedSeq = Cursor!Entry.seq
        BY <1>1, <1>4, <1>7, <2>1, <4>1 DEF Calls
      <4> HIDE DEF passed
      <4>3. Cursor!Entry \in Visible /\ Cursor!Entry \in Rest /\ Cursor!Entry \in Cursor!Entries
        BY <1>7, <2>1, <2>2, <3>3
      <4>4. ASSUME NEW k \in Cursor!Live
            PROVE  (\E e \in Cursor!Newest(k) : e \in R \/ (e.key = Cursor!Entry.key /\ e.seq = Cursor!Entry.seq))
                     <=> \E e \in Cursor!Newest(k) : e \in Rest \/ (iter.found /\ e.key = iter.saved /\ e.seq = iter.savedSeq)
        <5>1. PICK n \in Visible : Cursor!Newest(k) = {n} /\ ~ n.del
          BY <1>1, LiveIs
        <5>2. ~ (iter.found /\ n.key = iter.saved /\ n.seq = iter.savedSeq)
          BY <2>4, <3>3, <5>1
        <5>3. n.seq = Cursor!Entry.seq => n = Cursor!Entry
          <6>1. PICK c \in Child : n \in children[c]
            BY <1>1, <1>8, <5>1, EntriesIn
          <6>2. PICK d \in Child : Cursor!Entry \in children[d]
            BY <1>1, <4>3, EntriesIn
          <6> QED BY <1>1, <6>1, <6>2, OneChild
        <5> QED BY <4>3, <5>1, <5>2, <5>3
      <4>5. Wanted(passed, R) = Wanted(iter, Rest)
        BY <4>2, <4>4 DEF Wanted
      <4>6. \A e \in Visible \ R : AtOrBefore(Cursor!Entry, e)
        <5> SUFFICES ASSUME NEW e \in Visible, e \notin Rest PROVE AtOrBefore(Cursor!Entry, e)
          BY DEF AtOrBefore
        <5>1. ~ Cursor!Before(e, Cursor!Entry)
          BY <1>6, <4>3
        <5> QED BY <1>1, <1>8, <4>3, <5>1, Total
      <4>7. Cursor!Entry \in Visible \ R
        BY <4>3
      <4> HIDE DEF R
      <4>8. Found(passed, R)
        BY <3>3, <4>2, <4>6, <4>7 DEF Found
      <4> QED BY <4>2, <4>5, <4>8
    <3> QED BY <3>1, <3>2, <3>3
  <2> HIDE DEF passed
  <2>6. /\ iter' \in Calls /\ iter'.pc = "back" /\ iter'.then = "prev" /\ iter'.forward = passed.forward
        /\ iter'.found = passed.found /\ iter'.saved = passed.saved /\ iter'.savedSeq = passed.savedSeq
    BY <2>1, <2>5 DEF Calls
  <2>7. expected' = Cursor!GreatestKey(Wanted(passed, R))
    BY <1>1, <1>4, <2>5
  <2>8. Rest' \ {Cursor!Entry'} = R
    BY <1>3
  <2>9. ~ merge'.forward
    BY <1>3, <1>4
  <2> HIDE DEF R
  <2>10. PrevRight(Rest \ {Cursor!Entry})'
    BY <1>1, <2>2, <2>5, <2>6, <2>7, <2>8, <2>9, PrevFrom
  <2>11. CallRight'
    BY <1>3, <2>1, <2>6, <2>10 DEF CallRight, Cursor!Idle
  <2> QED BY <1>2, <1>3, <2>6, <2>11 DEF IterInv, CallTypes
<1> QED BY <1>10, <1>11, <1>12

LEMMA IterStep == ASSUME IterInv, [Cursor!Next]_Cursor!vars PROVE IterInv'
<1>1. ASSUME UNCHANGED Cursor!vars PROVE IterInv'
  <2>1. UNCHANGED <<children, merge, iter, expected>>
    BY <1>1 DEF Cursor!vars
  <2>2. IterInv
    OBVIOUS
  <2>3. Base /\ MergeInv /\ iter \in Calls /\ CallRight
    BY <2>2 DEF IterInv, CallTypes
  <2>4. /\ Base' /\ Visible' = Visible
        /\ \A c \in Child : Seen(c)' = Seen(c) /\ children[c] \subseteq children'[c]
    BY <2>1, SameChildren
  <2>5. MergeInv' /\ CallRight' /\ iter' \in Calls
    BY <2>1, <2>3, <2>4, MergeStays, CallStays
  <2> QED BY <2>4, <2>5 DEF IterInv, CallTypes
<1>2. ASSUME Cursor!Next PROVE IterInv'
  BY <1>2, InsertStep, SeekStep, SeekToFirstStep, SeekToLastStep, DBIterNextStep, DBIterPrevStep,
     FindNextStep, InternalPrevStep, ScanBackStep, FindPrevStep DEF Cursor!Next
<1> QED BY <1>1, <1>2

LEMMA IterShown == IterInv => Cursor!IteratorRight
<1> SUFFICES ASSUME IterInv, Cursor!Idle
             PROVE  /\ iter.valid = (expected # 0)
                    /\ iter.valid => Cursor!Key = expected /\ \E e \in Cursor!Newest(expected) : Cursor!Value = e.seq
  BY DEF Cursor!IteratorRight
<1>1. iter \in Calls /\ Base /\ MergeInv
  BY DEF IterInv, CallTypes
<1>2. iter.valid \in BOOLEAN
  BY <1>1 DEF Calls
<1>3. CASE ~ iter.valid
  <2>1. expected = 0
    BY <1>3 DEF IterInv, CallRight
  <2> QED BY <1>2, <1>3, <2>1
<1>4. CASE iter.valid /\ iter.forward
  <2>1. AtEntry
    BY <1>4 DEF IterInv, CallRight
  <2>2. Cursor!Valid(merge) /\ Cursor!Newest(Cursor!Entry.key) = {Cursor!Entry} /\ expected = Cursor!Entry.key
    BY <2>1 DEF AtEntry
  <2>3. Cursor!Entry \in Cursor!Written
    BY <1>1, <2>2, EntryHas, EntriesIn DEF MergeInv
  <2>4. Cursor!Entry.key \in Nat /\ Cursor!Entry.key > 0
    BY <2>3, BeforeIs
  <2>5. expected # 0 /\ Cursor!Newest(expected) = {Cursor!Entry}
    BY <2>2, <2>4
  <2>6. Cursor!Key = expected /\ Cursor!Value = Cursor!Entry.seq
    BY <1>4, <2>2 DEF Cursor!Key, Cursor!Value
  <2> QED BY <1>2, <1>4, <2>5, <2>6
<1>5. CASE iter.valid /\ ~ iter.forward
  <2>1. BeforeEntries
    BY <1>5 DEF IterInv, CallRight
  <2>2. expected = iter.saved /\ iter.saved \in Cursor!Live /\ \E e \in Cursor!Newest(iter.saved) : iter.savedSeq = e.seq
    BY <2>1 DEF BeforeEntries
  <2>3. expected # 0
    BY <1>1, <2>2, LiveIs
  <2> QED BY <1>2, <1>5, <2>2, <2>3 DEF Cursor!Key, Cursor!Value
<1> QED BY <1>3, <1>4, <1>5

(* Whatever calls a caller makes, to and fro, and whatever is written to   *)
(* the memtable meanwhile: the iterator is at the key that the calls lead  *)
(* to in the list of the keys that were there as of its snapshot, with the *)
(* value it had then (DBIter, db_iter.cc; MergingIterator, merger.cc).     *)
THEOREM IteratorIsRight == StorageSpec => []IteratorRight
<1> DEFINE Inv == part = "iterator" => IterInv
<1>1. StorageInit => Inv
  BY InitIter DEF StorageInit
<1>2. Inv /\ [StorageNext]_storage => Inv'
  <2> SUFFICES ASSUME Inv, [StorageNext]_storage, part' = "iterator" PROVE IterInv'
    OBVIOUS
  <2>1. part = "iterator" /\ [Cursor!Next]_Cursor!vars
    BY DEF StorageNext, storage, iterator, Cursor!vars
  <2> QED BY <2>1, IterStep
<1>3. Inv => IteratorRight
  BY IterShown DEF IteratorRight
<1> QED BY <1>1, <1>2, <1>3, PTL DEF StorageSpec
=============================================================================
