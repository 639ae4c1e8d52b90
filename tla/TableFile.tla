----------------------------- MODULE TableFile -----------------------------
(***************************************************************************)
(* A table file of LevelDB: TableBuilder cuts sorted entries into blocks   *)
(* with restart points and writes an index of separators; Block::Iter and  *)
(* TwoLevelIterator find and walk them to and fro, and Table::InternalGet  *)
(* looks one up (Pods/leveldb-library/table).  An offset in a block is the *)
(* number of the entry there, the bytes that a key shares with the one     *)
(* before are all or none of those that matter, a handle is the number of  *)
(* its block, and a block may be full after any entry.  No filter policy   *)
(* is set in this repository.                                              *)
(***************************************************************************)
EXTENDS Integers, Sequences, FiniteSets

CONSTANTS
    UserKey,            \* the user keys, an interval of positive integers
    MaxSeq,             \* kMaxSequenceNumber; entries have smaller ones
    RestartInterval,    \* options.block_restart_interval
    MaxEntries,         \* bound: entries of the table
    MaxErrors           \* bound: calls during which a block cannot be read

FileAssumption ==
    /\ UserKey \subseteq Nat \ {0} /\ MaxSeq \in Nat /\ RestartInterval \in Nat \ {0}
    /\ MaxEntries \in Nat /\ MaxErrors \in Nat

VARIABLES
    builder,            \* TableBuilder::Rep
    blocks,             \* the data blocks in the file
    cursor,             \* the TwoLevelIterator of a reader
    wanted              \* the entry that it should be at, if any

vars == <<builder, blocks, cursor, wanted>>

-----------------------------------------------------------------------------
(* InternalKeyComparator: by user key, the newest entry first; a shortened *)
(* separator or successor has the greatest number, so it comes first.      *)
Key == [key : UserKey, seq : 1..(MaxSeq - 1)]
Before(a, b) == a.key < b.key \/ (a.key = b.key /\ a.seq > b.seq)
Shortened(K) == [key : K, seq : {MaxSeq}]
FindShortestSeparator(a, b) == {a} \cup Shortened({u \in UserKey : a.key < u /\ u < b.key})
FindShortSuccessor(a) == {a} \cup Shortened({u \in UserKey : a.key < u})
Least(K) == {k \in K : \A j \in K : j = k \/ Before(k, j)}
Greatest(K) == {k \in K : \A j \in K : j = k \/ Before(j, k)}

-----------------------------------------------------------------------------
(* What a loop ends with: turn is one turn of it, goes has the states in   *)
(* which it makes another, and most bounds their number.                   *)
Turned(turn, s) ==
    LET after[n \in Nat] == IF n = 0 THEN s ELSE turn[after[n - 1]]
    IN  after
Loop(turn, goes, s, most) ==
    LET after == Turned(turn, s)
    IN  after[CHOOSE n \in 0..most : after[n] \notin goes /\ \A m \in 0..(n - 1) : after[m] \in goes]

-----------------------------------------------------------------------------
(***************************************************************************)
(* BlockBuilder.                                                           *)
(***************************************************************************)
EmptyBlock == [entries |-> <<>>, restarts |-> <<0>>, counter |-> 0]

BlockAdd(b, interval, key, value, shares) ==
    LET restart == b.counter >= interval
    IN  [entries |-> Append(b.entries, [key |-> key, value |-> value,
                                        shared |-> shares /\ ~ restart /\ b.entries # <<>>]),
         restarts |-> IF restart THEN Append(b.restarts, Len(b.entries)) ELSE b.restarts,
         counter |-> IF restart THEN 1 ELSE b.counter + 1]

-----------------------------------------------------------------------------
(***************************************************************************)
(* Block::Iter.  at: current_; next: NextEntryOffset(); key: key_, which   *)
(* the next entry may share bytes with.                                    *)
(***************************************************************************)
Iterator == [at : Nat, restart : Nat, key : [key : Nat, seq : Nat], next : Nat, ok : BOOLEAN]
End(b) == Len(b.entries)
RestartPoint(b, i) == b.restarts[i + 1]
NoKey == [key |-> 0, seq |-> 0]
NewIterator(b) == [at |-> End(b), restart |-> Len(b.restarts), key |-> NoKey, next |-> 0, ok |-> TRUE]
Valid(b, it) == it.at < End(b)

SeekToRestartPoint(b, it, i) == [it EXCEPT !.key = NoKey, !.restart = i, !.next = RestartPoint(b, i)]

(* A key that shares bytes with another one than key_ cannot be told. *)
Decoded(b, it) ==
    LET e == b.entries[it.next + 1]
    IN  IF e.shared /\ it.key # b.entries[it.next].key THEN NoKey ELSE e.key

ParseNextKey(b, it) ==
    IF it.next >= End(b) THEN [it EXCEPT !.at = End(b), !.restart = Len(b.restarts)]
    ELSE [it EXCEPT !.at = it.next, !.next = it.next + 1, !.key = Decoded(b, it),
                    !.restart = @ + Cardinality({i \in (@ + 1)..(Len(b.restarts) - 1) :
                                                    RestartPoint(b, i) < it.next})]

Parsing(b) == [it \in Iterator |-> ParseNextKey(b, it)]
SkipTo(b, it, end) ==
    Loop(Parsing(b), {n \in Iterator : Valid(b, n) /\ n.next < end}, ParseNextKey(b, it), End(b))

(* Prev: from the last restart point before the entry. *)
BlockPrev(b, it) ==
    LET points == {i \in 0..it.restart : RestartPoint(b, i) < it.at}
    IN  IF points = {} THEN [it EXCEPT !.at = End(b), !.restart = Len(b.restarts)]
        ELSE SkipTo(b, SeekToRestartPoint(b, it, CHOOSE i \in points : \A j \in points : j <= i), it.at)

BlockFirst(b, it) == ParseNextKey(b, SeekToRestartPoint(b, it, 0))
BlockLast(b, it) == SkipTo(b, SeekToRestartPoint(b, it, Len(b.restarts) - 1), End(b))

(* The binary search of Seek: -1 if a restart point shares bytes. *)
Halved(b, t, left, right) ==
    LET mid == (left + right + 1) \div 2
        e == b.entries[RestartPoint(b, mid) + 1]
    IN  CASE e.shared -> <<-1, -1>>
          [] ~ e.shared /\ Before(e.key, t) -> <<mid, right>>
          [] ~ e.shared /\ ~ Before(e.key, t) -> <<left, mid - 1>>
LastRestart(b, t) ==
    LET range == Nat \X Nat
    IN  Loop([r \in range |-> Halved(b, t, r[1], r[2])], {r \in range : r[1] < r[2]},
             <<0, Len(b.restarts) - 1>>, Len(b.restarts))[1]

ScanTo(b, it, t) ==
    Loop(Parsing(b), {n \in Iterator : Valid(b, n) /\ Before(n.key, t)}, ParseNextKey(b, it), End(b))

BlockSeek(b, it, t) ==
    LET left == LastRestart(b, t)
    IN  IF left = -1
        THEN [it EXCEPT !.at = End(b), !.restart = Len(b.restarts), !.key = NoKey, !.ok = FALSE]
        ELSE ScanTo(b, SeekToRestartPoint(b, it, left), t)

-----------------------------------------------------------------------------
(***************************************************************************)
(* TableBuilder.                                                           *)
(***************************************************************************)
Init ==
    /\ builder = [open |-> TRUE, ok |-> TRUE, data |-> EmptyBlock, index |-> EmptyBlock,
                  last |-> NoKey, pending |-> FALSE, added |-> {}]
    /\ blocks = <<>>
    /\ cursor = [index |-> NewIterator(EmptyBlock), block |-> 0, readable |-> TRUE,
                 data |-> NewIterator(EmptyBlock), ok |-> TRUE, forward |-> TRUE, errors |-> 0]
    /\ wanted = {}

(* The index entry of a block waits for the first key of the next one. *)
Indexed(b, key) ==
    IF b.pending THEN [b EXCEPT !.index = BlockAdd(@, 1, key, Len(blocks), FALSE), !.pending = FALSE] ELSE b

(* Flush, with WriteBlock and WriteRawBlock: a block that is not empty is  *)
(* written, or the builder has failed for good.                            *)
Flushed(b, ok) ==
    [b EXCEPT !.data = EmptyBlock, !.pending = ok, !.ok = ok]

Add(key, separator, shares, full, ok) ==
    LET b == Indexed(builder, separator)
        c == [b EXCEPT !.data = BlockAdd(@, RestartInterval, key, 0, shares),
                       !.last = key, !.added = @ \cup {key}]
    IN  /\ builder.open /\ builder.ok /\ Cardinality(builder.added) < MaxEntries
        /\ builder.added = {} \/ Before(builder.last, key)
        /\ builder' = IF full THEN Flushed(c, ok) ELSE c
        /\ blocks' = IF full /\ ok THEN Append(blocks, c.data) ELSE blocks
        /\ UNCHANGED <<cursor, wanted>>

(* Finish: the last block, and the index with a successor as its last key; *)
(* the blocks before and behind the index are not read here.               *)
Finish(successor, ok) ==
    LET unwritten == builder.data # EmptyBlock
        written == IF unwritten THEN Append(blocks, builder.data) ELSE blocks
        b == IF unwritten THEN Flushed(builder, ok) ELSE [builder EXCEPT !.ok = ok]
    IN  /\ builder.open /\ builder.ok /\ builder.added # {}
        /\ blocks' = IF ok THEN written ELSE blocks
        /\ builder' = [b EXCEPT !.open = FALSE, !.pending = FALSE,
                          !.index = IF ok THEN BlockAdd(@, 1, successor, Len(written), FALSE) ELSE @]
        /\ cursor' = [cursor EXCEPT !.index = NewIterator(builder'.index)]
        /\ UNCHANGED wanted

-----------------------------------------------------------------------------
(***************************************************************************)
(* TwoLevelIterator.  An iterator of a block that cannot be read is one of *)
(* no entries, with an error; bad has the blocks that cannot be read now.  *)
(***************************************************************************)
Index == builder.index
IndexValid(c) == Valid(Index, c.index)
DataBlock(c) == IF c.block # 0 /\ c.readable THEN blocks[c.block] ELSE EmptyBlock
DataValid(c) == c.block # 0 /\ Valid(DataBlock(c), c.data)
DataOk(c) == c.block # 0 => c.readable /\ c.data.ok

(* mutant: what went wrong in the block that is left is forgotten. *)
SetNoErrorSaved(c, h, bad) ==
    LET d == [c EXCEPT !.block = h, !.readable = h \notin bad]
    IN  [d EXCEPT !.data = NewIterator(DataBlock(d))]

SetDataIterator(c, h, bad) ==
    LET d == [c EXCEPT !.block = h, !.readable = h \notin bad, !.ok = @ /\ DataOk(c)]
    IN  [d EXCEPT !.data = NewIterator(DataBlock(d))]

InitDataBlock(c, bad) ==
    LET h == Index.entries[c.index.at + 1].value
    IN  CASE ~ IndexValid(c) -> SetDataIterator(c, 0, {})
          [] IndexValid(c) /\ h = c.block -> c
          [] IndexValid(c) /\ h # c.block -> SetDataIterator(c, h, bad)

(* Where the index is now and, unless that is its end, the data iterator. *)
WithIndex(c, index, bad) == InitDataBlock([c EXCEPT !.index = index], bad)
WithData(c, data) == IF c.block = 0 THEN c ELSE [c EXCEPT !.data = data]
AtKey(c, t) == WithData(c, BlockSeek(DataBlock(c), c.data, t))
AtFirst(c) == WithData(c, BlockFirst(DataBlock(c), c.data))
AtLast(c) == WithData(c, BlockLast(DataBlock(c), c.data))

Cursor == [index : Iterator, block : Nat, readable : BOOLEAN, data : Iterator,
           ok : BOOLEAN, forward : BOOLEAN, errors : Nat]
EmptyData == {c \in Cursor : ~ DataValid(c) /\ IndexValid(c)}
EndIfEmpty(c) == IF DataValid(c) THEN c ELSE SetDataIterator(c, 0, {})

SkipEmptyDataBlocksForward(c, bad) ==
    EndIfEmpty(Loop([d \in Cursor |-> AtFirst(WithIndex(d, ParseNextKey(Index, d.index), bad))],
                    EmptyData, c, Len(blocks)))
SkipEmptyDataBlocksBackward(c, bad) ==
    EndIfEmpty(Loop([d \in Cursor |-> AtLast(WithIndex(d, BlockPrev(Index, d.index), bad))],
                    EmptyData, c, Len(blocks)))

(* A call of a reader, during which some blocks cannot be read. *)
Called(c, forward, want, bad) ==
    /\ ~ builder.open /\ builder.ok
    /\ bad # {} => cursor.errors < MaxErrors
    /\ cursor' = [c EXCEPT !.forward = forward, !.errors = IF bad = {} THEN @ ELSE @ + 1]
    /\ wanted' = want
    /\ UNCHANGED <<builder, blocks>>

Added == builder.added
Seek(t, bad) ==
    Called(SkipEmptyDataBlocksForward(AtKey(WithIndex(cursor, BlockSeek(Index, cursor.index, t), bad), t), bad),
           TRUE, Least({k \in Added : ~ Before(k, t)}), bad)
SeekToFirst(bad) ==
    Called(SkipEmptyDataBlocksForward(AtFirst(WithIndex(cursor, BlockFirst(Index, cursor.index), bad)), bad),
           TRUE, Least(Added), bad)
SeekToLast(bad) ==
    Called(SkipEmptyDataBlocksBackward(AtLast(WithIndex(cursor, BlockLast(Index, cursor.index), bad)), bad),
           FALSE, Greatest(Added), bad)
NextEntry(bad) ==
    /\ DataValid(cursor)
    /\ Called(SkipEmptyDataBlocksForward(
                  [cursor EXCEPT !.data = ParseNextKey(DataBlock(cursor), @)], bad),
              TRUE, Least({k \in Added : Before(cursor.data.key, k)}), bad)
PrevEntry(bad) ==
    /\ DataValid(cursor)
    /\ Called(SkipEmptyDataBlocksBackward(
                  [cursor EXCEPT !.data = BlockPrev(DataBlock(cursor), @)], bad),
              FALSE, Greatest({k \in Added : Before(k, cursor.data.key)}), bad)

Next ==
    \/ \E key \in Key, shares, full, ok \in BOOLEAN :
          \E separator \in FindShortestSeparator(builder.last, key) :
             Add(key, separator, shares, full, ok)
    \/ \E successor \in FindShortSuccessor(builder.last), ok \in BOOLEAN : Finish(successor, ok)
    \/ \E bad \in SUBSET (DOMAIN blocks) :
          \/ \E k \in UserKey, s \in 1..MaxSeq : Seek([key |-> k, seq |-> s], bad)
          \/ SeekToFirst(bad) \/ SeekToLast(bad) \/ NextEntry(bad) \/ PrevEntry(bad)

Spec == Init /\ [][Next]_vars

-----------------------------------------------------------------------------
(* Table::InternalGet: the entry handed to the saver, if any. *)
InternalGet(t) ==
    LET at == BlockSeek(Index, NewIterator(Index), t)
        b == blocks[Index.entries[at.at + 1].value]
        it == BlockSeek(b, NewIterator(b), t)
    IN  CASE ~ Valid(Index, at) -> {}
          [] Valid(Index, at) /\ Valid(b, it) -> {it.key}
          [] Valid(Index, at) /\ ~ Valid(b, it) -> {}

(* A lookup is handed the newest entry that it may see of its key, or none *)
(* of this key if there is none: the one block that the index gives, with  *)
(* whatever separators, is the right one.                                  *)
GetRight ==
    ~ builder.open /\ builder.ok =>
        \A t \in [key : UserKey, seq : 1..MaxSeq] :
            {k \in InternalGet(t) : k.key = t.key} =
                Least({k \in Added : k.key = t.key /\ k.seq <= t.seq})

(* An iterator without an error is where its calls lead to in the sorted   *)
(* entries; with one it may have left some out, but is at an entry, and    *)
(* not before the one that it should be at.                                *)
FileIteratorRight ==
    LET at == IF DataValid(cursor) THEN {cursor.data.key} ELSE {}
    IN  IF cursor.ok /\ DataOk(cursor) THEN at = wanted
        ELSE /\ at \subseteq Added
             /\ \A k \in at, w \in wanted : IF cursor.forward THEN ~ Before(k, w) ELSE ~ Before(w, k)
=============================================================================
