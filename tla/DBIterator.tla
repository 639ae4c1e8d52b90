----------------------------- MODULE DBIterator -----------------------------
(***************************************************************************)
(* DBIter over a MergingIterator (Pods/leveldb-library/db/db_iter.cc and   *)
(* table/merger.cc): a caller moves to and fro over what the database held *)
(* at a sequence number, while its memtable, one of the children, grows.   *)
(* One step is one call of the internal iterator; a value is known by the  *)
(* sequence number of its entry.  Samples for compactions by reads, and    *)
(* entries that cannot be parsed, are left out.                            *)
(***************************************************************************)
EXTENDS Integers, FiniteSets

CONSTANTS
    UserKey,        \* the user keys, positive integers in their order
    Child,          \* the children of the MergingIterator, from 1, the memtable
    Contents,       \* the contents of the children when the iterator is made
    Snapshot,       \* sequence_
    MaxInserts      \* bound: how many entries are written meanwhile

(* What the children hold is numbered in the order of the writes, and what *)
(* was written after the snapshot is still there: compactions keep it.     *)
Written == [key : UserKey, seq : Nat, del : BOOLEAN]
Numbered(c) ==
    LET all == UNION {c[d] : d \in Child}
    IN  /\ IsFiniteSet(all)
        /\ \A d, e \in Child : \A a \in c[d], b \in c[e] : a.seq = b.seq => d = e /\ a = b
        /\ \A a \in all : a.seq <= Snapshot + Cardinality({b \in all : b.seq > Snapshot})

IteratorAssumption ==
    /\ UserKey \subseteq Nat \ {0} /\ Child \subseteq Nat \ {0} /\ 1 \in Child
    /\ Snapshot \in Nat /\ MaxInserts \in Nat
    /\ \A c \in Contents : c \in [Child -> SUBSET Written] /\ Numbered(c)

VARIABLES
    children,       \* children[c]: the entries of child c
    merge,          \* the MergingIterator: the entry each child is at, if any,
                    \*   current_, and direction_
    iter,           \* the DBIter, and the call under way
    expected        \* the key it should be at, or 0

vars == <<children, merge, iter, expected>>

-----------------------------------------------------------------------------
(* InternalKeyComparator: by user key, the newest entry first. *)
Before(a, b) == a.key < b.key \/ (a.key = b.key /\ a.seq > b.seq)
Least(E) == {e \in E : \A d \in E : d = e \/ Before(e, d)}
Greatest(E) == {e \in E : \A d \in E : d = e \/ Before(d, e)}

(* Where a child is: the set of its entry, or {} if it is not Valid().     *)
SeekIn(c, t) == Least({e \in children[c] : ~ Before(e, t)})
NextIn(c, at) == Least({e \in children[c] : \A p \in at : Before(p, e)})
PrevIn(c, at) == Greatest({e \in children[c] : \A p \in at : Before(e, p)})

FindSmallest(at) == {c \in Child : at[c] # {} /\ at[c] = Least(UNION {at[d] : d \in Child})}
FindLargest(at) == {c \in Child : at[c] # {} /\ at[c] = Greatest(UNION {at[d] : d \in Child})}
Forward(at) == [at |-> at, current |-> FindSmallest(at), forward |-> TRUE, last |-> {}]
Reverse(at) == [at |-> at, current |-> FindLargest(at), forward |-> FALSE, last |-> {}]

Valid(m) == m.current # {}
Entry == CHOOSE e \in UNION {merge.at[c] : c \in merge.current} : TRUE

MergeFirst == Forward([c \in Child |-> Least(children[c])])
MergeLast == Reverse([c \in Child |-> Greatest(children[c])])
MergeSeek(t) == Forward([c \in Child |-> SeekIn(c, t)])

(* mutant: the children that are not current_ stay where they were. *)
MergeNextUnsought ==
    Forward([c \in Child |-> IF c \in merge.current THEN NextIn(c, merge.at[c]) ELSE merge.at[c]])

(* MergingIterator::Next: children that were before key() go after it. *)
MergeNext ==
    Forward([c \in Child |-> IF c \in merge.current \/ ~ merge.forward
                             THEN NextIn(c, {Entry}) ELSE merge.at[c]])

(* MergingIterator::Prev: children that were after key() go before it, and *)
(* a child that ends before it to its last entry, which may be a new one.  *)
MergeTurns ==
    LET others == Child \ merge.current
        behind == {c \in others : SeekIn(c, Entry) = {}}
    IN  [merge EXCEPT !.at = [c \in Child |-> IF c \in others THEN PrevIn(c, {Entry}) ELSE @[c]],
                      !.forward = FALSE, !.last = behind]
MergePrev ==
    Reverse([c \in Child |-> CASE c \in merge.current -> PrevIn(c, merge.at[c])
                               [] c \in merge.last -> Greatest(children[c])
                               [] OTHER -> merge.at[c]])

-----------------------------------------------------------------------------
(* What the iterator is over: the newest entry of each key that is not a   *)
(* deletion, as of the snapshot.                                           *)
Entries == UNION {children[c] : c \in Child}
Newest(k) == Least({e \in Entries : e.key = k /\ e.seq <= Snapshot})
Live == {k \in UserKey : \E e \in Newest(k) : ~ e.del}
LeastKey(K) == IF K = {} THEN 0 ELSE CHOOSE k \in K : \A l \in K : k <= l
GreatestKey(K) == IF K = {} THEN 0 ELSE CHOOSE k \in K : \A l \in K : l <= k

Init ==
    /\ children \in Contents
    /\ merge = [at |-> [c \in Child |-> {}], current |-> {}, forward |-> TRUE, last |-> {}]
    /\ iter = [pc |-> "idle", then |-> "idle", valid |-> FALSE, forward |-> TRUE, saved |-> 0,
               savedSeq |-> 0, skipping |-> FALSE, found |-> FALSE]
    /\ expected = 0

(* A write, to the memtable that the iterator holds. *)
Insert(k) ==
    LET inserted == {e \in Entries : e.seq > Snapshot}
    IN  /\ Cardinality(inserted) < MaxInserts
        /\ children' = [children EXCEPT ![1] =
                @ \cup {[key |-> k, seq |-> Snapshot + Cardinality(inserted) + 1, del |-> FALSE]}]
        /\ UNCHANGED <<merge, iter, expected>>

-----------------------------------------------------------------------------
Idle == iter.pc = "idle"
Invalid == [iter EXCEPT !.pc = "idle", !.valid = FALSE, !.saved = 0, !.savedSeq = 0]
FindNextIn(m, it) == IF Valid(m) THEN [it EXCEPT !.pc = "next"] ELSE [Invalid EXCEPT !.forward = TRUE]

Sought(m) ==
    /\ Idle
    /\ merge' = m
    /\ iter' = FindNextIn(m, [iter EXCEPT !.forward = TRUE, !.saved = 0, !.savedSeq = 0, !.skipping = FALSE])
    /\ UNCHANGED children

SeekToFirst == Sought(MergeFirst) /\ expected' = LeastKey(Live)
Seek(t) == Sought(MergeSeek([key |-> t, seq |-> Snapshot])) /\ expected' = LeastKey({k \in Live : k >= t})

SeekToLast ==
    /\ Idle
    /\ merge' = MergeLast
    /\ iter' = [iter EXCEPT !.pc = "prev", !.forward = FALSE, !.savedSeq = 0, !.found = FALSE]
    /\ expected' = GreatestKey(Live)
    /\ UNCHANGED children

DBIterNext ==
    LET m == IF Valid(merge) THEN MergeNext ELSE MergeFirst
    IN  /\ Idle /\ iter.valid
        /\ expected' = LeastKey({k \in Live : k > expected})
        /\ IF iter.forward
           THEN /\ iter' = [iter EXCEPT !.pc = "next", !.saved = Entry.key, !.skipping = TRUE]
                /\ UNCHANGED merge
           ELSE /\ merge' = m
                /\ iter' = FindNextIn(m, [iter EXCEPT !.forward = TRUE, !.skipping = TRUE])
        /\ UNCHANGED children

(* One turn of the loop of FindNextUserEntry: a deletion hides what it     *)
(* deletes, and the key in saved_key_ is left behind.                      *)
FindNextUserEntry ==
    LET visible == Entry.seq <= Snapshot
    IN  /\ iter.pc = "next"
        /\ IF visible /\ ~ Entry.del /\ ~ (iter.skipping /\ Entry.key <= iter.saved)
           THEN /\ iter' = [iter EXCEPT !.pc = "idle", !.valid = TRUE, !.saved = 0]
                /\ UNCHANGED merge
           ELSE /\ merge' = MergeNext
                /\ iter' = FindNextIn(merge', IF visible /\ Entry.del
                                              THEN [iter EXCEPT !.skipping = TRUE, !.saved = Entry.key]
                                              ELSE iter)
        /\ UNCHANGED <<children, expected>>

-----------------------------------------------------------------------------
DBIterPrev ==
    /\ Idle /\ iter.valid
    /\ expected' = GreatestKey({k \in Live : k < expected})
    /\ iter' = IF iter.forward THEN [iter EXCEPT !.pc = "back", !.then = "scan", !.saved = Entry.key]
               ELSE [iter EXCEPT !.pc = "prev", !.found = FALSE]
    /\ UNCHANGED <<children, merge>>

(* iter_->Prev(), whose change of direction takes two steps. *)
InternalPrev ==
    /\ iter.pc = "back"
    /\ IF merge.forward THEN merge' = MergeTurns /\ UNCHANGED iter
       ELSE merge' = MergePrev /\ iter' = [iter EXCEPT !.pc = iter.then]
    /\ UNCHANGED <<children, expected>>

(* One turn of Prev's loop back over the entries of the current key. *)
ScanBack ==
    /\ iter.pc = "scan"
    /\ iter' = CASE ~ Valid(merge) -> Invalid
                 [] Valid(merge) /\ Entry.key < iter.saved ->
                        [iter EXCEPT !.pc = "prev", !.forward = FALSE, !.found = FALSE]
                 [] Valid(merge) /\ Entry.key >= iter.saved -> [iter EXCEPT !.pc = "back"]
    /\ UNCHANGED <<children, merge, expected>>

(* One turn of FindPrevUserEntry: the entries of a key come the oldest     *)
(* first, and the last that is visible decides.                            *)
FindPrevUserEntry ==
    LET visible == Entry.seq <= Snapshot
        over == ~ Valid(merge) \/ (visible /\ iter.found /\ Entry.key < iter.saved)
        passed == CASE ~ visible -> iter
                    [] visible /\ Entry.del -> [iter EXCEPT !.found = FALSE, !.saved = 0, !.savedSeq = 0]
                    [] visible /\ ~ Entry.del ->
                          [iter EXCEPT !.found = TRUE, !.saved = Entry.key, !.savedSeq = Entry.seq]
    IN  /\ iter.pc = "prev"
        /\ iter' = CASE over /\ iter.found -> [iter EXCEPT !.pc = "idle", !.valid = TRUE]
                     [] over /\ ~ iter.found -> [Invalid EXCEPT !.forward = TRUE]
                     [] ~ over -> [passed EXCEPT !.pc = "back", !.then = "prev"]
        /\ UNCHANGED <<children, merge, expected>>

Next ==
    \/ \E k \in UserKey : Insert(k) \/ Seek(k)
    \/ SeekToFirst \/ SeekToLast \/ DBIterNext \/ DBIterPrev
    \/ FindNextUserEntry \/ InternalPrev \/ ScanBack \/ FindPrevUserEntry

Spec == Init /\ [][Next]_vars

-----------------------------------------------------------------------------
Key == IF iter.forward THEN Entry.key ELSE iter.saved
Value == IF iter.forward THEN Entry.seq ELSE iter.savedSeq

(* Whatever calls were made, back and forth, and whatever was written      *)
(* meanwhile: the iterator is at the key that they lead to in a list of    *)
(* the keys that were not deleted as of its snapshot, with the value then. *)
IteratorRight ==
    Idle => /\ iter.valid = (expected # 0)
            /\ iter.valid => Key = expected /\ \E e \in Newest(expected) : Value = e.seq
=============================================================================
