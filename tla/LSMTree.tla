------------------------------ MODULE LSMTree ------------------------------
(***************************************************************************)
(* The tables of a LevelDB database by key and level: the memtable's       *)
(* flush, the compactions that PickCompaction, SetupOtherInputs and        *)
(* CompactRange choose, what DoCompactionWork drops and where it cuts, and *)
(* what Version::Get finds (Pods/leveldb-library/db/version_set.cc and     *)
(* db_impl.cc).  LevelDB has the threads, logs and crashes around them.    *)
(*                                                                         *)
(* A value is known by its sequence number, and a table by its entries.    *)
(* Bytes are left out: values have any size, so an output may end after    *)
(* any entry, any level may be too big, any read may charge a seek, and a  *)
(* limit on bytes may or may not be passed by what is not empty.           *)
(***************************************************************************)
EXTENDS Integers, FiniteSets

CONSTANTS
    MaxKey,         \* user keys are 1..MaxKey, in their order
    NumLevels,      \* config::kNumLevels
    MaxMemLevel,    \* config::kMaxMemCompactLevel
    TreeBounds      \* the bounds explored: how many keys an older table has, the
                    \*   keys used, and the calls of Put or Delete, of
                    \*   GetSnapshot, and of CompactRange

TreeAssumption ==
    /\ MaxKey \in Nat \ {0} /\ NumLevels \in Nat \ {0, 1}
    /\ MaxMemLevel \in 0..(NumLevels - 1)
    /\ TreeBounds \subseteq [old : 0..MaxKey, keys : 1..MaxKey, puts : Nat, snapshots : Nat, manual : Nat]

VARIABLES
    mem,            \* the entries of the memtable
    files,          \* files[l]: the tables of level l of the current version
    lastSeq,        \* LastSequence
    snapshots,      \* the sequence numbers of the snapshots held
    job,            \* the compaction under way
    written,        \* every entry ever written
    split,          \* a user key was ever in two tables of one level
    gap,            \* a memtable went between the inputs of a manual
                    \*   compaction, to the level of its outputs
    rest            \* the bounds left

vars == <<mem, files, lastSeq, snapshots, job, written, split, gap, rest>>

-----------------------------------------------------------------------------
Key == 1..MaxKey
Level == 0..(NumLevels - 1)

(* InternalKeyComparator: by user key, the newest entry first. *)
Before(a, b) == a.key < b.key \/ (a.key = b.key /\ a.seq > b.seq)

Entries(F) == UNION F
First(E) == CHOOSE e \in E : \A d \in E : d = e \/ Before(e, d)
Newest(E) == CHOOSE e \in E : \A d \in E : d.seq <= e.seq

(* The range of user keys from the smallest of some entries to the largest. *)
Span(E) == {k \in Key : /\ \E e \in E : e.key <= k
                        /\ \E e \in E : e.key >= k}
Overlap(f, range) == Span(f) \cap range # {}

(* GetOverlappingInputs: level 0 grows the range by each table it adds. *)
Closed(F, range) == \A f \in files[0] : Overlap(f, range \cup Span(Entries(F))) => f \in F
Overlapping(l, range) ==
    IF l > 0 THEN {f \in files[l] : Overlap(f, range)}
    ELSE CHOOSE F \in SUBSET files[0] :
            /\ Closed(F, range)
            /\ \A G \in SUBSET files[0] : Closed(G, range) => F \subseteq G

NoJob == [on |-> FALSE, manual |-> FALSE, level |-> 0, upper |-> {}, lower |-> {}, deep |-> {},
          smallest |-> 0]

Spend(bound) == rest[bound] > 0 /\ rest' = [rest EXCEPT ![bound] = @ - 1]

(* A new database, or one whose first memtable was flushed. *)
Init ==
    /\ rest \in TreeBounds
    /\ mem = {} /\ lastSeq = rest.old /\ snapshots = {} /\ job = NoJob
    /\ written = {[key |-> k, seq |-> k, del |-> FALSE] : k \in 1..rest.old}
    /\ files = [l \in Level |-> IF l = MaxMemLevel THEN {written} \ {{}} ELSE {}]
    /\ split = FALSE /\ gap = FALSE

-----------------------------------------------------------------------------
(***************************************************************************)
(* DB::Put and DB::Delete, and the snapshots.                              *)
(***************************************************************************)
Put(k, del) ==
    LET e == [key |-> k, seq |-> lastSeq + 1, del |-> del]
    IN  /\ k <= rest.keys /\ Spend("puts")
        /\ mem' = mem \cup {e} /\ written' = written \cup {e}
        /\ lastSeq' = lastSeq + 1
        /\ UNCHANGED <<files, snapshots, job, split, gap>>

GetSnapshot ==
    /\ Spend("snapshots")
    /\ snapshots' = snapshots \cup {lastSeq}
    /\ UNCHANGED <<mem, files, lastSeq, job, written, split, gap>>

ReleaseSnapshot(s) ==
    /\ s \in snapshots
    /\ snapshots' = snapshots \ {s}
    /\ UNCHANGED <<mem, files, lastSeq, job, written, split, gap, rest>>

-----------------------------------------------------------------------------
(***************************************************************************)
(* CompactMemTable: the table goes to level 0, or below it as long as the  *)
(* levels on the way do not overlap it; a level whose next but one         *)
(* overlaps it may be the last, if it overlaps it by too many bytes.       *)
(***************************************************************************)
(* mutant: a table stops in the level that overlaps it. *)
FlushLevelsIn(range) ==
    LET busy == {l \in Level : \E f \in files[l] : Overlap(f, range)}
    IN  IF 0 \in busy THEN {0}
        ELSE {l \in 0..MaxMemLevel :
                /\ busy \cap 0..(l - 1) = {}
                /\ l = MaxMemLevel \/ {l, l + 2} \cap busy # {}}

FlushLevels(range) ==
    LET busy == {l \in Level : \E f \in files[l] : Overlap(f, range)}
    IN  IF 0 \in busy THEN {0}
        ELSE {l \in 0..MaxMemLevel :
                /\ busy \cap 0..l = {}
                /\ l = MaxMemLevel \/ {l + 1, l + 2} \cap busy # {}}

CompactMemTable ==
    /\ mem # {}
    /\ \E l \in FlushLevels(Span(mem)) :
         /\ files' = [files EXCEPT ![l] = @ \cup {mem}]
         /\ gap' = (gap \/ (/\ job.on /\ job.manual /\ l = job.level + 1
                            /\ Overlap(mem, Span(Entries(job.upper \cup job.lower)))))
    /\ mem' = {}
    /\ UNCHANGED <<lastSeq, snapshots, job, written, split, rest>>

-----------------------------------------------------------------------------
(***************************************************************************)
(* The choice of a compaction of level l: its inputs from l, those they    *)
(* overlap in l + 1, and perhaps more of l if that adds none in l + 1.     *)
(***************************************************************************)
WithOtherInputs(l, upper) ==
    LET lower == Overlapping(l + 1, Span(Entries(upper)))
        more == Overlapping(l, Span(Entries(upper \cup lower)))
    IN  {<<upper, lower>>} \cup
        (IF /\ lower # {} /\ more # upper
            /\ Overlapping(l + 1, Span(Entries(more))) = lower
         THEN {<<more, lower>>} ELSE {})

Picked(l, f) == IF l = 0 THEN Overlapping(0, Span(f)) ELSE {f}

Trivial(inputs) == Cardinality(inputs[1]) = 1 /\ inputs[2] = {}
Grandparents(l, inputs) ==
    IF l + 2 \in Level THEN Overlapping(l + 2, Span(Entries(inputs[1] \cup inputs[2]))) ELSE {}

(* Compaction::input_version_, as far as IsBaseLevelForKey looks at it. *)
Deep(l) == UNION {files[m] : m \in {d \in Level : d >= l + 2}}

SmallestSnapshot == IF snapshots = {} THEN lastSeq
                    ELSE CHOOSE s \in snapshots : \A r \in snapshots : s <= r

Start(l, inputs, manual) ==
    /\ job' = [on |-> TRUE, manual |-> manual, level |-> l, upper |-> inputs[1],
               lower |-> inputs[2], deep |-> Deep(l), smallest |-> SmallestSnapshot]
    /\ UNCHANGED <<mem, files, lastSeq, snapshots, written, split, gap>>

(* A level that is too big, or a table that was sought in too often. *)
PickCompaction ==
    /\ ~ job.on
    /\ \E l \in 0..(NumLevels - 2) : \E f \in files[l] : \E inputs \in WithOtherInputs(l, Picked(l, f)) :
         /\ Trivial(inputs) => Grandparents(l, inputs) # {}
         /\ Start(l, inputs, FALSE)
    /\ UNCHANGED rest

(* BackgroundCompaction moves a single input to the next level. *)
MoveFile ==
    /\ ~ job.on
    /\ \E l \in 0..(NumLevels - 2) : \E f \in files[l] : \E inputs \in WithOtherInputs(l, Picked(l, f)) :
         /\ Trivial(inputs)
         /\ files' = [files EXCEPT ![l] = @ \ {f}, ![l + 1] = @ \cup {f}]
    /\ UNCHANGED <<mem, lastSeq, snapshots, job, written, split, gap, rest>>

(* CompactRange of some keys: all their tables, or the first few of them,  *)
(* but not of level 0.                                                     *)
CompactRange(range) ==
    /\ ~ job.on /\ Spend("manual")
    /\ \E l \in 0..(NumLevels - 2) :
         \E upper \in (SUBSET Overlapping(l, range)) \ {{}} :
           /\ \A f \in upper, g \in Overlapping(l, range) \ upper :
                l > 0 /\ Before(First(f), First(g))
           /\ \E inputs \in WithOtherInputs(l, upper) : Start(l, inputs, TRUE)

-----------------------------------------------------------------------------
(***************************************************************************)
(* DoCompactionWork: an entry is dropped if a newer one of its key hides   *)
(* it from every snapshot, or if it deletes what nobody can see.           *)
(***************************************************************************)
IsBaseLevelForKey(k) == \A f \in job.deep : k \notin Span(f)

(* mutant: a deletion is dropped with the snapshots alone in mind. *)
DroppedAnyLevel(e, inputs) ==
    \/ \E d \in inputs : d.key = e.key /\ d.seq > e.seq /\ d.seq <= job.smallest
    \/ e.del /\ e.seq <= job.smallest

Dropped(e, inputs) ==
    \/ \E d \in inputs : d.key = e.key /\ d.seq > e.seq /\ d.seq <= job.smallest
    \/ e.del /\ e.seq <= job.smallest /\ IsBaseLevelForKey(e.key)

(* The outputs, each but the last of which ends with one of the cuts. *)
CutsBefore(e, cuts) == {c \in cuts : Before(c, e)}
Outputs(E, cuts) == {{d \in E : CutsBefore(d, cuts) = CutsBefore(e, cuts)} : e \in E}

CompactionDone ==
    LET inputs == Entries(job.upper \cup job.lower)
        kept == {e \in inputs : ~ Dropped(e, inputs)}
    IN  /\ job.on
        /\ \E cuts \in SUBSET {c \in kept : \E e \in kept : Before(c, e)} :
             LET outputs == Outputs(kept, cuts)
             IN  /\ files' = [files EXCEPT ![job.level] = @ \ job.upper,
                                           ![job.level + 1] = (@ \ job.lower) \cup outputs]
                 /\ split' = (split \/ \E f, g \in outputs : \E d \in f, e \in g :
                                          f # g /\ d.key = e.key)
        /\ job' = NoJob
        /\ UNCHANGED <<mem, lastSeq, snapshots, written, gap, rest>>

Next ==
    \/ \E k \in Key, del \in BOOLEAN : Put(k, del)
    \/ GetSnapshot \/ \E s \in snapshots : ReleaseSnapshot(s)
    \/ CompactMemTable \/ PickCompaction \/ MoveFile
    \/ \E lo, hi \in Key : lo <= hi /\ CompactRange(lo..hi)
    \/ CompactionDone

Spec == Init /\ [][Next]_vars

-----------------------------------------------------------------------------
(***************************************************************************)
(* DBImpl::Get and Version::Get at sequence number s: the memtable, the    *)
(* tables of level 0 from the newest, and one table of each other level:   *)
(* FindFile's first that does not end before the key.                      *)
(***************************************************************************)
Seen(E, k, s) == {e \in E : e.key = k /\ e.seq <= s}

TableOf(l, k, s) ==
    {f \in files[l] :
        /\ \E e \in f : ~ Before(e, [key |-> k, seq |-> s])
        /\ \A g \in files[l] : \/ Before(First(f), First(g)) \/ f = g
                               \/ \A e \in g : Before(e, [key |-> k, seq |-> s])}

(* NewestFirst, by file number: level 0 has memtables only, whose numbers  *)
(* and sequence numbers grow together.                                     *)
NewestTable(F) == CHOOSE f \in F : Newest(Entries(F)) \in f

Places(k, s) ==
    LET levels == {l \in Level : \E f \in TableOf(l, k, s) : l > 0 /\ Seen(f, k, s) # {}}
        tables == {f \in files[0] : Seen(f, k, s) # {}}
    IN  CASE Seen(mem, k, s) # {} -> mem
          [] Seen(mem, k, s) = {} /\ tables # {} ->
                NewestTable(tables)
          [] Seen(mem, k, s) = {} /\ tables = {} /\ levels # {} ->
                Entries(TableOf(CHOOSE l \in levels : \A m \in levels : l <= m, k, s))
          [] OTHER -> {}

(* The value that E gives to k: an entry's number, or 0 if there is none. *)
ValueIn(E, k, s) ==
    IF Seen(E, k, s) = {} \/ Newest(Seen(E, k, s)).del THEN 0 ELSE Newest(Seen(E, k, s)).seq

-----------------------------------------------------------------------------
(***************************************************************************)
(* Properties.                                                             *)
(***************************************************************************)
(* Every read, now or at a snapshot, finds the newest entry of its key     *)
(* that it may see, whatever was flushed, moved, merged and dropped; but   *)
(* not once a snapshot made a compaction cut between two entries of a key, *)
(* which EntriesNeverHop is about.                                         *)
ReadsRight ==
    ~ split /\ ~ gap =>
        \A s \in snapshots \cup {lastSeq}, k \in Key :
            ValueIn(Places(k, s), k, s) = ValueIn(written, k, s)

(* Tables of a level below 0 do not overlap (the assertion of              *)
(* MaybeAddFile), so that one binary search finds a key's table: with no   *)
(* manual compaction, not even while a memtable is flushed past a          *)
(* compaction under way.                                                   *)
Disjoint(l) == \A f, g \in files[l] : f # g =>
                  \/ \A d \in f, e \in g : Before(d, e)
                  \/ \A d \in f, e \in g : Before(e, d)
LevelsDisjoint == ~ gap => \A l \in Level \ {0} : Disjoint(l)

(* "Entries never hop across levels": if a level has data for a key, the   *)
(* levels below it are irrelevant (Version::Get, version_set.cc:346).      *)
EntriesNeverHop ==
    \A l, m \in Level : l < m =>
        \A d \in Entries(files[l]), e \in Entries(files[m]) : d.key = e.key => d.seq > e.seq
=============================================================================
