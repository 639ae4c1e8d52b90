------------------------------ MODULE LevelDB ------------------------------
(***************************************************************************)
(* DBImpl of the LevelDB library that the Realtime Database links for its  *)
(* disk persistence (Pods/leveldb-library/db/db_impl.cc, with              *)
(* VersionSet::LogAndApply and VersionSet::Recover of version_set.cc).     *)
(*                                                                         *)
(* Threads call Write with a batch, or with NULL to compact the memtable;  *)
(* the front writer of the queue makes room, groups the batches behind it  *)
(* into one log record, logs, syncs and inserts without the mutex, and     *)
(* answers the whole group.  Readers pin the memtables and the version.    *)
(* One background thread turns the immutable memtable into a table and     *)
(* merges tables, each result being a record of the MANIFEST.  The process *)
(* or the machine may stop at any step, and DB::Open recovers.             *)
(*                                                                         *)
(* A step is what one thread does while it holds mutex_, or one call it    *)
(* makes while it does not.  A batch is one entry.  A memtable has the     *)
(* number of its log.  Tables are kept by level 0 and level 1, with all    *)
(* keys overlapping: LSMTree has the keys, the levels and the drop rules.  *)
(***************************************************************************)
EXTENDS Integers, Sequences, FiniteSets

CONSTANTS
    Thread,         \* threads that call Write
    Reader,         \* threads that call Get
    MemCap,         \* entries beyond which a memtable is full (write_buffer_size)
    GroupMax,       \* batches that fit in one group (max_size)
    L0Trigger,      \* config::kL0_CompactionTrigger
    L0Slowdown,     \* config::kL0_SlowdownWritesTrigger
    L0Stop,         \* config::kL0_StopWritesTrigger
    Bounds          \* the bounds explored: how many tables of level 0 an earlier
                    \*   DBImpl left, calls of Write, of Get, calls of the file
                    \*   system that fail, and crashes or closes

ASSUME ConstantsAssumption ==
    /\ {GroupMax, L0Trigger, L0Slowdown, L0Stop} \subseteq Nat \ {0}
    /\ MemCap \in Nat
    /\ Bounds \subseteq [old : Nat, writes : Nat, gets : Nat, faults : Nat, downs : Nat]

VARIABLES
    phase,          \* "closed", "recovering", "open" or "closing" (shutting_down_)
    queue,          \* writers_
    op,             \* op[t]: how far t's call of Write is
    group,          \* the front writer's group: its writers and its entries
    lastSeq,        \* versions_->LastSequence()
    mem,            \* mem_, by its log's number (logfile_number_)
    imm,            \* imm_, by its log's number, or 0
    memtab,         \* the entries of the memtables someone refers to
    nextFile,       \* versions_->next_file_number_
    logNum,         \* versions_->log_number_
    version,        \* versions_->current(): the tables of each level
    pending,        \* pending_outputs_
    bgError,        \* ~bg_error_.ok()
    bg,             \* the background thread
    reads,          \* reads[r]: what r's Get refers to
    recovery,       \* DB::Open: the logs still to replay, the tables made
    logs,           \* the log files: their records
    synced,         \* how many records of each log the disk is known to have
    tables,         \* the table files: their entries
    manifest,       \* what CURRENT's MANIFEST says after each of its records,
                    \*   from the last one the disk is known to have
    issued,         \* number of entries ever given to a log
    acked,          \* entries whose Write returned OK, still to be kept
    promised,       \* those of them written with sync
    left            \* the bounds left

memory == <<lastSeq, mem, imm, memtab, nextFile, logNum, version, pending>>
disk == <<logs, synced, tables, manifest>>
promises == <<issued, acked, promised>>
vars == <<phase, queue, op, group, memory, bgError, bg, reads, recovery, disk,
          promises, left>>

-----------------------------------------------------------------------------
(***************************************************************************)
(* Values.                                                                 *)
(***************************************************************************)
Entry == [id : Nat, seq : Nat]
Record == [entries : SUBSET Entry, ok : BOOLEAN]    \* ~ok: written in part
Levels == [l0 : SUBSET Nat, l1 : SUBSET Nat]
State == [log : Nat, next : Nat, last : Nat, files : Levels, ok : BOOLEAN]

PCs == {"idle", "wait", "room", "asleep", "bgwait", "log", "sync", "insert", "commit", "immwait"}
Ops == [pc : PCs, sync : BOOLEAN, null : BOOLEAN, force : BOOLEAN, delay : BOOLEAN,
        status : {"ok", "failed", "sync failed"}]
Edit == [log : Nat, next : Nat, last : Nat, add : Levels, del : Levels]
Background == [pc : {"off", "queued", "build", "work", "append", "sync"},
               job : {"none", "mem", "nested", "merge"}, num : Nat, inputs : Levels, out : Nat,
               edit : Edit]
Reads == [on : BOOLEAN, snapshot : Nat, mem : Nat, imm : Nat, files : SUBSET Nat,
          sees : SUBSET Entry]

Idle == [pc |-> "idle", sync |-> FALSE, null |-> FALSE, force |-> FALSE,
         delay |-> FALSE, status |-> "ok"]
NoGroup == [size |-> 0, entries |-> {}]
NoFiles == [l0 |-> {}, l1 |-> {}]
NoBg == [pc |-> "off", job |-> "none", num |-> 0, inputs |-> NoFiles, out |-> 0,
         edit |-> [log |-> 0, next |-> 0, last |-> 0, add |-> NoFiles, del |-> NoFiles]]
NoRead == [on |-> FALSE, snapshot |-> 0, mem |-> 0, imm |-> 0, files |-> {},
           sees |-> {}]
NoRecovery == [logs |-> {}, tables |-> {}, log |-> 0]

Lower(a, b) == IF a < b THEN a ELSE b
Higher(a, b) == IF a < b THEN b ELSE a
Greatest(S) == CHOOSE n \in S : \A k \in S : k <= n
Least(S) == CHOOSE n \in S : \A k \in S : n <= k
On(f, S) == [x \in S |-> f[x]]
Extend(f, n, v) == [x \in DOMAIN f \cup {n} |-> IF x = n THEN v ELSE f[x]]

Last(s) == s[Len(s)]
Files(v) == v.l0 \cup v.l1
Ids(entries) == {e.id : e \in entries}
Logged(records) == UNION {records[i].entries : i \in {j \in DOMAIN records : records[j].ok}}
Stored(files) == UNION {tables[n] : n \in files \cap DOMAIN tables}

(***************************************************************************)
(* A record written in part and others after it.  log::Reader ends at one  *)
(* that is the last, and reports a corruption for one that is not: it      *)
(* drops records of a log, and VersionSet::Recover fails.                  *)
(***************************************************************************)
Broken(records) == \E i \in 1..(Len(records) - 1) : ~ records[i].ok
Damaged == Broken(manifest) \/ \E n \in DOMAIN logs : Broken(logs[n])

(***************************************************************************)
(* What a MANIFEST state and the logs recover, from the first Upto[n]      *)
(* records of each log n; DB::Open fails if a table is missing.            *)
(***************************************************************************)
Recovered(m, upto) ==
    IF ~ (Files(m.files) \subseteq DOMAIN tables) THEN {}
    ELSE Stored(Files(m.files)) \cup
         UNION {Logged(SubSeq(logs[n], 1, upto[n])) : n \in {k \in DOMAIN logs : k >= m.log}}

(***************************************************************************)
(* The store as its callers see it: in memory while the database is open,  *)
(* what DB::Open will find otherwise.  Durable is what no crash can lose.  *)
(***************************************************************************)
Visible == {e \in memtab[mem] \cup (IF imm = 0 THEN {} ELSE memtab[imm])
                    \cup Stored(Files(version)) : e.seq <= lastSeq}
Contents == IF phase \in {"open", "closing"} THEN Visible
            ELSE IF Broken(manifest) THEN {}
            ELSE Recovered(Last(manifest), [n \in DOMAIN logs |-> Len(logs[n])])
Durable == {e \in Recovered(manifest[1], synced) :
                \A i \in DOMAIN manifest : e \in Recovered(manifest[i], synced)}

(* The database of NewDB, or one that an earlier DBImpl left on the disk. *)
Init ==
    /\ phase = "closed"
    /\ queue = <<>> /\ op = [t \in Thread |-> Idle] /\ group = NoGroup
    /\ lastSeq = 0 /\ mem = 0 /\ imm = 0 /\ memtab = [n \in {0} |-> {}]
    /\ nextFile = 2 /\ logNum = 0 /\ version = NoFiles /\ pending = {}
    /\ bgError = FALSE /\ bg = NoBg
    /\ reads = [r \in Reader |-> NoRead]
    /\ recovery = NoRecovery
    /\ logs = <<>> /\ synced = <<>>
    /\ left \in Bounds
    /\ tables = [n \in 2..(left.old + 1) |-> {[id |-> n - 1, seq |-> n - 1]}]
    /\ manifest = <<[log |-> 0, next |-> left.old + 2, last |-> left.old, ok |-> TRUE,
                     files |-> [l0 |-> 2..(left.old + 1), l1 |-> {}]]>>
    /\ issued = left.old /\ acked = 1..left.old /\ promised = 1..left.old

-----------------------------------------------------------------------------
(***************************************************************************)
(* Shared steps of the threads.                                            *)
(***************************************************************************)
Spend(bound) == left[bound] > 0 /\ left' = [left EXCEPT ![bound] = @ - 1]
Fault == Spend("faults")

NeedsCompaction(v) == Cardinality(v.l0) >= L0Trigger

(* MaybeScheduleCompaction, for a background thread that is off. *)
Schedule(immutable, v, error) ==
    IF ~ error /\ (immutable # 0 \/ NeedsCompaction(v))
    THEN [NoBg EXCEPT !.pc = "queued"] ELSE NoBg

(* bg_cv_.SignalAll(): MakeRoomForWrite loops, TEST_CompactMemTable checks. *)
Signal(o, immutable, error) ==
    [t \in Thread |->
        CASE o[t].pc = "bgwait" -> [o[t] EXCEPT !.pc = "room"]
          [] o[t].pc = "immwait" /\ (immutable = 0 \/ error) -> Idle
          [] OTHER -> o[t]]

(* The memtables that stay referred to when the database has m and i. *)
Referred(m, i) == {m, i} \cup {reads[r].mem : r \in Reader} \cup {reads[r].imm : r \in Reader}

(* mutant: the wrong memtable is unreferenced. *)
KeepMemtablesOther(m, i) == On(memtab, Referred(i, i) \cap DOMAIN memtab)

KeepMemtables(m, i) == On(memtab, Referred(m, i) \cap DOMAIN memtab)

-----------------------------------------------------------------------------
(***************************************************************************)
(* Write.  The front writer runs; the others wait on their own condition.  *)
(***************************************************************************)
Write(t, sync, null) ==
    /\ phase = "open" /\ Spend("writes") /\ op[t].pc = "idle"
    /\ null => ~ sync
    /\ queue' = Append(queue, t)
    /\ op' = [op EXCEPT ![t] =
                [Idle EXCEPT !.pc = IF queue = <<>> THEN "room" ELSE "wait",
                             !.sync = sync, !.null = null, !.force = null, !.delay = ~ null]]
    /\ UNCHANGED <<phase, group, memory, bgError, bg, reads, recovery, disk, promises>>

(* mutant: the loop ends at the front writer, not at the last of the group. *)
AnswerFront(n, o, after) ==
    /\ queue' = Tail(queue)
    /\ op' = [t \in Thread |->
                CASE t \in {queue[i] : i \in 1..n} -> IF op[t].null THEN after ELSE Idle
                  [] Len(queue) > 1 /\ t = queue[2] -> [o[t] EXCEPT !.pc = "room"]
                  [] OTHER -> o[t]]

(* The first n writers leave the queue with a status; the next is told.    *)
(* After a NULL batch, TEST_CompactMemTable goes on from an OK answer.     *)
Answer(n, o, after) ==
    LET rest == SubSeq(queue, n + 1, Len(queue))
        gone == {queue[i] : i \in 1..n}
    IN  /\ queue' = rest
        /\ op' = [t \in Thread |->
                    CASE t \in gone -> IF op[t].null THEN after ELSE Idle
                      [] rest # <<>> /\ t = rest[1] -> [o[t] EXCEPT !.pc = "room"]
                      [] OTHER -> o[t]]

AfterNull(error) == IF imm # 0 /\ ~ error THEN [Idle EXCEPT !.pc = "immwait"] ELSE Idle

Front(t, pc) == op[t].pc = pc /\ queue # <<>> /\ queue[1] = t

(***************************************************************************)
(* MakeRoomForWrite, one loop at a time; each alternative carries the      *)
(* negations of the ones before it in the code.                            *)
(***************************************************************************)
Slow(t) == op[t].delay /\ Cardinality(version.l0) >= L0Slowdown
HasRoom(t) == ~ op[t].force /\ Cardinality(memtab[mem]) <= MemCap
MayLoop(t) == Front(t, "room") /\ ~ bgError

RoomRefused(t) ==
    /\ Front(t, "room") /\ bgError
    /\ Answer(1, op, Idle)
    /\ UNCHANGED <<phase, group, memory, bgError, bg, reads, recovery, disk, promises, left>>

RoomDelayed(t) ==
    /\ MayLoop(t) /\ Slow(t)
    /\ op' = [op EXCEPT ![t].pc = "asleep"]
    /\ UNCHANGED <<phase, queue, group, memory, bgError, bg, reads, recovery, disk, promises, left>>

RoomWoken(t) ==
    /\ Front(t, "asleep")
    /\ op' = [op EXCEPT ![t].pc = "room", ![t].delay = FALSE]
    /\ UNCHANGED <<phase, queue, group, memory, bgError, bg, reads, recovery, disk, promises, left>>

RoomWaits(t) ==
    /\ MayLoop(t) /\ ~ Slow(t) /\ ~ HasRoom(t)
    /\ imm # 0 \/ Cardinality(version.l0) >= L0Stop
    /\ op' = [op EXCEPT ![t].pc = "bgwait"]
    /\ UNCHANGED <<phase, queue, group, memory, bgError, bg, reads, recovery, disk, promises, left>>

MaySwitch(t) == MayLoop(t) /\ ~ Slow(t) /\ ~ HasRoom(t) /\ imm = 0
                    /\ Cardinality(version.l0) < L0Stop

RoomSwitched(t) ==
    /\ MaySwitch(t)
    /\ mem' = nextFile /\ imm' = mem /\ nextFile' = nextFile + 1
    /\ memtab' = Extend(memtab, nextFile, {})
    /\ logs' = Extend(logs, nextFile, <<>>) /\ synced' = Extend(synced, nextFile, 0)
    /\ op' = [op EXCEPT ![t].force = FALSE]
    /\ bg' = IF bg.pc = "off" THEN Schedule(mem, version, bgError) ELSE bg
    /\ UNCHANGED <<phase, queue, group, lastSeq, logNum, version, pending, bgError, reads,
                   recovery, tables, manifest, promises, left>>

(* NewWritableFile fails, and the number is reused. *)
RoomNoFile(t) ==
    /\ MaySwitch(t) /\ Fault
    /\ Answer(1, op, Idle)
    /\ UNCHANGED <<phase, group, memory, bgError, bg, reads, recovery, disk, promises>>

(***************************************************************************)
(* BuildBatchGroup: the longest run of writers, from the front one, with   *)
(* no sync write behind a front one that does not sync, and not too big.   *)
(***************************************************************************)
Batches(n) == Cardinality({i \in 1..n : ~ op[queue[i]].null})

(* mutant: a sync write joins a group that is not synced. *)
GroupedAny(i) == op[queue[i]].null \/ Batches(i) <= GroupMax

Grouped(i) == /\ op[queue[i]].sync => op[queue[1]].sync
              /\ op[queue[i]].null \/ Batches(i) <= GroupMax
GroupSize == Cardinality({n \in 1..Len(queue) : \A i \in 2..n : Grouped(i)})

(* The sequence numbers that SetSequence and the batch's count give. *)
NewEntries(id, seq, count) == {[id |-> id + k, seq |-> seq + k] : k \in 1..count}

RoomFound(t) ==
    /\ MayLoop(t) /\ ~ Slow(t) /\ HasRoom(t) /\ ~ op[t].null
    /\ group' = [size |-> GroupSize, entries |-> NewEntries(issued, lastSeq, Batches(GroupSize))]
    /\ issued' = issued + Batches(GroupSize)
    /\ op' = [op EXCEPT ![t].pc = "log"]
    /\ UNCHANGED <<phase, queue, memory, bgError, bg, reads, recovery, disk, acked, promised, left>>

RoomForced(t) ==
    /\ MayLoop(t) /\ ~ Slow(t) /\ HasRoom(t) /\ op[t].null
    /\ Answer(1, op, AfterNull(bgError))
    /\ UNCHANGED <<phase, group, memory, bgError, bg, reads, recovery, disk, promises, left>>

(***************************************************************************)
(* Logging, without the mutex.  A record that fails is in the file whole,  *)
(* or in part, or not at all; the log goes on being used.                  *)
(***************************************************************************)
LogTo(ok) == logs' = [logs EXCEPT ![mem] = Append(@, [entries |-> group.entries, ok |-> ok])]

AddRecord(t) ==
    /\ Front(t, "log")
    /\ LogTo(TRUE)
    /\ op' = [op EXCEPT ![t].pc = IF op[t].sync THEN "sync" ELSE "insert"]
    /\ UNCHANGED <<phase, queue, group, memory, bgError, bg, reads, recovery, synced, tables,
                   manifest, promises, left>>

AddRecordFails(t) ==
    /\ Front(t, "log") /\ Fault
    /\ logs' = logs \/ \E ok \in BOOLEAN : LogTo(ok)
    /\ op' = [op EXCEPT ![t].pc = "commit", ![t].status = "failed"]
    /\ UNCHANGED <<phase, queue, group, memory, bgError, bg, reads, recovery, synced, tables,
                   manifest, promises>>

Sync(t) ==
    /\ Front(t, "sync")
    /\ synced' = [synced EXCEPT ![mem] = Len(logs[mem])]
    /\ op' = [op EXCEPT ![t].pc = "insert"]
    /\ UNCHANGED <<phase, queue, group, memory, bgError, bg, reads, recovery, logs, tables,
                   manifest, promises, left>>

SyncFails(t) ==
    /\ Front(t, "sync") /\ Fault
    /\ op' = [op EXCEPT ![t].pc = "commit", ![t].status = "sync failed"]
    /\ UNCHANGED <<phase, queue, group, memory, bgError, bg, reads, recovery, disk, promises>>

InsertInto(t) ==
    /\ Front(t, "insert")
    /\ memtab' = [memtab EXCEPT ![mem] = @ \cup group.entries]
    /\ op' = [op EXCEPT ![t].pc = "commit"]
    /\ UNCHANGED <<phase, queue, group, lastSeq, mem, imm, nextFile, logNum, version, pending,
                   bgError, bg, reads, recovery, disk, promises, left>>

(* The ids of the group's writers, in their order in the queue. *)
IdOf(i) == Least(Ids(group.entries)) + Batches(i) - 1
Written == {i \in 1..group.size : ~ op[queue[i]].null}

Commit(t) ==
    LET error == bgError \/ op[t].status = "sync failed"
    IN  /\ Front(t, "commit")
        /\ lastSeq' = lastSeq + Cardinality(group.entries)
        /\ bgError' = error
        /\ Answer(group.size, IF error /\ ~ bgError THEN Signal(op, imm, error) ELSE op,
                  IF op[t].status = "ok" THEN AfterNull(error) ELSE Idle)
        /\ IF op[t].status = "ok"
           THEN /\ acked' = acked \cup {IdOf(i) : i \in Written}
                /\ promised' = promised \cup {IdOf(i) : i \in {j \in Written : op[queue[j]].sync}}
           ELSE UNCHANGED <<acked, promised>>
        /\ group' = NoGroup
        /\ UNCHANGED <<phase, mem, imm, memtab, nextFile, logNum, version, pending, bg, reads,
                       recovery, disk, issued, left>>

-----------------------------------------------------------------------------
(***************************************************************************)
(* Reads.  Get pins the memtables, the version and a sequence number, and  *)
(* reads them without the mutex.  sees is what the store held then.        *)
(***************************************************************************)
Get(r) ==
    /\ phase = "open" /\ ~ reads[r].on /\ Spend("gets")
    /\ reads' = [reads EXCEPT ![r] =
                    [on |-> TRUE, snapshot |-> lastSeq, mem |-> mem, imm |-> imm,
                     files |-> Files(version), sees |-> Visible]]
    /\ UNCHANGED <<phase, queue, op, group, memory, bgError, bg, recovery, disk, promises>>

(* What the read finds, at any moment until it ends. *)
Finds(r) == {e \in memtab[reads[r].mem]
                    \cup (IF reads[r].imm = 0 THEN {} ELSE memtab[reads[r].imm])
                    \cup Stored(reads[r].files) : e.seq <= reads[r].snapshot}

GotValue(r) ==
    /\ reads[r].on
    /\ reads' = [reads EXCEPT ![r] = NoRead]
    /\ memtab' = On(memtab, ({mem, imm} \cup
                     UNION {{reads[q].mem, reads[q].imm} : q \in Reader \ {r}}) \cap DOMAIN memtab)
    /\ UNCHANGED <<phase, queue, op, group, lastSeq, mem, imm, nextFile, logNum, version,
                   pending, bgError, bg, recovery, disk, promises, left>>

-----------------------------------------------------------------------------
(***************************************************************************)
(* DeleteObsoleteFiles, after version v and log number n were installed    *)
(* and with the inputs of a merge still referred to: the log and table     *)
(* files it leaves.  After a background error it leaves every file.        *)
(***************************************************************************)
(* mutant: only the current version counts as live. *)
LiveNow(v, outputs, inputs) == outputs \cup Files(v) \cup Files(inputs)

Live(v, outputs, inputs) ==
    outputs \cup Files(v) \cup Files(inputs) \cup UNION {reads[r].files : r \in Reader}

(* mutant: files are deleted after a background error, too. *)
DeleteObsoleteFilesAlways(v, n, outputs, inputs) ==
    /\ logs' = On(logs, {k \in DOMAIN logs : k >= n})
    /\ synced' = On(synced, {k \in DOMAIN synced : k >= n})
    /\ tables' = On(tables, Live(v, outputs, inputs) \cap DOMAIN tables)

DeleteObsoleteFiles(v, n, outputs, inputs) ==
    IF bgError THEN UNCHANGED <<logs, synced, tables>>
    ELSE /\ logs' = On(logs, {k \in DOMAIN logs : k >= n})
         /\ synced' = On(synced, {k \in DOMAIN synced : k >= n})
         /\ tables' = On(tables, Live(v, outputs, inputs) \cap DOMAIN tables)

(* mutant: nobody is told that the background call has ended. *)
BackgroundDoneSilently(immutable, v, error) ==
    /\ bg' = IF phase = "open" THEN Schedule(immutable, v, error) ELSE NoBg
    /\ op' = op

(* BackgroundCall ends: the flag is cleared, new work scheduled, all told. *)
BackgroundDone(immutable, v, error) ==
    /\ bg' = IF phase = "open" THEN Schedule(immutable, v, error) ELSE NoBg
    /\ op' = Signal(op, immutable, error)

(* CompactMemTable ends, alone or in the middle of a merge. *)
MemTableDone(immutable, v, error) ==
    IF bg.job = "nested"
    THEN /\ bg' = [bg EXCEPT !.pc = "work", !.job = "merge", !.num = 0, !.edit = NoBg.edit]
         /\ op' = Signal(op, immutable, error)
    ELSE BackgroundDone(immutable, v, error)

(***************************************************************************)
(* BackgroundCall and BackgroundCompaction.                                *)
(***************************************************************************)
NothingToDo == phase = "closing" \/ bgError \/ (imm = 0 /\ ~ NeedsCompaction(version))

BackgroundIdles ==
    /\ bg.pc = "queued" /\ NothingToDo
    /\ BackgroundDone(imm, version, bgError)
    /\ UNCHANGED <<phase, queue, group, memory, bgError, reads, recovery, disk, promises, left>>

(* CompactMemTable, and WriteLevel0Table until it unlocks. *)
BuildTable(job) ==
    /\ bg' = [bg EXCEPT !.pc = "build", !.job = job, !.num = nextFile]
    /\ nextFile' = nextFile + 1
    /\ pending' = pending \cup {nextFile}
    /\ tables' = IF memtab[imm] = {} THEN tables ELSE Extend(tables, nextFile, memtab[imm])
    /\ UNCHANGED <<phase, queue, op, group, lastSeq, mem, imm, memtab, logNum, version, bgError,
                   reads, recovery, logs, synced, manifest, promises, left>>

CompactMemTable == bg.pc = "queued" /\ ~ NothingToDo /\ imm # 0 /\ BuildTable("mem")
CompactMemTableFirst ==
    bg.pc = "work" /\ bg.job = "merge" /\ phase = "open" /\ imm # 0 /\ BuildTable("nested")

(* PickLevelForMemTableOutput: below level 0 only what nothing overlaps. *)
MemLevels == IF version = NoFiles THEN {0, 1} ELSE {0}
Placed(level, files) == IF level = 0 THEN [l0 |-> files, l1 |-> {}] ELSE [l0 |-> {}, l1 |-> files]

Merged(v, w) == [l0 |-> v.l0 \cup w.l0, l1 |-> v.l1 \cup w.l1]
Without(v, w) == [l0 |-> v.l0 \ w.l0, l1 |-> v.l1 \ w.l1]

(* The table is written: LogAndApply begins, unless the database closes. *)
TableBuilt ==
    /\ bg.pc = "build" /\ phase = "open"
    /\ pending' = pending \ {bg.num}
    /\ \E level \in MemLevels :
         bg' = [bg EXCEPT !.pc = "append",
                    !.edit = [log |-> mem, next |-> nextFile, last |-> lastSeq, del |-> NoFiles,
                              add |-> Placed(level, {bg.num} \cap DOMAIN tables)]]
    /\ UNCHANGED <<phase, queue, op, group, lastSeq, mem, imm, memtab, nextFile, logNum, version,
                   bgError, reads, recovery, disk, promises, left>>

(* RecordBackgroundError, for a table that could not be written, or a close. *)
TableFails ==
    /\ bg.pc = "build"
    /\ \/ Fault /\ tables' = On(tables, DOMAIN tables \ {bg.num})
       \/ phase = "closing" /\ UNCHANGED <<tables, left>>
    /\ pending' = pending \ {bg.num}
    /\ bgError' = TRUE
    /\ MemTableDone(imm, version, TRUE)
    /\ UNCHANGED <<phase, queue, group, lastSeq, mem, imm, memtab, nextFile, logNum, version,
                   reads, recovery, logs, synced, manifest, promises>>

(***************************************************************************)
(* DoCompactionWork: the merge of all tables into one of level 1.          *)
(***************************************************************************)
PickCompaction ==
    /\ bg.pc = "queued" /\ ~ NothingToDo /\ imm = 0
    /\ bg' = [NoBg EXCEPT !.pc = "work", !.job = "merge", !.inputs = version]
    /\ UNCHANGED <<phase, queue, op, group, memory, bgError, reads, recovery, disk, promises, left>>

Working == bg.pc = "work" /\ bg.job = "merge"

OpenCompactionOutputFile ==
    /\ Working /\ phase = "open" /\ bg.out = 0
    /\ bg' = [bg EXCEPT !.out = nextFile]
    /\ nextFile' = nextFile + 1
    /\ pending' = pending \cup {nextFile}
    /\ tables' = Extend(tables, nextFile, Stored(Files(bg.inputs)))
    /\ UNCHANGED <<phase, queue, op, group, lastSeq, mem, imm, memtab, logNum, version, bgError,
                   reads, recovery, logs, synced, manifest, promises, left>>

(* FinishCompactionOutputFile, and InstallCompactionResults until it unlocks. *)
FinishCompactionOutputFile ==
    /\ Working /\ phase = "open" /\ bg.out # 0
    /\ bg' = [bg EXCEPT !.pc = "append",
                !.edit = [log |-> logNum, next |-> nextFile, last |-> lastSeq,
                          del |-> bg.inputs, add |-> Placed(1, {bg.out})]]
    /\ UNCHANGED <<phase, queue, op, group, memory, bgError, reads, recovery, disk, promises, left>>

(* An error, or a close: CleanupCompaction, and no file is deleted. *)
CompactionFails ==
    /\ Working
    /\ Fault \/ (phase = "closing" /\ UNCHANGED left)
    /\ bgError' = TRUE
    /\ pending' = pending \ {bg.out}
    /\ BackgroundDone(imm, version, TRUE)
    /\ UNCHANGED <<phase, queue, group, lastSeq, mem, imm, memtab, nextFile, logNum, version,
                   reads, recovery, disk, promises>>

(***************************************************************************)
(* VersionSet::LogAndApply, without the mutex until the version is         *)
(* installed.  A record that fails is in the MANIFEST whole, or in part,   *)
(* or not at all; one that is not synced is there or not after a crash.    *)
(***************************************************************************)
Edited(files) == Merged(Without(files, bg.edit.del), bg.edit.add)
LoggedEdit == Append(manifest, [log |-> bg.edit.log, next |-> bg.edit.next, last |-> bg.edit.last,
                                files |-> Edited(Last(manifest).files), ok |-> TRUE])

AppendEdit ==
    /\ bg.pc = "append"
    /\ manifest' = LoggedEdit
    /\ bg' = [bg EXCEPT !.pc = "sync"]
    /\ UNCHANGED <<phase, queue, op, group, memory, bgError, reads, recovery, logs, synced, tables,
                   promises, left>>

EditNotLogged ==
    /\ bg.pc \in {"append", "sync"} /\ Fault
    /\ IF bg.pc = "sync" THEN UNCHANGED manifest
       ELSE manifest' \in {manifest, LoggedEdit,
                           Append(manifest, [Last(manifest) EXCEPT !.ok = FALSE])}
    /\ bgError' = TRUE
    /\ IF bg.job = "merge"
       THEN pending' = pending \ {bg.out} /\ BackgroundDone(imm, version, TRUE)
       ELSE UNCHANGED pending /\ MemTableDone(imm, version, TRUE)
    /\ UNCHANGED <<phase, queue, group, lastSeq, mem, imm, memtab, nextFile, logNum, version,
                   reads, recovery, logs, synced, tables, promises>>

(* What the disk has now; a record written in part is still in the way. *)
SyncManifest ==
    manifest' = IF Broken(manifest) THEN <<[Last(manifest) EXCEPT !.ok = FALSE], Last(manifest)>>
                ELSE <<Last(manifest)>>

MemTableInstalled ==
    /\ bg.pc = "sync" /\ bg.job # "merge"
    /\ SyncManifest
    /\ version' = Edited(version) /\ logNum' = bg.edit.log
    /\ imm' = 0 /\ memtab' = KeepMemtables(mem, 0)
    /\ DeleteObsoleteFiles(Edited(version), bg.edit.log, pending, bg.inputs)
    /\ MemTableDone(0, Edited(version), bgError)
    /\ UNCHANGED <<phase, queue, group, lastSeq, mem, nextFile, pending, bgError, reads, recovery,
                   promises, left>>

CompactionInstalled ==
    /\ bg.pc = "sync" /\ bg.job = "merge"
    /\ SyncManifest
    /\ version' = Edited(version) /\ logNum' = bg.edit.log
    /\ pending' = pending \ {bg.out}
    /\ DeleteObsoleteFiles(Edited(version), bg.edit.log, pending \ {bg.out}, NoFiles)
    /\ BackgroundDone(imm, Edited(version), bgError)
    /\ UNCHANGED <<phase, queue, group, lastSeq, mem, imm, memtab, nextFile, bgError, reads,
                   recovery, promises, left>>

-----------------------------------------------------------------------------
(***************************************************************************)
(* The end of a DBImpl: its destructor, which a caller runs when its other *)
(* calls have returned, or a crash of the process or of the machine.       *)
(***************************************************************************)
Forgotten ==
    /\ queue' = <<>> /\ op' = [t \in Thread |-> Idle] /\ group' = NoGroup
    /\ lastSeq' = 0 /\ mem' = 0 /\ imm' = 0 /\ memtab' = [n \in {0} |-> {}]
    /\ nextFile' = 2 /\ logNum' = 0 /\ version' = NoFiles /\ pending' = {}
    /\ bgError' = FALSE /\ bg' = NoBg /\ reads' = [r \in Reader |-> NoRead]
    /\ recovery' = NoRecovery

Close ==
    /\ phase = "open" /\ Spend("downs")
    /\ \A t \in Thread : op[t].pc = "idle"
    /\ \A r \in Reader : ~ reads[r].on
    /\ phase' = "closing"
    /\ UNCHANGED <<queue, op, group, memory, bgError, bg, reads, recovery, disk, promises>>

Closed ==
    /\ phase = "closing" /\ bg.pc = "off"
    /\ phase' = "closed" /\ Forgotten
    /\ UNCHANGED <<disk, promises, left>>

CrashProcess ==
    /\ phase # "closed" /\ Spend("downs")
    /\ phase' = "closed" /\ Forgotten
    /\ UNCHANGED <<disk, promises>>

(* The disk keeps at least what it was known to have of each file. *)
Kept(n) == synced[n]..Len(logs[n])
KeptOfManifest == (IF manifest[1].ok THEN 1 ELSE 2)..Len(manifest)

CrashMachine ==
    /\ Spend("downs")
    /\ \E upto \in {f \in [DOMAIN logs -> 0..issued] : \A n \in DOMAIN logs : f[n] \in Kept(n)},
          k \in KeptOfManifest :
         /\ logs' = [n \in DOMAIN logs |-> SubSeq(logs[n], 1, upto[n])]
         /\ synced' = upto
         /\ manifest' = SubSeq(manifest, 1, k)
         /\ acked' = acked \cap Ids(Recovered(manifest[k], upto))
         /\ UNCHANGED promised
    /\ phase' = "closed" /\ Forgotten
    /\ UNCHANGED <<tables, issued>>

-----------------------------------------------------------------------------
(***************************************************************************)
(* DB::Open: VersionSet::Recover, RecoverLogFile for each log that the     *)
(* MANIFEST does not make obsolete, a new log, and a new MANIFEST.         *)
(***************************************************************************)
NeededLogs == {n \in DOMAIN logs : n >= Last(manifest).log}

RecoverManifest ==
    /\ phase = "closed" /\ ~ Broken(manifest)
    /\ Files(Last(manifest).files) \subseteq DOMAIN tables
    /\ phase' = "recovering"
    /\ version' = Last(manifest).files /\ logNum' = Last(manifest).log
    /\ nextFile' = Higher(Last(manifest).next, Last(manifest).log) + 1
    /\ lastSeq' = Last(manifest).last
    /\ recovery' = [NoRecovery EXCEPT !.logs = NeededLogs]
    /\ UNCHANGED <<queue, op, group, mem, imm, memtab, pending, bgError, bg, reads, disk, promises, left>>

(* VersionSet::Recover returns a corruption, now and at every later try. *)
OpenRefused == phase = "closed" /\ Broken(manifest) /\ UNCHANGED vars

(* The records that log::Reader finds (LogFormat): any of those after one  *)
(* written in part, which block_offset_ counts in full.                    *)
Picked(records, chosen) ==
    [i \in 1..Cardinality(chosen) |->
        records[CHOOSE k \in chosen : Cardinality({j \in chosen : j < k}) = i - 1]]
Readable(records) ==
    IF ~ Broken(records) THEN {records}
    ELSE LET bad == Least({i \in DOMAIN records : ~ records[i].ok})
         IN  {Picked(records, (1..(bad - 1)) \cup later) :
                  later \in SUBSET ((bad + 1)..Len(records))}

(* mutant: the sequence numbers of the logs are not looked at. *)
MaxSequenceOfManifest(found) == lastSeq

MaxSequence(found) == Greatest({lastSeq} \cup {e.seq : e \in found})

RecoverLogFile ==
    /\ phase = "recovering" /\ recovery.logs # {}
    /\ LET n == Least(recovery.logs)
       IN \E records \in Readable(logs[n]) :
            LET found == Logged(records)
                made == found # {}
                lost == Ids(Logged(logs[n])) \ Ids(found)
            IN  /\ recovery' = [recovery EXCEPT !.logs = @ \ {n},
                                    !.tables = IF made THEN @ \cup {nextFile} ELSE @]
                /\ tables' = IF made THEN Extend(tables, nextFile, found) ELSE tables
                /\ nextFile' = Higher(IF made THEN nextFile + 1 ELSE nextFile, n + 1)
                /\ lastSeq' = MaxSequence(found)
                /\ logs' = [logs EXCEPT ![n] = records]
                /\ synced' = [synced EXCEPT ![n] = Lower(@, Len(records))]
                /\ acked' = acked \ lost /\ promised' = promised \ lost
    /\ UNCHANGED <<phase, queue, op, group, mem, imm, memtab, logNum, version, pending, bgError,
                   bg, reads, manifest, issued, left>>

OpenNewLog ==
    /\ phase = "recovering" /\ recovery.logs = {} /\ recovery.log = 0
    /\ recovery' = [recovery EXCEPT !.log = nextFile]
    /\ nextFile' = nextFile + 1
    /\ logs' = Extend(logs, nextFile, <<>>) /\ synced' = Extend(synced, nextFile, 0)
    /\ UNCHANGED <<phase, queue, op, group, lastSeq, mem, imm, memtab, logNum, version, pending,
                   bgError, bg, reads, tables, manifest, promises, left>>

OpenInstalls ==
    LET v == Merged(version, Placed(0, recovery.tables))
    IN  /\ phase = "recovering" /\ recovery.log # 0
        /\ phase' = "open"
        /\ manifest' = <<[log |-> recovery.log, next |-> nextFile, last |-> lastSeq, files |-> v,
                          ok |-> TRUE]>>
        /\ version' = v /\ logNum' = recovery.log
        /\ mem' = recovery.log /\ memtab' = [n \in {recovery.log} |-> {}]
        /\ recovery' = NoRecovery
        /\ DeleteObsoleteFiles(v, recovery.log, {}, NoFiles)
        /\ bg' = Schedule(0, v, FALSE)
        /\ UNCHANGED <<queue, op, group, lastSeq, imm, nextFile, pending, bgError, reads, promises, left>>

OpenFails ==
    /\ phase = "recovering" /\ Fault
    /\ phase' = "closed" /\ Forgotten
    /\ UNCHANGED <<disk, promises>>

-----------------------------------------------------------------------------
WriteStep(t) ==
    \/ RoomRefused(t) \/ RoomDelayed(t) \/ RoomWoken(t) \/ RoomWaits(t) \/ RoomSwitched(t)
    \/ RoomFound(t) \/ RoomForced(t) \/ AddRecord(t) \/ Sync(t) \/ InsertInto(t) \/ Commit(t)

WriteFault(t) == RoomNoFile(t) \/ AddRecordFails(t) \/ SyncFails(t)

BackgroundStep ==
    \/ BackgroundIdles \/ CompactMemTable \/ CompactMemTableFirst \/ TableBuilt \/ PickCompaction
    \/ OpenCompactionOutputFile \/ FinishCompactionOutputFile \/ AppendEdit
    \/ MemTableInstalled \/ CompactionInstalled

BackgroundFault == TableFails \/ CompactionFails \/ EditNotLogged

OpenStep == RecoverManifest \/ OpenRefused \/ RecoverLogFile \/ OpenNewLog \/ OpenInstalls

Next ==
    \/ \E t \in Thread : \/ \E sync, null \in BOOLEAN : Write(t, sync, null)
                         \/ WriteStep(t) \/ WriteFault(t)
    \/ \E r \in Reader : Get(r) \/ GotValue(r)
    \/ BackgroundStep \/ BackgroundFault
    \/ Close \/ Closed \/ CrashProcess \/ CrashMachine
    \/ OpenStep \/ OpenFails

(***************************************************************************)
(* Every thread is scheduled: a writer that runs and the background thread *)
(* go on, and a close that began is served.  Nobody has to fail, crash or  *)
(* call.  A background thread that closes stops in one of the fault steps. *)
(***************************************************************************)
Fairness == /\ \A t \in Thread : WF_vars(WriteStep(t))
            /\ WF_vars(BackgroundStep \/ (phase = "closing" /\ BackgroundFault))
            /\ WF_vars(Closed)

Spec == Init /\ [][Next]_vars /\ Fairness

-----------------------------------------------------------------------------
(***************************************************************************)
(* Properties.                                                             *)
(***************************************************************************)
(* Every variable has its type. *)
CallType ==
    /\ phase \in {"closed", "recovering", "open", "closing"}
    /\ queue \in Seq(Thread) /\ op \in [Thread -> Ops]
    /\ group \in [size : Nat, entries : SUBSET Entry]
    /\ reads \in [Reader -> Reads]
    /\ recovery \in [logs : SUBSET Nat, tables : SUBSET Nat, log : Nat]
    /\ left \in [old : Nat, writes : Nat, gets : Nat, faults : Nat, downs : Nat]
MemoryType ==
    /\ lastSeq \in Nat /\ mem \in Nat /\ imm \in Nat /\ nextFile \in Nat /\ logNum \in Nat
    /\ DOMAIN memtab \subseteq Nat /\ memtab \in [DOMAIN memtab -> SUBSET Entry]
    /\ version \in Levels /\ pending \subseteq Nat /\ bgError \in BOOLEAN
    /\ bg \in Background
DiskType ==
    /\ DOMAIN logs \subseteq Nat /\ logs \in [DOMAIN logs -> Seq(Record)]
    /\ synced \in [DOMAIN logs -> Nat] /\ \A n \in DOMAIN logs : synced[n] <= Len(logs[n])
    /\ DOMAIN tables \subseteq Nat /\ tables \in [DOMAIN tables -> SUBSET Entry]
    /\ manifest \in Seq(State) /\ manifest # <<>>
    /\ issued \in Nat /\ acked \subseteq 1..issued /\ promised \subseteq 1..issued
TypeOK == CallType /\ MemoryType /\ DiskType

(* writers_: only its first writer is past the wait, so that the log and   *)
(* the memtable have one writer at a time without the mutex (Write, the    *)
(* comment at db_impl.cc:1214); whoever is in the queue is in a call.      *)
Leading == {"room", "asleep", "bgwait", "log", "sync", "insert", "commit"}
OneLogger ==
    /\ \A i, j \in DOMAIN queue : queue[i] = queue[j] => i = j
    /\ \A t \in Thread : op[t].pc = "wait" <=> \E i \in DOMAIN queue : i > 1 /\ queue[i] = t
    /\ \A t \in Thread : op[t].pc \in Leading <=> queue # <<>> /\ queue[1] = t

(* A read finds what the store held when it began, whatever is switched,   *)
(* flushed, merged and deleted meanwhile.                                  *)
SnapshotReadable == \A r \in Reader : reads[r].on => Finds(r) = reads[r].sees

(* An entry whose Write returned OK is found by readers and by the next    *)
(* DB::Open until the machine crashes, and one that was written with sync  *)
(* after any crash (options.h, WriteOptions::sync), unless a file is       *)
(* damaged: a log that goes on after a record written in part, which       *)
(* Write does not stop (db_impl.cc:1223).                                  *)
NothingLost == ~ Damaged => /\ acked \subseteq Ids(Contents)
                            /\ promised \subseteq Ids(Durable)

(* No two entries have one sequence number, over restarts: LastSequence is *)
(* recovered from the MANIFEST and from the logs.                          *)
SeqUnique == \A e, f \in Contents : e.seq = f.seq => e = f

(* The database is a durable store: no step of the background thread, of   *)
(* the deletion of files or of the recovery changes what it holds.         *)
Doubtful == (UNION {Recovered(manifest[i], [n \in DOMAIN logs |-> Len(logs[n])]) :
                        i \in DOMAIN manifest}) \cup group.entries
Store == INSTANCE DurableStore WITH
            up <- phase \in {"open", "closing"},
            contents <- Ids(Contents), doubt <- Ids(Doubtful) \ Ids(Contents),
            durable <- Ids(Durable) \cap Ids(Contents), damaged <- Damaged
ImplementsDurableStore == Store!Spec

(* Every Write returns: no writer sleeps on its own condition or on        *)
(* bg_cv_ for ever; and ~DBImpl returns, as the background thread always   *)
(* clears its flag.                                                        *)
CallsReturn == /\ \A t \in Thread : op[t].pc # "idle" ~> op[t].pc = "idle"
               /\ phase = "closing" ~> phase = "closed"
=============================================================================
