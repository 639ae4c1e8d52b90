-------------------------- MODULE LevelDBInvariant --------------------------
(***************************************************************************)
(* Why DBImpl loses nothing: the inductive invariant of LevelDB, part by   *)
(* part.  It says what the queue, the memtables, the logs, the tables, the *)
(* MANIFEST and the background thread owe to each other between any two    *)
(* steps; the properties of LevelDB follow from it (LevelDB_proofs).       *)
(***************************************************************************)
EXTENDS LevelDB

Up == phase \in {"open", "closing"}
Serving == {"log", "sync", "insert", "commit"}

(* Writers that serve a group have it, and it is in the queue. *)
QueueInv ==
    /\ queue \in Seq(Thread)
    /\ op \in [Thread -> Ops]
    /\ \A t \in Thread : op[t].pc \in Serving => group.size \in 1..Len(queue)
    /\ OneLogger

(* A DBImpl that is not open has nobody in it, and no memtable. *)
RestInv ==
    /\ ~ Up => /\ queue = <<>> /\ op = [t \in Thread |-> Idle] /\ group = NoGroup
               /\ mem = 0 /\ imm = 0 /\ memtab = [n \in {0} |-> {}] /\ pending = {}
               /\ bgError = FALSE /\ bg = NoBg /\ reads = [r \in Reader |-> NoRead]
    /\ phase # "recovering" => recovery = NoRecovery

(***************************************************************************)
(* The entries, wherever they are: no two have the same id or the same     *)
(* sequence number, and no log has an entry twice.                         *)
(***************************************************************************)
Known == (UNION {Logged(logs[n]) : n \in DOMAIN logs})
            \cup (UNION {tables[n] : n \in DOMAIN tables})
            \cup (UNION {memtab[n] : n \in DOMAIN memtab}) \cup group.entries
EntryInv ==
    /\ \A e \in Known : e.id \in 1..issued /\ e.seq \in 1..e.id
    /\ \A e, f \in Known : e.id = f.id \/ e.seq = f.seq => e = f

LogInv ==
    \A n, k \in DOMAIN logs : \A i \in DOMAIN logs[n], j \in DOMAIN logs[k] :
        logs[n][i].ok /\ logs[k][j].ok /\ logs[n][i].entries \cap logs[k][j].entries # {}
            => n = k /\ i = j

(* Each state the MANIFEST may recover has its tables, and counters that   *)
(* are past them.                                                          *)
ManifestInv ==
    \A i \in DOMAIN manifest :
        /\ Files(manifest[i].files) \subseteq DOMAIN tables
        /\ \A e \in Stored(Files(manifest[i].files)) : e.seq <= manifest[i].last
        /\ manifest[i].last <= issued
        /\ \A j \in i..Len(manifest) : \A n \in Files(manifest[i].files) : n < manifest[j].next

(***************************************************************************)
(* An open database: the numbers of its files, what the memtables have in  *)
(* their logs, and the sequence numbers given so far.                      *)
(***************************************************************************)
NumberInv == Up =>
    /\ mem \in DOMAIN memtab \cap DOMAIN logs /\ 0 < mem /\ mem < nextFile /\ logNum <= mem
    /\ imm # 0 => imm \in DOMAIN memtab \cap DOMAIN logs /\ logNum <= imm /\ imm < mem
    /\ \A n \in DOMAIN memtab \cup DOMAIN logs : n <= mem
    /\ \A n \in DOMAIN tables : n < nextFile
    /\ Files(version) \subseteq DOMAIN tables
LoggedInv == Up =>
    /\ memtab[mem] \subseteq Logged(logs[mem])
    /\ imm # 0 => memtab[imm] \subseteq Logged(logs[imm])
SeqInv == Up =>
    /\ \A n \in DOMAIN tables : \A e \in tables[n] : e.seq <= lastSeq
    /\ \A n \in DOMAIN memtab : \A e \in memtab[n] : e.seq <= lastSeq \/ (n = mem /\ e \in group.entries)
    /\ \A n \in DOMAIN logs : \A e \in Logged(logs[n]) :
            e.seq <= lastSeq \/ (n = mem /\ e \in group.entries)

(* Any state of the MANIFEST has the version, and the immutable memtable   *)
(* once its log is obsolete.                                               *)
VersionInv == Up =>
    /\ manifest[1].log = logNum
    /\ \A i \in DOMAIN manifest :
         /\ logNum <= manifest[i].log /\ manifest[i].log <= mem
         /\ Stored(Files(version)) \subseteq Stored(Files(manifest[i].files))
         /\ imm # 0 /\ imm < manifest[i].log => memtab[imm] \subseteq Stored(Files(manifest[i].files))
    /\ ~ bgError => Last(manifest).files = IF bg.pc = "sync" THEN Edited(version) ELSE version

(***************************************************************************)
(* The background thread: the table it builds from the immutable memtable, *)
(* the one it merges, and the edit it logs.                                *)
(***************************************************************************)
FlushInv == bg.job \in {"mem", "nested"} =>
    /\ imm # 0 /\ bg.num \in 1..(nextFile - 1)
    /\ bg.job = "nested" => bg.num # bg.out
    /\ Stored({bg.num}) = memtab[imm]
    /\ bg.pc = "build" => /\ bg.num \notin Files(version)
                          /\ \A r \in Reader : bg.num \notin reads[r].files
                          /\ \A i \in DOMAIN manifest : bg.num \notin Files(manifest[i].files)
    /\ bg.pc \in {"append", "sync"} =>
            /\ bg.edit.log = mem /\ bg.edit.del = NoFiles
            /\ Files(bg.edit.add) = {bg.num} \cap DOMAIN tables
MergeInv == bg.job \in {"merge", "nested"} =>
    /\ bg.inputs.l0 \subseteq version.l0 /\ bg.inputs.l1 \subseteq version.l1
    /\ bg.out # 0 => /\ bg.out \in DOMAIN tables /\ bg.out \in pending
                     /\ tables[bg.out] = Stored(Files(bg.inputs))
    /\ bg.job = "merge" /\ bg.pc \in {"append", "sync"} =>
            /\ bg.out # 0 /\ bg.edit.log = logNum /\ bg.edit.del = bg.inputs
            /\ bg.edit.add = Placed(1, {bg.out})
EditInv ==
    /\ bg.pc \in {"off", "queued"} => bg = [NoBg EXCEPT !.pc = bg.pc]
    /\ bg.pc = "build" => bg.job \in {"mem", "nested"}
    /\ bg.pc = "work" => bg.job = "merge"
    /\ bg.pc \in {"append", "sync"} => bg.job # "none"
    /\ bg.pc = "append" => /\ bg.edit.last <= issued
                           /\ \A n \in DOMAIN tables : /\ n < bg.edit.next
                                                       /\ \A e \in tables[n] : e.seq <= bg.edit.last
    /\ bg.pc = "sync" => /\ Last(manifest).log = bg.edit.log
                         /\ Files(bg.edit.add) \subseteq Files(Last(manifest).files)

(***************************************************************************)
(* The group: its entries have the next numbers, and are where the front   *)
(* writer has brought them.                                                *)
(***************************************************************************)
GroupInv ==
    /\ lastSeq <= issued \/ ~ Up
    /\ (\A t \in Thread : op[t].pc \notin Serving) => group = NoGroup
    /\ \A t \in Thread : op[t].pc \in Serving =>
        LET count == Batches(group.size)
        IN  /\ lastSeq + count <= issued
            /\ group.entries = NewEntries(issued - count, lastSeq, count)
            /\ \A i \in 1..group.size : op[queue[i]].sync => op[t].sync
StageInv == \A t \in Thread :
    /\ op[t].pc # "commit" => op[t].status = "ok"
    /\ op[t].pc \in {"log", "sync", "insert"} =>
            \A n \in DOMAIN memtab : memtab[n] \cap group.entries = {}
    /\ op[t].pc = "log" => \A n \in DOMAIN logs : Logged(logs[n]) \cap group.entries = {}
    /\ op[t].pc = "sync" => op[t].sync
    /\ op[t].pc \in {"sync", "insert"} => group.entries \subseteq Logged(logs[mem])
    /\ op[t].pc = "commit" /\ op[t].status = "ok" => group.entries \subseteq memtab[mem]
    /\ op[t].pc = "commit" /\ op[t].status # "ok" =>
            \A n \in DOMAIN memtab : memtab[n] \cap group.entries = {}
    /\ op[t].sync /\ (op[t].pc = "insert" \/ (op[t].pc = "commit" /\ op[t].status = "ok")) =>
            group.entries \subseteq Logged(SubSeq(logs[mem], 1, synced[mem]))

(* A read's memtables and tables are still there, with what it saw. *)
ReadInv == \A r \in Reader :
    IF reads[r].on
    THEN /\ reads[r].mem \in DOMAIN memtab
         /\ reads[r].imm # 0 => reads[r].imm \in DOMAIN memtab
         /\ reads[r].files \subseteq DOMAIN tables
         /\ reads[r].snapshot <= lastSeq
         /\ Finds(r) = reads[r].sees
    ELSE reads[r] = NoRead

(***************************************************************************)
(* DB::Open: the logs replayed so far are in the tables it made.           *)
(***************************************************************************)
RecoveryInv == phase = "recovering" =>
    /\ ~ Broken(manifest)
    /\ version = Last(manifest).files /\ logNum = Last(manifest).log
    /\ logNum < nextFile /\ Last(manifest).next <= nextFile
    /\ lastSeq <= issued
    /\ recovery.logs \subseteq NeededLogs
    /\ recovery.tables \subseteq DOMAIN tables /\ \A n \in recovery.tables : n < nextFile
    /\ \A e \in Stored(Files(version) \cup recovery.tables) : e.seq <= lastSeq
    /\ \A n \in NeededLogs \ recovery.logs :
            n < nextFile /\ Logged(logs[n]) \subseteq Stored(recovery.tables)
    /\ Stored(recovery.tables) \subseteq UNION {Logged(logs[n]) : n \in NeededLogs \ recovery.logs}
    /\ recovery.log # 0 => /\ recovery.logs = {} /\ recovery.log < nextFile
                           /\ recovery.log \in DOMAIN logs /\ logs[recovery.log] = <<>>
                           /\ \A n \in DOMAIN logs : n <= recovery.log

(* What Write answered is found, and what it synced is on the disk. *)
AckInv ==
    /\ promised \subseteq acked /\ promised \subseteq Ids(Durable)
    /\ Up \/ ~ Broken(manifest) => acked \subseteq Ids(Contents)

(* Between any two steps of DBImpl all of it holds: what it shows, what it *)
(* may recover and what its threads are about to do agree with each other. *)
StoreInv ==
    /\ TypeOK /\ QueueInv /\ RestInv /\ EntryInv /\ LogInv /\ ManifestInv
    /\ NumberInv /\ LoggedInv /\ SeqInv /\ VersionInv /\ FlushInv /\ MergeInv /\ EditInv
    /\ GroupInv /\ StageInv /\ ReadInv /\ RecoveryInv /\ AckInv
=============================================================================
