---------------------------- MODULE LevelDBSteps ----------------------------
(***************************************************************************)
(* Names for the steps of LevelDB and for what they do, which its proofs   *)
(* use: groups of actions that are alike, their effects without CHOOSE and *)
(* LET, and where in the files an entry is.                                *)
(***************************************************************************)
EXTENDS LevelDBInvariant

(* What the store is made of: the steps of the queue alone leave it. *)
store == <<phase, group, memory, bgError, bg, reads, recovery, disk, promises>>

(* Steps that are alike, and the steps that are left when the queue is left out. *)
LogStep(t) == AddRecord(t) \/ AddRecordFails(t)
Flush == CompactMemTable \/ CompactMemTableFirst
Down == (Closed \/ CrashProcess \/ OpenFails) /\ UNCHANGED <<disk, promises>>

Steps ==
    \/ UNCHANGED store
    \/ \E t \in Thread : \/ RoomSwitched(t) \/ RoomFound(t) \/ LogStep(t)
                         \/ Sync(t) \/ InsertInto(t) \/ Commit(t)
    \/ \E r \in Reader : Get(r) \/ GotValue(r)
    \/ BackgroundIdles \/ Flush \/ TableBuilt \/ PickCompaction
    \/ OpenCompactionOutputFile \/ FinishCompactionOutputFile \/ AppendEdit
    \/ MemTableInstalled \/ CompactionInstalled
    \/ TableFails \/ CompactionFails \/ EditNotLogged
    \/ Close \/ Down \/ CrashMachine
    \/ RecoverManifest \/ RecoverLogFile \/ OpenNewLog \/ OpenInstalls

(* The steps that install a version, and those that end a background call. *)
Install == MemTableInstalled \/ CompactionInstalled
Ends == BackgroundIdles \/ TableFails \/ CompactionFails \/ EditNotLogged \/ Install

(* The steps with which a writer that has no group makes room or leaves. *)
RoomStep(t) == \/ RoomRefused(t) \/ RoomDelayed(t) \/ RoomWoken(t) \/ RoomWaits(t)
               \/ RoomForced(t) \/ RoomNoFile(t) \/ RoomSwitched(t)

(* A file system or a memory that has one thing more, or some things less. *)
Grown(f, g, n, v) == /\ n \notin DOMAIN f /\ DOMAIN g = DOMAIN f \cup {n}
                     /\ g[n] = v /\ \A k \in DOMAIN f : g[k] = f[k]
Shrunk(f, g) == DOMAIN g \subseteq DOMAIN f /\ \A k \in DOMAIN g : g[k] = f[k]

(* What a step of RecoverLogFile does, without its CHOOSE and its LET. *)
Replay(n, r, found) ==
    /\ n \in DOMAIN logs /\ n \in Nat /\ n >= logNum /\ \A k \in recovery.logs : n <= k
    /\ found = Logged(r) /\ found \subseteq Logged(logs[n])
    /\ ~ Broken(logs[n]) => r = logs[n]
    /\ \E at \in [DOMAIN r -> DOMAIN logs[n]] :
           /\ \A i \in DOMAIN r : r[i] = logs[n][at[i]] /\ i <= at[i]
           /\ \A i, j \in DOMAIN r : at[i] = at[j] => i = j
    /\ recovery' = [recovery EXCEPT !.logs = recovery.logs \ {n},
                       !.tables = IF found = {} THEN recovery.tables
                                  ELSE recovery.tables \cup {nextFile}]
    /\ tables' = IF found = {} THEN tables ELSE Extend(tables, nextFile, found)
    /\ nextFile' \in Nat /\ nextFile' >= nextFile /\ nextFile' > n
    /\ found # {} => nextFile' > nextFile
    /\ lastSeq' \in Nat /\ lastSeq <= lastSeq' /\ lastSeq' <= issued
    /\ \A e \in found : e.seq <= lastSeq'
    /\ logs' = [logs EXCEPT ![n] = r]
    /\ synced' = [synced EXCEPT ![n] = Lower(synced[n], Len(r))]
    /\ acked' = acked \ (Ids(Logged(logs[n])) \ Ids(found))
    /\ promised' = promised \ (Ids(Logged(logs[n])) \ Ids(found))

(* What the disk keeps of the files in a crash of the machine. *)
Keep(upto, k) ==
    /\ \A n \in DOMAIN logs : synced[n] <= upto[n] /\ upto[n] <= Len(logs[n])
    /\ DOMAIN logs' = DOMAIN logs
    /\ \A n \in DOMAIN logs : logs'[n] = SubSeq(logs[n], 1, upto[n])
    /\ logs' \in [DOMAIN logs' -> Seq(Record)]
    /\ synced' = upto
    /\ manifest' = SubSeq(manifest, 1, k) /\ manifest' \in Seq(State) /\ Len(manifest') = k
    /\ DOMAIN manifest' = 1..k /\ Last(manifest)' = manifest[k]
    /\ \A i \in 1..k : manifest'[i] = manifest[i]
    /\ acked' = acked \cap Ids(Recovered(manifest[k], upto))
    /\ UNCHANGED <<promised, tables, issued>>
    /\ phase' = "closed" /\ Forgotten

(* The states that LogAndApply may leave after the ones that were there. *)
EditRecord == [log |-> bg.edit.log, next |-> bg.edit.next, last |-> bg.edit.last,
               files |-> Edited(Last(manifest).files), ok |-> TRUE]
PartRecord == [Last(manifest) EXCEPT !.ok = FALSE]
Logs(r) == manifest' = Append(manifest, r)

(* The group and its writers stay as they are; its server may go on. *)
MembersKept ==
    \A u \in Thread :
        /\ op'[u].pc \in Serving <=> op[u].pc \in Serving
        /\ op[u].pc \in Serving =>
             /\ op'[u].sync = op[u].sync
             /\ \A i \in 1..group.size : /\ queue'[i] = queue[i]
                                         /\ op'[queue[i]].sync = op[queue[i]].sync
                                         /\ op'[queue[i]].null = op[queue[i]].null
ServersKept == MembersKept /\ \A u \in Thread : op[u].pc \in Serving => op'[u] = op[u]

(* An entry is in state i of the MANIFEST if the tables of that state have *)
(* it, or a log that the state needs: one of all its records, or one of    *)
(* those that are synced.                                                  *)
Reach(n, all) == IF all THEN Logged(logs[n]) ELSE Logged(SubSeq(logs[n], 1, synced[n]))
InLogs(i, all, e) == \E n \in DOMAIN logs : n >= manifest[i].log /\ e \in Reach(n, all)
InState(i, all, e) == e \in Stored(Files(manifest[i].files)) \/ InLogs(i, all, e)

(* The MANIFEST stays, and its tables, and what is logged and synced. *)
DiskKept ==
    /\ manifest' = manifest
    /\ \A i \in DOMAIN manifest : \A n \in Files(manifest[i].files) : n \in DOMAIN tables' /\ tables'[n] = tables[n]
    /\ \A n \in DOMAIN logs : n \in DOMAIN logs' /\ \A all : Reach(n, all) \subseteq Reach(n, all)'

(* The steps that keep it: they record no version. *)
Plain ==
    \/ UNCHANGED store
    \/ \E t \in Thread : RoomSwitched(t) \/ RoomFound(t) \/ LogStep(t) \/ Sync(t) \/ InsertInto(t) \/ Commit(t)
    \/ \E r \in Reader : Get(r) \/ GotValue(r)
    \/ BackgroundIdles \/ Flush \/ TableBuilt \/ PickCompaction
    \/ OpenCompactionOutputFile \/ FinishCompactionOutputFile
    \/ TableFails \/ CompactionFails
    \/ Close \/ Down \/ RecoverManifest \/ OpenNewLog

(* What the durable store is about: entries that are somewhere. *)
Shown == Contents \cup Doubtful \cup Durable \subseteq Known
=============================================================================
