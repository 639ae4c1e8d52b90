----------------------------- MODULE LogFormat -----------------------------
(***************************************************************************)
(* The format of LevelDB's logs and MANIFEST, by units of the file:        *)
(* log::Writer cuts a record into physical records that do not cross a     *)
(* block, and log::Reader finds the records of what a failed write or a    *)
(* crash left (Pods/leveldb-library/db/log_writer.cc and log_reader.cc).   *)
(* A unit is known by the physical record it is of, and its place there,   *)
(* so that a checksum matches if and only if all units are those written.  *)
(***************************************************************************)
EXTENDS Integers, Sequences

CONSTANTS
    BlockSize,      \* kBlockSize
    HeaderSize,     \* kHeaderSize
    RecordSize,     \* the sizes of the records written
    MaxRecords,     \* bound: how many records are written
    MaxFails,       \* bound: how many writes fail
    MaxCrashes      \* bound: how many times the process ends

LogAssumption ==
    /\ HeaderSize \in Nat \ {0} /\ BlockSize \in Nat /\ BlockSize > HeaderSize
    /\ RecordSize \subseteq Nat /\ MaxRecords \in Nat /\ MaxFails \in Nat /\ MaxCrashes \in Nat

VARIABLES
    file,           \* the units of the file
    offset,         \* block_offset_
    writer,         \* what is left of the record that AddRecord writes
    made,           \* the records: their physical records, where they start,
                    \*   and whether the file has all of them
    reader,         \* log::Reader
    faults          \* number of failed writes and of crashes

vars == <<file, offset, writer, made, reader, faults>>

-----------------------------------------------------------------------------
NoWriter == [on |-> FALSE, left |-> 0]
NoReader == [pc |-> "none", at |-> 0, scratch |-> <<>>, got |-> <<>>, reports |-> FALSE]
Lesser(a, b) == IF a < b THEN a ELSE b

Init == /\ file = <<>> /\ offset = 0 /\ writer = NoWriter /\ made = <<>>
        /\ reader = NoReader
        /\ faults = [writes |-> 0, crashes |-> 0]

Writes == reader.pc = "none"
Current == Len(made)

AddRecord(size) ==
    /\ Writes /\ ~ writer.on /\ Len(made) < MaxRecords
    /\ writer' = [on |-> TRUE, left |-> size]
    /\ made' = Append(made, [parts |-> <<>>, start |-> Len(file), whole |-> FALSE])
    /\ UNCHANGED <<file, offset, reader, faults>>

-----------------------------------------------------------------------------
(***************************************************************************)
(* One turn of AddRecord's loop: the trailer of a block with no room for a *)
(* header is filled, and EmitPhysicalRecord writes what fits.              *)
(***************************************************************************)
Zero == [record |-> 0, part |-> 0, type |-> "zero", size |-> 0]
Units(p) == [i \in 1..(HeaderSize + p.size) |-> <<p, i>>]

NoRoom == BlockSize - offset < HeaderSize
Trailer == IF NoRoom THEN [i \in 1..(BlockSize - offset) |-> <<Zero, i>>] ELSE <<>>
Start == IF NoRoom THEN 0 ELSE offset

Fragment ==
    LET size == Lesser(writer.left, BlockSize - Start - HeaderSize)
        begin == made[Current].parts = <<>>
        end == size = writer.left
    IN  [record |-> Current, part |-> Len(made[Current].parts) + 1, size |-> size,
         type |-> CASE begin /\ end -> "full" [] begin /\ ~ end -> "first"
                    [] ~ begin /\ end -> "last" [] ~ begin /\ ~ end -> "middle"]

Emitted(whole) == [made EXCEPT ![Current].parts = Append(@, Fragment), ![Current].whole = whole]

EmitPhysicalRecord ==
    /\ Writes /\ writer.on
    /\ file' = file \o Trailer \o Units(Fragment)
    /\ offset' = Start + HeaderSize + Fragment.size
    /\ made' = Emitted(Fragment.size = writer.left)
    /\ writer' = IF Fragment.size = writer.left THEN NoWriter
                 ELSE [writer EXCEPT !.left = @ - Fragment.size]
    /\ UNCHANGED <<reader, faults>>

(* Append or Flush fails after the file took some, or all, of the units:   *)
(* block_offset_ counts them all, and AddRecord returns.                   *)
EmitFails ==
    /\ Writes /\ writer.on /\ faults.writes < MaxFails
    /\ \E n \in 0..(HeaderSize + Fragment.size) : file' = file \o Trailer \o SubSeq(Units(Fragment), 1, n)
    /\ offset' = Start + HeaderSize + Fragment.size
    /\ made' = Emitted(FALSE)
    /\ writer' = NoWriter
    /\ faults' = [faults EXCEPT !.writes = @ + 1]
    /\ UNCHANGED reader

(* The process or the machine ends, and the file keeps a prefix; the file  *)
(* is then read.  A record starts where the one before was left or later,  *)
(* so that those that start in the prefix are the first ones.              *)
LastUnit(p) == <<p, HeaderSize + p.size>>
Kept(r, n) == \A i \in DOMAIN made[r].parts : \E u \in 1..n : file[u] = LastUnit(made[r].parts[i])

Crash ==
    /\ Writes /\ faults.crashes < MaxCrashes
    /\ faults' = [faults EXCEPT !.crashes = @ + 1]
    /\ \E n \in 0..Len(file) :
         /\ file' = SubSeq(file, 1, n)
         /\ made' = [r \in {r \in DOMAIN made : made[r].start < n} |->
                        [made[r] EXCEPT !.whole = @ /\ Kept(r, n)]]
    /\ writer' = NoWriter
    /\ reader' = [NoReader EXCEPT !.pc = "reads"]
    /\ UNCHANGED offset

-----------------------------------------------------------------------------
(***************************************************************************)
(* ReadPhysicalRecord, at reader.at of the file, in a buffer that ends     *)
(* with the block or the file; a last block that is not full is eof_.      *)
(***************************************************************************)
BlockEnd == ((reader.at \div BlockSize) + 1) * BlockSize
Eof == Len(file) < BlockEnd
BufferEnd == Lesser(Len(file), BlockEnd)
Buffered == BufferEnd - reader.at
IsHeader == /\ Buffered >= HeaderSize
            /\ \A i \in 1..HeaderSize : file[reader.at + i] = <<file[reader.at + 1][1], i>>
Found == file[reader.at + 1][1]
Fits == HeaderSize + Found.size <= Buffered
ChecksumMatches == \A i \in 1..(HeaderSize + Found.size) : file[reader.at + i] = <<Found, i>>

Reads == reader.pc = "reads"

(* A trailer, or a truncated header at the end. *)
SkipTrailer ==
    /\ Reads /\ Buffered < HeaderSize
    /\ reader' = IF Eof THEN [reader EXCEPT !.pc = "done"] ELSE [reader EXCEPT !.at = BlockEnd]
    /\ UNCHANGED <<file, offset, writer, made, faults>>

(* mutant: the record in scratch goes on in the next block. *)
DroppedButScratch(reported) == [reader EXCEPT !.at = BufferEnd, !.reports = @ \/ reported]

(* kBadRecord: the rest of the block is dropped, and a record in scratch.  *)
Dropped(reported) ==
    [reader EXCEPT !.at = BufferEnd, !.scratch = <<>>, !.reports = @ \/ reported \/ reader.scratch # <<>>]

(* A payload cut off by the end of the file is no corruption, nor are      *)
(* zeros; what is no header may have any length, or be zeros.              *)
DropBlock ==
    /\ Reads /\ Buffered >= HeaderSize /\ ~ (IsHeader /\ Fits /\ ChecksumMatches)
    /\ \E short \in IF IsHeader THEN {~ Fits} ELSE BOOLEAN,
          zeros \in IF IsHeader THEN {FALSE} ELSE BOOLEAN :
         reader' = IF short /\ Eof THEN [reader EXCEPT !.pc = "done"] ELSE Dropped(short \/ ~ zeros)
    /\ UNCHANGED <<file, offset, writer, made, faults>>

(* ReadRecord takes the physical record: in_fragmented_record is a scratch *)
(* that is not empty.                                                      *)
Scratch ==
    CASE Found.type \in {"full", "first"} -> <<Found>>
      [] Found.type \in {"middle", "last"} /\ reader.scratch # <<>> -> Append(reader.scratch, Found)
      [] OTHER -> <<>>
Partial == Found.type \in {"full", "first"} /\ \E i \in DOMAIN reader.scratch : reader.scratch[i].size > 0
NoStart == Found.type \in {"middle", "last"} /\ reader.scratch = <<>>

ReadRecord ==
    /\ Reads /\ IsHeader /\ Fits /\ ChecksumMatches
    /\ reader' = [reader EXCEPT
            !.at = @ + HeaderSize + Found.size,
            !.scratch = IF Found.type \in {"first", "middle"} THEN Scratch ELSE <<>>,
            !.got = IF Found.type \in {"full", "last"} /\ Scratch # <<>> THEN Append(@, Scratch) ELSE @,
            !.reports = @ \/ Partial \/ NoStart]
    /\ UNCHANGED <<file, offset, writer, made, faults>>

(* Writer(dest, dest_length): a log that is appended to after it was read, *)
(* whatever its end (RecoverLogFile and ReuseManifest, for reuse_logs).    *)
Reuse ==
    /\ reader.pc = "done"
    /\ reader' = NoReader
    /\ offset' = Len(file) % BlockSize
    /\ UNCHANGED <<file, writer, made, faults>>

Next ==
    \/ \E size \in RecordSize : AddRecord(size)
    \/ EmitPhysicalRecord \/ EmitFails \/ Crash
    \/ SkipTrailer \/ DropBlock \/ ReadRecord \/ Reuse

Spec == Init /\ [][Next]_vars

-----------------------------------------------------------------------------
(* What a recovery reads of a log: no record is put together from parts of *)
(* several, every record before the first torn one is there and nothing is *)
(* reported if there is none; after records torn by crashes alone, those   *)
(* that start in a later block are there too.                              *)
Torn == {t \in DOMAIN made : t < Current /\ ~ made[t].whole}
IsRead(r) == \E i \in DOMAIN reader.got : reader.got[i][1].record = r
SameBlock(m, n) == m \div BlockSize = n \div BlockSize
AfterTear(r) == \E t \in Torn : t < r /\ SameBlock(made[t + 1].start, made[r].start)

LogReadsRight ==
    reader.pc = "done" =>
        /\ \A i \in DOMAIN reader.got :
              LET parts == reader.got[i]
              IN  /\ parts = made[parts[1].record].parts
                  /\ parts[Len(parts)].type \in {"full", "last"}
                  /\ i > 1 => reader.got[i - 1][1].record < parts[1].record
        /\ Torn = {} => ~ reader.reports
        /\ \A r \in DOMAIN made :
              \/ IsRead(r) \/ ~ made[r].whole
              \/ faults.writes > 0 /\ \E t \in Torn : t < r
              \/ faults.writes = 0 /\ AfterTear(r)
=============================================================================
