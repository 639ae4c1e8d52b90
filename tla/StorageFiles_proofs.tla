------------------------- MODULE StorageFiles_proofs -------------------------
(***************************************************************************)
(* Proofs about the files of Storage, for every value of the constants.    *)
(* The logs: what log::Reader finds in what log::Writer, failed writes and *)
(* crashes left, for any sizes of blocks, headers and records, and any     *)
(* number of records, of failed writes and of crashes.  The tables: what a *)
(* lookup and an iterator find in what TableBuilder wrote, for any entries *)
(* in any blocks with any separators, and any blocks that cannot be read.  *)
(***************************************************************************)
EXTENDS Storage, Sequences, FiniteSets, FiniteSetTheorems, TLAPS, WellFoundedInduction

(***************************************************************************)
(* The log.  The parts of the records, as they are in the file.            *)
(***************************************************************************)
Length(p) == HeaderSize + p.size
Begins == {"full", "first"}
Ends == {"full", "last"}
Physical == [record : Nat, part : Nat, type : {"zero", "full", "first", "middle", "last"}, size : Nat]
InFile(p) == \E u \in DOMAIN file : file[u] = Log!LastUnit(p)
IsPart(p) == /\ p.record \in DOMAIN made /\ p.part \in DOMAIN made[p.record].parts
             /\ p = made[p.record].parts[p.part]

(* Where the part of a unit begins, and where the block of a place does. *)
Before(u) == u - file[u][2]
BlockStart(x) == (x \div BlockSize) * BlockSize

LogTypes ==
    /\ file \in Seq(Physical \X Nat) /\ offset \in 0..BlockSize
    /\ writer \in [on : BOOLEAN, left : Nat]
    /\ made \in Seq([parts : Seq(Physical), start : Nat, whole : BOOLEAN])
    /\ reader \in [pc : {"none", "reads", "done"}, at : Nat, scratch : Seq(Physical),
                   got : Seq(Seq(Physical)), reports : BOOLEAN]
    /\ faults \in [writes : Nat, crashes : Nat]

(* The parts of a record are numbered and of its number, the first begins  *)
(* it and only the last ends it.  A whole record is ended and in the file. *)
PartsRight ==
    \A r \in DOMAIN made :
        /\ \A j \in DOMAIN made[r].parts :
              LET p == made[r].parts[j]
              IN  /\ p.record = r /\ p.part = j /\ p.type \in Begins \cup Ends \cup {"middle"}
                  /\ p.type \in Begins <=> j = 1
                  /\ p.type \in Ends => j = Len(made[r].parts)
        /\ made[r].whole =>
              /\ made[r].parts # <<>> /\ made[r].parts[Len(made[r].parts)].type \in Ends
              /\ \A j \in DOMAIN made[r].parts : InFile(made[r].parts[j])

(* A unit is of a trailer or of a part, and follows those before it. *)
UnitsRight ==
    \A u \in DOMAIN file :
        /\ IF file[u][1] = Log!Zero THEN file[u][2] < HeaderSize
           ELSE IsPart(file[u][1]) /\ file[u][2] <= Length(file[u][1])
        /\ file[u][2] \in 1..u
        /\ \A j \in 1..file[u][2] : file[Before(u) + j] = <<file[u][1], j>>

(* A record is after where it starts and before where the next one does. *)
StartsRight ==
    /\ \A r \in DOMAIN made : made[r].start <= Len(file)
    /\ \A r, s \in DOMAIN made : r < s => made[r].start <= made[s].start
    /\ \A u \in DOMAIN file : file[u][1] # Log!Zero =>
          /\ made[file[u][1].record].start < u
          /\ \A s \in DOMAIN made : file[u][1].record < s => u <= made[s].start

(* A part is in the file up to its end or to where it was cut, when its    *)
(* record was the last one: the next record starts there.                  *)
HasPart(u, n) == \A j \in 1..n : u - 1 + j <= Len(file) /\ file[u - 1 + j] = <<file[u][1], j>>
CutAt(r, c) == IF r = Log!Current THEN c = Len(file) /\ ~ writer.on ELSE made[r + 1].start = c
CutsRight ==
    \A u \in DOMAIN file : file[u][1] # Log!Zero /\ file[u][2] = 1 =>
        \E n \in 1..Length(file[u][1]) :
            HasPart(u, n) /\ (n = Length(file[u][1]) \/ CutAt(file[u][1].record, u - 1 + n))

(* A part comes after the end of the one before, with at most a trailer    *)
(* between them.                                                           *)
Follows(u, e) ==
    /\ e < u /\ u <= e + HeaderSize
    /\ file[e] = Log!LastUnit(made[file[u][1].record].parts[file[u][1].part - 1])
    /\ \A v \in DOMAIN file : e < v /\ v < u => file[v][1] = Log!Zero
FollowsRight ==
    \A u \in DOMAIN file :
        file[u][1] # Log!Zero /\ file[u][2] = 1 /\ file[u][1].part > 1 => \E e \in DOMAIN file : Follows(u, e)

(* Parts are in the order of the records and of their numbers, and no unit *)
(* is there twice.                                                         *)
OrderRight ==
    \A u, v \in DOMAIN file : u < v /\ file[u][1] # Log!Zero /\ file[v][1] # Log!Zero =>
        /\ file[u][1].record <= file[v][1].record
        /\ file[u][1].record = file[v][1].record => file[u][1].part <= file[v][1].part
        /\ file[u] # file[v]

(* While no write failed, or up to the first record that is not whole,     *)
(* parts and trailers are where the blocks of the reader have them.        *)
Good(r) == faults.writes = 0 \/ \A t \in DOMAIN made : t < r => made[t].whole
BlocksRight ==
    \A u \in DOMAIN file :
        /\ file[u][1] # Log!Zero /\ file[u][2] = 1 /\ Good(file[u][1].record)
           => u - 1 + Length(file[u][1]) <= BlockStart(u - 1) + BlockSize
        /\ file[u][1] = Log!Zero /\ (\A s \in DOMAIN made : made[s].start < u => Good(s))
           => BlockStart(u - 1) + BlockSize < u - 1 + HeaderSize

(* The parts of the record that is written are at the end of the file, and *)
(* block_offset_ is right where the blocks have to be.                     *)
WriterAtEnd ==
    writer.on =>
        /\ Log!Current > 0 /\ reader.pc = "none" /\ ~ made[Log!Current].whole
        /\ \A j \in DOMAIN made[Log!Current].parts : InFile(made[Log!Current].parts[j])
        /\ made[Log!Current].parts # <<>> =>
              LET last == made[Log!Current].parts[Len(made[Log!Current].parts)]
              IN  Len(file) > 0 /\ file[Len(file)] = Log!LastUnit(last) /\ last.type \notin Ends
Regular == faults.writes = 0 \/ \A t \in DOMAIN made : made[t].whole \/ (t = Log!Current /\ writer.on)
OffsetAt(at, n) == BlockStart(n) = n - at \/ (at = BlockSize /\ BlockStart(n) = n)
OffsetRight == reader.pc = "none" /\ Regular => OffsetAt(offset, Len(file))

-----------------------------------------------------------------------------
(* The reader is at the end of the file, of a part, or of a block. *)
AtRight ==
    /\ reader.at <= Len(file)
    /\ \/ reader.at = Len(file) \/ BlockStart(reader.at) = reader.at
       \/ reader.at \in DOMAIN file /\ file[reader.at] = Log!LastUnit(file[reader.at][1])

(* In scratch are the first parts of a record, the last of them just       *)
(* before the reader.                                                      *)
ScratchAt(r, k, e) ==
    /\ r \in DOMAIN made /\ k \in DOMAIN made[r].parts
    /\ reader.scratch = SubSeq(made[r].parts, 1, k) /\ made[r].parts[k].type \notin Ends
    /\ e \in DOMAIN file /\ file[e] = Log!LastUnit(made[r].parts[k])
    /\ e <= reader.at /\ reader.at < e + HeaderSize
ScratchRight ==
    reader.scratch # <<>> =>
        \E e \in DOMAIN file : ScratchAt(reader.scratch[1].record, Len(reader.scratch), e)

(* What was read are the parts of records, in their order, all of them     *)
(* before what is still to be read.                                        *)
GotRight ==
    \A i \in DOMAIN reader.got :
        LET r == reader.got[i][1].record
        IN  /\ r \in DOMAIN made /\ reader.got[i] = made[r].parts
            /\ made[r].parts # <<>> /\ made[r].parts[Len(made[r].parts)].type \in Ends
            /\ \A u \in DOMAIN file : u > reader.at /\ file[u][1] # Log!Zero => r < file[u][1].record
            /\ \A h \in DOMAIN reader.got : h < i => reader.got[h][1].record < r
            /\ reader.scratch # <<>> => r < reader.scratch[1].record

(* What the reader owes: the parts of a record behind no tear, or of one   *)
(* in a later block than the tears of crashes.  It has them, or they are   *)
(* still before it.                                                        *)
Due(r) == r \notin Log!Torn /\ ((\A t \in Log!Torn : r < t) \/ (faults.writes = 0 /\ ~ Log!AfterTear(r)))
InHand(p) == reader.scratch # <<>> /\ reader.scratch[1].record = p.record /\ p.part <= Len(reader.scratch)
NothingMissed ==
    \A u \in DOMAIN file :
        file[u][1] # Log!Zero /\ file[u] = Log!LastUnit(file[u][1]) /\ Due(file[u][1].record)
        => \/ Log!IsRead(file[u][1].record) \/ InHand(file[u][1])
           \/ reader.pc = "reads" /\ reader.at <= Before(u)

ReportsRight == Log!Torn = {} => ~ reader.reports
ReaderRight == reader.pc # "none" => AtRight /\ ScratchRight /\ GotRight /\ NothingMissed /\ ReportsRight

FileRight ==
    /\ LogTypes /\ PartsRight /\ UnitsRight /\ StartsRight /\ CutsRight /\ FollowsRight /\ OrderRight
    /\ BlocksRight
LogInv == FileRight /\ WriterAtEnd /\ OffsetRight /\ ReaderRight

-----------------------------------------------------------------------------
LEMMA LogConstants == Log!LogAssumption
  BY StorageAssumption

LEMMA LeastOf == ASSUME NEW S, S \subseteq Nat, S # {} PROVE \E x \in S : \A y \in S : x <= y
<1>1. PICK x \in S : \A y \in S : ~ (<<y, x>> \in OpToRel(<, Nat))
  BY NatLessThanWellFounded, WFMin, Zenon
<1>2. \A y, z \in Nat : y < z => <<y, z>> \in OpToRel(<, Nat)
  <2> SUFFICES ASSUME NEW y \in Nat, NEW z \in Nat, y < z
               PROVE  <<y, z>> \in {ss \in Nat \X Nat : ss[1] < ss[2]}
    BY Zenon DEF OpToRel
  <2> QED OBVIOUS
<1>3. \A y \in S : ~ (y < x)
  BY <1>1, <1>2
<1>4. \A y \in S : x <= y
  BY <1>3
<1> QED BY <1>4

(***************************************************************************)
(* Blocks.                                                                 *)
(***************************************************************************)
LEMMA LogSizes ==
    /\ HeaderSize \in Nat /\ HeaderSize > 0 /\ BlockSize \in Nat /\ BlockSize > HeaderSize
    /\ RecordSize \subseteq Nat
  BY LogConstants DEF Log!LogAssumption

LEMMA Multiples == ASSUME NEW x \in Nat, NEW y \in Nat, NEW b \in Nat, x < y PROVE x * b + b <= y * b
<1>1. PICK d \in Nat : y = x + 1 + d
  <2>1. y - x - 1 \in Nat /\ y = x + 1 + (y - x - 1)
    OBVIOUS
  <2> QED BY <2>1
<1>2. y * b = x * b + b + d * b
  BY <1>1
<1>3. d * b \in Nat /\ x * b \in Nat
  OBVIOUS
<1> QED BY <1>2, <1>3

LEMMA BlockOf ==
    ASSUME NEW x \in Nat
    PROVE  /\ BlockStart(x) \in Nat /\ BlockStart(x) <= x /\ x < BlockStart(x) + BlockSize
           /\ x % BlockSize = x - BlockStart(x) /\ x \div BlockSize \in Nat
<1>1. BlockSize \in Nat /\ BlockSize > 0
  BY LogSizes
<1>2. /\ x \div BlockSize \in Nat /\ x % BlockSize \in 0..(BlockSize - 1)
      /\ x = BlockSize * (x \div BlockSize) + (x % BlockSize)
  BY <1>1
<1>3. (x \div BlockSize) * BlockSize = BlockSize * (x \div BlockSize) /\ (x \div BlockSize) * BlockSize \in Nat
  BY <1>1, <1>2
<1> QED BY <1>1, <1>2, <1>3 DEF BlockStart

(* Of two places, the one in an earlier block is before where the other's  *)
(* block begins.                                                           *)
LEMMA BlocksApart ==
    ASSUME NEW x \in Nat, NEW y \in Nat
    PROVE  /\ BlockStart(x) < BlockStart(y) => BlockStart(x) + BlockSize <= BlockStart(y)
           /\ x \div BlockSize = y \div BlockSize <=> BlockStart(x) = BlockStart(y)
<1>1. BlockSize \in Nat /\ BlockSize > 0 /\ x \div BlockSize \in Nat /\ y \div BlockSize \in Nat
  BY LogSizes, BlockOf
<1>2. x \div BlockSize < y \div BlockSize => BlockStart(x) + BlockSize <= BlockStart(y)
  BY <1>1, Multiples DEF BlockStart
<1>3. y \div BlockSize < x \div BlockSize => BlockStart(y) + BlockSize <= BlockStart(x)
  BY <1>1, Multiples DEF BlockStart
<1>4. x \div BlockSize = y \div BlockSize => BlockStart(x) = BlockStart(y)
  BY DEF BlockStart
<1>5. BlockStart(x) \in Nat /\ BlockStart(y) \in Nat
  BY BlockOf
<1>6. \/ x \div BlockSize < y \div BlockSize \/ y \div BlockSize < x \div BlockSize
      \/ x \div BlockSize = y \div BlockSize
  BY <1>1
<1> QED BY <1>1, <1>2, <1>3, <1>4, <1>5, <1>6

LEMMA SameBlockOf ==
    ASSUME NEW x \in Nat, NEW y \in Nat
    PROVE  /\ BlockStart(x) <= y /\ y < BlockStart(x) + BlockSize <=> BlockStart(y) = BlockStart(x)
           /\ Log!SameBlock(x, y) <=> BlockStart(x) = BlockStart(y)
<1>1. BlockStart(x) \in Nat /\ BlockStart(y) \in Nat /\ BlockStart(y) <= y /\ y < BlockStart(y) + BlockSize
  BY BlockOf
<1>2. /\ BlockStart(x) < BlockStart(y) => BlockStart(x) + BlockSize <= BlockStart(y)
      /\ BlockStart(y) < BlockStart(x) => BlockStart(y) + BlockSize <= BlockStart(x)
      /\ x \div BlockSize = y \div BlockSize <=> BlockStart(x) = BlockStart(y)
  BY BlocksApart
<1> QED BY <1>1, <1>2, LogSizes DEF Log!SameBlock

(* A block begins where another one does, or where that one ends. *)
LEMMA BlockBegins ==
    ASSUME NEW x \in Nat
    PROVE  /\ BlockStart(BlockStart(x)) = BlockStart(x)
           /\ BlockStart(BlockStart(x) + BlockSize) = BlockStart(x) + BlockSize
<1>1. BlockStart(x) \in Nat /\ BlockStart(x) + BlockSize \in Nat /\ BlockSize \in Nat /\ BlockSize > 0
  BY BlockOf, LogSizes
<1>2. BlockStart(BlockStart(x)) = BlockStart(x)
  BY <1>1, SameBlockOf
<1> DEFINE e == BlockStart(x) + BlockSize
<1>3. /\ BlockStart(e) \in Nat /\ BlockStart(e) <= e /\ e < BlockStart(e) + BlockSize
  BY <1>1, BlockOf
<1>4. BlockStart(x) < BlockStart(e) => e <= BlockStart(e)
  BY <1>1, BlocksApart
<1>5. BlockStart(x) < BlockStart(e)
  BY <1>1, <1>3
<1>6. BlockStart(e) = e
  BY <1>1, <1>3, <1>4, <1>5
<1> QED BY <1>2, <1>6

LEMMA BlockEnds ==
    ASSUME LogTypes
    PROVE  /\ Log!BlockEnd = BlockStart(reader.at) + BlockSize /\ Log!BlockEnd \in Nat
           /\ reader.at < Log!BlockEnd /\ BlockStart(Log!BlockEnd) = Log!BlockEnd
<1>1. reader.at \in Nat
  BY DEF LogTypes
<1>2. BlockSize \in Nat /\ reader.at \div BlockSize \in Nat
  BY <1>1, LogSizes, BlockOf
<1>3. ((reader.at \div BlockSize) + 1) * BlockSize = (reader.at \div BlockSize) * BlockSize + BlockSize
  BY <1>2
<1>4. Log!BlockEnd = BlockStart(reader.at) + BlockSize
  BY <1>3 DEF Log!BlockEnd, BlockStart
<1>5. BlockStart(reader.at) \in Nat /\ reader.at < BlockStart(reader.at) + BlockSize
  BY <1>1, BlockOf
<1>6. BlockStart(BlockStart(reader.at) + BlockSize) = BlockStart(reader.at) + BlockSize
  BY <1>1, BlockBegins
<1> QED BY <1>2, <1>4, <1>5, <1>6

(***************************************************************************)
(* What a file is made of.                                                 *)
(***************************************************************************)
LEMMA ElementOf == ASSUME NEW R, NEW s \in Seq(R) PROVE \A i \in DOMAIN s : s[i] \in R
  OBVIOUS

LEMMA FileTypes ==
    ASSUME LogTypes
    PROVE  /\ Len(file) \in Nat /\ DOMAIN file = 1..Len(file)
           /\ \A u \in DOMAIN file : /\ u \in Nat /\ file[u] = <<file[u][1], file[u][2]>>
                                     /\ file[u][1] \in Physical /\ file[u][2] \in Nat
           /\ Log!Current \in Nat /\ DOMAIN made = 1..Log!Current
           /\ \A r \in DOMAIN made : /\ r \in Nat /\ made[r].start \in Nat /\ made[r].whole \in BOOLEAN
                                     /\ made[r].parts \in Seq(Physical)
<1>1. file \in Seq(Physical \X Nat) /\ made \in Seq([parts : Seq(Physical), start : Nat, whole : BOOLEAN])
  BY DEF LogTypes
<1>2. \A u \in DOMAIN file : file[u] \in Physical \X Nat
  BY <1>1
<1>3. \A r \in DOMAIN made : made[r] \in [parts : Seq(Physical), start : Nat, whole : BOOLEAN]
  BY <1>1, ElementOf
<1>4. DOMAIN file = 1..Len(file) /\ DOMAIN made = 1..Log!Current /\ Len(file) \in Nat /\ Log!Current \in Nat
  BY <1>1 DEF Log!Current
<1> QED BY <1>2, <1>3, <1>4

LEMMA PartTypes ==
    ASSUME LogTypes, NEW r \in DOMAIN made
    PROVE  /\ Len(made[r].parts) \in Nat /\ DOMAIN made[r].parts = 1..Len(made[r].parts)
           /\ \A j \in DOMAIN made[r].parts : j \in Nat /\ made[r].parts[j] \in Physical
           /\ made[r].parts # <<>> <=> Len(made[r].parts) > 0
<1>1. made[r].parts \in Seq(Physical)
  BY FileTypes
<1> QED BY <1>1

LEMMA LengthOf == ASSUME NEW p \in Physical
                  PROVE  Length(p) \in Nat /\ Length(p) >= HeaderSize /\ Length(p) > 0 /\ p.record \in Nat /\ p.part \in Nat
  BY LogSizes DEF Physical, Length

(* A unit and the first one of its part. *)
LEMMA UnitOf ==
    ASSUME FileRight, NEW u \in DOMAIN file
    PROVE  /\ Before(u) \in Nat /\ Before(u) < u /\ u = Before(u) + file[u][2] /\ file[u][2] >= 1
           /\ Before(u) + 1 \in DOMAIN file /\ file[Before(u) + 1] = <<file[u][1], 1>>
           /\ \A j \in 1..file[u][2] : Before(u) + j \in DOMAIN file /\ file[Before(u) + j] = <<file[u][1], j>>
           /\ file[u][1] # Log!Zero =>
                 /\ IsPart(file[u][1]) /\ file[u][1].record \in DOMAIN made
                 /\ file[u][2] <= Length(file[u][1]) /\ u <= Before(u) + Length(file[u][1])
           /\ file[u][1] = Log!Zero => file[u][2] < HeaderSize
<1>1. LogTypes /\ UnitsRight
  BY DEF FileRight
<1>2. u \in 1..Len(file) /\ file[u][2] \in Nat /\ file[u][1] \in Physical /\ Len(file) \in Nat /\ DOMAIN file = 1..Len(file)
  BY <1>1, FileTypes
<1>3. /\ IF file[u][1] = Log!Zero THEN file[u][2] < HeaderSize
         ELSE IsPart(file[u][1]) /\ file[u][2] <= Length(file[u][1])
      /\ file[u][2] \in 1..u
      /\ \A j \in 1..file[u][2] : file[Before(u) + j] = <<file[u][1], j>>
  BY <1>1 DEF UnitsRight
<1>4. Before(u) = u - file[u][2]
  BY DEF Before
<1>5. Length(file[u][1]) \in Nat
  BY <1>2, LengthOf
<1>6. \A j \in 1..file[u][2] : Before(u) + j \in DOMAIN file
  BY <1>2, <1>3, <1>4
<1>7. 1 \in 1..file[u][2]
  BY <1>2, <1>3
<1>8. file[u][1] # Log!Zero => file[u][1].record \in DOMAIN made
  BY <1>3 DEF IsPart
<1> QED BY <1>2, <1>3, <1>4, <1>5, <1>6, <1>7, <1>8

LEMMA Once2 ==
    ASSUME FileRight, NEW u \in DOMAIN file, NEW v \in DOMAIN file, file[u] = file[v], file[u][1] # Log!Zero
    PROVE  u = v
<1>1. u \in Nat /\ v \in Nat
  BY FileTypes DEF FileRight
<1>2. u < v => FALSE
  BY DEF FileRight, OrderRight
<1>3. v < u => FALSE
  BY DEF FileRight, OrderRight
<1> QED BY <1>1, <1>2, <1>3

LEMMA SamePart ==
    ASSUME FileRight, NEW u \in DOMAIN file, NEW v \in DOMAIN file, file[u][1] = file[v][1], file[u][1] # Log!Zero
    PROVE  Before(u) = Before(v)
<1>1. /\ Before(u) + 1 \in DOMAIN file /\ file[Before(u) + 1] = <<file[u][1], 1>>
      /\ Before(v) + 1 \in DOMAIN file /\ file[Before(v) + 1] = <<file[v][1], 1>>
      /\ Before(u) \in Nat /\ Before(v) \in Nat
  BY UnitOf
<1>2. Before(u) + 1 = Before(v) + 1
  BY <1>1, Once2
<1> QED BY <1>1, <1>2

(* Where the last unit of a part is, the whole part is. *)
LEMMA LastOf ==
    ASSUME FileRight, NEW u \in DOMAIN file, file[u] = Log!LastUnit(file[u][1])
    PROVE  /\ file[u][1] # Log!Zero /\ IsPart(file[u][1]) /\ file[u][2] = Length(file[u][1])
           /\ Before(u) = u - Length(file[u][1])
           /\ \A j \in 1..Length(file[u][1]) :
                 Before(u) + j \in DOMAIN file /\ file[Before(u) + j] = <<file[u][1], j>>
<1>1. file[u][1] \in Physical /\ file[u][2] \in Nat
  BY FileTypes DEF FileRight
<1>2. file[u][2] = Length(file[u][1])
  BY DEF Log!LastUnit, Length
<1>3. file[u][2] >= HeaderSize
  BY <1>1, <1>2, LengthOf
<1>4. file[u][1] # Log!Zero
  BY <1>1, <1>3, UnitOf, LogSizes
<1> QED BY <1>2, <1>4, UnitOf DEF Before

(* Two parts that end within a header of each other are one. *)
LEMMA EndsApart ==
    ASSUME FileRight, NEW u \in DOMAIN file, NEW v \in DOMAIN file, u <= v, v < u + HeaderSize,
           file[u] = Log!LastUnit(file[u][1]), file[v] = Log!LastUnit(file[v][1])
    PROVE  u = v
<1>1. SUFFICES ASSUME u < v PROVE FALSE
  BY FileTypes DEF FileRight
<1>2. /\ u \in Nat /\ v \in Nat /\ file[u][1] \in Physical /\ file[v][1] \in Physical
  BY FileTypes DEF FileRight
<1>3. /\ Before(v) = v - Length(file[v][1]) /\ file[u][2] = Length(file[u][1])
      /\ \A j \in 1..Length(file[v][1]) : file[Before(v) + j] = <<file[v][1], j>>
  BY LastOf
<1>4. Length(file[v][1]) \in Nat /\ Length(file[v][1]) >= HeaderSize /\ HeaderSize \in Nat
  BY <1>2, LengthOf, LogSizes
<1>5. u - Before(v) \in 1..Length(file[v][1]) /\ Before(v) + (u - Before(v)) = u /\ u - Before(v) < Length(file[v][1])
  BY <1>1, <1>2, <1>3, <1>4
<1>6. file[u] = <<file[v][1], u - Before(v)>>
  BY <1>3, <1>5
<1> QED BY <1>3, <1>5, <1>6

(* A record is due if no record before it is torn, and then its place and  *)
(* those before it are right.                                              *)
LEMMA DueIsGood == ASSUME LogTypes, NEW r \in DOMAIN made, Due(r) PROVE Good(r)
<1>1. Log!Current \in Nat /\ DOMAIN made = 1..Log!Current
  BY FileTypes
<1>2. SUFFICES ASSUME NEW t \in DOMAIN made, t < r, ~ made[t].whole, \A s \in Log!Torn : r < s PROVE FALSE
  BY DEF Due, Good
<1>3. t < Log!Current
  BY <1>1, <1>2
<1>4. t \in Log!Torn
  BY <1>2, <1>3 DEF Log!Torn
<1>5. r < t
  BY <1>2, <1>4
<1> QED BY <1>1, <1>2, <1>5

LEMMA GoodBefore == ASSUME LogTypes, NEW r \in DOMAIN made, NEW s \in DOMAIN made, s <= r, Good(r) PROVE Good(s)
<1>1. Log!Current \in Nat /\ DOMAIN made = 1..Log!Current
  BY FileTypes
<1>2. \A t \in DOMAIN made : t < s => t < r
  BY <1>1
<1> QED BY <1>2 DEF Good

LEMMA AllGood == ASSUME LogTypes, Log!Torn = {} PROVE \A r \in DOMAIN made : Due(r) /\ Good(r)
  BY DueIsGood DEF Due

(***************************************************************************)
(* The reader.                                                             *)
(***************************************************************************)
Reading == FileRight /\ AtRight /\ ScratchRight /\ GotRight /\ NothingMissed /\ ReportsRight /\ Log!Reads
Recognised == Reading /\ Log!IsHeader /\ Log!Fits /\ Log!ChecksumMatches

LEMMA BufferOf ==
    ASSUME LogTypes, AtRight
    PROVE  /\ Log!BufferEnd \in Nat /\ Log!BufferEnd <= Len(file) /\ Log!BufferEnd <= Log!BlockEnd
           /\ Log!Eof => Log!BufferEnd = Len(file) /\ Len(file) < Log!BlockEnd
           /\ ~ Log!Eof => Log!BufferEnd = Log!BlockEnd
           /\ reader.at \in Nat /\ reader.at <= Log!BufferEnd /\ Log!Buffered = Log!BufferEnd - reader.at
<1>1. Len(file) \in Nat /\ reader.at \in Nat /\ reader.at <= Len(file)
  BY FileTypes DEF LogTypes, AtRight
<1>2. Log!BlockEnd \in Nat /\ reader.at < Log!BlockEnd
  BY BlockEnds
<1> QED BY <1>1, <1>2 DEF Log!BufferEnd, Log!Buffered, Log!Lesser, Log!Eof

LEMMA ScratchOf ==
    ASSUME Reading, reader.scratch # <<>>
    PROVE  \E e \in DOMAIN file : ScratchAt(reader.scratch[1].record, Len(reader.scratch), e)
  BY SMTT(30) DEF Reading, ScratchRight

(* What follows the parts in scratch of a whole record that is due. *)
NextAt(v) ==
    /\ v \in DOMAIN file /\ file[v] = Log!LastUnit(file[v][1])
    /\ Due(file[v][1].record) /\ file[v][1].type \notin Begins
    /\ reader.at <= Before(v) /\ Before(v) < reader.at + HeaderSize
    /\ \A w \in DOMAIN file : reader.at < w /\ w <= Before(v) => file[w][1] = Log!Zero

LEMMA ScratchGoesOn ==
    ASSUME Reading, reader.scratch # <<>>, Due(reader.scratch[1].record),
           reader.scratch[1].record \in DOMAIN made, made[reader.scratch[1].record].whole
    PROVE  \E v \in DOMAIN file : NextAt(v)
<1> DEFINE r == reader.scratch[1].record
           k == Len(reader.scratch)
           p == made[r].parts[k + 1]
<1>0. FileRight /\ LogTypes /\ PartsRight /\ FollowsRight /\ GotRight /\ NothingMissed /\ reader.at \in Nat
  BY DEF Reading, FileRight, LogTypes
<1>1. PICK e \in DOMAIN file : ScratchAt(r, k, e)
  BY ScratchOf
<1>2. /\ r \in DOMAIN made /\ k \in DOMAIN made[r].parts /\ made[r].parts[k].type \notin Ends
      /\ file[e] = Log!LastUnit(made[r].parts[k]) /\ e <= reader.at /\ reader.at < e + HeaderSize
  BY <1>1 DEF ScratchAt
<1>3. Len(made[r].parts) \in Nat /\ DOMAIN made[r].parts = 1..Len(made[r].parts)
  BY <1>0, <1>2, PartTypes
<1>4. made[r].parts # <<>> /\ made[r].parts[Len(made[r].parts)].type \in Ends
      /\ \A j \in DOMAIN made[r].parts : InFile(made[r].parts[j])
  BY <1>0, <1>2 DEF PartsRight
<1>5. k \in Nat /\ k >= 1 /\ k + 1 \in DOMAIN made[r].parts
  BY <1>2, <1>3, <1>4, SMTT(30)
<1>6. PICK v \in DOMAIN file : file[v] = Log!LastUnit(p)
  BY <1>4, <1>5 DEF InFile
<1>7. p.record = r /\ p.part = k + 1 /\ p.type \notin Begins
  BY <1>0, <1>2, <1>5 DEF PartsRight
<1>8. file[v][1] = p /\ file[v] = Log!LastUnit(file[v][1]) /\ p # Log!Zero
  <2>1. file[v][1] = p
    BY <1>6 DEF Log!LastUnit
  <2> QED BY <2>1, <1>0, <1>6, LastOf
<1>9. ~ Log!IsRead(r)
  <2>1. SUFFICES ASSUME NEW i \in DOMAIN reader.got, reader.got[i][1].record = r PROVE FALSE
    BY DEF Log!IsRead
  <2>2. r < r
    BY <2>1, <1>0 DEF GotRight
  <2> QED BY <2>2, <1>0, <1>2, FileTypes, SMTT(30)
<1>10. ~ InHand(p)
  BY <1>5, <1>7, SMTT(30) DEF InHand
<1>11. reader.at <= Before(v)
  BY <1>0, <1>7, <1>8, <1>9, <1>10 DEF NothingMissed
<1>12. /\ Before(v) + 1 \in DOMAIN file /\ file[Before(v) + 1] = <<p, 1>> /\ Before(v) \in Nat
  BY <1>0, <1>8, UnitOf
<1> DEFINE b == Before(v) + 1
<1>13. PICK d \in DOMAIN file : Follows(b, d)
  <2>1. file[b][1] # Log!Zero /\ file[b][2] = 1 /\ file[b][1].part > 1
    BY <1>5, <1>7, <1>8, <1>12
  <2> QED BY <2>1, <1>0, <1>12, SMTT(30) DEF FollowsRight
<1>14. /\ b <= d + HeaderSize /\ file[d] = Log!LastUnit(made[r].parts[k])
       /\ \A w \in DOMAIN file : d < w /\ w < b => file[w][1] = Log!Zero
  <2>0. file[b][1] = p
    BY <1>12
  <2>1. file[b][1].record = r /\ file[b][1].part - 1 = k
    <3> HIDE DEF b, p, k, r
    <3> QED BY <1>5, <1>7, <2>0
  <2> HIDE DEF b, r, k
  <2> QED BY <1>13, <2>1 DEF Follows
<1>15. file[e][1] # Log!Zero
  <2>1. file[e][1] = made[r].parts[k]
    BY <1>2 DEF Log!LastUnit
  <2> QED BY <2>1, <1>0, <1>2, LastOf
<1>16. d = e
  BY <1>0, <1>2, <1>14, <1>15, Once2
<1>17. e \in Nat /\ HeaderSize \in Nat /\ \A w \in DOMAIN file : w \in Nat
  BY <1>0, FileTypes, LogSizes, SMTT(30)
<1>18. Before(v) < reader.at + HeaderSize
  BY <1>0, <1>2, <1>12, <1>14, <1>16, <1>17
<1>19. \A w \in DOMAIN file : reader.at < w /\ w <= Before(v) => file[w][1] = Log!Zero
  BY <1>0, <1>2, <1>12, <1>14, <1>16, <1>17
<1> QED BY <1>7, <1>8, <1>11, <1>18, <1>19 DEF NextAt

(* A due record whose parts are in scratch is whole, or the last one. *)
LEMMA DueInScratch ==
    ASSUME Reading, reader.scratch # <<>>, Due(reader.scratch[1].record)
    PROVE  reader.scratch[1].record \in DOMAIN made /\
           (made[reader.scratch[1].record].whole \/ reader.scratch[1].record = Log!Current)
<1>1. reader.scratch[1].record \in DOMAIN made
  BY ScratchOf DEF ScratchAt
<1>2. Log!Current \in Nat /\ DOMAIN made = 1..Log!Current
  BY FileTypes DEF Reading, FileRight
<1> QED BY <1>1, <1>2 DEF Due, Log!Torn

(* The physical record that is found is a part, all of it. *)
LEMMA FoundIsPart ==
    ASSUME Recognised
    PROVE  /\ reader.at \in Nat /\ reader.at + 1 \in DOMAIN file /\ file[reader.at + 1] = <<Log!Found, 1>>
           /\ Log!Found # Log!Zero /\ Log!Found \in Physical /\ IsPart(Log!Found) /\ Log!Found.record \in DOMAIN made
           /\ \A j \in 1..Length(Log!Found) : reader.at + j \in DOMAIN file /\ file[reader.at + j] = <<Log!Found, j>>
           /\ reader.at + Length(Log!Found) <= Len(file)
<1>0. FileRight /\ LogTypes /\ AtRight
  BY DEF Recognised, Reading, FileRight
<1>1. Log!Buffered >= HeaderSize /\ Log!Fits /\ Log!ChecksumMatches
      /\ \A i \in 1..HeaderSize : file[reader.at + i] = <<Log!Found, i>>
  BY DEF Recognised, Log!IsHeader, Log!Found
<1>2. Log!BufferEnd \in Nat /\ Log!BufferEnd <= Len(file) /\ reader.at \in Nat /\ Log!Buffered = Log!BufferEnd - reader.at
  BY <1>0, BufferOf
<1>3. HeaderSize \in Nat /\ HeaderSize > 0 /\ Len(file) \in Nat /\ DOMAIN file = 1..Len(file)
  BY <1>0, FileTypes, LogSizes
<1>4. reader.at + 1 \in DOMAIN file /\ reader.at + HeaderSize \in DOMAIN file
  BY <1>1, <1>2, <1>3
<1>5. file[reader.at + 1] = <<Log!Found, 1>> /\ file[reader.at + HeaderSize] = <<Log!Found, HeaderSize>>
  <2>1. 1 \in 1..HeaderSize /\ HeaderSize \in 1..HeaderSize
    BY <1>3
  <2>2. \A i \in 1..HeaderSize : file[reader.at + i] = <<Log!Found, i>>
    BY <1>1
  <2> QED BY <2>1, <2>2
<1>6. Log!Found # Log!Zero
  <2>1. file[reader.at + HeaderSize][1] = Log!Found /\ file[reader.at + HeaderSize][2] = HeaderSize
    BY <1>5
  <2>2. file[reader.at + HeaderSize][1] = Log!Zero => file[reader.at + HeaderSize][2] < HeaderSize
    BY <1>0, <1>4, UnitOf
  <2> QED BY <1>3, <2>1, <2>2
<1>7. Log!Found \in Physical
  BY <1>0, <1>4, FileTypes DEF Log!Found
<1>8. Length(Log!Found) \in Nat /\ Length(Log!Found) <= Log!Buffered
  BY <1>1, <1>7, LengthOf DEF Log!Fits, Length
<1>9. \A j \in 1..Length(Log!Found) : reader.at + j \in DOMAIN file
  BY <1>2, <1>3, <1>8
<1>10. \A j \in 1..Length(Log!Found) : file[reader.at + j] = <<Log!Found, j>>
  BY <1>1 DEF Log!ChecksumMatches, Length
<1>11. IsPart(Log!Found)
  BY <1>0, <1>4, <1>5, <1>6, UnitOf
<1>12. Log!Found.record \in DOMAIN made
  BY <1>11 DEF IsPart
<1>13. reader.at + Length(Log!Found) <= Len(file)
  BY <1>2, <1>3, <1>8
<1> QED BY <1>2, <1>4, <1>5, <1>6, <1>7, <1>9, <1>10, <1>11, <1>12, <1>13

LEMMA PartOf ==
    ASSUME PartsRight, NEW p, IsPart(p)
    PROVE  /\ p.record \in DOMAIN made /\ p.part \in DOMAIN made[p.record].parts
           /\ p = made[p.record].parts[p.part]
           /\ p.type \in Begins \cup Ends \cup {"middle"}
           /\ p.type \in Begins <=> p.part = 1
           /\ p.type \in Ends => p.part = Len(made[p.record].parts)
<1>1. p.record \in DOMAIN made /\ p.part \in DOMAIN made[p.record].parts /\ p = made[p.record].parts[p.part]
  BY DEF IsPart
<1>2. /\ made[p.record].parts[p.part].type \in Begins \cup Ends \cup {"middle"}
      /\ made[p.record].parts[p.part].type \in Begins <=> p.part = 1
      /\ made[p.record].parts[p.part].type \in Ends => p.part = Len(made[p.record].parts)
  BY <1>1 DEF PartsRight
<1> QED BY <1>1, <1>2

(* A part that is not the first one has its predecessor just before it. *)
LEMMA Predecessor ==
    ASSUME Recognised, Log!Found.type \notin Begins
    PROVE  \E e \in DOMAIN file :
              /\ e <= reader.at /\ reader.at < e + HeaderSize
              /\ Log!Found.part \in Nat /\ Log!Found.part > 1 /\ Log!Found.part - 1 \in DOMAIN made[Log!Found.record].parts
              /\ file[e] = Log!LastUnit(made[Log!Found.record].parts[Log!Found.part - 1])
<1>0. FileRight /\ LogTypes /\ PartsRight /\ FollowsRight
  BY DEF Recognised, Reading, FileRight
<1>1. /\ reader.at \in Nat /\ reader.at + 1 \in DOMAIN file /\ file[reader.at + 1] = <<Log!Found, 1>>
      /\ Log!Found # Log!Zero /\ IsPart(Log!Found)
  BY FoundIsPart
<1>2. Log!Found.record \in DOMAIN made /\ Log!Found.part \in DOMAIN made[Log!Found.record].parts /\ Log!Found.part # 1
  BY <1>0, <1>1, PartOf
<1>3. DOMAIN made[Log!Found.record].parts = 1..Len(made[Log!Found.record].parts) /\ Len(made[Log!Found.record].parts) \in Nat
  BY <1>0, <1>2, PartTypes
<1>4. Log!Found.part \in Nat /\ Log!Found.part > 1 /\ Log!Found.part - 1 \in DOMAIN made[Log!Found.record].parts
  BY <1>2, <1>3
<1>5. PICK e \in DOMAIN file : Follows(reader.at + 1, e)
  <2>1. file[reader.at + 1][1] # Log!Zero /\ file[reader.at + 1][2] = 1 /\ file[reader.at + 1][1].part > 1
    BY <1>1, <1>4
  <2> QED BY <1>0, <1>1, <2>1 DEF FollowsRight
<1>6. e < reader.at + 1 /\ reader.at + 1 <= e + HeaderSize
      /\ file[e] = Log!LastUnit(made[Log!Found.record].parts[Log!Found.part - 1])
  BY <1>1, <1>5 DEF Follows
<1>7. e \in Nat /\ HeaderSize \in Nat
  BY <1>0, FileTypes, LogSizes
<1> QED BY <1>1, <1>4, <1>6, <1>7

(* The parts in scratch are those before the part that is found. *)
LEMMA FoundContinues ==
    ASSUME Recognised, Log!Found.type \notin Begins, reader.scratch # <<>>
    PROVE  /\ Log!Found.part - 1 \in DOMAIN made[Log!Found.record].parts /\ Log!Found.part \in Nat
           /\ reader.scratch[1].record = Log!Found.record /\ Len(reader.scratch) = Log!Found.part - 1
<1> DEFINE r == reader.scratch[1].record
           k == Len(reader.scratch)
<1>0. FileRight /\ LogTypes /\ PartsRight /\ Reading
  BY DEF Recognised, Reading, FileRight
<1>1. PICK e \in DOMAIN file : ScratchAt(r, k, e)
  BY <1>0, ScratchOf
<1>2. PICK d \in DOMAIN file :
              /\ d <= reader.at /\ reader.at < d + HeaderSize
              /\ Log!Found.part \in Nat /\ Log!Found.part > 1 /\ Log!Found.part - 1 \in DOMAIN made[Log!Found.record].parts
              /\ file[d] = Log!LastUnit(made[Log!Found.record].parts[Log!Found.part - 1])
  BY Predecessor
<1>3. /\ r \in DOMAIN made /\ k \in DOMAIN made[r].parts
      /\ file[e] = Log!LastUnit(made[r].parts[k]) /\ e <= reader.at /\ reader.at < e + HeaderSize
  BY <1>1 DEF ScratchAt
<1>4. file[e][1] = made[r].parts[k] /\ file[d][1] = made[Log!Found.record].parts[Log!Found.part - 1]
  BY <1>2, <1>3 DEF Log!LastUnit
<1>5. e \in Nat /\ d \in Nat /\ HeaderSize \in Nat /\ reader.at \in Nat
  BY <1>0, FileTypes, LogSizes DEF LogTypes
<1>6. file[e] = Log!LastUnit(file[e][1]) /\ file[d] = Log!LastUnit(file[d][1])
  BY <1>2, <1>3, <1>4
<1>7. e <= d /\ d < e + HeaderSize => e = d
  BY <1>0, <1>6, EndsApart
<1>8. d <= e /\ e < d + HeaderSize => e = d
  BY <1>0, <1>6, EndsApart
<1>9. e = d
  BY <1>2, <1>3, <1>5, <1>7, <1>8
<1>10. made[r].parts[k] = made[Log!Found.record].parts[Log!Found.part - 1]
  BY <1>4, <1>9
<1>11. made[r].parts[k].record = r /\ made[r].parts[k].part = k
  BY <1>0, <1>3 DEF PartsRight
<1>12. Log!Found.record \in DOMAIN made
  BY FoundIsPart
<1>13. /\ made[Log!Found.record].parts[Log!Found.part - 1].record = Log!Found.record
       /\ made[Log!Found.record].parts[Log!Found.part - 1].part = Log!Found.part - 1
  BY <1>0, <1>2, <1>12 DEF PartsRight
<1> QED BY <1>2, <1>10, <1>11, <1>13

(* Nothing but its next part is found while a due record is in scratch,    *)
(* and none of its later parts while it is not.                            *)
LEMMA NotPartial ==
    ASSUME Recognised, reader.scratch # <<>>, Due(reader.scratch[1].record)
    PROVE  Log!Found.type \notin Begins
<1> SUFFICES ASSUME Log!Found.type \in Begins PROVE FALSE
  OBVIOUS
<1> DEFINE r == reader.scratch[1].record
           k == Len(reader.scratch)
<1>0. FileRight /\ LogTypes /\ PartsRight /\ OrderRight /\ Reading
  BY DEF Recognised, Reading, FileRight
<1>1. /\ reader.at \in Nat /\ reader.at + 1 \in DOMAIN file /\ file[reader.at + 1] = <<Log!Found, 1>>
      /\ Log!Found # Log!Zero /\ IsPart(Log!Found)
  BY FoundIsPart
<1>2. CASE r \in DOMAIN made /\ made[r].whole
  <2>1. PICK v \in DOMAIN file : NextAt(v)
    BY <1>0, <1>2, ScratchGoesOn
  <2>2. /\ file[v][1].type \notin Begins /\ reader.at <= Before(v)
        /\ \A w \in DOMAIN file : reader.at < w /\ w <= Before(v) => file[w][1] = Log!Zero
    BY <2>1 DEF NextAt
  <2>3. Before(v) \in Nat /\ file[Before(v) + 1] = <<file[v][1], 1>>
    BY <1>0, UnitOf
  <2>4. ~ (reader.at + 1 <= Before(v))
    BY <1>1, <2>2
  <2>5. reader.at = Before(v)
    BY <1>1, <2>2, <2>3, <2>4
  <2>6. Log!Found = file[v][1]
    BY <1>1, <2>3, <2>5
  <2> QED BY <2>2, <2>6
<1>3. CASE r = Log!Current
  <2>1. PICK e \in DOMAIN file : ScratchAt(r, k, e)
    BY <1>0, ScratchOf
  <2>2. /\ r \in DOMAIN made /\ k \in DOMAIN made[r].parts
        /\ file[e] = Log!LastUnit(made[r].parts[k]) /\ e <= reader.at
    BY <2>1 DEF ScratchAt
  <2>3. file[e][1] = made[r].parts[k]
    BY <2>2 DEF Log!LastUnit
  <2>4. made[r].parts[k].record = r /\ made[r].parts[k].part = k
    BY <1>0, <2>2 DEF PartsRight
  <2>5. file[e][1] # Log!Zero /\ Before(e) = e - Length(file[e][1]) /\ Length(file[e][1]) \in Nat /\ Length(file[e][1]) > 0
    <3>1. file[e] = Log!LastUnit(file[e][1])
      BY <2>2, <2>3
    <3>2. file[e][1] \in Physical
      BY <1>0, FileTypes
    <3> QED BY <1>0, <3>1, <3>2, LastOf, LengthOf
  <2>6. e \in Nat /\ e < reader.at + 1 /\ Log!Current \in Nat /\ DOMAIN made = 1..Log!Current
    BY <1>0, <1>1, <2>2, FileTypes
  <2>7. /\ r <= Log!Found.record
        /\ r = Log!Found.record => k <= Log!Found.part
    <3>1. /\ file[e][1].record <= file[reader.at + 1][1].record
          /\ file[e][1].record = file[reader.at + 1][1].record =>
                file[e][1].part <= file[reader.at + 1][1].part
      BY <1>0, <1>1, <2>5, <2>6 DEF OrderRight
    <3>2. file[reader.at + 1][1] = Log!Found
      BY <1>1
    <3> QED BY <2>3, <2>4, <3>1, <3>2
  <2>8. Log!Found.record \in DOMAIN made /\ Log!Found.part = 1 /\ Log!Found = made[Log!Found.record].parts[Log!Found.part]
    BY <1>0, <1>1, PartOf
  <2>9. r = Log!Found.record
    BY <1>3, <2>6, <2>7, <2>8
  <2>10. k = 1
    <3>1. k \in 1..Len(made[r].parts) /\ Len(made[r].parts) \in Nat
      BY <1>0, <2>2, PartTypes
    <3>2. k <= 1
      BY <2>7, <2>8, <2>9
    <3> HIDE DEF k, r
    <3> QED BY <3>1, <3>2
  <2>11. file[e][1] = Log!Found
    BY <2>3, <2>8, <2>9, <2>10
  <2>12. file[reader.at + 1][1] = Log!Found /\ file[reader.at + 1][2] = 1
    BY <1>1
  <2>13. Before(e) = Before(reader.at + 1)
    BY <1>0, <1>1, <2>5, <2>11, <2>12, SamePart
  <2>14. Before(reader.at + 1) = reader.at
    BY <1>1, <2>12 DEF Before
  <2>15. e - Length(file[e][1]) = reader.at /\ Length(file[e][1]) \in Nat /\ Length(file[e][1]) > 0
    BY <2>5, <2>13, <2>14
  <2>16. e \in Nat /\ e <= reader.at /\ reader.at \in Nat
    BY <1>1, <2>2, <2>6
  <2> QED BY <2>15, <2>16
<1>4. r \in DOMAIN made /\ (made[r].whole \/ r = Log!Current)
  BY <1>0, DueInScratch
<1> QED BY <1>2, <1>3, <1>4

LEMMA HasStart ==
    ASSUME Recognised, Log!Found.type \notin Begins, Due(Log!Found.record)
    PROVE  reader.scratch # <<>>
<1>0. FileRight /\ LogTypes /\ PartsRight /\ GotRight /\ NothingMissed
  BY DEF Recognised, Reading, FileRight
<1>1. PICK d \in DOMAIN file :
              /\ d <= reader.at /\ reader.at < d + HeaderSize
              /\ Log!Found.part \in Nat /\ Log!Found.part > 1 /\ Log!Found.part - 1 \in DOMAIN made[Log!Found.record].parts
              /\ file[d] = Log!LastUnit(made[Log!Found.record].parts[Log!Found.part - 1])
  BY Predecessor
<1>2. file[d][1] = made[Log!Found.record].parts[Log!Found.part - 1]
  BY <1>1 DEF Log!LastUnit
<1>3. Log!Found.record \in DOMAIN made /\ reader.at \in Nat /\ reader.at + 1 \in DOMAIN file
      /\ file[reader.at + 1] = <<Log!Found, 1>> /\ Log!Found # Log!Zero
  BY FoundIsPart
<1>4. file[d][1].record = Log!Found.record /\ file[d] = Log!LastUnit(file[d][1])
  BY <1>0, <1>1, <1>2, <1>3 DEF PartsRight
<1>5. file[d][1] # Log!Zero /\ Before(d) \in Nat /\ Before(d) < d /\ d \in Nat
  BY <1>0, <1>4, LastOf, UnitOf, FileTypes
<1>6. ~ (reader.at <= Before(d))
  BY <1>1, <1>3, <1>5
<1>7. ~ Log!IsRead(Log!Found.record)
  <2>1. SUFFICES ASSUME NEW i \in DOMAIN reader.got, reader.got[i][1].record = Log!Found.record PROVE FALSE
    BY DEF Log!IsRead
  <2>2. file[reader.at + 1][1] = Log!Found /\ reader.at + 1 > reader.at
    BY <1>3
  <2>3. Log!Found.record < Log!Found.record
    BY <1>0, <1>3, <2>1, <2>2 DEF GotRight
  <2> QED BY <2>3, <1>0, <1>3, FileTypes, SMTT(30)
<1>8. InHand(file[d][1])
  BY <1>0, <1>4, <1>5, <1>6, <1>7 DEF NothingMissed
<1> QED BY <1>8 DEF InHand

Readers == [pc : {"none", "reads", "done"}, at : Nat, scratch : Seq(Physical),
            got : Seq(Seq(Physical)), reports : BOOLEAN]

LEMMA ReaderType == ASSUME LogTypes PROVE reader \in Readers
  BY DEF LogTypes, Readers

LEMMA FileStays ==
    ASSUME UNCHANGED <<file, made, faults>>
    PROVE  /\ Log!Torn' = Log!Torn
           /\ \A r : (Due(r)' <=> Due(r)) /\ (Good(r)' <=> Good(r))
<1>1. Log!Torn' = Log!Torn
  BY DEF Log!Torn, Log!Current
<1>2. \A r : Log!AfterTear(r)' <=> Log!AfterTear(r)
  BY <1>1 DEF Log!AfterTear
<1>3. \A r : Due(r)' <=> Due(r)
  BY <1>1, <1>2 DEF Due
<1>4. \A r : Good(r)' <=> Good(r)
  BY DEF Good
<1> QED BY <1>1, <1>3, <1>4

LEMMA ReaderMoves ==
    ASSUME LogInv, UNCHANGED <<file, offset, writer, made, faults>>, Log!Reads,
           reader' \in Readers, reader'.pc # "none",
           AtRight', ScratchRight', GotRight', NothingMissed', ReportsRight'
    PROVE  LogInv'
<1>1. ~ writer.on
  BY DEF LogInv, WriterAtEnd, Log!Reads
<1>2. LogTypes'
  BY DEF LogInv, FileRight, LogTypes, Readers
<1>3. PartsRight' /\ UnitsRight' /\ StartsRight' /\ OrderRight'
  <2>1. \A p : (InFile(p)' <=> InFile(p)) /\ (IsPart(p)' <=> IsPart(p))
    BY DEF InFile, IsPart
  <2> QED BY <2>1 DEF LogInv, FileRight, PartsRight, UnitsRight, StartsRight, OrderRight, Before
<1>4. CutsRight' /\ FollowsRight'
  <2>1. \A u, n : HasPart(u, n)' <=> HasPart(u, n)
    BY DEF HasPart
  <2>2. \A r, c : CutAt(r, c)' <=> CutAt(r, c)
    BY DEF CutAt, Log!Current
  <2>3. \A u, e : Follows(u, e)' <=> Follows(u, e)
    BY DEF Follows
  <2>4. CutsRight'
    BY <2>1, <2>2 DEF LogInv, FileRight, CutsRight
  <2>5. FollowsRight'
    BY <2>3 DEF LogInv, FileRight, FollowsRight
  <2> QED BY <2>4, <2>5
<1>5. BlocksRight'
  BY FileStays DEF LogInv, FileRight, BlocksRight
<1>6. WriterAtEnd' /\ OffsetRight'
  BY <1>1 DEF WriterAtEnd, OffsetRight
<1> QED BY <1>2, <1>3, <1>4, <1>5, <1>6 DEF LogInv, FileRight, ReaderRight

-----------------------------------------------------------------------------
(* ReadRecord. *)
LEMMA FirstOnly == ASSUME NEW S, NEW s \in Seq(S), Len(s) >= 1 PROVE SubSeq(s, 1, 1) = <<s[1]>>
<1>1. SubSeq(s, 1, 1) \in Seq(S) /\ Len(SubSeq(s, 1, 1)) = 1 /\ SubSeq(s, 1, 1)[1] = s[1]
  OBVIOUS
<1>2. \A t \in Seq(S) : Len(t) = 1 => t = <<t[1]>>
  OBVIOUS
<1> QED BY <1>1, <1>2

LEMMA OneMore ==
    ASSUME NEW S, NEW s \in Seq(S), NEW k \in Nat, k >= 1, k + 1 <= Len(s)
    PROVE  /\ Append(SubSeq(s, 1, k), s[k + 1]) = SubSeq(s, 1, k + 1)
           /\ SubSeq(s, 1, k) \in Seq(S) /\ Len(SubSeq(s, 1, k)) = k /\ SubSeq(s, 1, k)[1] = s[1]
  OBVIOUS

LEMMA ScratchJoins ==
    ASSUME Recognised, Log!Scratch # <<>>
    PROVE  /\ Log!Found.record \in DOMAIN made /\ Log!Found.part \in DOMAIN made[Log!Found.record].parts
           /\ Log!Scratch = SubSeq(made[Log!Found.record].parts, 1, Log!Found.part)
           /\ Log!Scratch \in Seq(Physical) /\ Len(Log!Scratch) = Log!Found.part /\ Log!Scratch[1].record = Log!Found.record
<1> DEFINE r == Log!Found.record
           P == made[r].parts
<1>0. FileRight /\ LogTypes /\ PartsRight /\ Reading
  BY DEF Recognised, Reading, FileRight
<1>1. Log!Found \in Physical /\ IsPart(Log!Found)
  BY FoundIsPart
<1>2. /\ r \in DOMAIN made /\ Log!Found.part \in DOMAIN P /\ Log!Found = P[Log!Found.part]
      /\ Log!Found.type \in Begins <=> Log!Found.part = 1
  BY <1>0, <1>1, PartOf
<1>3. P \in Seq(Physical) /\ DOMAIN P = 1..Len(P) /\ Len(P) \in Nat
  BY <1>0, <1>2, FileTypes, PartTypes
<1>4. Log!Found.part \in Nat /\ Log!Found.part >= 1 /\ Log!Found.part <= Len(P)
  BY <1>2, <1>3
<1>5. P[1].record = r
  BY <1>0, <1>2, <1>3, <1>4 DEF PartsRight
<1>6. CASE Log!Found.type \in Begins
  <2>1. Log!Scratch = <<Log!Found>>
    BY <1>6 DEF Log!Scratch, Begins
  <2>2. Log!Found.part = 1 /\ SubSeq(P, 1, 1) = <<P[1]>>
    <3> HIDE DEF P, r
    <3> QED BY <1>2, <1>3, <1>4, <1>6, FirstOnly
  <2>3. Log!Scratch = SubSeq(P, 1, Log!Found.part)
    BY <1>2, <2>1, <2>2
  <2>4. Len(Log!Scratch) = 1 /\ Log!Scratch[1] = Log!Found /\ Log!Scratch \in Seq(Physical)
    BY <1>1, <2>1
  <2> QED BY <1>2, <2>2, <2>3, <2>4
<1>7. CASE Log!Found.type \notin Begins
  <2>1. reader.scratch # <<>> /\ Log!Scratch = Append(reader.scratch, Log!Found)
    BY <1>7 DEF Log!Scratch, Begins
  <2>2. reader.scratch[1].record = r /\ Len(reader.scratch) = Log!Found.part - 1
    BY <1>7, <2>1, FoundContinues
  <2>3. PICK e \in DOMAIN file : ScratchAt(r, Log!Found.part - 1, e)
    BY <1>0, <2>1, <2>2, ScratchOf
  <2>4. reader.scratch = SubSeq(P, 1, Log!Found.part - 1) /\ Log!Found.part - 1 \in DOMAIN P
    BY <2>3 DEF ScratchAt
  <2> DEFINE k == Log!Found.part - 1
  <2>5. k \in Nat /\ k >= 1 /\ k + 1 = Log!Found.part /\ k + 1 <= Len(P)
    BY <1>3, <1>4, <2>4
  <2>6. /\ Append(SubSeq(P, 1, k), P[k + 1]) = SubSeq(P, 1, k + 1)
        /\ SubSeq(P, 1, k) \in Seq(Physical) /\ Len(SubSeq(P, 1, k)) = k /\ SubSeq(P, 1, k)[1] = P[1]
    <3> HIDE DEF k, P, r
    <3> QED BY <1>3, <2>5, OneMore
  <2>7. Log!Scratch = SubSeq(P, 1, Log!Found.part)
    BY <1>2, <2>1, <2>4, <2>5, <2>6
  <2>8. reader.scratch \in Seq(Physical) /\ Len(reader.scratch) = k
    BY <2>4, <2>6
  <2>9. /\ Append(reader.scratch, Log!Found) \in Seq(Physical)
        /\ Len(Append(reader.scratch, Log!Found)) = k + 1
        /\ Append(reader.scratch, Log!Found)[1] = reader.scratch[1]
    <3> HIDE DEF k, P, r
    <3> QED BY <1>1, <2>5, <2>8
  <2> QED BY <1>2, <2>1, <2>2, <2>5, <2>7, <2>9
<1> QED BY <1>6, <1>7

(* Where the reader gets to: past the part that is found, at most.         *)
LEMMA PastFound ==
    ASSUME Recognised, NEW u \in DOMAIN file, file[u][1] # Log!Zero, reader.at <= Before(u)
    PROVE  reader.at + Length(Log!Found) <= Before(u) \/ file[u][1] = Log!Found
<1>0. FileRight
  BY DEF Recognised, Reading
<1>1. /\ reader.at \in Nat /\ Log!Found \in Physical
      /\ \A j \in 1..Length(Log!Found) : reader.at + j \in DOMAIN file /\ file[reader.at + j] = <<Log!Found, j>>
  BY FoundIsPart
<1>2. Length(Log!Found) \in Nat
  BY <1>1, LengthOf
<1>3. Before(u) \in Nat /\ file[Before(u) + 1] = <<file[u][1], 1>>
  BY <1>0, UnitOf
<1>4. SUFFICES ASSUME Before(u) < reader.at + Length(Log!Found) PROVE file[u][1] = Log!Found
  BY <1>1, <1>2, <1>3
<1> DEFINE j == Before(u) + 1 - reader.at
<1>5. j \in 1..Length(Log!Found) /\ reader.at + j = Before(u) + 1
  BY <1>1, <1>2, <1>3, <1>4
<1>6. file[reader.at + j] = <<Log!Found, j>>
  BY <1>1, <1>5
<1> QED BY <1>3, <1>5, <1>6

(* Everything behind the last part of a record is of later ones. *)
LEMMA BehindLast ==
    ASSUME Recognised, Log!Found.type \in Ends, NEW u \in DOMAIN file, u > reader.at + Length(Log!Found), file[u][1] # Log!Zero
    PROVE  Log!Found.record < file[u][1].record
<1>0. FileRight /\ LogTypes /\ PartsRight /\ OrderRight
  BY DEF Recognised, Reading, FileRight
<1>1. /\ reader.at \in Nat /\ Log!Found \in Physical /\ Log!Found # Log!Zero /\ IsPart(Log!Found)
      /\ reader.at + 1 \in DOMAIN file /\ file[reader.at + 1] = <<Log!Found, 1>>
      /\ \A j \in 1..Length(Log!Found) : reader.at + j \in DOMAIN file /\ file[reader.at + j] = <<Log!Found, j>>
  BY FoundIsPart
<1>2. Length(Log!Found) \in Nat /\ Length(Log!Found) > 0 /\ Log!Found.record \in Nat /\ Log!Found.part \in Nat
  BY <1>1, LengthOf
<1>3. file[u][1] \in Physical /\ u \in Nat /\ file[u] = <<file[u][1], file[u][2]>> /\ file[u][2] \in Nat
  BY <1>0, FileTypes
<1>4. file[u][1].record \in Nat /\ file[u][1].part \in Nat
  BY <1>3, LengthOf
<1>5. /\ Log!Found.record <= file[u][1].record
      /\ Log!Found.record = file[u][1].record => Log!Found.part <= file[u][1].part
  <2>1. reader.at + 1 < u /\ file[reader.at + 1][1] = Log!Found
    BY <1>1, <1>2, <1>3
  <2> QED BY <1>0, <1>1, <2>1 DEF OrderRight
<1>6. SUFFICES ASSUME Log!Found.record = file[u][1].record PROVE FALSE
  BY <1>2, <1>4, <1>5
<1>7. IsPart(file[u][1]) /\ file[u][2] >= 1 /\ file[u][2] <= Length(file[u][1])
  BY <1>0, UnitOf
<1>8. Log!Found.part = Len(made[Log!Found.record].parts) /\ Log!Found = made[Log!Found.record].parts[Log!Found.part]
  BY <1>0, <1>1, PartOf
<1>9. /\ file[u][1].part \in DOMAIN made[Log!Found.record].parts
      /\ file[u][1] = made[Log!Found.record].parts[file[u][1].part]
      /\ Log!Found.record \in DOMAIN made
  BY <1>6, <1>7 DEF IsPart
<1>10. file[u][1].part <= Log!Found.part
  <2>1. DOMAIN made[Log!Found.record].parts = 1..Len(made[Log!Found.record].parts)
    BY <1>0, <1>9, PartTypes
  <2> QED BY <1>2, <1>4, <1>8, <1>9, <2>1
<1>11. file[u][1] = Log!Found
  BY <1>2, <1>4, <1>5, <1>6, <1>8, <1>9, <1>10
<1>12. file[u][2] \in 1..Length(Log!Found)
  BY <1>2, <1>3, <1>7, <1>11
<1>13. file[reader.at + file[u][2]] = file[u] /\ reader.at + file[u][2] \in DOMAIN file
  BY <1>1, <1>3, <1>11, <1>12
<1>14. reader.at + file[u][2] = u
  BY <1>0, <1>1, <1>11, <1>13, Once2
<1> QED BY <1>1, <1>2, <1>3, <1>12, <1>14

LEMMA ReadFields ==
    ASSUME LogTypes, Log!ReadRecord
    PROVE  /\ reader'.pc = "reads" /\ reader'.at = reader.at + Length(Log!Found)
           /\ reader'.scratch = IF Log!Found.type \in {"first", "middle"} THEN Log!Scratch ELSE <<>>
           /\ reader'.got = IF Log!Found.type \in Ends /\ Log!Scratch # <<>> THEN Append(reader.got, Log!Scratch) ELSE reader.got
           /\ reader'.reports = (reader.reports \/ Log!Partial \/ Log!NoStart)
           /\ reader' = [pc |-> "reads", at |-> reader'.at, scratch |-> reader'.scratch, got |-> reader'.got,
                         reports |-> reader'.reports]
           /\ UNCHANGED <<file, offset, writer, made, faults>>
<1>1. reader \in Readers /\ reader.pc = "reads"
  BY ReaderType DEF Log!ReadRecord, Log!Reads
<1>2. reader.at + HeaderSize + Log!Found.size = reader.at + Length(Log!Found)
  <2>1. reader.at \in Nat /\ Log!Found.size \in Nat
    <3>1. Log!BufferEnd = Log!Lesser(Len(file), Log!BlockEnd)
      BY DEF Log!BufferEnd
    <3>2. Log!Buffered >= HeaderSize /\ Log!Buffered = Log!BufferEnd - reader.at
      BY DEF Log!ReadRecord, Log!IsHeader, Log!Buffered
    <3>3. reader.at \in Nat /\ Len(file) \in Nat /\ Log!BlockEnd \in Nat /\ DOMAIN file = 1..Len(file)
      BY <1>1, FileTypes, BlockEnds DEF Readers
    <3>4. reader.at + 1 \in DOMAIN file
      BY <3>1, <3>2, <3>3, LogSizes DEF Log!Lesser
    <3>5. Log!Found \in Physical
      BY <3>4, FileTypes DEF Log!Found
    <3> QED BY <3>3, <3>5 DEF Physical
  <2> QED BY <2>1, LogSizes DEF Length
<1>3. reader' = [reader EXCEPT
            !.at = @ + HeaderSize + Log!Found.size,
            !.scratch = IF Log!Found.type \in {"first", "middle"} THEN Log!Scratch ELSE <<>>,
            !.got = IF Log!Found.type \in {"full", "last"} /\ Log!Scratch # <<>> THEN Append(@, Log!Scratch) ELSE @,
            !.reports = @ \/ Log!Partial \/ Log!NoStart]
  BY DEF Log!ReadRecord
<1> DEFINE S == IF Log!Found.type \in {"first", "middle"} THEN Log!Scratch ELSE <<>>
           G == IF Log!Found.type \in {"full", "last"} /\ Log!Scratch # <<>> THEN Append(reader.got, Log!Scratch) ELSE reader.got
           B == reader.reports \/ Log!Partial \/ Log!NoStart
           at == reader.at + HeaderSize + Log!Found.size
<1>4. reader' = [reader EXCEPT !.at = at, !.scratch = S, !.got = G, !.reports = B]
  BY <1>3
<1>5. reader' = [pc |-> "reads", at |-> at, scratch |-> S, got |-> G, reports |-> B]
  <2> HIDE DEF at, S, G, B
  <2> QED BY <1>1, <1>4 DEF Readers
<1>6. /\ reader'.pc = "reads" /\ reader'.at = at /\ reader'.scratch = S /\ reader'.got = G /\ reader'.reports = B
  BY <1>5
<1>7. UNCHANGED <<file, offset, writer, made, faults>>
  BY DEF Log!ReadRecord
<1>8. reader' = [pc |-> "reads", at |-> reader'.at, scratch |-> reader'.scratch, got |-> reader'.got,
                         reports |-> reader'.reports]
  BY <1>5, <1>6
<1> HIDE DEF at, S, G, B
<1>9. reader'.at = reader.at + Length(Log!Found)
  BY <1>2, <1>6 DEF at
<1>10. reader'.scratch = IF Log!Found.type \in {"first", "middle"} THEN Log!Scratch ELSE <<>>
  BY <1>6 DEF S
<1>11. reader'.got = IF Log!Found.type \in Ends /\ Log!Scratch # <<>> THEN Append(reader.got, Log!Scratch) ELSE reader.got
  BY <1>6 DEF G, Ends
<1>12. reader'.reports = (reader.reports \/ Log!Partial \/ Log!NoStart)
  BY <1>6 DEF B
<1> QED BY <1>6, <1>7, <1>8, <1>9, <1>10, <1>11, <1>12

LEMMA ReadStep == ASSUME LogInv, Log!ReadRecord PROVE LogInv'
<1>f. SUFFICES ASSUME NEW f, f = Log!Found, NEW at, at = reader.at + Length(f) PROVE LogInv'
  OBVIOUS
<1> DEFINE r == f.record
<1>0. /\ FileRight /\ LogTypes /\ PartsRight /\ OrderRight /\ AtRight /\ ScratchRight /\ GotRight /\ NothingMissed
      /\ ReportsRight /\ Log!Reads /\ Recognised /\ Reading
  BY DEF LogInv, FileRight, ReaderRight, Log!ReadRecord, Log!Reads, Recognised, Reading
<1>1. /\ reader'.pc = "reads" /\ reader'.at = at
      /\ reader'.scratch = IF f.type \in {"first", "middle"} THEN Log!Scratch ELSE <<>>
      /\ reader'.got = IF f.type \in Ends /\ Log!Scratch # <<>> THEN Append(reader.got, Log!Scratch) ELSE reader.got
      /\ reader'.reports = (reader.reports \/ Log!Partial \/ Log!NoStart)
      /\ reader' = [pc |-> "reads", at |-> reader'.at, scratch |-> reader'.scratch, got |-> reader'.got,
                    reports |-> reader'.reports]
      /\ UNCHANGED <<file, offset, writer, made, faults>>
  BY <1>f, <1>0, ReadFields
<1>2. /\ reader.at \in Nat /\ reader.at + 1 \in DOMAIN file /\ file[reader.at + 1] = <<f, 1>>
      /\ f # Log!Zero /\ f \in Physical /\ IsPart(f) /\ r \in DOMAIN made
      /\ \A j \in 1..Length(f) : reader.at + j \in DOMAIN file /\ file[reader.at + j] = <<f, j>>
      /\ reader.at + Length(f) <= Len(file)
  BY <1>f, <1>0, FoundIsPart
<1>3. Length(f) \in Nat /\ Length(f) >= HeaderSize /\ Length(f) > 0 /\ at \in Nat /\ at \in DOMAIN file
      /\ file[at] = Log!LastUnit(f) /\ HeaderSize \in Nat /\ HeaderSize > 0 /\ file[at] = <<f, Length(f)>>
  <2>1. Length(f) \in Nat /\ Length(f) > 0 /\ Length(f) >= HeaderSize
    BY <1>2, LengthOf
  <2>2. Length(f) \in 1..Length(f)
    BY <2>1
  <2>3. at \in DOMAIN file /\ file[at] = <<f, Length(f)>>
    BY <1>f, <1>2, <2>2
  <2>4. Log!LastUnit(f) = <<f, Length(f)>>
    BY DEF Log!LastUnit, Length
  <2> QED BY <1>2, <2>1, <2>3, <2>4, LogSizes
<1>4. /\ f.part \in DOMAIN made[r].parts /\ f = made[r].parts[f.part]
      /\ f.type \in Begins \cup Ends \cup {"middle"}
      /\ f.type \in Begins <=> f.part = 1
      /\ f.type \in Ends => f.part = Len(made[r].parts)
  BY <1>0, <1>2, PartOf
<1>5. Log!Scratch # <<>> =>
         /\ Log!Scratch = SubSeq(made[r].parts, 1, f.part) /\ Log!Scratch \in Seq(Physical)
         /\ Len(Log!Scratch) = f.part /\ Log!Scratch[1].record = r
  BY <1>f, <1>0, ScratchJoins
<1>6. \A q : Due(q)' <=> Due(q)
  BY <1>1, FileStays
<1>7. Log!Torn' = Log!Torn
  BY <1>1, FileStays
<1>8. \A u : Before(u)' = Before(u)
  BY <1>1 DEF Before
<1>9. reader' \in Readers
  <2>1. Log!Scratch \in Seq(Physical)
    <3>1. <<>> \in Seq(Physical)
      OBVIOUS
    <3> QED BY <1>5, <3>1
  <2>2. reader'.scratch \in Seq(Physical)
    BY <1>1, <2>1
  <2>3. reader.got \in Seq(Seq(Physical)) /\ reader.reports \in BOOLEAN
    BY <1>0 DEF LogTypes
  <2>4. Append(reader.got, Log!Scratch) \in Seq(Seq(Physical))
    BY <2>1, <2>3
  <2>5. reader'.got \in Seq(Seq(Physical))
    BY <1>1, <2>3, <2>4
  <2>6. reader'.reports \in BOOLEAN
    BY <1>1
  <2>7. reader'.at \in Nat
    BY <1>1, <1>3
  <2> QED BY <1>1, <2>2, <2>5, <2>6, <2>7 DEF Readers
<1>10. AtRight'
  <2>1. at <= Len(file) /\ file[at][1] = f
    BY <1>2, <1>3
  <2> QED BY <1>1, <1>3, <2>1 DEF AtRight, Log!LastUnit
<1>11. ScratchRight'
  <2>1. SUFFICES ASSUME reader'.scratch # <<>>
                 PROVE  \E e \in DOMAIN file' : ScratchAt(reader.scratch[1].record, Len(reader.scratch), e)'
    BY DEF ScratchRight
  <2>2. reader'.scratch = Log!Scratch /\ f.type \in {"first", "middle"} /\ Log!Scratch # <<>>
    BY <1>1, <2>1
  <2>3. /\ Len(reader'.scratch) = f.part /\ reader'.scratch[1].record = r
        /\ reader'.scratch = SubSeq(made[r].parts, 1, f.part)
    BY <1>5, <2>2
  <2>4. f.type \notin Ends
    BY <2>2 DEF Ends
  <2>5. at <= at /\ at < at + HeaderSize
    BY <1>3
  <2>6. ScratchAt(r, f.part, at)'
    BY <1>1, <1>2, <1>3, <1>4, <2>3, <2>4, <2>5, SMTT(30) DEF ScratchAt, Log!LastUnit
  <2> QED BY <1>1, <1>3, <2>3, <2>6
<1>12. \A i \in DOMAIN reader.got : reader.got[i][1].record \in Nat /\ reader.got[i][1].record < r
  <2> SUFFICES ASSUME NEW i \in DOMAIN reader.got
               PROVE  reader.got[i][1].record \in Nat /\ reader.got[i][1].record < r
    OBVIOUS
  <2>1. reader.at + 1 > reader.at /\ file[reader.at + 1][1] = f
    BY <1>2
  <2>2. reader.got[i][1].record \in DOMAIN made
    BY <1>0, SMTT(30) DEF GotRight
  <2> QED BY <1>0, <1>2, <2>1, <2>2, FileTypes, SMTT(30) DEF GotRight
<1>13. GotRight'
  <2> DEFINE n == Len(reader.got) + 1
  <2>1. Len(reader.got) \in Nat /\ DOMAIN reader.got = 1..Len(reader.got)
    BY <1>0 DEF LogTypes
  <2>2. \/ reader'.got = reader.got
        \/ /\ reader'.got = Append(reader.got, Log!Scratch) /\ f.type \in Ends /\ Log!Scratch # <<>>
           /\ reader'.scratch = <<>>
    <3>1. f.type \in Ends => f.type \notin {"first", "middle"}
      BY DEF Ends
    <3> QED BY <1>1, <3>1
  <2>3. \A i \in DOMAIN reader'.got :
           \/ i \in DOMAIN reader.got /\ reader'.got[i] = reader.got[i]
           \/ /\ i = n /\ reader'.got[i] = Log!Scratch /\ f.type \in Ends /\ Log!Scratch # <<>>
              /\ reader'.scratch = <<>>
    <3>1. reader.got \in Seq(Seq(Physical))
      BY <1>0 DEF LogTypes
    <3>2. \A i \in DOMAIN Append(reader.got, Log!Scratch) :
             \/ i \in DOMAIN reader.got /\ Append(reader.got, Log!Scratch)[i] = reader.got[i]
             \/ i = n /\ Append(reader.got, Log!Scratch)[i] = Log!Scratch
      BY <3>1
    <3> HIDE DEF n
    <3> QED BY <2>2, <3>2
  <2> HIDE DEF n
  <2>4. n \in Nat /\ \A h \in DOMAIN reader.got : h \in Nat /\ h < n
    BY <2>1 DEF n
  <2>5. \A u \in DOMAIN file : u > at /\ file[u][1] # Log!Zero /\ f.type \in Ends => r < file[u][1].record
    BY <1>f, <1>0, BehindLast
  <2>6. reader'.scratch # <<>> => reader'.scratch[1].record = r
    BY <1>1, <1>5, SMTT(30)
  <2> SUFFICES ASSUME NEW i \in DOMAIN reader'.got
               PROVE  LET q == reader'.got[i][1].record
                      IN  /\ q \in DOMAIN made /\ reader'.got[i] = made[q].parts
                          /\ made[q].parts # <<>> /\ made[q].parts[Len(made[q].parts)].type \in Ends
                          /\ \A u \in DOMAIN file : u > at /\ file[u][1] # Log!Zero => q < file[u][1].record
                          /\ \A h \in DOMAIN reader'.got : h < i => reader'.got[h][1].record < q
                          /\ reader'.scratch # <<>> => q < reader'.scratch[1].record
    BY <1>1, Zenon DEF GotRight
  <2>7. CASE i \in DOMAIN reader.got /\ reader'.got[i] = reader.got[i]
    <3> DEFINE q == reader.got[i][1].record
    <3>1. /\ q \in DOMAIN made /\ reader.got[i] = made[q].parts
          /\ made[q].parts # <<>> /\ made[q].parts[Len(made[q].parts)].type \in Ends
          /\ \A u \in DOMAIN file : u > reader.at /\ file[u][1] # Log!Zero => q < file[u][1].record
          /\ \A h \in DOMAIN reader.got : h < i => reader.got[h][1].record < q
      BY <1>0, <2>7 DEF GotRight
    <3>2. q < r
      BY <1>12, <2>7
    <3>3. \A u \in DOMAIN file : u > at => u > reader.at
      BY <1>f, <1>0, <1>2, <1>3, FileTypes, SMTT(30)
    <3>4. \A h \in DOMAIN reader'.got : h < i => h \in DOMAIN reader.got /\ reader'.got[h] = reader.got[h]
      BY <2>3, <2>4, <2>7
    <3> QED BY <2>6, <2>7, <3>1, <3>2, <3>3, <3>4, SMTT(30)
  <2>8. CASE i = n /\ reader'.got[i] = Log!Scratch /\ f.type \in Ends /\ Log!Scratch # <<>> /\ reader'.scratch = <<>>
    <3>1. Log!Scratch = made[r].parts
      <4>1. Log!Scratch = SubSeq(made[r].parts, 1, Len(made[r].parts))
        BY <1>4, <1>5, <2>8
      <4>2. made[r].parts \in Seq(Physical)
        BY <1>0, <1>2, FileTypes
      <4> QED BY <4>1, <4>2
    <3>2. reader'.got[i][1].record = r
      BY <1>5, <2>8
    <3>3. \A h \in DOMAIN reader'.got : h < i => h \in DOMAIN reader.got /\ reader'.got[h] = reader.got[h]
      BY <2>3, <2>4, <2>8
    <3>4. made[r].parts # <<>> /\ made[r].parts[Len(made[r].parts)].type \in Ends
      BY <1>4, <2>8, <3>1
    <3>5. \A h \in DOMAIN reader'.got : h < i => reader'.got[h][1].record < r
      BY <1>12, <3>3
    <3> QED BY <1>2, <2>5, <2>8, <3>1, <3>2, <3>4, <3>5
  <2> QED BY <2>3, <2>7, <2>8, Zenon
<1>14. \A q : Log!IsRead(q) => Log!IsRead(q)'
  <2>1. reader.got \in Seq(Seq(Physical))
    BY <1>0 DEF LogTypes
  <2>2. \A i \in DOMAIN reader.got : i \in DOMAIN Append(reader.got, Log!Scratch) /\ Append(reader.got, Log!Scratch)[i] = reader.got[i]
    BY <2>1
  <2>3. \A i \in DOMAIN reader.got : i \in DOMAIN reader'.got /\ reader'.got[i] = reader.got[i]
    BY <1>1, <2>2
  <2> QED BY <2>3 DEF Log!IsRead
<1>15. Log!Scratch # <<>> => IF f.type \in Ends THEN Log!IsRead(r)' ELSE reader'.scratch = Log!Scratch
  <2>1. SUFFICES ASSUME Log!Scratch # <<>> PROVE IF f.type \in Ends THEN Log!IsRead(r)' ELSE reader'.scratch = Log!Scratch
    OBVIOUS
  <2>2. CASE f.type \in Ends
    <3>1. reader'.got = Append(reader.got, Log!Scratch)
      BY <1>1, <2>1, <2>2
    <3>2. reader.got \in Seq(Seq(Physical))
      BY <1>0 DEF LogTypes
    <3>3. Len(reader.got) + 1 \in DOMAIN Append(reader.got, Log!Scratch)
          /\ Append(reader.got, Log!Scratch)[Len(reader.got) + 1] = Log!Scratch
      BY <3>2
    <3>4. \E i \in DOMAIN reader'.got : reader'.got[i][1].record = r
      BY <1>5, <2>1, <3>1, <3>3
    <3> QED BY <2>2, <3>4 DEF Log!IsRead
  <2>3. CASE f.type \notin Ends
    BY <1>1, <1>4, <2>3 DEF Ends, Begins
  <2> QED BY <2>2, <2>3
<1>16. NothingMissed'
  <2>0. SUFFICES ASSUME NEW u \in DOMAIN file, NEW p, p = file[u][1], p # Log!Zero, file[u] = Log!LastUnit(p), Due(p.record)
                 PROVE  Log!IsRead(p.record)' \/ InHand(p)' \/ (reader'.pc = "reads" /\ at <= Before(u))
    BY <1>1, <1>6, <1>8 DEF NothingMissed, Log!LastUnit, Log!IsRead, InHand
  <2>1. Log!IsRead(p.record) \/ InHand(p) \/ reader.at <= Before(u)
    BY <1>0, <2>0 DEF NothingMissed
  <2>2. CASE Log!IsRead(p.record)
    BY <1>14, <2>2
  <2>3. CASE InHand(p)
    <3>1. reader.scratch # <<>> /\ reader.scratch[1].record = p.record /\ p.part <= Len(reader.scratch)
      BY <2>3 DEF InHand
    <3>2. f.type \notin Begins
      BY <1>f, <1>0, <2>0, <3>1, NotPartial
    <3>3. p.record = r /\ Len(reader.scratch) = f.part - 1 /\ f.part \in Nat
      BY <1>f, <1>0, <3>1, <3>2, FoundContinues
    <3>4. Log!Scratch # <<>>
      <4>1. Log!Scratch = Append(reader.scratch, f) /\ reader.scratch \in Seq(Physical)
        BY <1>f, <1>0, <1>4, <3>1, <3>2 DEF Log!Scratch, Begins, Ends, LogTypes
      <4> QED BY <4>1
    <3>5. p.part <= f.part
      <4>1. p.part \in Nat
        BY <1>0, <2>0, FileTypes, LengthOf
      <4> QED BY <3>1, <3>3, <4>1
    <3>6. CASE f.type \in Ends
      BY <1>15, <3>3, <3>4, <3>6
    <3>7. CASE f.type \notin Ends
      <4>1. reader'.scratch = Log!Scratch
        BY <1>15, <3>4, <3>7
      <4>2. InHand(p)'
        BY <1>5, <3>3, <3>4, <3>5, <4>1 DEF InHand
      <4> QED BY <4>2
    <3> QED BY <3>6, <3>7
  <2>4. CASE reader.at <= Before(u)
    <3>1. reader.at + Length(f) <= Before(u) \/ p = f
      BY <1>f, <1>0, <2>0, <2>4, PastFound
    <3>2. CASE p = f
      <4>1. Log!Scratch # <<>>
        <5>1. CASE f.type \in Begins
          BY <1>f, <5>1 DEF Begins, Log!Scratch
        <5>2. CASE f.type \notin Begins
          <6>1. reader.scratch # <<>>
            BY <1>f, <1>0, <2>0, <3>2, <5>2, HasStart
          <6>2. Log!Scratch = Append(reader.scratch, f) /\ reader.scratch \in Seq(Physical)
            BY <1>f, <1>0, <1>4, <6>1, <5>2 DEF Log!Scratch, Begins, Ends, LogTypes
          <6> QED BY <6>2
        <5> QED BY <5>1, <5>2
      <4>2. CASE f.type \in Ends
        BY <1>15, <3>2, <4>1, <4>2
      <4>3. CASE f.type \notin Ends
        <5>1. reader'.scratch = Log!Scratch
          BY <1>15, <4>1, <4>3
        <5>2. f.part <= f.part
          BY <1>2, LengthOf
        <5>3. InHand(f)'
          BY <1>5, <4>1, <5>1, <5>2 DEF InHand
        <5> QED BY <3>2, <5>3
      <4> QED BY <4>2, <4>3
    <3> QED BY <1>f, <1>1, <3>1, <3>2
  <2> QED BY <2>1, <2>2, <2>3, <2>4
<1>17. ReportsRight'
  <2> SUFFICES ASSUME Log!Torn = {} PROVE ~ Log!Partial /\ ~ Log!NoStart
    BY <1>0, <1>1, <1>7 DEF ReportsRight
  <2>1. \A q \in DOMAIN made : Due(q)
    BY <1>0, AllGood
  <2>2. ~ Log!Partial
    <3>1. SUFFICES ASSUME f.type \in Begins, reader.scratch # <<>> PROVE FALSE
      <4>1. reader.scratch = <<>> => DOMAIN reader.scratch = {}
        OBVIOUS
      <4> QED BY <1>f, <3>1, <4>1 DEF Log!Partial, Begins
    <3>2. reader.scratch[1].record \in DOMAIN made
      BY <1>0, <3>1, ScratchOf DEF ScratchAt
    <3> QED BY <1>f, <1>0, <2>1, <3>1, <3>2, NotPartial
  <2>3. ~ Log!NoStart
    <3>1. SUFFICES ASSUME f.type \in {"middle", "last"}, reader.scratch = <<>> PROVE FALSE
      BY <1>f DEF Log!NoStart
    <3>2. f.type \notin Begins
      BY <3>1 DEF Begins
    <3> QED BY <1>f, <1>0, <1>2, <2>1, <3>1, <3>2, HasStart
  <2> QED BY <2>2, <2>3
<1> QED BY <1>0, <1>1, <1>9, <1>10, <1>11, <1>13, <1>16, <1>17, ReaderMoves

(* SkipTrailer. *)
LEMMA SkipStep == ASSUME LogInv, Log!SkipTrailer PROVE LogInv'
<1>0. /\ FileRight /\ LogTypes /\ BlocksRight /\ AtRight /\ ScratchRight /\ GotRight /\ NothingMissed /\ ReportsRight
      /\ Log!Reads /\ Reading /\ reader \in Readers /\ reader.pc = "reads"
  BY ReaderType DEF LogInv, FileRight, ReaderRight, Log!SkipTrailer, Log!Reads, Reading
<1>1. Log!Buffered < HeaderSize /\ UNCHANGED <<file, offset, writer, made, faults>>
  BY DEF Log!SkipTrailer
<1>2. reader' = IF Log!Eof THEN [reader EXCEPT !.pc = "done"] ELSE [reader EXCEPT !.at = Log!BlockEnd]
  BY DEF Log!SkipTrailer
<1>3. /\ Log!BufferEnd \in Nat /\ Log!BufferEnd <= Len(file) /\ Log!BufferEnd <= Log!BlockEnd
      /\ Log!Eof => Log!BufferEnd = Len(file) /\ Len(file) < Log!BlockEnd
      /\ ~ Log!Eof => Log!BufferEnd = Log!BlockEnd
      /\ reader.at \in Nat /\ reader.at <= Log!BufferEnd /\ Log!Buffered = Log!BufferEnd - reader.at
  BY <1>0, BufferOf
<1>4. /\ Log!BlockEnd = BlockStart(reader.at) + BlockSize /\ Log!BlockEnd \in Nat
      /\ reader.at < Log!BlockEnd /\ BlockStart(Log!BlockEnd) = Log!BlockEnd
  BY <1>0, BlockEnds
<1>5. HeaderSize \in Nat /\ HeaderSize > 0 /\ BlockSize \in Nat /\ BlockSize > HeaderSize /\ Len(file) \in Nat
      /\ \A u \in DOMAIN file : u \in Nat /\ u <= Len(file)
  BY <1>0, FileTypes, LogSizes
<1>6. \A q : Due(q)' <=> Due(q)
  BY <1>1, FileStays
<1>7. Log!Torn' = Log!Torn /\ \A u : Before(u)' = Before(u)
  BY <1>1, FileStays DEF Before
(* No part that is due begins before the end of the block. *)
<1>8. ASSUME NEW u \in DOMAIN file, file[u] = Log!LastUnit(file[u][1]), Due(file[u][1].record), reader.at <= Before(u)
      PROVE  Log!BufferEnd <= Before(u) /\ ~ Log!Eof
  <2>1. /\ file[u][1] # Log!Zero /\ IsPart(file[u][1]) /\ Before(u) = u - Length(file[u][1])
        /\ Before(u) \in Nat /\ Before(u) + 1 \in DOMAIN file /\ file[Before(u) + 1] = <<file[u][1], 1>>
    BY <1>0, <1>8, LastOf, UnitOf
  <2>2. Length(file[u][1]) \in Nat /\ Length(file[u][1]) >= HeaderSize
    BY <1>0, FileTypes, LengthOf
  <2>3. ~ Log!Eof
    BY <1>1, <1>3, <1>5, <1>8, <2>1, <2>2
  <2>4. Good(file[u][1].record)
    BY <1>0, <1>8, <2>1, DueIsGood DEF IsPart
  <2>5. Before(u) + Length(file[u][1]) <= BlockStart(Before(u)) + BlockSize
    <3> DEFINE b == Before(u) + 1
    <3>1. b \in DOMAIN file /\ file[b][1] = file[u][1] /\ file[b][2] = 1 /\ b - 1 = Before(u)
      BY <2>1
    <3> HIDE DEF b
    <3> QED BY <1>0, <2>1, <2>4, <3>1 DEF BlocksRight
  <2>6. SUFFICES ASSUME Before(u) < Log!BlockEnd PROVE FALSE
    BY <1>3, <1>4, <2>1, <2>3
  <2>7. BlockStart(reader.at) <= reader.at
    BY <1>3, BlockOf
  <2>8. BlockStart(Before(u)) = BlockStart(reader.at)
    <3>1. BlockStart(reader.at) \in Nat
      BY <1>3, BlockOf
    <3>2. BlockStart(reader.at) <= Before(u) /\ Before(u) < BlockStart(reader.at) + BlockSize
      BY <1>3, <1>4, <1>8, <2>1, <2>6, <2>7, <3>1
    <3> QED BY <1>3, <2>1, <3>2, SameBlockOf
  <2>9. Log!BlockEnd - reader.at < HeaderSize
    BY <1>1, <1>3, <2>3
  <2>10. Before(u) + Length(file[u][1]) <= Log!BlockEnd
    BY <1>4, <2>5, <2>8
  <2>11. reader.at <= Before(u) /\ HeaderSize <= Length(file[u][1])
    BY <1>8, <2>2
  <2>12. reader.at \in Nat /\ Before(u) \in Nat /\ Length(file[u][1]) \in Nat /\ HeaderSize \in Nat /\ Log!BlockEnd \in Nat
    BY <1>3, <1>4, <1>5, <2>1, <2>2
  <2> QED BY <2>9, <2>10, <2>11, <2>12
<1>9. CASE Log!Eof
  <2>1. reader' = [reader EXCEPT !.pc = "done"]
    BY <1>2, <1>9
  <2>2. /\ reader' \in Readers /\ reader'.pc = "done" /\ reader'.at = reader.at /\ reader'.scratch = reader.scratch
        /\ reader'.got = reader.got /\ reader'.reports = reader.reports
    BY <1>0, <2>1 DEF Readers
  <2>3. AtRight' /\ ReportsRight'
    BY <1>0, <1>1, <1>7, <2>2 DEF AtRight, ReportsRight, Log!LastUnit
  <2>4. ScratchRight'
    BY <1>0, <1>1, <2>2, SMTT(30) DEF ScratchRight, ScratchAt, Log!LastUnit
  <2>5. GotRight'
    BY <1>0, <1>1, <2>2 DEF GotRight
  <2>6. NothingMissed'
    BY <1>0, <1>1, <1>6, <1>7, <1>8, <1>9, <2>2 DEF NothingMissed, Log!IsRead, InHand, Log!LastUnit
  <2> QED BY <1>0, <1>1, <2>2, <2>3, <2>4, <2>5, <2>6, ReaderMoves
<1>10. CASE ~ Log!Eof
  <2>0. PICK at : at = Log!BlockEnd
    OBVIOUS
  <2>1. reader' = [reader EXCEPT !.at = at]
    BY <1>2, <1>10, <2>0
  <2>2. /\ reader' \in Readers /\ reader'.pc = "reads" /\ reader'.at = at /\ reader'.scratch = reader.scratch
        /\ reader'.got = reader.got /\ reader'.reports = reader.reports
    BY <1>0, <1>4, <2>0, <2>1 DEF Readers
  <2>3. at \in Nat /\ at <= Len(file) /\ BlockStart(at) = at /\ reader.at < at
    BY <1>3, <1>4, <1>10, <2>0
  <2>4. AtRight' /\ ReportsRight'
    BY <1>0, <1>1, <1>7, <2>2, <2>3 DEF AtRight, ReportsRight, BlockStart
  <2>5. ScratchRight'
    <3>1. SUFFICES ASSUME reader.scratch # <<>> PROVE \E e \in DOMAIN file :
              ScratchAt(reader.scratch[1].record, Len(reader.scratch), e)'
      BY <1>1, <2>2 DEF ScratchRight
    <3>2. PICK e \in DOMAIN file : ScratchAt(reader.scratch[1].record, Len(reader.scratch), e)
      BY <1>0, <3>1, ScratchOf
    <3>3. file[e] = Log!LastUnit(file[e][1]) /\ e <= reader.at /\ reader.at < e + HeaderSize
      BY <3>2 DEF ScratchAt, Log!LastUnit
    <3>4. reader.at \in DOMAIN file /\ file[reader.at] = Log!LastUnit(file[reader.at][1])
      <4>1. reader.at # Len(file)
        BY <1>5, <2>3
      <4>2. BlockStart(reader.at) # reader.at
        BY <1>1, <1>3, <1>4, <1>5, <1>10
      <4> QED BY <1>0, <4>1, <4>2 DEF AtRight
    <3>5. e = reader.at
      BY <1>0, <3>3, <3>4, EndsApart
    <3>6. e <= at /\ at < e + HeaderSize
      BY <1>1, <1>3, <1>10, <1>5, <2>0, <2>3, <3>5
    <3>7. PICK r, k : r = reader.scratch[1].record /\ k = Len(reader.scratch)
      OBVIOUS
    <3>8. ScratchAt(r, k, e)'
      BY <1>1, <2>2, <3>2, <3>6, <3>7, SMTT(30) DEF ScratchAt, Log!LastUnit
    <3> QED BY <1>1, <2>2, <3>7, <3>8
  <2>6. GotRight'
    <3>1. \A u \in DOMAIN file : u > at => u > reader.at
      BY <1>3, <1>5, <2>3
    <3> QED BY <1>0, <1>1, <2>2, <3>1 DEF GotRight
  <2>7. NothingMissed'
    BY <1>0, <1>1, <1>3, <1>6, <1>7, <1>8, <1>10, <2>0, <2>2 DEF NothingMissed, Log!IsRead, InHand, Log!LastUnit
  <2> QED BY <1>0, <1>1, <2>2, <2>4, <2>5, <2>6, <2>7, ReaderMoves
<1> QED BY <1>9, <1>10

-----------------------------------------------------------------------------
(* DropBlock. *)
Bad == Reading /\ Log!Buffered >= HeaderSize /\ ~ (Log!IsHeader /\ Log!Fits /\ Log!ChecksumMatches)

(* What the reader is at is of a record whose place is right. *)
RightHere == IF file[reader.at + 1][1] = Log!Zero THEN \A s \in DOMAIN made : made[s].start < reader.at + 1 => Good(s)
             ELSE Good(file[reader.at + 1][1].record)

(* Then it begins a part that was cut, of a record that is not whole. *)
BrokenAt(q, n) ==
    /\ reader.at + 1 \in DOMAIN file /\ file[reader.at + 1] = <<q, 1>> /\ q # Log!Zero /\ q.record \in DOMAIN made
    /\ reader.at + Length(q) <= Log!BlockEnd /\ n \in Nat /\ n >= 1 /\ n < Length(q)
    /\ \A j \in 1..n : reader.at + j <= Len(file) /\ file[reader.at + j] = <<q, j>>
    /\ CutAt(q.record, reader.at + n) /\ ~ made[q.record].whole

LEMMA IsBroken == ASSUME Bad, RightHere PROVE \E q \in Physical, n \in Nat : BrokenAt(q, n)
<1>0. FileRight /\ LogTypes /\ BlocksRight /\ CutsRight /\ PartsRight /\ AtRight
  BY DEF Bad, Reading, FileRight
<1>1. /\ Log!BufferEnd \in Nat /\ Log!BufferEnd <= Len(file) /\ Log!BufferEnd <= Log!BlockEnd
      /\ Log!BufferEnd = Log!Lesser(Len(file), Log!BlockEnd)
      /\ reader.at \in Nat /\ Log!Buffered = Log!BufferEnd - reader.at /\ Log!Buffered >= HeaderSize
  BY <1>0, BufferOf DEF Bad, Log!BufferEnd
<1>2. /\ Log!BlockEnd = BlockStart(reader.at) + BlockSize /\ Log!BlockEnd \in Nat
  BY <1>0, BlockEnds
<1>3. HeaderSize \in Nat /\ HeaderSize > 0 /\ BlockSize \in Nat /\ Len(file) \in Nat /\ DOMAIN file = 1..Len(file)
  BY <1>0, FileTypes, LogSizes
<1>4. PICK u : u = reader.at + 1
  OBVIOUS
<1>5. PICK q : q = file[u][1]
  OBVIOUS
<1>6. u \in DOMAIN file /\ u \in Nat /\ u - 1 = reader.at
  BY <1>1, <1>3, <1>4
<1>7. q # Log!Zero
  <2>1. SUFFICES ASSUME q = Log!Zero PROVE FALSE
    OBVIOUS
  <2>2. \A s \in DOMAIN made : made[s].start < u => Good(s)
    BY <1>4, <1>5, <2>1 DEF RightHere
  <2>3. BlockStart(u - 1) + BlockSize < u - 1 + HeaderSize
    BY <1>0, <1>5, <1>6, <2>1, <2>2 DEF BlocksRight
  <2> QED BY <1>1, <1>2, <1>3, <1>6, <2>3
<1>8. Good(q.record)
  BY <1>4, <1>5, <1>7 DEF RightHere
<1>9. q \in Physical /\ Length(q) \in Nat /\ Length(q) >= HeaderSize /\ IsPart(q) /\ q.record \in DOMAIN made
  BY <1>0, <1>5, <1>6, <1>7, FileTypes, LengthOf, UnitOf
<1>10. /\ Before(u) \in Nat /\ Before(u) < u /\ u = Before(u) + file[u][2] /\ file[u][2] >= 1 /\ file[u][2] \in Nat
       /\ Before(u) + 1 \in DOMAIN file /\ file[Before(u) + 1] = <<q, 1>> /\ u <= Before(u) + Length(q)
       /\ \A j \in 1..file[u][2] : Before(u) + j \in DOMAIN file /\ file[Before(u) + j] = <<q, j>>
       /\ file[u][2] <= Length(q)
  BY <1>0, <1>5, <1>6, <1>7, UnitOf, FileTypes
<1>11. Before(u) + Length(q) <= BlockStart(Before(u)) + BlockSize
  <2> DEFINE b == Before(u) + 1
  <2>1. b \in DOMAIN file /\ file[b][1] = q /\ file[b][2] = 1 /\ b - 1 = Before(u)
    BY <1>10
  <2> HIDE DEF b
  <2> QED BY <1>0, <1>7, <1>8, <2>1 DEF BlocksRight
<1>12. file[u][2] = 1
  <2>1. SUFFICES ASSUME file[u][2] > 1 PROVE FALSE
    BY <1>10
  <2>2. CASE BlockStart(reader.at) = reader.at
    <3>1. BlockStart(Before(u)) \in Nat /\ BlockStart(Before(u)) <= Before(u)
      BY <1>10, BlockOf
    <3>2. BlockStart(Before(u)) < BlockStart(reader.at)
      BY <1>6, <1>10, <2>1, <2>2, <3>1
    <3>3. BlockStart(Before(u)) + BlockSize <= BlockStart(reader.at)
      BY <1>1, <1>10, <3>2, BlocksApart
    <3> QED BY <1>1, <1>3, <1>6, <1>9, <1>10, <1>11, <2>2, <3>1, <3>3
  <2>3. CASE reader.at \in DOMAIN file /\ file[reader.at] = Log!LastUnit(file[reader.at][1])
    <3>1. file[u][2] - 1 \in 1..file[u][2] /\ Before(u) + (file[u][2] - 1) = reader.at
      BY <1>6, <1>10, <2>1
    <3>2. file[reader.at] = <<q, file[u][2] - 1>>
      BY <1>10, <3>1
    <3>3. file[reader.at][2] = Length(file[reader.at][1])
      BY <1>0, <2>3, LastOf
    <3> QED BY <1>9, <1>10, <3>2, <3>3
  <2>4. reader.at # Len(file)
    BY <1>3, <1>4, <1>6
  <2> QED BY <1>0, <2>2, <2>3, <2>4 DEF AtRight
<1>13. Before(u) = reader.at /\ file[u] = <<q, 1>> /\ reader.at + Length(q) <= Log!BlockEnd
  <2>1. Before(u) = reader.at
    BY <1>1, <1>4, <1>10, <1>12
  <2>2. file[u] = <<q, 1>>
    BY <1>10, <1>4, <2>1
  <2> QED BY <1>2, <1>11, <2>1, <2>2
<1>14. ~ (\A j \in 1..Length(q) : reader.at + j \in DOMAIN file /\ file[reader.at + j] = <<q, j>>)
  <2>1. SUFFICES ASSUME \A j \in 1..Length(q) : reader.at + j \in DOMAIN file /\ file[reader.at + j] = <<q, j>>
                 PROVE  FALSE
    OBVIOUS
  <2>2. Log!Found = q
    BY <1>4, <1>5 DEF Log!Found
  <2>3. Log!IsHeader
    <3>1. \A i \in 1..HeaderSize : i \in 1..Length(q)
      BY <1>3, <1>9
    <3>2. \A i \in 1..HeaderSize : file[reader.at + i] = <<file[reader.at + 1][1], i>>
      BY <1>4, <1>5, <2>1, <3>1
    <3> QED BY <1>1, <3>2 DEF Log!IsHeader
  <2>4. Log!Fits
    <3>1. Length(q) \in 1..Length(q)
      BY <1>3, <1>9
    <3>2. reader.at + Length(q) <= Len(file)
      BY <1>3, <2>1, <3>1
    <3>3. reader.at + Length(q) <= Log!BufferEnd
      BY <1>1, <1>13, <3>2 DEF Log!Lesser
    <3>4. Length(q) <= Log!Buffered
      BY <1>1, <1>9, <3>3
    <3> QED BY <2>2, <3>4 DEF Log!Fits, Length
  <2>5. Log!ChecksumMatches
    BY <2>1, <2>2 DEF Log!ChecksumMatches, Length
  <2> QED BY <2>3, <2>4, <2>5 DEF Bad
<1>15. PICK n \in 1..Length(q) : HasPart(u, n) /\ (n = Length(q) \/ CutAt(q.record, u - 1 + n))
  BY <1>0, <1>5, <1>6, <1>7, <1>12 DEF CutsRight
<1>16. \A j \in 1..n : reader.at + j <= Len(file) /\ file[reader.at + j] = <<q, j>>
  BY <1>5, <1>6, <1>15 DEF HasPart
<1>17. n # Length(q)
  <2>1. \A j \in 1..n : reader.at + j \in DOMAIN file
    BY <1>1, <1>3, <1>16
  <2> QED BY <1>14, <1>16, <2>1
<1>18. ~ made[q.record].whole
  <2>1. SUFFICES ASSUME made[q.record].whole PROVE FALSE
    OBVIOUS
  <2>2. InFile(q)
    BY <1>0, <1>9, <2>1, PartOf DEF PartsRight
  <2>3. PICK v \in DOMAIN file : file[v] = Log!LastUnit(q)
    BY <2>2 DEF InFile
  <2>4. file[v][1] = q /\ file[v] = Log!LastUnit(file[v][1])
    BY <2>3 DEF Log!LastUnit
  <2>5. \A j \in 1..Length(q) : Before(v) + j \in DOMAIN file /\ file[Before(v) + j] = <<q, j>>
    BY <1>0, <2>4, LastOf
  <2>6. Before(v) = Before(u)
    BY <1>0, <1>5, <1>6, <1>7, <2>4, SamePart
  <2> QED BY <1>13, <1>14, <2>5, <2>6
<1>19. n \in Nat /\ n >= 1 /\ n < Length(q)
  BY <1>9, <1>15, <1>17
<1>20. BrokenAt(q, n)
  <2>1. CutAt(q.record, reader.at + n)
    BY <1>6, <1>15, <1>17
  <2> QED BY <1>4, <1>6, <1>7, <1>9, <1>13, <1>16, <1>18, <1>19, <2>1 DEF BrokenAt
<1> QED BY <1>9, <1>19, <1>20

(* No part that is due begins in what is dropped. *)
LEMMA NothingDue ==
    ASSUME Bad, NEW u \in DOMAIN file, file[u] = Log!LastUnit(file[u][1]), Due(file[u][1].record),
           reader.at <= Before(u), Before(u) < Log!BufferEnd
    PROVE  FALSE
<1>0. FileRight /\ LogTypes /\ StartsRight /\ OrderRight /\ AtRight
  BY DEF Bad, Reading, FileRight
<1>1. /\ Log!BufferEnd \in Nat /\ Log!BufferEnd <= Len(file) /\ Log!BufferEnd <= Log!BlockEnd
      /\ reader.at \in Nat /\ Log!Buffered = Log!BufferEnd - reader.at /\ Log!Buffered >= HeaderSize
  BY <1>0, BufferOf DEF Bad
<1>2. /\ Log!BlockEnd = BlockStart(reader.at) + BlockSize /\ Log!BlockEnd \in Nat
      /\ BlockStart(reader.at) <= reader.at /\ BlockStart(reader.at) \in Nat
  BY <1>0, <1>1, BlockEnds, BlockOf
<1>3. HeaderSize \in Nat /\ HeaderSize > 0 /\ Len(file) \in Nat /\ DOMAIN file = 1..Len(file)
      /\ Log!Current \in Nat /\ DOMAIN made = 1..Log!Current
  BY <1>0, FileTypes, LogSizes
<1>4. PICK p : p = file[u][1]
  OBVIOUS
<1>5. PICK b : b = Before(u)
  OBVIOUS
<1>6. /\ p # Log!Zero /\ IsPart(p) /\ p.record \in DOMAIN made /\ b \in Nat /\ b + 1 \in DOMAIN file
      /\ file[b + 1] = <<p, 1>> /\ reader.at <= b /\ b < Log!BufferEnd
  BY <1>0, <1>4, <1>5, LastOf, UnitOf DEF IsPart
<1>7. Good(p.record) /\ Due(p.record)
  BY <1>0, <1>4, <1>6, DueIsGood
<1>8. /\ made[p.record].start < b + 1 /\ \A s \in DOMAIN made : p.record < s => b + 1 <= made[s].start
  <2>1. file[b + 1][1] = p
    BY <1>6
  <2> QED BY <1>0, <1>6, <2>1 DEF StartsRight
<1>9. \A s \in DOMAIN made : made[s].start \in Nat /\ s \in Nat
  BY <1>0, FileTypes
<1>10. reader.at + 1 \in DOMAIN file
  BY <1>1, <1>3
<1>11. RightHere
  <2>1. CASE file[reader.at + 1][1] = Log!Zero
    <3> SUFFICES ASSUME NEW s \in DOMAIN made, made[s].start < reader.at + 1 PROVE Good(s)
      BY <2>1 DEF RightHere
    <3>1. ~ (p.record < s)
      BY <1>1, <1>6, <1>8, <1>9, SMTT(30)
    <3>2. s <= p.record
      BY <1>6, <1>9, <3>1
    <3> QED BY <1>0, <1>6, <1>7, <3>2, GoodBefore
  <2>2. CASE file[reader.at + 1][1] # Log!Zero
    <3> DEFINE q == file[reader.at + 1][1]
    <3>1. q.record \in DOMAIN made
      BY <1>0, <1>10, <2>2, UnitOf
    <3>2. q.record <= p.record
      <4>1. CASE reader.at = b
        <5>1. q = p
          BY <1>6, <4>1
        <5> QED BY <1>6, <1>9, <5>1
      <4>2. CASE reader.at < b
        <5>1. reader.at + 1 < b + 1 /\ file[b + 1][1] = p
          BY <1>1, <1>6, <4>2
        <5> QED BY <1>0, <1>6, <1>10, <2>2, <5>1 DEF OrderRight
      <4> QED BY <1>1, <1>6, <4>1, <4>2
    <3>3. Good(q.record)
      BY <1>0, <1>6, <1>7, <3>1, <3>2, GoodBefore
    <3> QED BY <2>2, <3>3 DEF RightHere
  <2> QED BY <2>1, <2>2
<1>12. PICK q \in Physical, n \in Nat : BrokenAt(q, n)
  BY <1>11, IsBroken
<1>13. /\ file[reader.at + 1] = <<q, 1>> /\ q # Log!Zero /\ q.record \in DOMAIN made
       /\ reader.at + Length(q) <= Log!BlockEnd /\ n >= 1 /\ n < Length(q)
       /\ CutAt(q.record, reader.at + n) /\ ~ made[q.record].whole
  BY <1>12 DEF BrokenAt
<1>14. \A j \in 1..n : reader.at + j <= Len(file) /\ file[reader.at + j] = <<q, j>>
  BY <1>12 DEF BrokenAt
<1>15. reader.at + n <= b
  <2>1. SUFFICES ASSUME b < reader.at + n PROVE FALSE
    BY <1>1, <1>6
  <2>2. b + 1 - reader.at \in 1..n /\ reader.at + (b + 1 - reader.at) = b + 1
    <3>1. reader.at \in Nat /\ b \in Nat /\ n \in Nat /\ reader.at <= b /\ b < reader.at + n
      BY <1>1, <1>6, <2>1
    <3>2. b + 1 - reader.at \in 1..n
      BY <3>1
    <3>3. reader.at + (b + 1 - reader.at) = b + 1
      BY <3>1
    <3> QED BY <3>2, <3>3
  <2>3. file[b + 1] = <<q, b + 1 - reader.at>>
    BY <1>14, <2>2
  <2>4. q = p /\ b = reader.at
    BY <1>1, <1>6, <2>3
  <2>5. file[u][1] = q /\ Before(u) = reader.at /\ file[u] = Log!LastUnit(file[u][1])
    BY <1>4, <1>5, <2>4
  <2>6. \A j \in 1..Length(q) : reader.at + j \in DOMAIN file /\ file[reader.at + j] = <<q, j>>
    BY <1>0, <2>5, LastOf
  <2>7. Log!Found = q
    BY <1>13 DEF Log!Found
  <2>8. Length(q) \in Nat /\ Length(q) >= HeaderSize
    BY LengthOf
  <2>9. Log!IsHeader
    <3>1. \A i \in 1..HeaderSize : i \in 1..Length(q)
      BY <1>3, <2>8
    <3>2. \A i \in 1..HeaderSize : file[reader.at + i] = <<q, i>>
      BY <2>6, <3>1
    <3>3. file[reader.at + 1][1] = q
      BY <1>13
    <3> QED BY <1>1, <3>2, <3>3 DEF Log!IsHeader
  <2>10. Log!Fits
    <3>1. Length(q) \in 1..Length(q)
      BY <1>3, <2>8
    <3>2. reader.at + Length(q) <= Len(file)
      BY <1>3, <2>6, <3>1
    <3>3. reader.at + Length(q) <= Log!BufferEnd
      BY <1>13, <3>2 DEF Log!BufferEnd, Log!Lesser
    <3>4. Length(q) <= Log!Buffered
      BY <1>1, <2>8, <3>3
    <3> QED BY <2>7, <3>4 DEF Log!Fits, Length
  <2>11. Log!ChecksumMatches
    BY <2>6, <2>7 DEF Log!ChecksumMatches, Length
  <2> QED BY <2>9, <2>10, <2>11 DEF Bad
<1>16. q.record <= p.record
  <2>1. reader.at + 1 < b + 1 /\ file[b + 1][1] = p /\ file[reader.at + 1][1] = q
    BY <1>1, <1>6, <1>13, <1>15
  <2> QED BY <1>0, <1>6, <1>10, <1>13, <2>1 DEF OrderRight
<1>17. q.record # Log!Current /\ made[q.record + 1].start = reader.at + n
  <2>1. reader.at + n # Len(file)
    BY <1>1, <1>6, <1>15
  <2> QED BY <1>13, <2>1 DEF CutAt
<1>18. q.record + 1 \in DOMAIN made
  BY <1>3, <1>13, <1>17
<1>19. q.record < p.record
  <2>1. SUFFICES ASSUME q.record = p.record PROVE FALSE
    BY <1>6, <1>9, <1>13, <1>16
  <2>2. p.record < q.record + 1
    BY <1>9, <1>13, <2>1
  <2>3. b + 1 <= made[q.record + 1].start
    BY <1>8, <1>18, <2>2
  <2> QED BY <1>1, <1>6, <1>15, <1>17, <2>3
<1>20. q.record \in Log!Torn
  BY <1>3, <1>6, <1>13, <1>19 DEF Log!Torn
<1>21. made[q.record + 1].start <= made[p.record].start
  <2>1. q.record + 1 = p.record \/ q.record + 1 < p.record
    BY <1>6, <1>9, <1>13, <1>19
  <2> QED BY <1>0, <1>6, <1>9, <1>18, <2>1 DEF StartsRight
<1>22. Log!SameBlock(made[q.record + 1].start, made[p.record].start)
  <2> DEFINE x == made[q.record + 1].start
             y == made[p.record].start
  <2>1. x \in Nat /\ y \in Nat /\ x = reader.at + n /\ x <= y /\ y < b + 1
    BY <1>6, <1>8, <1>9, <1>17, <1>18, <1>21
  <2> HIDE DEF x, y
  <2>2. BlockStart(reader.at) <= x /\ x < BlockStart(reader.at) + BlockSize
        /\ BlockStart(reader.at) <= y /\ y < BlockStart(reader.at) + BlockSize
    <3>1. n \in Nat /\ b \in Nat /\ b < BlockStart(reader.at) + BlockSize /\ BlockSize \in Nat
      <4>1. b \in Nat /\ b < Log!BufferEnd /\ n \in Nat /\ BlockSize \in Nat
        BY <1>6, <1>12, LogSizes
      <4>2. Log!BufferEnd <= BlockStart(reader.at) + BlockSize /\ Log!BufferEnd \in Nat
        BY <1>1, <1>2
      <4> QED BY <1>2, <4>1, <4>2
    <3>2. reader.at <= x
      BY <1>1, <2>1, <3>1
    <3>3. y < BlockStart(reader.at) + BlockSize
      BY <1>2, <2>1, <3>1
    <3> QED BY <1>1, <1>2, <2>1, <3>1, <3>2, <3>3, SMTT(30)
  <2>3. BlockStart(x) = BlockStart(reader.at) /\ BlockStart(y) = BlockStart(reader.at)
    BY <1>1, <2>1, <2>2, SameBlockOf
  <2>4. Log!SameBlock(x, y)
    BY <2>1, <2>3, SameBlockOf
  <2> QED BY <2>4 DEF x, y
<1>23. Log!AfterTear(p.record)
  BY <1>19, <1>20, <1>22 DEF Log!AfterTear
<1>24. ~ (p.record < q.record)
  BY <1>6, <1>9, <1>13, <1>19
<1> QED BY <1>7, <1>20, <1>23, <1>24 DEF Due

(* What is left of the last record at the end of the file is no error. *)
LEMMA TailIsShort ==
    ASSUME Bad, RightHere, file[reader.at + 1][1] # Log!Zero => file[reader.at + 1][1].record = Log!Current
    PROVE  Log!IsHeader /\ ~ Log!Fits /\ Log!Eof
<1>0. FileRight /\ LogTypes /\ AtRight
  BY DEF Bad, Reading, FileRight
<1>1. /\ Log!BufferEnd \in Nat /\ Log!BufferEnd <= Len(file) /\ Log!BufferEnd <= Log!BlockEnd
      /\ Log!Eof => Log!BufferEnd = Len(file)
      /\ reader.at \in Nat /\ Log!Buffered = Log!BufferEnd - reader.at /\ Log!Buffered >= HeaderSize
  BY <1>0, BufferOf DEF Bad
<1>2. Log!BlockEnd \in Nat /\ HeaderSize \in Nat /\ HeaderSize > 0 /\ Len(file) \in Nat
  BY <1>0, FileTypes, LogSizes, BlockEnds
<1>3. PICK q \in Physical, n \in Nat : BrokenAt(q, n)
  BY IsBroken
<1>4. /\ file[reader.at + 1] = <<q, 1>> /\ q # Log!Zero
      /\ reader.at + Length(q) <= Log!BlockEnd /\ n >= 1 /\ n < Length(q)
      /\ CutAt(q.record, reader.at + n)
  BY <1>3 DEF BrokenAt
<1>5. Log!Found = q /\ q.record = Log!Current /\ file[reader.at + 1][1] = q
  BY <1>4 DEF Log!Found
<1>6. reader.at + n = Len(file)
  BY <1>4, <1>5 DEF CutAt
<1>7. Length(q) \in Nat /\ Length(q) >= HeaderSize
  BY LengthOf
<1>8. Log!Eof
  BY <1>1, <1>2, <1>4, <1>6, <1>7, SMTT(30) DEF Log!Eof
<1>9. Log!Buffered = n
  BY <1>1, <1>6, <1>8
<1>10. ~ Log!Fits
  <2>1. ~ (Length(q) <= Log!Buffered)
    BY <1>4, <1>7, <1>9
  <2> QED BY <1>5, <2>1 DEF Log!Fits, Length
<1>11. Log!IsHeader
  <2>1. \A j \in 1..n : file[reader.at + j] = <<q, j>>
    BY <1>3 DEF BrokenAt
  <2>2. \A j \in 1..HeaderSize : j \in 1..n
    BY <1>1, <1>2, <1>9
  <2> QED BY <1>1, <1>5, <2>1, <2>2 DEF Log!IsHeader
<1> QED BY <1>8, <1>10, <1>11

DropDone == reader' = [reader EXCEPT !.pc = "done"]
DropRest(reported) == ~ (Log!IsHeader /\ ~ Log!Fits /\ Log!Eof) /\ reader' = Log!Dropped(reported)

LEMMA DropFields ==
    ASSUME LogTypes, AtRight, Log!DropBlock
    PROVE  /\ UNCHANGED <<file, offset, writer, made, faults>>
           /\ \/ /\ reader' \in Readers /\ reader'.pc = "done" /\ reader'.at = reader.at /\ Log!Eof
                 /\ reader'.scratch = reader.scratch /\ reader'.got = reader.got /\ reader'.reports = reader.reports
              \/ /\ reader' \in Readers /\ reader'.pc = "reads" /\ reader'.at = Log!BufferEnd
                 /\ reader'.scratch = <<>> /\ reader'.got = reader.got /\ ~ (Log!IsHeader /\ ~ Log!Fits /\ Log!Eof)
<1>0. reader \in Readers /\ reader.pc = "reads" /\ Log!BufferEnd \in Nat
  BY ReaderType, BufferOf DEF Log!DropBlock, Log!Reads
<1>1. UNCHANGED <<file, offset, writer, made, faults>>
  BY DEF Log!DropBlock
<1>2. PICK short \in IF Log!IsHeader THEN {~ Log!Fits} ELSE BOOLEAN, zeros \in IF Log!IsHeader THEN {FALSE} ELSE BOOLEAN :
         reader' = IF short /\ Log!Eof THEN [reader EXCEPT !.pc = "done"] ELSE Log!Dropped(short \/ ~ zeros)
  BY DEF Log!DropBlock
<1>3. CASE short /\ Log!Eof
  <2>1. reader' = [reader EXCEPT !.pc = "done"]
    BY <1>2, <1>3
  <2> QED BY <1>0, <1>1, <1>3, <2>1 DEF Readers
<1>4. CASE ~ (short /\ Log!Eof)
  <2>1. reader' = Log!Dropped(short \/ ~ zeros)
    BY <1>2, <1>4
  <2>2. PICK report : report = (reader.reports \/ (short \/ ~ zeros) \/ reader.scratch # <<>>)
    OBVIOUS
  <2>3. reader' = [reader EXCEPT !.at = Log!BufferEnd, !.scratch = <<>>, !.reports = report]
    BY <2>1, <2>2 DEF Log!Dropped
  <2>4. report \in BOOLEAN /\ <<>> \in Seq(Physical)
    BY <2>2
  <2>5. ~ (Log!IsHeader /\ ~ Log!Fits /\ Log!Eof)
    <3>1. CASE Log!IsHeader
      <4>1. short = ~ Log!Fits
        BY <3>1
      <4> QED BY <1>4, <4>1
    <3> QED BY <3>1
  <2>6. reader' = [pc |-> "reads", at |-> Log!BufferEnd, scratch |-> <<>>, got |-> reader.got, reports |-> report]
    BY <1>0, <2>3 DEF Readers
  <2> QED BY <1>0, <1>1, <2>4, <2>5, <2>6 DEF Readers
<1> QED BY <1>3, <1>4

LEMMA DropStep == ASSUME LogInv, Log!DropBlock PROVE LogInv'
<1>0. /\ FileRight /\ LogTypes /\ StartsRight /\ OrderRight /\ AtRight /\ ScratchRight /\ GotRight /\ NothingMissed
      /\ ReportsRight /\ Log!Reads /\ Reading /\ Bad /\ reader.pc = "reads"
  BY DEF LogInv, FileRight, ReaderRight, Log!DropBlock, Log!Reads, Reading, Bad
<1>1. /\ UNCHANGED <<file, offset, writer, made, faults>>
      /\ \/ /\ reader' \in Readers /\ reader'.pc = "done" /\ reader'.at = reader.at /\ Log!Eof
            /\ reader'.scratch = reader.scratch /\ reader'.got = reader.got /\ reader'.reports = reader.reports
         \/ /\ reader' \in Readers /\ reader'.pc = "reads" /\ reader'.at = Log!BufferEnd
            /\ reader'.scratch = <<>> /\ reader'.got = reader.got /\ ~ (Log!IsHeader /\ ~ Log!Fits /\ Log!Eof)
  BY <1>0, DropFields
<1>2. /\ Log!BufferEnd \in Nat /\ Log!BufferEnd <= Len(file) /\ Log!BufferEnd <= Log!BlockEnd
      /\ Log!Eof => Log!BufferEnd = Len(file)
      /\ ~ Log!Eof => Log!BufferEnd = Log!BlockEnd
      /\ reader.at \in Nat /\ reader.at <= Log!BufferEnd /\ Log!Buffered = Log!BufferEnd - reader.at /\ Log!Buffered >= HeaderSize
  BY <1>0, BufferOf DEF Bad
<1>3. /\ Log!Current \in Nat /\ DOMAIN made = 1..Log!Current /\ BlockStart(Log!BlockEnd) = Log!BlockEnd
  BY <1>0, FileTypes, BlockEnds
<1>30. HeaderSize \in Nat /\ HeaderSize > 0 /\ Len(file) \in Nat
       /\ \A u \in DOMAIN file : u \in Nat /\ u <= Len(file)
  BY <1>0, FileTypes, LogSizes
<1>31. reader.at + 1 \in DOMAIN file
  <2>1. reader.at + 1 \in 1..Len(file)
    BY <1>2, <1>30
  <2> QED BY <1>0, <2>1, FileTypes
<1>4. \A q : Due(q)' <=> Due(q)
  BY <1>1, FileStays
<1>5. Log!Torn' = Log!Torn /\ \A u : Before(u)' = Before(u)
  BY <1>1, FileStays DEF Before
<1>6. ASSUME NEW u \in DOMAIN file, file[u] = Log!LastUnit(file[u][1]), Due(file[u][1].record), reader.at <= Before(u)
      PROVE  Log!BufferEnd <= Before(u) /\ ~ Log!Eof
  <2>1. Before(u) \in Nat /\ Before(u) < u
    BY <1>0, UnitOf
  <2>2. Log!BufferEnd <= Before(u)
    BY <1>0, <1>2, <1>6, <2>1, NothingDue
  <2> QED BY <1>2, <1>30, <2>1, <2>2
<1>7. CASE reader'.pc = "done"
  <2>1. /\ reader' \in Readers /\ reader'.pc = "done" /\ reader'.at = reader.at /\ Log!Eof
        /\ reader'.scratch = reader.scratch /\ reader'.got = reader.got /\ reader'.reports = reader.reports
    BY <1>1, <1>7
  <2>3. AtRight' /\ ReportsRight'
    BY <1>0, <1>1, <1>5, <2>1, SMTT(30) DEF AtRight, ReportsRight, Log!LastUnit
  <2>4. ScratchRight'
    BY <1>0, <1>1, <2>1, SMTT(30) DEF ScratchRight, ScratchAt, Log!LastUnit
  <2>5. GotRight'
    BY <1>0, <1>1, <2>1 DEF GotRight
  <2>6. NothingMissed'
    BY <1>0, <1>1, <1>4, <1>5, <1>6, <2>1 DEF NothingMissed, Log!IsRead, InHand, Log!LastUnit
  <2> QED BY <1>0, <1>1, <2>1, <2>3, <2>4, <2>5, <2>6, ReaderMoves
<1>8. CASE reader'.pc # "done"
  <2>0. PICK at : at = Log!BufferEnd
    OBVIOUS
  <2>1. /\ reader' \in Readers /\ reader'.pc = "reads" /\ reader'.at = at
        /\ reader'.scratch = <<>> /\ reader'.got = reader.got /\ ~ (Log!IsHeader /\ ~ Log!Fits /\ Log!Eof)
    BY <1>1, <1>8, <2>0
  <2>2. at \in Nat /\ at <= Len(file) /\ (at = Len(file) \/ BlockStart(at) = at) /\ reader.at <= at
    BY <1>2, <1>3, <2>0
  <2>3. AtRight'
    BY <1>1, <2>1, <2>2 DEF AtRight, BlockStart
  <2>4. ScratchRight'
    BY <2>1, SMTT(30) DEF ScratchRight
  <2>5. GotRight'
    <3>1. \A u \in DOMAIN file : u > at => u > reader.at
      BY <1>2, <1>30, <2>2
    <3> QED BY <1>0, <1>1, <2>1, <3>1 DEF GotRight
  (* A due record is not in scratch: its next part begins in what is       *)
  (* dropped, or what is dropped is the end of the file.                   *)
  <2>6. ASSUME reader.scratch # <<>>, Due(reader.scratch[1].record) PROVE FALSE
    <3> DEFINE r == reader.scratch[1].record
    <3>1. r \in DOMAIN made /\ (made[r].whole \/ r = Log!Current)
      BY <1>0, <2>6, DueInScratch
    <3>2. CASE made[r].whole
      <4>1. PICK v \in DOMAIN file : NextAt(v)
        BY <1>0, <2>6, <3>1, <3>2, ScratchGoesOn
      <4>2. /\ file[v] = Log!LastUnit(file[v][1]) /\ Due(file[v][1].record)
            /\ reader.at <= Before(v) /\ Before(v) < reader.at + HeaderSize
        BY <4>1 DEF NextAt
      <4>3. Before(v) \in Nat
        BY <1>0, UnitOf
      <4>4. Before(v) < Log!BufferEnd
        BY <1>2, <1>30, <4>2, <4>3
      <4> QED BY <1>0, <4>2, <4>4, NothingDue
    <3>3. CASE r = Log!Current
      <4>1. Good(Log!Current) /\ Log!Current \in DOMAIN made
        BY <1>0, <2>6, <3>1, <3>3, DueIsGood
      <4>2. \A s \in DOMAIN made : Good(s)
        <5>1. \A s \in DOMAIN made : s <= Log!Current
          BY <1>3
        <5> QED BY <1>0, <4>1, <5>1, GoodBefore
      <4>3. reader.at + 1 \in DOMAIN file
        BY <1>31
      <4>4. file[reader.at + 1][1] # Log!Zero => file[reader.at + 1][1].record \in DOMAIN made
        BY <1>0, <4>3, UnitOf
      <4>5. RightHere
        BY <4>2, <4>4 DEF RightHere
      <4>6. ASSUME file[reader.at + 1][1] # Log!Zero PROVE file[reader.at + 1][1].record = Log!Current
        <5>1. PICK e \in DOMAIN file : ScratchAt(r, Len(reader.scratch), e)
          BY <1>0, <2>6, ScratchOf
        <5>2. /\ r \in DOMAIN made /\ Len(reader.scratch) \in DOMAIN made[r].parts
              /\ file[e] = Log!LastUnit(made[r].parts[Len(reader.scratch)]) /\ e <= reader.at
          BY <5>1 DEF ScratchAt
        <5>3. file[e][1] = made[r].parts[Len(reader.scratch)]
          BY <5>2 DEF Log!LastUnit
        <5>4. file[e][1].record = r /\ file[e] = Log!LastUnit(file[e][1])
          BY <1>0, <5>2, <5>3, SMTT(30) DEF FileRight, PartsRight
        <5>5. file[e][1] # Log!Zero /\ e < reader.at + 1
          BY <1>0, <1>2, <1>30, <5>2, <5>4, LastOf
        <5>6. r <= file[reader.at + 1][1].record
          BY <1>0, <4>3, <4>6, <5>4, <5>5 DEF OrderRight
        <5>7. file[reader.at + 1][1].record \in 1..Log!Current
          BY <1>3, <4>4, <4>6
        <5> HIDE DEF r
        <5> QED BY <1>3, <3>3, <5>6, <5>7
      <4> QED BY <1>0, <2>1, <4>5, <4>6, TailIsShort
    <3> QED BY <3>1, <3>2, <3>3
  <2>7. NothingMissed'
    <3>0. SUFFICES ASSUME NEW u \in DOMAIN file, NEW p, p = file[u][1], p # Log!Zero, file[u] = Log!LastUnit(p), Due(p.record)
                   PROVE  Log!IsRead(p.record)' \/ (reader'.pc = "reads" /\ at <= Before(u))
      BY <1>1, <1>4, <1>5, <2>1 DEF NothingMissed, Log!LastUnit, Log!IsRead, InHand
    <3>1. Log!IsRead(p.record) \/ InHand(p) \/ reader.at <= Before(u)
      BY <1>0, <3>0 DEF NothingMissed
    <3>2. ~ InHand(p)
      BY <2>6, <3>0 DEF InHand
    <3>3. CASE Log!IsRead(p.record)
      BY <2>1, <3>3 DEF Log!IsRead
    <3>4. CASE reader.at <= Before(u)
      BY <1>6, <2>0, <2>1, <3>0, <3>4
    <3> QED BY <3>1, <3>2, <3>3, <3>4
  <2>8. ReportsRight'
    <3> SUFFICES ASSUME Log!Torn = {} PROVE FALSE
      BY <1>5 DEF ReportsRight
    <3>1. \A q \in DOMAIN made : Good(q)
      BY <1>0, AllGood
    <3>2. reader.at + 1 \in DOMAIN file
      BY <1>31
    <3>3. file[reader.at + 1][1] # Log!Zero => file[reader.at + 1][1].record \in DOMAIN made
      BY <1>0, <3>2, UnitOf
    <3>4. RightHere
      BY <3>1, <3>3 DEF RightHere
    <3>5. PICK q \in Physical, n \in Nat : BrokenAt(q, n)
      BY <1>0, <3>4, IsBroken
    <3>6. file[reader.at + 1] = <<q, 1>> /\ ~ made[q.record].whole /\ q.record \in DOMAIN made
      BY <3>5 DEF BrokenAt
    <3>7. q.record = Log!Current
      BY <1>3, <3>6 DEF Log!Torn
    <3>8. file[reader.at + 1][1].record = Log!Current
      BY <3>6, <3>7
    <3> QED BY <1>0, <2>1, <3>4, <3>8, TailIsShort
  <2> QED BY <1>0, <1>1, <2>1, <2>3, <2>4, <2>5, <2>7, <2>8, ReaderMoves
<1> QED BY <1>7, <1>8

-----------------------------------------------------------------------------
(* What the invariant says of a reader that is done. *)
LEMMA LogShown == LogInv => Log!LogReadsRight
<1> SUFFICES ASSUME LogInv, reader.pc = "done" PROVE Log!LogReadsRight
  BY DEF Log!LogReadsRight
<1>0. /\ FileRight /\ LogTypes /\ PartsRight /\ ScratchRight /\ GotRight /\ NothingMissed /\ ReportsRight
  BY DEF LogInv, FileRight, ReaderRight
<1>1. ASSUME NEW i \in DOMAIN reader.got
      PROVE  LET parts == reader.got[i]
             IN  /\ parts = made[parts[1].record].parts
                 /\ parts[Len(parts)].type \in {"full", "last"}
                 /\ i > 1 => reader.got[i - 1][1].record < parts[1].record
  <2> DEFINE r == reader.got[i][1].record
  <2>1. /\ reader.got[i] = made[r].parts /\ made[r].parts[Len(made[r].parts)].type \in Ends
        /\ \A h \in DOMAIN reader.got : h < i => reader.got[h][1].record < r
    BY <1>0 DEF GotRight
  <2>2. DOMAIN reader.got = 1..Len(reader.got) /\ Len(reader.got) \in Nat
    BY <1>0 DEF LogTypes
  <2>3. i > 1 => i - 1 \in DOMAIN reader.got /\ i - 1 < i
    BY <2>2
  <2> QED BY <2>1, <2>3, SMTT(30) DEF Ends
<1>2. Log!Torn = {} => ~ reader.reports
  BY <1>0 DEF ReportsRight
<1>3. ASSUME NEW r \in DOMAIN made, ~ Log!IsRead(r), made[r].whole,
             ~ (faults.writes > 0 /\ \E t \in Log!Torn : t < r), ~ (faults.writes = 0 /\ Log!AfterTear(r))
      PROVE  FALSE
  <2>1. faults.writes \in Nat
    BY <1>0 DEF LogTypes
  <2>2. Log!Torn \subseteq Nat /\ r \in Nat /\ r \notin Log!Torn /\ \A t \in Log!Torn : ~ (t < r) => r < t
    <3>1. \A t \in DOMAIN made : t \in Nat
      BY <1>0, FileTypes
    <3> QED BY <1>3, <3>1 DEF Log!Torn
  <2>3. Due(r)
    BY <1>3, <2>1, <2>2 DEF Due
  <2> DEFINE k == Len(made[r].parts)
             p == made[r].parts[k]
  <2>4. k \in Nat /\ k > 0 /\ k \in DOMAIN made[r].parts /\ p.type \in Ends
    <3>1. made[r].parts # <<>> /\ p.type \in Ends
      BY <1>0, <1>3 DEF PartsRight
    <3> QED BY <1>0, <3>1, PartTypes
  <2>5. InFile(p) /\ p.record = r /\ p.part = k
    BY <1>0, <1>3, <2>4 DEF PartsRight
  <2>6. PICK u \in DOMAIN file : file[u] = Log!LastUnit(p)
    BY <2>5 DEF InFile
  <2>7. file[u][1] = p /\ file[u] = Log!LastUnit(file[u][1]) /\ file[u][1] # Log!Zero
    <3>1. file[u][1] = p
      BY <2>6 DEF Log!LastUnit
    <3> QED BY <1>0, <2>6, <3>1, LastOf
  <2>8. InHand(p)
    BY <1>0, <1>3, <2>3, <2>5, <2>7 DEF NothingMissed
  <2>9. reader.scratch # <<>> /\ reader.scratch[1].record = r /\ k <= Len(reader.scratch)
    BY <2>5, <2>8 DEF InHand
  <2>10. PICK e \in DOMAIN file : ScratchAt(r, Len(reader.scratch), e)
    BY <1>0, <2>9 DEF ScratchRight
  <2>11. Len(reader.scratch) \in DOMAIN made[r].parts /\ made[r].parts[Len(reader.scratch)].type \notin Ends
    BY <2>10 DEF ScratchAt
  <2>12. Len(reader.scratch) = k
    BY <1>0, <2>4, <2>9, <2>11, PartTypes
  <2> QED BY <2>4, <2>11, <2>12
<1> QED BY <1>1, <1>2, <1>3 DEF Log!LogReadsRight

(***************************************************************************)
(* The writer.                                                             *)
(***************************************************************************)
LEMMA LogInit == Log!Init => LogInv
<1> SUFFICES ASSUME Log!Init PROVE LogInv
  OBVIOUS
<1>0. HeaderSize \in Nat /\ BlockSize \in Nat /\ BlockSize > 0
  BY LogSizes
<1>1. /\ file = <<>> /\ offset = 0 /\ writer = Log!NoWriter /\ made = <<>> /\ reader = Log!NoReader
      /\ faults = [writes |-> 0, crashes |-> 0]
  BY DEF Log!Init
<1>2. DOMAIN file = {} /\ DOMAIN made = {} /\ Len(file) = 0 /\ ~ writer.on
  BY <1>1 DEF Log!NoWriter
<1>3. LogTypes
  BY <1>0, <1>1 DEF LogTypes, Log!NoWriter, Log!NoReader
<1>4. PartsRight /\ UnitsRight /\ StartsRight /\ CutsRight /\ FollowsRight /\ OrderRight /\ BlocksRight
  BY <1>2 DEF PartsRight, UnitsRight, StartsRight, CutsRight, FollowsRight, OrderRight, BlocksRight
<1>5. BlockStart(0) = 0
  <2>1. BlockStart(0) \in Nat /\ BlockStart(0) <= 0
    BY BlockOf
  <2> QED BY <2>1
<1>6. OffsetRight
  <2>1. BlockStart(Len(file)) = Len(file) - offset
    BY <1>1, <1>2, <1>5
  <2> QED BY <2>1 DEF OffsetRight, OffsetAt
<1>7. WriterAtEnd
  BY <1>2 DEF WriterAtEnd
<1>8. ReaderRight
  BY <1>1 DEF ReaderRight, Log!NoReader
<1> QED BY <1>3, <1>4, <1>6, <1>7, <1>8 DEF LogInv, FileRight

(* AddRecord. *)
LEMMA AddStep == ASSUME LogInv, NEW size \in RecordSize, Log!AddRecord(size) PROVE LogInv'
<1>0. /\ FileRight /\ LogTypes /\ PartsRight /\ UnitsRight /\ StartsRight /\ CutsRight /\ FollowsRight /\ OrderRight
      /\ BlocksRight /\ OffsetRight
  BY DEF LogInv, FileRight
<1>1. /\ UNCHANGED <<file, offset, reader, faults>> /\ ~ writer.on /\ reader.pc = "none"
      /\ writer' = [on |-> TRUE, left |-> size]
      /\ made' = Append(made, [parts |-> <<>>, start |-> Len(file), whole |-> FALSE])
  BY DEF Log!AddRecord, Log!Writes
<1>2. Log!Current \in Nat /\ DOMAIN made = 1..Log!Current /\ Len(file) \in Nat
      /\ made \in Seq([parts : Seq(Physical), start : Nat, whole : BOOLEAN])
  BY <1>0, FileTypes DEF LogTypes
<1>3. [parts |-> <<>>, start |-> Len(file), whole |-> FALSE] \in [parts : Seq(Physical), start : Nat, whole : BOOLEAN]
  BY <1>2
<1> DEFINE R == [parts : Seq(Physical), start : Nat, whole : BOOLEAN]
           new == [parts |-> <<>>, start |-> Len(file), whole |-> FALSE]
<1>4. /\ made' \in Seq(R) /\ Len(made') = Log!Current + 1
      /\ made'[Log!Current + 1] = new /\ \A r \in 1..Log!Current : made'[r] = made[r]
  <2> HIDE DEF R, new
  <2>1. made \in Seq(R) /\ new \in R /\ made' = Append(made, new) /\ Log!Current = Len(made)
    BY <1>1, <1>2, <1>3 DEF R, new, Log!Current
  <2> QED BY <2>1
<1>5. /\ Log!Current' = Log!Current + 1 /\ DOMAIN made' = 1..(Log!Current + 1)
      /\ \A r \in DOMAIN made : made'[r] = made[r] /\ r \in DOMAIN made' /\ r # Log!Current + 1
      /\ \A r \in DOMAIN made' : r \in DOMAIN made \/ r = Log!Current + 1
      /\ made'[Log!Current + 1].parts = <<>> /\ made'[Log!Current + 1].start = Len(file) /\ ~ made'[Log!Current + 1].whole
      /\ Log!Current + 1 \in DOMAIN made'
  <2>1. Log!Current' = Log!Current + 1 /\ DOMAIN made' = 1..(Log!Current + 1)
    BY <1>4 DEF Log!Current
  <2> QED BY <1>2, <1>4, <2>1, SMTT(30)
<1>6. \A r \in DOMAIN made : r \in Nat /\ r <= Log!Current /\ r < Log!Current + 1 /\ made[r].start \in Nat
  BY <1>0, <1>2, FileTypes
<1>7. \A u \in DOMAIN file : u \in Nat /\ u <= Len(file) /\ (file[u][1] # Log!Zero => file[u][1].record \in DOMAIN made)
  BY <1>0, <1>2, UnitOf, FileTypes
<1>8. LogTypes'
  <2>1. writer' \in [on : BOOLEAN, left : Nat]
    BY <1>1, LogSizes
  <2> QED BY <1>0, <1>1, <1>4, <2>1 DEF LogTypes
<1>9. PartsRight'
  <2> SUFFICES ASSUME NEW r \in DOMAIN made'
               PROVE  /\ \A j \in DOMAIN made'[r].parts :
                            LET p == made'[r].parts[j]
                            IN  /\ p.record = r /\ p.part = j /\ p.type \in Begins \cup Ends \cup {"middle"}
                                /\ p.type \in Begins <=> j = 1
                                /\ p.type \in Ends => j = Len(made'[r].parts)
                      /\ made'[r].whole =>
                            /\ made'[r].parts # <<>> /\ made'[r].parts[Len(made'[r].parts)].type \in Ends
                            /\ \A j \in DOMAIN made'[r].parts : InFile(made'[r].parts[j])
    BY <1>1 DEF PartsRight, InFile, Log!LastUnit
  <2>1. CASE r \in DOMAIN made
    BY <1>0, <1>5, <2>1 DEF PartsRight
  <2>2. CASE r = Log!Current + 1
    BY <1>5, <2>2
  <2> QED BY <1>5, <2>1, <2>2
<1>10. UnitsRight'
  <2>1. \A p : IsPart(p) => IsPart(p)'
    BY <1>5 DEF IsPart
  <2> QED BY <1>0, <1>1, <2>1 DEF UnitsRight, Before, Length
<1>11. StartsRight'
  <2>1. \A r \in DOMAIN made' : made'[r].start <= Len(file)
    BY <1>0, <1>2, <1>5 DEF StartsRight
  <2>2. \A r, s \in DOMAIN made' : r < s => made'[r].start <= made'[s].start
    <3> SUFFICES ASSUME NEW r \in DOMAIN made', NEW s \in DOMAIN made', r < s
                 PROVE  made'[r].start <= made'[s].start
      OBVIOUS
    <3>1. r \in DOMAIN made
      BY <1>2, <1>5, <1>6
    <3>2. CASE s \in DOMAIN made
      BY <1>0, <1>5, <3>1, <3>2 DEF StartsRight
    <3>3. CASE s = Log!Current + 1
      BY <1>0, <1>5, <3>1, <3>3 DEF StartsRight
    <3> QED BY <1>5, <3>2, <3>3
  <2>3. ASSUME NEW u \in DOMAIN file, file[u][1] # Log!Zero
        PROVE  /\ made'[file[u][1].record].start < u
               /\ \A s \in DOMAIN made' : file[u][1].record < s => u <= made'[s].start
    <3>1. file[u][1].record \in DOMAIN made /\ u <= Len(file)
      BY <1>7, <2>3
    <3>2. /\ made[file[u][1].record].start < u
          /\ \A s \in DOMAIN made : file[u][1].record < s => u <= made[s].start
      BY <1>0, <2>3 DEF StartsRight
    <3> QED BY <1>5, <3>1, <3>2
  <2> QED BY <1>1, <2>1, <2>2, <2>3 DEF StartsRight
<1>12. CutsRight'
  <2>1. ASSUME NEW r \in DOMAIN made, NEW c, CutAt(r, c) PROVE CutAt(r, c)'
    <3>1. r # Log!Current'
      BY <1>5, <2>1
    <3>2. CASE r = Log!Current
      BY <1>5, <2>1, <3>1, <3>2 DEF CutAt
    <3>3. CASE r # Log!Current
      <4>1. r + 1 \in DOMAIN made
        BY <1>2, <1>6, <2>1, <3>3
      <4> QED BY <1>5, <2>1, <3>1, <3>3, <4>1 DEF CutAt
    <3> QED BY <3>2, <3>3
  <2>2. \A u, n : HasPart(u, n)' <=> HasPart(u, n)
    BY <1>1 DEF HasPart
  <2> SUFFICES ASSUME NEW u \in DOMAIN file, file[u][1] # Log!Zero, file[u][2] = 1
               PROVE  \E n \in 1..Length(file[u][1]) :
                         HasPart(u, n)' /\ (n = Length(file[u][1]) \/ CutAt(file[u][1].record, u - 1 + n)')
    BY <1>1 DEF CutsRight
  <2>3. PICK n \in 1..Length(file[u][1]) :
            HasPart(u, n) /\ (n = Length(file[u][1]) \/ CutAt(file[u][1].record, u - 1 + n))
    BY <1>0 DEF CutsRight
  <2>4. PICK r, c : r = file[u][1].record /\ c = u - 1 + n
    OBVIOUS
  <2>5. CutAt(r, c) => CutAt(r, c)'
    BY <1>7, <2>1, <2>4
  <2>6. CutAt(r, c)' => CutAt(file[u][1].record, u - 1 + n)'
    BY <1>1, <2>4 DEF CutAt
  <2> QED BY <2>2, <2>3, <2>4, <2>5, <2>6
<1>13. FollowsRight'
  <2> SUFFICES ASSUME NEW u \in DOMAIN file, file[u][1] # Log!Zero, file[u][2] = 1, file[u][1].part > 1
               PROVE  \E e \in DOMAIN file : Follows(u, e)'
    BY <1>1 DEF FollowsRight
  <2>1. PICK e \in DOMAIN file : Follows(u, e)
    BY <1>0 DEF FollowsRight
  <2>2. made'[file[u][1].record] = made[file[u][1].record]
    BY <1>5, <1>7, SMTT(30)
  <2>3. Follows(u, e)'
    BY <1>1, <2>1, <2>2 DEF Follows, Log!LastUnit
  <2> QED BY <2>3
<1>14. OrderRight'
  BY <1>0, <1>1 DEF OrderRight
<1>15. \A r \in DOMAIN made : Good(r)' => Good(r)
  BY <1>1, <1>5 DEF Good
<1>16. BlocksRight'
  <2> SUFFICES ASSUME NEW u \in DOMAIN file
               PROVE  /\ file[u][1] # Log!Zero /\ file[u][2] = 1 /\ Good(file[u][1].record)'
                         => u - 1 + Length(file[u][1]) <= BlockStart(u - 1) + BlockSize
                      /\ file[u][1] = Log!Zero /\ (\A s \in DOMAIN made' : made'[s].start < u => Good(s)')
                         => BlockStart(u - 1) + BlockSize < u - 1 + HeaderSize
    BY <1>1 DEF BlocksRight, BlockStart, Length, Good
  <2>1. file[u][1] # Log!Zero /\ Good(file[u][1].record)' => Good(file[u][1].record)
    <3>1. PICK r : r = file[u][1].record
      OBVIOUS
    <3>2. Good(file[u][1].record)' => Good(r)'
      BY <1>1, <3>1 DEF Good
    <3> QED BY <1>7, <1>15, <3>1, <3>2
  <2>2. (\A s \in DOMAIN made' : made'[s].start < u => Good(s)') => (\A s \in DOMAIN made : made[s].start < u => Good(s))
    BY <1>5, <1>15
  <2> QED BY <1>0, <2>1, <2>2 DEF BlocksRight
<1>17. WriterAtEnd'
  BY <1>1, <1>2, <1>5 DEF WriterAtEnd
<1>18. OffsetRight'
  <2>1. Regular' => Regular
    <3> SUFFICES ASSUME Regular', faults.writes # 0, NEW t \in DOMAIN made PROVE made[t].whole
      BY DEF Regular
    <3>1. t \in DOMAIN made' /\ t # Log!Current' /\ made'[t] = made[t]
      BY <1>5
    <3> QED BY <1>1, <3>1 DEF Regular
  <2> QED BY <1>0, <1>1, <2>1 DEF OffsetRight, OffsetAt, BlockStart
<1>19. ReaderRight'
  BY <1>1 DEF ReaderRight
<1> QED BY <1>8, <1>9, <1>10, <1>11, <1>12, <1>13, <1>14, <1>16, <1>17, <1>18, <1>19 DEF LogInv, FileRight

(* Reuse: block_offset_ is what the length of the file says. *)
LEMMA ReuseStep == ASSUME LogInv, Log!Reuse PROVE LogInv'
<1>1. reader.pc = "done" /\ reader' = Log!NoReader /\ offset' = Len(file) % BlockSize /\ UNCHANGED <<file, writer, made, faults>>
  BY DEF Log!Reuse
<1>2. ~ writer.on
  BY <1>1 DEF LogInv, WriterAtEnd
<1>3. Len(file) \in Nat /\ BlockSize \in Nat /\ BlockSize > 0 /\ Len(file) % BlockSize = Len(file) - BlockStart(Len(file))
      /\ BlockStart(Len(file)) \in Nat /\ BlockStart(Len(file)) <= Len(file) /\ Len(file) < BlockStart(Len(file)) + BlockSize
  BY FileTypes, LogSizes, BlockOf DEF LogInv, FileRight
<1>4. offset' \in 0..BlockSize /\ BlockStart(Len(file)) = Len(file) - offset'
  BY <1>1, <1>3
<1>5. LogTypes'
  BY <1>1, <1>4 DEF LogInv, FileRight, LogTypes, Log!NoReader
<1>6. PartsRight' /\ UnitsRight' /\ StartsRight' /\ OrderRight'
  <2>1. \A p : (InFile(p)' <=> InFile(p)) /\ (IsPart(p)' <=> IsPart(p))
    BY <1>1 DEF InFile, IsPart
  <2> QED BY <1>1, <2>1 DEF LogInv, FileRight, PartsRight, UnitsRight, StartsRight, OrderRight, Before
<1>7. CutsRight' /\ FollowsRight'
  <2>1. \A u, n : HasPart(u, n)' <=> HasPart(u, n)
    BY <1>1 DEF HasPart
  <2>2. \A r, c : CutAt(r, c)' <=> CutAt(r, c)
    BY <1>1 DEF CutAt, Log!Current
  <2>3. \A u, e : Follows(u, e)' <=> Follows(u, e)
    BY <1>1 DEF Follows
  <2>4. CutsRight'
    BY <1>1, <2>1, <2>2 DEF LogInv, FileRight, CutsRight
  <2>5. FollowsRight'
    BY <1>1, <2>3 DEF LogInv, FileRight, FollowsRight
  <2> QED BY <2>4, <2>5
<1>8. BlocksRight'
  BY <1>1, FileStays DEF LogInv, FileRight, BlocksRight
<1>9. WriterAtEnd' /\ ReaderRight'
  BY <1>1, <1>2 DEF WriterAtEnd, ReaderRight, Log!NoReader
<1>10. OffsetRight'
  BY <1>1, <1>4 DEF OffsetRight, OffsetAt, BlockStart
<1> QED BY <1>5, <1>6, <1>7, <1>8, <1>9, <1>10 DEF LogInv, FileRight

(***************************************************************************)
(* EmitPhysicalRecord and EmitFails: z units of a trailer and n units of   *)
(* the part f come behind the file, and the record is whole with w.        *)
(***************************************************************************)
Grown(f, z, n) ==
    /\ Len(file') = Len(file) + z + n /\ DOMAIN file' = 1..(Len(file) + z + n)
    /\ file' \in Seq(Physical \X Nat)
    /\ \A u \in DOMAIN file : file'[u] = file[u]
    /\ \A u \in 1..(Len(file) + z + n) : /\ Len(file) < u /\ u <= Len(file) + z => file'[u] = <<Log!Zero, u - Len(file)>>
                                         /\ Len(file) + z < u => file'[u] = <<f, u - (Len(file) + z)>>

Extended(f, w) ==
    /\ Log!Current' = Log!Current /\ DOMAIN made' = DOMAIN made /\ \A r \in DOMAIN made : r # Log!Current => made'[r] = made[r]
    /\ made' \in Seq([parts : Seq(Physical), start : Nat, whole : BOOLEAN])
    /\ made'[Log!Current].start = made[Log!Current].start /\ made'[Log!Current].whole = w
    /\ Len(made'[Log!Current].parts) = Len(made[Log!Current].parts) + 1
    /\ DOMAIN made'[Log!Current].parts = 1..(Len(made[Log!Current].parts) + 1)
    /\ \A j \in DOMAIN made[Log!Current].parts : made'[Log!Current].parts[j] = made[Log!Current].parts[j]
    /\ made'[Log!Current].parts[Len(made[Log!Current].parts) + 1] = f

(* What is emitted fits in the block. *)
FitsBlock(f, z, s) ==
    /\ BlockStart(Len(file) + z) = Len(file) + z - s /\ s \in Nat /\ s + Length(f) <= BlockSize
    /\ z > 0 => BlockStart(Len(file)) + BlockSize = Len(file) + z

Emits(f, z, n, w) ==
    /\ FileRight /\ WriterAtEnd /\ OffsetRight /\ writer.on /\ Grown(f, z, n) /\ Extended(f, w)
    /\ f \in Physical /\ f.type # "zero" /\ f.record = Log!Current /\ f.part = Len(made[Log!Current].parts) + 1
    /\ f.type \in Begins <=> made[Log!Current].parts = <<>>
    /\ z \in Nat /\ z < HeaderSize /\ n \in Nat /\ n <= Length(f)
    /\ w \in BOOLEAN /\ (w => n = Length(f) /\ f.type \in Ends)
    /\ writer' \in [on : BOOLEAN, left : Nat] /\ (writer'.on => n = Length(f) /\ f.type \notin Ends /\ ~ w)
    /\ faults' \in [writes : Nat, crashes : Nat] /\ (faults'.writes = 0 => faults.writes = 0 /\ n = Length(f))
    /\ reader' = reader /\ reader.pc = "none"
    /\ Regular => \E s \in Nat : FitsBlock(f, z, s) /\ offset' = s + Length(f)
    /\ offset' \in 0..BlockSize

(* A unit of the new file. *)
Old(u) == u \in DOMAIN file /\ file'[u] = file[u]
InTrailer(u, z) == Len(file) < u /\ u <= Len(file) + z /\ file'[u] = <<Log!Zero, u - Len(file)>>
InPart(u, f, z, n) == Len(file) + z < u /\ u <= Len(file) + z + n /\ file'[u] = <<f, u - (Len(file) + z)>>

LEMMA EmitTypes ==
    ASSUME NEW f, NEW z, NEW n, NEW w, Emits(f, z, n, w)
    PROVE  /\ LogTypes /\ Len(file) \in Nat /\ DOMAIN file = 1..Len(file) /\ Log!Current \in Nat /\ DOMAIN made = 1..Log!Current
           /\ Log!Current \in DOMAIN made /\ Log!Current > 0 /\ z \in Nat /\ n \in Nat /\ Length(f) \in Nat /\ Length(f) >= HeaderSize
           /\ f # Log!Zero /\ HeaderSize \in Nat /\ HeaderSize > 0
           /\ Len(made[Log!Current].parts) \in Nat /\ DOMAIN made[Log!Current].parts = 1..Len(made[Log!Current].parts)
<1>1. /\ FileRight /\ LogTypes /\ WriterAtEnd /\ writer.on /\ f \in Physical /\ f.type # "zero" /\ z \in Nat /\ n \in Nat
  BY DEF Emits, FileRight
<1>2. Log!Current > 0
  BY <1>1 DEF WriterAtEnd
<1>3. Len(file) \in Nat /\ DOMAIN file = 1..Len(file) /\ Log!Current \in Nat /\ DOMAIN made = 1..Log!Current
  BY <1>1, FileTypes
<1>4. Log!Current \in DOMAIN made
  BY <1>2, <1>3
<1>5. Len(made[Log!Current].parts) \in Nat /\ DOMAIN made[Log!Current].parts = 1..Len(made[Log!Current].parts)
  BY <1>1, <1>4, PartTypes
<1>6. Length(f) \in Nat /\ Length(f) >= HeaderSize
  BY <1>1, LengthOf
<1>7. f # Log!Zero
  BY <1>1 DEF Log!Zero
<1> QED BY <1>1, <1>2, <1>3, <1>4, <1>5, <1>6, <1>7, LogSizes

LEMMA UnitsOfNew ==
    ASSUME NEW f, NEW z, NEW n, NEW w, Emits(f, z, n, w)
    PROVE  /\ \A u \in DOMAIN file' : Old(u) \/ InTrailer(u, z) \/ InPart(u, f, z, n)
           /\ \A u \in DOMAIN file : u \in DOMAIN file' /\ file'[u] = file[u] /\ u \in Nat /\ u <= Len(file)
           /\ \A u \in DOMAIN file' : u \in Nat /\ u <= Len(file')
           /\ Len(file') = Len(file) + z + n
<1>1. Len(file) \in Nat /\ DOMAIN file = 1..Len(file) /\ z \in Nat /\ n \in Nat
  BY EmitTypes
<1>2. Grown(f, z, n)
  BY DEF Emits
<1>3. /\ Len(file') = Len(file) + z + n /\ DOMAIN file' = 1..(Len(file) + z + n)
      /\ \A u \in DOMAIN file : file'[u] = file[u]
      /\ \A u \in 1..(Len(file) + z + n) : /\ Len(file) < u /\ u <= Len(file) + z => file'[u] = <<Log!Zero, u - Len(file)>>
                                           /\ Len(file) + z < u => file'[u] = <<f, u - (Len(file) + z)>>
  BY <1>2 DEF Grown
<1>4. ASSUME NEW u \in DOMAIN file' PROVE Old(u) \/ InTrailer(u, z) \/ InPart(u, f, z, n)
  <2>1. u \in 1..(Len(file) + z + n)
    BY <1>3, <1>4
  <2>2. CASE u <= Len(file)
    <3>1. u \in DOMAIN file
      BY <1>1, <2>1, <2>2
    <3> QED BY <1>3, <3>1 DEF Old
  <2>3. CASE Len(file) < u /\ u <= Len(file) + z
    BY <1>3, <2>1, <2>3 DEF InTrailer
  <2>4. CASE Len(file) + z < u
    <3>1. file'[u] = <<f, u - (Len(file) + z)>>
      BY <1>3, <2>1, <2>4
    <3> QED BY <1>1, <2>1, <2>4, <3>1 DEF InPart
  <2> QED BY <1>1, <2>1, <2>2, <2>3, <2>4
<1>5. \A u \in DOMAIN file : u \in DOMAIN file' /\ file'[u] = file[u] /\ u \in Nat /\ u <= Len(file)
  <2> SUFFICES ASSUME NEW u \in DOMAIN file PROVE u \in DOMAIN file' /\ file'[u] = file[u] /\ u \in Nat /\ u <= Len(file)
    OBVIOUS
  <2>1. u \in 1..Len(file)
    BY <1>1
  <2>2. u \in 1..(Len(file) + z + n)
    BY <1>1, <2>1
  <2> QED BY <1>1, <1>3, <2>1, <2>2
<1>6. \A u \in DOMAIN file' : u \in Nat /\ u <= Len(file')
  BY <1>1, <1>3
<1> QED BY <1>3, <1>4, <1>5, <1>6

(* The records other than the one that is written are as they were. *)
LEMMA PartsOfNew ==
    ASSUME NEW f, NEW z, NEW n, NEW w, Emits(f, z, n, w)
    PROVE  /\ Log!Current' = Log!Current /\ DOMAIN made' = DOMAIN made
           /\ \A r \in DOMAIN made : made'[r].start = made[r].start /\ (r # Log!Current => made'[r] = made[r])
           /\ \A r \in DOMAIN made : \A j \in DOMAIN made[r].parts :
                 j \in DOMAIN made'[r].parts /\ made'[r].parts[j] = made[r].parts[j]
           /\ \A p : IsPart(p) => IsPart(p)' /\ p # f
           /\ IsPart(f)' /\ f.record = Log!Current /\ f.part = Len(made[Log!Current].parts) + 1
           /\ made'[Log!Current].whole = w
<1>0. /\ Log!Current \in DOMAIN made /\ Len(made[Log!Current].parts) \in Nat
      /\ DOMAIN made[Log!Current].parts = 1..Len(made[Log!Current].parts)
  BY EmitTypes
<1>1. Extended(f, w) /\ f.record = Log!Current /\ f.part = Len(made[Log!Current].parts) + 1
  BY DEF Emits
<1>2. /\ Log!Current' = Log!Current /\ DOMAIN made' = DOMAIN made /\ \A r \in DOMAIN made : r # Log!Current => made'[r] = made[r]
      /\ made'[Log!Current].start = made[Log!Current].start /\ made'[Log!Current].whole = w
      /\ DOMAIN made'[Log!Current].parts = 1..(Len(made[Log!Current].parts) + 1)
      /\ \A j \in DOMAIN made[Log!Current].parts : made'[Log!Current].parts[j] = made[Log!Current].parts[j]
      /\ made'[Log!Current].parts[Len(made[Log!Current].parts) + 1] = f
  BY <1>1 DEF Extended
<1>3. \A j \in DOMAIN made[Log!Current].parts : j \in DOMAIN made'[Log!Current].parts
  BY <1>0, <1>2
<1>4. \A r \in DOMAIN made : \A j \in DOMAIN made[r].parts :
         j \in DOMAIN made'[r].parts /\ made'[r].parts[j] = made[r].parts[j]
  BY <1>2, <1>3
<1>5. \A p : IsPart(p) => IsPart(p)'
  BY <1>2, <1>4 DEF IsPart
<1>6. ~ IsPart(f)
  BY <1>0, <1>1 DEF IsPart
<1>7. IsPart(f)'
  <2>1. Len(made[Log!Current].parts) + 1 \in DOMAIN made'[Log!Current].parts
    BY <1>0, <1>2
  <2> QED BY <1>0, <1>1, <1>2, <2>1 DEF IsPart
<1>8. \A p : IsPart(p) => p # f
  BY <1>6
<1> QED BY <1>1, <1>2, <1>4, <1>5, <1>7, <1>8

LEMMA EmitTypesNext ==
    ASSUME NEW f, NEW z, NEW n, NEW w, Emits(f, z, n, w)
    PROVE  LogTypes'
<1>1. /\ file' \in Seq(Physical \X Nat) /\ made' \in Seq([parts : Seq(Physical), start : Nat, whole : BOOLEAN])
  BY DEF Emits, Grown, Extended
<1>2. /\ writer' \in [on : BOOLEAN, left : Nat] /\ faults' \in [writes : Nat, crashes : Nat] /\ reader' = reader
      /\ offset' \in 0..BlockSize
  BY DEF Emits
<1> QED BY <1>1, <1>2, EmitTypes DEF LogTypes

InNext(p) == \E u \in DOMAIN file' : file'[u] = Log!LastUnit(p)

LEMMA EmitParts ==
    ASSUME NEW f, NEW z, NEW n, NEW w, Emits(f, z, n, w)
    PROVE  PartsRight'
<1>0. /\ FileRight /\ LogTypes /\ PartsRight /\ WriterAtEnd /\ writer.on /\ f \in Physical /\ f.type # "zero"
      /\ f.type \in Begins <=> made[Log!Current].parts = <<>>
      /\ n <= Length(f) /\ w \in BOOLEAN /\ (w => n = Length(f) /\ f.type \in Ends)
  BY DEF Emits, FileRight
<1>1. /\ Log!Current' = Log!Current /\ DOMAIN made' = DOMAIN made
      /\ \A r \in DOMAIN made : made'[r].start = made[r].start /\ (r # Log!Current => made'[r] = made[r])
      /\ \A r \in DOMAIN made : \A j \in DOMAIN made[r].parts :
            j \in DOMAIN made'[r].parts /\ made'[r].parts[j] = made[r].parts[j]
      /\ f.record = Log!Current /\ f.part = Len(made[Log!Current].parts) + 1
      /\ made'[Log!Current].whole = w
  BY PartsOfNew
<1>2. /\ Len(made'[Log!Current].parts) = Len(made[Log!Current].parts) + 1
      /\ DOMAIN made'[Log!Current].parts = 1..(Len(made[Log!Current].parts) + 1)
      /\ made'[Log!Current].parts[Len(made[Log!Current].parts) + 1] = f
  BY DEF Emits, Extended
<1>3. /\ Log!Current \in DOMAIN made /\ Len(made[Log!Current].parts) \in Nat /\ Length(f) \in Nat /\ Length(f) >= HeaderSize
      /\ DOMAIN made[Log!Current].parts = 1..Len(made[Log!Current].parts) /\ HeaderSize \in Nat /\ HeaderSize > 0
      /\ Len(file) \in Nat /\ z \in Nat /\ n \in Nat
  BY EmitTypes
<1>4. \A p : InFile(p) => InNext(p)
  BY UnitsOfNew DEF InFile, InNext, Log!LastUnit
<1>5. made[Log!Current].parts # <<>> =>
         Len(made[Log!Current].parts) > 0 /\ made[Log!Current].parts[Len(made[Log!Current].parts)].type \notin Ends
  BY <1>0, <1>3, PartTypes DEF WriterAtEnd
<1>6. \A j \in DOMAIN made[Log!Current].parts :
         LET p == made[Log!Current].parts[j]
         IN  /\ p.record = Log!Current /\ p.part = j /\ p.type \in Begins \cup Ends \cup {"middle"}
             /\ p.type \in Begins <=> j = 1
             /\ p.type \notin Ends
  <2> SUFFICES ASSUME NEW j \in DOMAIN made[Log!Current].parts
               PROVE  LET p == made[Log!Current].parts[j]
                      IN  /\ p.record = Log!Current /\ p.part = j /\ p.type \in Begins \cup Ends \cup {"middle"}
                          /\ p.type \in Begins <=> j = 1
                          /\ p.type \notin Ends
    OBVIOUS
  <2> DEFINE p == made[Log!Current].parts[j]
  <2>1. /\ p.record = Log!Current /\ p.part = j /\ p.type \in Begins \cup Ends \cup {"middle"}
        /\ p.type \in Begins <=> j = 1
        /\ p.type \in Ends => j = Len(made[Log!Current].parts)
    BY <1>0, <1>3 DEF PartsRight
  <2>2. made[Log!Current].parts # <<>>
    BY <1>0, <1>3, PartTypes
  <2> QED BY <1>5, <2>1, <2>2
<1>7. f.type \in Begins \cup Ends \cup {"middle"}
  BY <1>0 DEF Physical, Begins, Ends
<1>8. f.type \in Begins <=> f.part = 1
  BY <1>0, <1>1, <1>3, PartTypes
<1>9. ASSUME NEW j \in DOMAIN made'[Log!Current].parts
      PROVE  LET p == made'[Log!Current].parts[j]
             IN  /\ p.record = Log!Current /\ p.part = j /\ p.type \in Begins \cup Ends \cup {"middle"}
                 /\ p.type \in Begins <=> j = 1
                 /\ p.type \in Ends => j = Len(made'[Log!Current].parts)
  <2>1. j \in DOMAIN made[Log!Current].parts \/ j = Len(made[Log!Current].parts) + 1
    BY <1>2, <1>3, <1>9
  <2>2. CASE j \in DOMAIN made[Log!Current].parts
    BY <1>1, <1>3, <1>6, <2>2
  <2>3. CASE j = Len(made[Log!Current].parts) + 1
    BY <1>1, <1>2, <1>7, <1>8, <2>3
  <2> QED BY <2>1, <2>2, <2>3
<1>10. w => InNext(f)
  <2> SUFFICES ASSUME w PROVE InNext(f)
    OBVIOUS
  <2>1. PICK u : u = Len(file) + z + n
    OBVIOUS
  <2>2. n = Length(f) /\ n > 0 /\ u - (Len(file) + z) = n /\ Len(file) + z < u /\ u \in 1..(Len(file) + z + n)
    BY <1>0, <1>3, <2>1
  <2>3. Grown(f, z, n)
    BY DEF Emits
  <2>4. u \in DOMAIN file' /\ file'[u] = <<f, n>>
    BY <2>2, <2>3 DEF Grown
  <2> QED BY <2>2, <2>4 DEF InNext, Log!LastUnit, Length
<1>11. w => /\ made'[Log!Current].parts # <<>> /\ made'[Log!Current].parts[Len(made'[Log!Current].parts)].type \in Ends
            /\ \A j \in DOMAIN made'[Log!Current].parts : InNext(made'[Log!Current].parts[j])
  <2> SUFFICES ASSUME w
               PROVE  /\ made'[Log!Current].parts # <<>> /\ made'[Log!Current].parts[Len(made'[Log!Current].parts)].type \in Ends
                      /\ \A j \in DOMAIN made'[Log!Current].parts : InNext(made'[Log!Current].parts[j])
    OBVIOUS
  <2>1. made'[Log!Current].parts # <<>>
    <3>1. Len(made'[Log!Current].parts) # 0
      BY <1>2, <1>3
    <3> QED BY <3>1
  <2>2. ASSUME NEW j \in DOMAIN made'[Log!Current].parts PROVE InNext(made'[Log!Current].parts[j])
    <3>1. PICK p : p = made'[Log!Current].parts[j]
      OBVIOUS
    <3>2. j \in DOMAIN made[Log!Current].parts \/ j = Len(made[Log!Current].parts) + 1
      BY <1>2, <1>3, <2>2
    <3>3. CASE j \in DOMAIN made[Log!Current].parts
      <4>1. p = made[Log!Current].parts[j]
        BY <1>1, <1>3, <3>1, <3>3
      <4>2. InFile(p)
        BY <1>0, <3>3, <4>1 DEF WriterAtEnd
      <4>3. InNext(p)
        BY <1>4, <4>2
      <4> QED BY <3>1, <4>3
    <3>4. CASE j = Len(made[Log!Current].parts) + 1
      <4>1. p = f
        BY <1>2, <3>1, <3>4
      <4> QED BY <1>10, <3>1, <4>1 DEF InNext
    <3> QED BY <3>2, <3>3, <3>4
  <2> QED BY <1>0, <1>2, <2>1, <2>2
<1>12. ASSUME NEW r \in DOMAIN made, r # Log!Current
       PROVE  /\ \A j \in DOMAIN made'[r].parts :
                    LET p == made'[r].parts[j]
                    IN  /\ p.record = r /\ p.part = j /\ p.type \in Begins \cup Ends \cup {"middle"}
                        /\ p.type \in Begins <=> j = 1
                        /\ p.type \in Ends => j = Len(made'[r].parts)
              /\ made'[r].whole =>
                    /\ made'[r].parts # <<>> /\ made'[r].parts[Len(made'[r].parts)].type \in Ends
                    /\ \A j \in DOMAIN made'[r].parts : InNext(made'[r].parts[j])
  <2>1. made'[r] = made[r]
    BY <1>1, <1>12
  <2>2. ASSUME made[r].whole, NEW j \in DOMAIN made[r].parts PROVE InNext(made'[r].parts[j])
    <3>1. PICK p : p = made[r].parts[j]
      OBVIOUS
    <3>2. InNext(p)
      BY <1>0, <1>4, <2>2, <3>1 DEF PartsRight
    <3> QED BY <2>1, <3>1, <3>2
  <2> QED BY <1>0, <2>1, <2>2 DEF PartsRight
<1> QED BY <1>1, <1>9, <1>11, <1>12 DEF PartsRight, InFile, InNext, Log!LastUnit

IsPartNext(p) == /\ p.record \in DOMAIN made' /\ p.part \in DOMAIN made'[p.record].parts
                 /\ p = made'[p.record].parts[p.part]

LEMMA EmitUnits ==
    ASSUME NEW f, NEW z, NEW n, NEW w, Emits(f, z, n, w)
    PROVE  UnitsRight'
<1>0. FileRight /\ UnitsRight /\ Grown(f, z, n) /\ n <= Length(f) /\ z < HeaderSize
  BY DEF Emits, FileRight
<1>1. /\ Len(file) \in Nat /\ z \in Nat /\ n \in Nat /\ Length(f) \in Nat /\ f # Log!Zero /\ HeaderSize \in Nat
      /\ DOMAIN file = 1..Len(file)
  BY EmitTypes
<1>2. /\ \A u \in DOMAIN file' : Old(u) \/ InTrailer(u, z) \/ InPart(u, f, z, n)
      /\ \A u \in DOMAIN file : u \in DOMAIN file' /\ file'[u] = file[u] /\ u \in Nat /\ u <= Len(file)
      /\ \A u \in DOMAIN file' : u \in Nat
  BY UnitsOfNew
<1>3. \A u \in 1..(Len(file) + z + n) : /\ Len(file) < u /\ u <= Len(file) + z => file'[u] = <<Log!Zero, u - Len(file)>>
                                        /\ Len(file) + z < u => file'[u] = <<f, u - (Len(file) + z)>>
  BY <1>0 DEF Grown
<1> SUFFICES ASSUME NEW u \in DOMAIN file'
             PROVE  /\ IF file'[u][1] = Log!Zero THEN file'[u][2] < HeaderSize
                       ELSE IsPartNext(file'[u][1]) /\ file'[u][2] <= Length(file'[u][1])
                    /\ file'[u][2] \in 1..u
                    /\ \A j \in 1..file'[u][2] : file'[u - file'[u][2] + j] = <<file'[u][1], j>>
  BY DEF UnitsRight, Before, IsPart, IsPartNext, Length
<1>4. CASE Old(u)
  <2>1. u \in DOMAIN file /\ file'[u] = file[u]
    BY <1>4 DEF Old
  <2>2. /\ IF file[u][1] = Log!Zero THEN file[u][2] < HeaderSize
           ELSE IsPart(file[u][1]) /\ file[u][2] <= Length(file[u][1])
        /\ file[u][2] \in 1..u
        /\ \A j \in 1..file[u][2] : file[Before(u) + j] = <<file[u][1], j>>
    BY <1>0, <2>1 DEF UnitsRight
  <2>3. \A j \in 1..file[u][2] : Before(u) + j \in DOMAIN file
    BY <1>0, <2>1, UnitOf
  <2>4. \A j \in 1..file[u][2] : file'[Before(u) + j] = <<file[u][1], j>>
    BY <1>2, <2>2, <2>3
  <2>5. file[u][1] # Log!Zero => IsPartNext(file'[u][1])
    <3>1. PICK p : p = file[u][1]
      OBVIOUS
    <3>2. IsPart(p) => IsPart(p)'
      BY PartsOfNew
    <3>3. IsPart(p)' => IsPartNext(file'[u][1])
      BY <2>1, <3>1 DEF IsPart, IsPartNext
    <3> QED BY <2>2, <3>1, <3>2, <3>3
  <2> QED BY <2>1, <2>2, <2>4, <2>5 DEF Before
<1>5. CASE InTrailer(u, z)
  <2>1. Len(file) < u /\ u <= Len(file) + z /\ file'[u] = <<Log!Zero, u - Len(file)>> /\ u \in Nat
    BY <1>2, <1>5 DEF InTrailer
  <2>2. file'[u][1] = Log!Zero /\ file'[u][2] = u - Len(file)
    BY <2>1
  <2>3. file'[u][2] < HeaderSize /\ file'[u][2] \in 1..u
    BY <1>0, <1>1, <2>1, <2>2
  <2>4. ASSUME NEW j \in 1..(u - Len(file)) PROVE file'[u - (u - Len(file)) + j] = <<Log!Zero, j>>
    <3>1. PICK v : v = Len(file) + j
      OBVIOUS
    <3> DEFINE m == Len(file)
    <3>a. m \in Nat /\ n \in Nat /\ z \in Nat /\ u \in Nat /\ j \in Nat /\ v = m + j
      BY <1>1, <2>1, <3>1
    <3>b. 1 <= j /\ j <= u - m /\ u <= m + z
      BY <1>1, <2>1
    <3> HIDE DEF m
    <3>c. v = u - (u - m) + j /\ v \in 1..(m + z + n) /\ m < v /\ v <= m + z /\ v - m = j
      BY <3>a, <3>b
    <3>2. v = u - (u - Len(file)) + j /\ v \in 1..(Len(file) + z + n) /\ Len(file) < v /\ v <= Len(file) + z /\ v - Len(file) = j
      BY <3>c DEF m
    <3> QED BY <1>3, <3>2
  <2> QED BY <2>2, <2>3, <2>4
<1>6. CASE InPart(u, f, z, n)
  <2>1. Len(file) + z < u /\ u <= Len(file) + z + n /\ file'[u] = <<f, u - (Len(file) + z)>> /\ u \in Nat
    BY <1>2, <1>6 DEF InPart
  <2>2. file'[u][1] = f /\ file'[u][2] = u - (Len(file) + z)
    BY <2>1
  <2>3. file'[u][2] \in 1..u /\ file'[u][2] <= Length(f)
    BY <1>0, <1>1, <2>1, <2>2
  <2>4. ASSUME NEW j \in 1..(u - (Len(file) + z)) PROVE file'[u - (u - (Len(file) + z)) + j] = <<f, j>>
    <3>1. PICK v : v = Len(file) + z + j
      OBVIOUS
    <3> DEFINE m == Len(file) + z
    <3>a. m \in Nat /\ n \in Nat /\ u \in Nat /\ j \in Nat /\ v = m + j
      BY <1>1, <2>1, <3>1
    <3>b. 1 <= j /\ j <= u - m /\ u <= m + n
      BY <1>1, <2>1
    <3> HIDE DEF m
    <3>c. v = u - (u - m) + j /\ v \in 1..(m + n) /\ m < v /\ v - m = j
      BY <3>a, <3>b
    <3>2. /\ v = u - (u - (Len(file) + z)) + j /\ v \in 1..(Len(file) + z + n) /\ Len(file) + z < v
          /\ v - (Len(file) + z) = j
      BY <3>c DEF m
    <3> QED BY <1>3, <3>2
  <2>5. IsPartNext(file'[u][1])
    <3>1. IsPart(f)'
      BY PartsOfNew
    <3> QED BY <2>2, <3>1 DEF IsPart, IsPartNext
  <2> QED BY <1>1, <2>2, <2>3, <2>4, <2>5
<1> QED BY <1>2, <1>4, <1>5, <1>6

LEMMA EmitStarts ==
    ASSUME NEW f, NEW z, NEW n, NEW w, Emits(f, z, n, w)
    PROVE  StartsRight'
<1>0. FileRight /\ StartsRight
  BY DEF Emits, FileRight
<1>1. /\ Len(file) \in Nat /\ z \in Nat /\ n \in Nat /\ f # Log!Zero /\ Log!Current \in Nat /\ DOMAIN made = 1..Log!Current
      /\ Log!Current \in DOMAIN made /\ \A r \in DOMAIN made : made[r].start \in Nat
  BY EmitTypes, FileTypes
<1>2. /\ \A u \in DOMAIN file' : Old(u) \/ InTrailer(u, z) \/ InPart(u, f, z, n)
      /\ \A u \in DOMAIN file' : u \in Nat /\ u <= Len(file')
      /\ Len(file') = Len(file) + z + n
  BY UnitsOfNew
<1>3. DOMAIN made' = DOMAIN made /\ \A r \in DOMAIN made : made'[r].start = made[r].start
  BY PartsOfNew
<1>4. f.record = Log!Current
  BY DEF Emits
<1>5. \A r \in DOMAIN made' : made'[r].start <= Len(file')
  BY <1>0, <1>1, <1>2, <1>3 DEF StartsRight
<1>6. \A r, s \in DOMAIN made' : r < s => made'[r].start <= made'[s].start
  BY <1>0, <1>3 DEF StartsRight
<1>7. ASSUME NEW u \in DOMAIN file', file'[u][1] # Log!Zero
      PROVE  /\ made'[file'[u][1].record].start < u
             /\ \A s \in DOMAIN made' : file'[u][1].record < s => u <= made'[s].start
  <2>1. CASE Old(u)
    <3>1. u \in DOMAIN file /\ file'[u] = file[u]
      BY <2>1 DEF Old
    <3>2. file[u][1].record \in DOMAIN made
      BY <1>0, <1>7, <3>1, UnitOf
    <3> QED BY <1>0, <1>3, <1>7, <3>1, <3>2 DEF StartsRight
  <2>2. CASE InTrailer(u, z)
    BY <1>7, <2>2 DEF InTrailer
  <2>3. CASE InPart(u, f, z, n)
    <3>1. Len(file) + z < u /\ u \in Nat /\ file'[u][1].record = Log!Current
      BY <1>2, <1>4, <2>3 DEF InPart
    <3>2. made[Log!Current].start <= Len(file) /\ made[Log!Current].start \in Nat
      BY <1>0, <1>1 DEF StartsRight
    <3>3. made'[Log!Current].start < u
      BY <1>1, <1>3, <3>1, <3>2
    <3>4. \A s \in DOMAIN made' : ~ (Log!Current < s)
      BY <1>1, <1>3
    <3> QED BY <3>1, <3>3, <3>4
  <2> QED BY <1>2, <2>1, <2>2, <2>3
<1> QED BY <1>5, <1>6, <1>7 DEF StartsRight

LEMMA EmitCuts ==
    ASSUME NEW f, NEW z, NEW n, NEW w, Emits(f, z, n, w)
    PROVE  CutsRight'
<1>0. FileRight /\ CutsRight /\ writer.on /\ Grown(f, z, n) /\ n <= Length(f) /\ (writer'.on => n = Length(f))
  BY DEF Emits, FileRight
<1>1. /\ Len(file) \in Nat /\ z \in Nat /\ n \in Nat /\ Length(f) \in Nat /\ f # Log!Zero /\ Log!Current \in Nat
      /\ DOMAIN made = 1..Log!Current /\ DOMAIN file = 1..Len(file)
  BY EmitTypes
<1>2. /\ \A u \in DOMAIN file' : Old(u) \/ InTrailer(u, z) \/ InPart(u, f, z, n)
      /\ \A u \in DOMAIN file : u \in DOMAIN file' /\ file'[u] = file[u] /\ u \in Nat /\ u <= Len(file)
      /\ \A u \in DOMAIN file' : u \in Nat
      /\ Len(file') = Len(file) + z + n
  BY UnitsOfNew
<1>3. Log!Current' = Log!Current /\ \A r \in DOMAIN made : made'[r].start = made[r].start
  BY PartsOfNew
<1>4. f.record = Log!Current
  BY DEF Emits
<1> SUFFICES ASSUME NEW u \in DOMAIN file', NEW q, q = file'[u][1], q # Log!Zero, file'[u][2] = 1
             PROVE  \E k \in 1..Length(q) :
                       /\ \A j \in 1..k : u - 1 + j <= Len(file') /\ file'[u - 1 + j] = <<q, j>>
                       /\ \/ k = Length(q)
                          \/ IF q.record = Log!Current THEN u - 1 + k = Len(file') /\ ~ writer'.on
                             ELSE made'[q.record + 1].start = u - 1 + k
  BY <1>3 DEF CutsRight, CutAt, HasPart, Length
<1>5. CASE Old(u)
  <2>1. u \in DOMAIN file /\ file'[u] = file[u] /\ q = file[u][1] /\ file[u][2] = 1 /\ u \in Nat
    BY <1>2, <1>5 DEF Old
  <2>2. PICK k \in 1..Length(q) : HasPart(u, k) /\ (k = Length(q) \/ CutAt(q.record, u - 1 + k))
    BY <1>0, <2>1 DEF CutsRight
  <2>3. q.record \in DOMAIN made
    BY <1>0, <2>1, UnitOf
  <2>4. ASSUME NEW j \in 1..k PROVE u - 1 + j <= Len(file') /\ file'[u - 1 + j] = <<q, j>>
    <3>1. u - 1 + j <= Len(file) /\ file[u - 1 + j] = <<q, j>>
      BY <2>1, <2>2 DEF HasPart
    <3>2. k \in Nat /\ j \in Nat /\ j >= 1
      <4>1. q \in Physical
        BY <1>0, <2>1, FileTypes DEF FileRight
      <4> QED BY <4>1, LengthOf
    <3>3. u - 1 + j \in DOMAIN file
      <4>1. u - 1 + j \in 1..Len(file)
        BY <1>1, <2>1, <3>1, <3>2
      <4> QED BY <1>1, <4>1
    <3> QED BY <1>1, <1>2, <2>1, <3>1, <3>2, <3>3
  <2>5. k = Length(q) \/ (q.record # Log!Current /\ made[q.record + 1].start = u - 1 + k)
    BY <1>0, <2>2 DEF CutAt
  <2>6. q.record # Log!Current => q.record + 1 \in DOMAIN made
    BY <1>1, <2>3
  <2> QED BY <1>3, <2>4, <2>5, <2>6
<1>6. CASE InTrailer(u, z)
  BY <1>6 DEF InTrailer
<1>7. CASE InPart(u, f, z, n)
  <2>1. Len(file) + z < u /\ u <= Len(file) + z + n /\ q = f /\ u - (Len(file) + z) = 1 /\ u \in Nat
    BY <1>2, <1>7 DEF InPart
  <2>2. n \in 1..Length(q) /\ u - 1 = Len(file) + z
    BY <1>0, <1>1, <2>1
  <2>3. ASSUME NEW j \in 1..n PROVE u - 1 + j <= Len(file') /\ file'[u - 1 + j] = <<q, j>>
    <3>1. PICK v : v = u - 1 + j
      OBVIOUS
    <3>2. v \in 1..(Len(file) + z + n) /\ Len(file) + z < v /\ v - (Len(file) + z) = j
      BY <1>1, <2>2, <3>1
    <3>3. file'[v] = <<f, j>>
      BY <1>0, <3>2 DEF Grown
    <3> QED BY <1>2, <2>1, <3>1, <3>2, <3>3
  <2>4. n = Length(q) \/ (u - 1 + n = Len(file') /\ ~ writer'.on)
    BY <1>0, <1>2, <2>1, <2>2
  <2> QED BY <1>4, <2>1, <2>2, <2>3, <2>4
<1> QED BY <1>2, <1>5, <1>6, <1>7

LEMMA EmitFollows ==
    ASSUME NEW f, NEW z, NEW n, NEW w, Emits(f, z, n, w)
    PROVE  FollowsRight'
<1>0. FileRight /\ FollowsRight /\ WriterAtEnd /\ writer.on /\ z < HeaderSize
  BY DEF Emits, FileRight
<1>1. /\ Len(file) \in Nat /\ z \in Nat /\ n \in Nat /\ f # Log!Zero /\ Log!Current \in Nat /\ HeaderSize \in Nat
      /\ DOMAIN file = 1..Len(file) /\ Len(made[Log!Current].parts) \in Nat /\ Log!Current \in DOMAIN made
      /\ DOMAIN made[Log!Current].parts = 1..Len(made[Log!Current].parts) /\ LogTypes
  BY EmitTypes
<1>2. /\ \A u \in DOMAIN file' : Old(u) \/ InTrailer(u, z) \/ InPart(u, f, z, n)
      /\ \A u \in DOMAIN file : u \in DOMAIN file' /\ file'[u] = file[u] /\ u \in Nat /\ u <= Len(file)
      /\ \A u \in DOMAIN file' : u \in Nat
  BY UnitsOfNew
<1>3. \A r \in DOMAIN made : \A j \in DOMAIN made[r].parts :
         j \in DOMAIN made'[r].parts /\ made'[r].parts[j] = made[r].parts[j]
  BY PartsOfNew
<1>4. f.record = Log!Current /\ f.part = Len(made[Log!Current].parts) + 1
  BY DEF Emits
<1> SUFFICES ASSUME NEW u \in DOMAIN file', NEW q, q = file'[u][1], q # Log!Zero, file'[u][2] = 1, q.part > 1
             PROVE  \E e \in DOMAIN file' :
                       /\ e < u /\ u <= e + HeaderSize
                       /\ file'[e] = Log!LastUnit(made'[q.record].parts[q.part - 1])
                       /\ \A v \in DOMAIN file' : e < v /\ v < u => file'[v][1] = Log!Zero
  BY DEF FollowsRight, Follows, Log!LastUnit
<1>5. CASE Old(u)
  <2>1. u \in DOMAIN file /\ q = file[u][1] /\ file[u][2] = 1
    BY <1>5 DEF Old
  <2>2. PICK e \in DOMAIN file : Follows(u, e)
    BY <1>0, <2>1 DEF FollowsRight
  <2>3. /\ e < u /\ u <= e + HeaderSize /\ file[e] = Log!LastUnit(made[q.record].parts[q.part - 1])
        /\ \A v \in DOMAIN file : e < v /\ v < u => file[v][1] = Log!Zero
    BY <2>1, <2>2 DEF Follows
  <2>4. q.record \in DOMAIN made /\ q.part \in DOMAIN made[q.record].parts
    BY <1>0, <2>1, UnitOf DEF IsPart
  <2>5. q.part - 1 \in DOMAIN made[q.record].parts
    BY <1>1, <2>4, PartTypes
  <2>6. \A v \in DOMAIN file' : v < u => v \in DOMAIN file
    <3> SUFFICES ASSUME NEW v \in DOMAIN file', v < u PROVE v \in DOMAIN file
      OBVIOUS
    <3>1. v < Len(file)
      BY <1>1, <1>2, <2>1
    <3>2. ~ InTrailer(v, z) /\ ~ InPart(v, f, z, n)
      BY <1>1, <1>2, <3>1 DEF InTrailer, InPart
    <3> QED BY <1>2, <3>2 DEF Old
  <2>7. file'[e] = Log!LastUnit(made'[q.record].parts[q.part - 1])
    BY <1>2, <1>3, <2>3, <2>4, <2>5
  <2>8. \A v \in DOMAIN file' : e < v /\ v < u => file'[v][1] = Log!Zero
    BY <1>2, <2>3, <2>6
  <2> QED BY <1>2, <2>3, <2>7, <2>8
<1>6. CASE InTrailer(u, z)
  BY <1>6, SMTT(30) DEF InTrailer
<1>7. CASE InPart(u, f, z, n)
  <2>1. q = f /\ u - (Len(file) + z) = 1 /\ u \in Nat
    BY <1>2, <1>7 DEF InPart
  <2>2. Len(made[Log!Current].parts) > 0 /\ Len(made[Log!Current].parts) \in DOMAIN made[Log!Current].parts
    BY <1>1, <1>4, <2>1
  <2>3. Len(file) > 0 /\ file[Len(file)] = Log!LastUnit(made[Log!Current].parts[Len(made[Log!Current].parts)])
    <3>1. made[Log!Current].parts # <<>>
      BY <1>1, <2>2, PartTypes
    <3> QED BY <1>0, <3>1 DEF WriterAtEnd
  <2> DEFINE e == Len(file)
  <2>4. e \in DOMAIN file /\ e \in DOMAIN file' /\ file'[e] = file[e] /\ e < u /\ u <= e + HeaderSize
    <3>1. e \in 1..Len(file)
      BY <1>1, <2>3
    <3> QED BY <1>0, <1>1, <1>2, <2>1, <3>1
  <2>5. file'[e] = Log!LastUnit(made'[q.record].parts[q.part - 1])
    <3>1. q.part - 1 = Len(made[Log!Current].parts) /\ q.record = Log!Current
      BY <1>1, <1>4, <2>1
    <3>2. made'[Log!Current].parts[Len(made[Log!Current].parts)] = made[Log!Current].parts[Len(made[Log!Current].parts)]
      BY <1>1, <1>3, <2>2
    <3> QED BY <2>3, <2>4, <3>1, <3>2
  <2>6. ASSUME NEW v \in DOMAIN file', e < v, v < u PROVE file'[v][1] = Log!Zero
    <3>1. ~ Old(v) /\ ~ InPart(v, f, z, n)
      BY <1>1, <1>2, <2>1, <2>6 DEF Old, InPart
    <3> QED BY <1>2, <3>1 DEF InTrailer
  <2> QED BY <2>4, <2>5, <2>6
<1> QED BY <1>2, <1>5, <1>6, <1>7

LEMMA EmitOrder ==
    ASSUME NEW f, NEW z, NEW n, NEW w, Emits(f, z, n, w)
    PROVE  OrderRight'
<1>0. FileRight /\ OrderRight
  BY DEF Emits, FileRight
<1>1. /\ Len(file) \in Nat /\ z \in Nat /\ n \in Nat /\ f # Log!Zero /\ Log!Current \in Nat /\ DOMAIN made = 1..Log!Current
      /\ Len(made[Log!Current].parts) \in Nat /\ Log!Current \in DOMAIN made
      /\ DOMAIN made[Log!Current].parts = 1..Len(made[Log!Current].parts) /\ LogTypes
  BY EmitTypes
<1>2. /\ \A u \in DOMAIN file' : Old(u) \/ InTrailer(u, z) \/ InPart(u, f, z, n)
      /\ \A u \in DOMAIN file : u \in Nat /\ u <= Len(file)
      /\ \A u \in DOMAIN file' : u \in Nat
  BY UnitsOfNew
<1>4. f.record = Log!Current /\ f.part = Len(made[Log!Current].parts) + 1
  BY DEF Emits
<1> SUFFICES ASSUME NEW u \in DOMAIN file', NEW v \in DOMAIN file', u < v, file'[u][1] # Log!Zero, file'[v][1] # Log!Zero
             PROVE  /\ file'[u][1].record <= file'[v][1].record
                    /\ file'[u][1].record = file'[v][1].record => file'[u][1].part <= file'[v][1].part
                    /\ file'[u] # file'[v]
  BY DEF OrderRight
<1>5. ~ InTrailer(u, z) /\ ~ InTrailer(v, z)
  BY DEF InTrailer
<1>6. CASE Old(u) /\ Old(v)
  BY <1>0, <1>6 DEF Old, OrderRight
<1>7. CASE Old(u) /\ InPart(v, f, z, n)
  <2>1. u \in DOMAIN file /\ file'[u] = file[u] /\ file'[v][1] = f
    BY <1>7 DEF Old, InPart
  <2>2. IsPart(file[u][1]) /\ file[u][1].record \in DOMAIN made
    BY <1>0, <2>1, UnitOf
  <2>3. file[u][1].record <= Log!Current
    BY <1>1, <2>2
  <2>4. file[u][1].record = Log!Current => file[u][1].part \in DOMAIN made[Log!Current].parts
    BY <2>2 DEF IsPart
  <2>5. file[u][1].record = Log!Current => file[u][1].part <= f.part
    BY <1>1, <1>4, <2>4
  <2>6. file[u][1] # f
    BY <2>2, PartsOfNew
  <2> QED BY <1>4, <2>1, <2>3, <2>5, <2>6
<1>8. CASE InPart(u, f, z, n) /\ Old(v)
  BY <1>1, <1>2, <1>8 DEF Old, InPart
<1>9. CASE InPart(u, f, z, n) /\ InPart(v, f, z, n)
  <2>1. file'[u] = <<f, u - (Len(file) + z)>> /\ file'[v] = <<f, v - (Len(file) + z)>> /\ u \in Nat /\ v \in Nat
    BY <1>2, <1>9 DEF InPart
  <2>2. u - (Len(file) + z) # v - (Len(file) + z)
    BY <1>1, <2>1
  <2>3. file'[u] # file'[v] /\ file'[u][1] = f /\ file'[v][1] = f
    BY <2>1, <2>2
  <2> QED BY <1>1, <1>4, <2>3
<1> QED BY <1>2, <1>5, <1>6, <1>7, <1>8, <1>9

LEMMA EmitBlocks ==
    ASSUME NEW f, NEW z, NEW n, NEW w, Emits(f, z, n, w)
    PROVE  BlocksRight'
<1>0. /\ FileRight /\ BlocksRight /\ writer.on /\ z < HeaderSize /\ f.record = Log!Current
      /\ (faults'.writes = 0 => faults.writes = 0) /\ (Regular => \E s \in Nat : FitsBlock(f, z, s))
  BY DEF Emits, FileRight
<1>1. /\ Len(file) \in Nat /\ z \in Nat /\ n \in Nat /\ f # Log!Zero /\ Log!Current \in Nat /\ DOMAIN made = 1..Log!Current
      /\ Length(f) \in Nat /\ HeaderSize \in Nat /\ Log!Current \in DOMAIN made
  BY EmitTypes
<1>2. /\ \A u \in DOMAIN file' : Old(u) \/ InTrailer(u, z) \/ InPart(u, f, z, n)
      /\ \A u \in DOMAIN file : u \in Nat /\ u <= Len(file)
      /\ \A u \in DOMAIN file' : u \in Nat
  BY UnitsOfNew
<1>3. /\ DOMAIN made' = DOMAIN made
      /\ \A r \in DOMAIN made : made'[r].start = made[r].start /\ (r # Log!Current => made'[r] = made[r])
  BY PartsOfNew
<1>4. ASSUME NEW r \in DOMAIN made, faults'.writes = 0 \/ \A t \in DOMAIN made' : t < r => made'[t].whole PROVE Good(r)
  <2>1. ASSUME NEW t \in DOMAIN made, t < r PROVE t # Log!Current
    BY <1>1, <2>1
  <2>2. CASE \A t \in DOMAIN made' : t < r => made'[t].whole
    <3>1. \A t \in DOMAIN made : t < r => made[t].whole
      BY <1>3, <2>1, <2>2
    <3> QED BY <3>1 DEF Good
  <2>3. CASE faults'.writes = 0
    BY <1>0, <2>3 DEF Good
  <2> QED BY <1>4, <2>2, <2>3
<1>5. Good(Log!Current) => Regular
  <2> SUFFICES ASSUME Good(Log!Current), faults.writes # 0, NEW t \in DOMAIN made, t # Log!Current PROVE made[t].whole
    BY <1>0 DEF Regular
  <2>1. t < Log!Current
    BY <1>1
  <2> QED BY <2>1 DEF Good
<1> SUFFICES ASSUME NEW u \in DOMAIN file', NEW p, p = file'[u][1]
             PROVE  /\ p # Log!Zero /\ file'[u][2] = 1
                       /\ (faults'.writes = 0 \/ \A t \in DOMAIN made' : t < p.record => made'[t].whole)
                       => u - 1 + Length(p) <= BlockStart(u - 1) + BlockSize
                    /\ p = Log!Zero /\ (\A s \in DOMAIN made' : made'[s].start < u =>
                                           faults'.writes = 0 \/ \A t \in DOMAIN made' : t < s => made'[t].whole)
                       => BlockStart(u - 1) + BlockSize < u - 1 + HeaderSize
  BY DEF BlocksRight, Good, BlockStart, Length
<1>6. CASE Old(u)
  <2>1. u \in DOMAIN file /\ p = file[u][1] /\ file'[u] = file[u]
    BY <1>6 DEF Old
  <2>2. p # Log!Zero => p.record \in DOMAIN made
    BY <1>0, <2>1, UnitOf
  <2>3. ASSUME p # Log!Zero, file'[u][2] = 1, faults'.writes = 0 \/ \A t \in DOMAIN made' : t < p.record => made'[t].whole
        PROVE  u - 1 + Length(p) <= BlockStart(u - 1) + BlockSize
    <3>1. Good(p.record)
      BY <1>4, <2>2, <2>3
    <3> QED BY <1>0, <2>1, <2>3, <3>1 DEF BlocksRight
  <2>4. ASSUME p = Log!Zero, \A s \in DOMAIN made' : made'[s].start < u =>
                            faults'.writes = 0 \/ \A t \in DOMAIN made' : t < s => made'[t].whole
        PROVE  BlockStart(u - 1) + BlockSize < u - 1 + HeaderSize
    <3>1. \A s \in DOMAIN made : made[s].start < u => Good(s)
      BY <1>3, <1>4, <2>4
    <3> QED BY <1>0, <2>1, <2>4, <3>1 DEF BlocksRight
  <2> QED BY <2>3, <2>4
<1>7. CASE InTrailer(u, z)
  <2>1. p = Log!Zero /\ Len(file) < u /\ u <= Len(file) + z /\ u \in Nat
    BY <1>2, <1>7 DEF InTrailer
  <2>2. SUFFICES ASSUME \A s \in DOMAIN made' : made'[s].start < u =>
                            faults'.writes = 0 \/ \A t \in DOMAIN made' : t < s => made'[t].whole
                 PROVE  BlockStart(u - 1) + BlockSize < u - 1 + HeaderSize
    BY <2>1
  <2>3. made[Log!Current].start < u
    <3>1. made[Log!Current].start <= Len(file) /\ made[Log!Current].start \in Nat
      BY <1>0, <1>1, FileTypes DEF FileRight, StartsRight
    <3> QED BY <1>1, <2>1, <3>1
  <2>4. Regular
    BY <1>1, <1>3, <1>4, <1>5, <2>2, <2>3
  <2>5. PICK s \in Nat : FitsBlock(f, z, s)
    BY <1>0, <2>4
  <2>6. BlockStart(Len(file)) + BlockSize = Len(file) + z
    BY <1>1, <2>1, <2>5 DEF FitsBlock
  <2>7. BlockStart(Len(file)) \in Nat /\ BlockStart(Len(file)) <= Len(file) /\ BlockSize \in Nat
    BY <1>1, BlockOf, LogSizes
  <2>8. u - 1 \in Nat /\ Len(file) <= u - 1 /\ u - 1 < Len(file) + z
    BY <1>1, <2>1
  <2>9. BlockStart(u - 1) = BlockStart(Len(file))
    <3>1. PICK x : x = u - 1
      OBVIOUS
    <3>2. x \in Nat /\ BlockStart(Len(file)) <= x /\ x < BlockStart(Len(file)) + BlockSize
      BY <1>1, <2>6, <2>7, <2>8, <3>1
    <3> QED BY <1>1, <3>1, <3>2, SameBlockOf
  <2> QED BY <1>0, <1>1, <2>6, <2>7, <2>8, <2>9
<1>8. CASE InPart(u, f, z, n)
  <2>1. p = f /\ file'[u][2] = u - (Len(file) + z) /\ u \in Nat
    BY <1>2, <1>8 DEF InPart
  <2>2. SUFFICES ASSUME file'[u][2] = 1, faults'.writes = 0 \/ \A t \in DOMAIN made' : t < Log!Current => made'[t].whole
                 PROVE  u - 1 + Length(f) <= BlockStart(u - 1) + BlockSize
    BY <1>0, <1>1, <2>1
  <2>3. u - 1 = Len(file) + z
    BY <1>1, <2>1, <2>2
  <2>4. Regular
    BY <1>1, <1>4, <1>5, <2>2
  <2>5. PICK s \in Nat : FitsBlock(f, z, s)
    BY <1>0, <2>4
  <2>6. BlockStart(Len(file) + z) = Len(file) + z - s /\ s + Length(f) <= BlockSize
    BY <2>5 DEF FitsBlock
  <2> QED BY <1>1, <2>3, <2>6, LogSizes
<1> QED BY <1>2, <1>6, <1>7, <1>8

LEMMA EmitWriter ==
    ASSUME NEW f, NEW z, NEW n, NEW w, Emits(f, z, n, w)
    PROVE  WriterAtEnd'
<1>0. /\ FileRight /\ WriterAtEnd /\ writer.on /\ Grown(f, z, n) /\ reader' = reader /\ reader.pc = "none"
      /\ (writer'.on => n = Length(f) /\ f.type \notin Ends /\ ~ w) /\ w \in BOOLEAN
  BY DEF Emits
<1>1. /\ Len(file) \in Nat /\ z \in Nat /\ n \in Nat /\ f # Log!Zero /\ Log!Current \in Nat /\ Log!Current > 0
      /\ Length(f) \in Nat /\ Length(f) >= HeaderSize /\ HeaderSize \in Nat /\ HeaderSize > 0
      /\ Len(made[Log!Current].parts) \in Nat /\ Log!Current \in DOMAIN made
      /\ DOMAIN made[Log!Current].parts = 1..Len(made[Log!Current].parts)
  BY EmitTypes
<1>2. \A u \in DOMAIN file : u \in DOMAIN file' /\ file'[u] = file[u]
  BY UnitsOfNew
<1>3. /\ Log!Current' = Log!Current /\ made'[Log!Current].whole = w
      /\ \A j \in DOMAIN made[Log!Current].parts : made'[Log!Current].parts[j] = made[Log!Current].parts[j]
      /\ Len(made'[Log!Current].parts) = Len(made[Log!Current].parts) + 1
      /\ DOMAIN made'[Log!Current].parts = 1..(Len(made[Log!Current].parts) + 1)
      /\ made'[Log!Current].parts[Len(made[Log!Current].parts) + 1] = f
  BY DEF Emits, Extended
<1> SUFFICES ASSUME writer'.on
             PROVE  /\ Log!Current > 0 /\ reader'.pc = "none" /\ ~ made'[Log!Current].whole
                    /\ \A j \in DOMAIN made'[Log!Current].parts : InNext(made'[Log!Current].parts[j])
                    /\ LET last == made'[Log!Current].parts[Len(made'[Log!Current].parts)]
                       IN  Len(file') > 0 /\ file'[Len(file')] = Log!LastUnit(last) /\ last.type \notin Ends
  BY <1>3 DEF WriterAtEnd, InFile, InNext, Log!LastUnit
<1>4. /\ Len(file') = Len(file) + z + n /\ Len(file') \in 1..(Len(file) + z + n)
      /\ Len(file) + z < Len(file') /\ Len(file') - (Len(file) + z) = Length(f)
  <2>1. Len(file') = Len(file) + z + n
    BY <1>0 DEF Grown
  <2> QED BY <1>0, <1>1, <2>1
<1>5. file'[Len(file')] = Log!LastUnit(f) /\ Len(file') \in DOMAIN file' /\ Len(file') > 0
  <2>1. file'[Len(file')] = <<f, Length(f)>> /\ Len(file') \in DOMAIN file'
    BY <1>0, <1>4 DEF Grown
  <2> QED BY <1>1, <1>4, <2>1 DEF Log!LastUnit, Length
<1>6. ASSUME NEW j \in DOMAIN made'[Log!Current].parts PROVE InNext(made'[Log!Current].parts[j])
  <2>1. j \in DOMAIN made[Log!Current].parts \/ j = Len(made[Log!Current].parts) + 1
    BY <1>1, <1>3, <1>6
  <2>2. CASE j \in DOMAIN made[Log!Current].parts
    <3>1. InFile(made[Log!Current].parts[j])
      BY <1>0, <2>2 DEF WriterAtEnd
    <3>2. PICK u \in DOMAIN file : file[u] = Log!LastUnit(made[Log!Current].parts[j])
      BY <3>1 DEF InFile
    <3> QED BY <1>2, <1>3, <2>2, <3>2 DEF InNext
  <2>3. CASE j = Len(made[Log!Current].parts) + 1
    BY <1>3, <1>5, <2>3 DEF InNext
  <2> QED BY <2>1, <2>2, <2>3
<1> QED BY <1>0, <1>1, <1>3, <1>5, <1>6

LEMMA EmitOffset ==
    ASSUME NEW f, NEW z, NEW n, NEW w, Emits(f, z, n, w)
    PROVE  OffsetRight'
<1>0. /\ FileRight /\ writer.on /\ w \in BOOLEAN /\ (w => n = Length(f)) /\ (writer'.on => n = Length(f))
      /\ (faults'.writes = 0 => faults.writes = 0 /\ n = Length(f)) /\ Grown(f, z, n)
      /\ (Regular => \E s \in Nat : FitsBlock(f, z, s) /\ offset' = s + Length(f))
  BY DEF Emits
<1>1. /\ Len(file) \in Nat /\ z \in Nat /\ n \in Nat /\ Length(f) \in Nat /\ Log!Current \in DOMAIN made
  BY EmitTypes
<1>2. /\ Log!Current' = Log!Current /\ DOMAIN made' = DOMAIN made /\ \A r \in DOMAIN made : r # Log!Current => made'[r] = made[r]
      /\ made'[Log!Current].whole = w
  BY PartsOfNew
<1> SUFFICES ASSUME Regular'
             PROVE  BlockStart(Len(file')) = Len(file') - offset' \/ (offset' = BlockSize /\ BlockStart(Len(file')) = Len(file'))
  BY DEF OffsetRight, OffsetAt, BlockStart
<1>3. faults'.writes = 0 \/ \A t \in DOMAIN made : made'[t].whole \/ (t = Log!Current /\ writer'.on)
  BY <1>2 DEF Regular
<1>4. n = Length(f)
  BY <1>0, <1>1, <1>2, <1>3
<1>5. Regular
  BY <1>0, <1>2, <1>3 DEF Regular
<1>6. PICK s \in Nat : FitsBlock(f, z, s) /\ offset' = s + Length(f)
  BY <1>0, <1>5
<1>7. BlockStart(Len(file) + z) = Len(file) + z - s /\ s + Length(f) <= BlockSize
  BY <1>6 DEF FitsBlock
<1>8. PICK x, y : x = Len(file) + z /\ y = Len(file')
  OBVIOUS
<1>9. x \in Nat /\ y \in Nat /\ y = x + Length(f) /\ BlockStart(x) = x - s /\ BlockStart(x) \in Nat /\ BlockSize \in Nat
  <2>1. Len(file') = Len(file) + z + n
    BY <1>0 DEF Grown
  <2>2. x \in Nat /\ y = x + Length(f) /\ BlockStart(x) = x - s
    BY <1>1, <1>4, <1>7, <1>8, <2>1
  <2>3. BlockStart(x) \in Nat
    BY <2>2, BlockOf
  <2>4. y \in Nat
    BY <1>1, <2>2
  <2> QED BY <2>2, <2>3, <2>4, LogSizes
<1>10. CASE s + Length(f) < BlockSize
  <2>1. BlockStart(x) <= y /\ y < BlockStart(x) + BlockSize
    BY <1>1, <1>6, <1>9, <1>10
  <2>2. BlockStart(y) = BlockStart(x)
    BY <1>9, <2>1, SameBlockOf
  <2> QED BY <1>1, <1>6, <1>8, <1>9, <2>2
<1>11. CASE s + Length(f) = BlockSize
  <2>1. y = BlockStart(x) + BlockSize
    BY <1>1, <1>9, <1>11
  <2>2. BlockStart(y) = y
    BY <1>9, <2>1, BlockBegins
  <2> QED BY <1>6, <1>8, <1>11, <2>2
<1> QED BY <1>1, <1>6, <1>7, <1>9, <1>10, <1>11

LEMMA EmitsStep ==
    ASSUME NEW f, NEW z, NEW n, NEW w, Emits(f, z, n, w)
    PROVE  LogInv'
<1>1. ReaderRight'
  BY DEF Emits, ReaderRight
<1> QED BY <1>1, EmitTypesNext, EmitParts, EmitUnits, EmitStarts, EmitCuts, EmitFollows, EmitOrder, EmitBlocks,
           EmitWriter, EmitOffset DEF LogInv, FileRight

-----------------------------------------------------------------------------
LEMMA JoinedTwo ==
    ASSUME NEW S, NEW s \in Seq(S), NEW t \in Seq(S)
    PROVE  /\ s \o t \in Seq(S) /\ Len(s \o t) = Len(s) + Len(t)
           /\ \A i \in 1..(Len(s) + Len(t)) : /\ i <= Len(s) => (s \o t)[i] = s[i]
                                              /\ Len(s) < i => (s \o t)[i] = t[i - Len(s)]
  OBVIOUS

JoinOf(g, s, t, v, S) ==
    /\ g \in Seq(S) /\ Len(g) = Len(s) + Len(t) + Len(v)
    /\ \A i \in 1..(Len(s) + Len(t) + Len(v)) :
          /\ i <= Len(s) => g[i] = s[i]
          /\ Len(s) < i /\ i <= Len(s) + Len(t) => g[i] = t[i - Len(s)]
          /\ Len(s) + Len(t) < i => g[i] = v[i - (Len(s) + Len(t))]

LEMMA Joined ==
    ASSUME NEW S, NEW s \in Seq(S), NEW t \in Seq(S), NEW v \in Seq(S)
    PROVE  JoinOf(s \o t \o v, s, t, v, S)
<1>0. PICK g : g = s \o t \o v
  OBVIOUS
<1>1. PICK h : h = s \o t
  OBVIOUS
<1>2. /\ h \in Seq(S) /\ Len(h) = Len(s) + Len(t)
      /\ \A i \in 1..(Len(s) + Len(t)) : /\ i <= Len(s) => h[i] = s[i]
                                         /\ Len(s) < i => h[i] = t[i - Len(s)]
  BY <1>1, JoinedTwo
<1>3. g = h \o v
  BY <1>0, <1>1
<1>4. /\ g \in Seq(S) /\ Len(g) = Len(h) + Len(v)
      /\ \A i \in 1..(Len(h) + Len(v)) : /\ i <= Len(h) => g[i] = h[i]
                                         /\ Len(h) < i => g[i] = v[i - Len(h)]
  <2>1. h \in Seq(S)
    BY <1>2
  <2>2. /\ h \o v \in Seq(S) /\ Len(h \o v) = Len(h) + Len(v)
        /\ \A i \in 1..(Len(h) + Len(v)) : /\ i <= Len(h) => (h \o v)[i] = h[i]
                                           /\ Len(h) < i => (h \o v)[i] = v[i - Len(h)]
    BY <2>1, JoinedTwo, Zenon
  <2> QED BY <1>3, <2>2, Zenon
<1>5. PICK m, n, k : m = Len(s) /\ n = Len(t) /\ k = Len(v)
  OBVIOUS
<1>6. m \in Nat /\ n \in Nat /\ k \in Nat
  BY <1>5
<1>7. SUFFICES ASSUME NEW i \in 1..(m + n + k)
               PROVE  /\ i <= m => g[i] = s[i]
                      /\ m < i /\ i <= m + n => g[i] = t[i - m]
                      /\ m + n < i => g[i] = v[i - (m + n)]
  <2>1. JoinOf(g, s, t, v, S)
    BY <1>2, <1>4, <1>5, <1>7 DEF JoinOf
  <2> QED BY <1>0, <2>1
<1>8. i \in 1..(m + n) => /\ i <= m => h[i] = s[i]
                          /\ m < i => h[i] = t[i - m]
  BY <1>2, <1>5
<1>9. /\ i <= m + n => g[i] = h[i]
      /\ m + n < i => g[i] = v[i - (m + n)]
  BY <1>2, <1>4, <1>5, <1>7
<1>10. i <= m => g[i] = s[i]
  <2> SUFFICES ASSUME i <= m PROVE g[i] = s[i]
    OBVIOUS
  <2>1. i <= m + n /\ i \in 1..(m + n)
    BY <1>6, <1>7
  <2> QED BY <1>8, <1>9, <2>1
<1>11. m < i /\ i <= m + n => g[i] = t[i - m]
  <2> SUFFICES ASSUME m < i, i <= m + n PROVE g[i] = t[i - m]
    OBVIOUS
  <2>1. i \in 1..(m + n)
    BY <1>6, <1>7
  <2> QED BY <1>8, <1>9, <2>1
<1> QED BY <1>9, <1>10, <1>11

(* What EmitPhysicalRecord appends. *)
LEMMA FragmentOf ==
    ASSUME LogTypes, writer.on, Log!Current \in DOMAIN made
    PROVE  /\ Log!Fragment \in Physical /\ Log!Fragment.type # "zero" /\ Log!Fragment.record = Log!Current
           /\ Log!Fragment.part = Len(made[Log!Current].parts) + 1
           /\ Log!Fragment.type \in Begins <=> made[Log!Current].parts = <<>>
           /\ Log!Fragment.type \in Ends <=> Log!Fragment.size = writer.left
           /\ Log!Fragment.size <= writer.left /\ writer.left \in Nat
           /\ Log!Start \in Nat /\ Log!Start + Length(Log!Fragment) <= BlockSize
<1>0. HeaderSize \in Nat /\ HeaderSize > 0 /\ BlockSize \in Nat /\ BlockSize > HeaderSize
  BY LogSizes
<1>1. writer.left \in Nat /\ offset \in 0..BlockSize /\ Log!Current \in Nat
  BY FileTypes DEF LogTypes
<1>2. Log!Start \in Nat /\ Log!Start <= BlockSize - HeaderSize
  BY <1>0, <1>1 DEF Log!Start, Log!NoRoom
<1> DEFINE size == Log!Lesser(writer.left, BlockSize - Log!Start - HeaderSize)
           begin == made[Log!Current].parts = <<>>
           end == size = writer.left
           type == CASE begin /\ end -> "full" [] begin /\ ~ end -> "first"
                     [] ~ begin /\ end -> "last" [] ~ begin /\ ~ end -> "middle"
<1>3. size \in Nat /\ size <= writer.left /\ Log!Start + HeaderSize + size <= BlockSize
  BY <1>0, <1>1, <1>2 DEF Log!Lesser
<1>4. Log!Fragment = [record |-> Log!Current, part |-> Len(made[Log!Current].parts) + 1, size |-> size, type |-> type]
  BY DEF Log!Fragment
<1>5. /\ type \in {"full", "first", "last", "middle"}
      /\ type \in Begins <=> begin
      /\ type \in Ends <=> end
  <2> HIDE DEF size, begin, end
  <2> QED BY DEF Begins, Ends
<1>6. Len(made[Log!Current].parts) \in Nat
  BY PartTypes
<1> HIDE DEF type, size
<1>7. Log!Fragment \in Physical
  BY <1>1, <1>3, <1>4, <1>5, <1>6 DEF Physical
<1>8. Log!Fragment.type = type /\ Log!Fragment.size = size
  BY <1>4
<1>9. Log!Start + Length(Log!Fragment) <= BlockSize
  BY <1>0, <1>2, <1>3, <1>8 DEF Length
<1>10. Log!Fragment.type \in Ends <=> Log!Fragment.size = writer.left
  BY <1>5, <1>8
<1> QED BY <1>1, <1>2, <1>3, <1>4, <1>5, <1>7, <1>8, <1>9, <1>10

LEMMA TrailerOf ==
    ASSUME LogTypes, Log!Current \in DOMAIN made
    PROVE  /\ Log!Trailer \in Seq(Physical \X Nat) /\ Len(Log!Trailer) \in Nat /\ Len(Log!Trailer) < HeaderSize
           /\ \A i \in 1..Len(Log!Trailer) : Log!Trailer[i] = <<Log!Zero, i>>
           /\ Len(Log!Trailer) = IF Log!NoRoom THEN BlockSize - offset ELSE 0
<1>0. HeaderSize \in Nat /\ HeaderSize > 0 /\ BlockSize \in Nat /\ offset \in 0..BlockSize
  BY LogSizes DEF LogTypes
<1>1. Log!Zero \in Physical
  BY DEF Log!Zero, Physical
<1>2. CASE Log!NoRoom
  <2>1. PICK z : z = BlockSize - offset
    OBVIOUS
  <2>2. z \in Nat /\ z < HeaderSize
    BY <1>0, <1>2, <2>1 DEF Log!NoRoom
  <2>3. Log!Trailer = [i \in 1..z |-> <<Log!Zero, i>>]
    BY <1>2, <2>1 DEF Log!Trailer
  <2>4. \A i \in 1..z : <<Log!Zero, i>> \in Physical \X Nat
    BY <1>1, <2>2
  <2>5. Log!Trailer \in Seq(Physical \X Nat) /\ Len(Log!Trailer) = z
    BY <2>2, <2>3, <2>4
  <2> QED BY <1>2, <2>1, <2>2, <2>3, <2>5
<1>3. CASE ~ Log!NoRoom
  <2>1. Log!Trailer = <<>>
    BY <1>3 DEF Log!Trailer
  <2> QED BY <1>0, <1>3, <2>1
<1> QED BY <1>2, <1>3

LEMMA UnitsOf ==
    ASSUME NEW p \in Physical, NEW n \in Nat, n <= Length(p)
    PROVE  /\ SubSeq(Log!Units(p), 1, n) \in Seq(Physical \X Nat) /\ Len(SubSeq(Log!Units(p), 1, n)) = n
           /\ \A i \in 1..n : SubSeq(Log!Units(p), 1, n)[i] = <<p, i>>
           /\ n = Length(p) => SubSeq(Log!Units(p), 1, n) = Log!Units(p)
<1>1. Length(p) \in Nat
  BY LengthOf
<1>2. Log!Units(p) = [i \in 1..Length(p) |-> <<p, i>>]
  BY DEF Log!Units, Length
<1>3. \A i \in 1..Length(p) : <<p, i>> \in Physical \X Nat
  BY <1>1
<1>4. Log!Units(p) \in Seq(Physical \X Nat) /\ Len(Log!Units(p)) = Length(p) /\ \A i \in 1..Length(p) : Log!Units(p)[i] = <<p, i>>
  BY <1>1, <1>2, <1>3
<1> QED BY <1>1, <1>4

LEMMA GrownBy ==
    ASSUME LogTypes, NEW p \in Physical, NEW n \in Nat, n <= Length(p), Log!Current \in DOMAIN made,
           file' = file \o Log!Trailer \o SubSeq(Log!Units(p), 1, n)
    PROVE  Grown(p, Len(Log!Trailer), n)
<1> DEFINE S == Physical \X Nat
           z == Len(Log!Trailer)
           v == SubSeq(Log!Units(p), 1, n)
<1>1. file \in Seq(S) /\ Len(file) \in Nat /\ DOMAIN file = 1..Len(file)
  BY FileTypes DEF LogTypes
<1>2. Log!Trailer \in Seq(S) /\ z \in Nat /\ \A i \in 1..z : Log!Trailer[i] = <<Log!Zero, i>>
  BY TrailerOf
<1>3. v \in Seq(S) /\ Len(v) = n /\ \A i \in 1..n : v[i] = <<p, i>>
  BY UnitsOf
<1> HIDE DEF S, v
<1>4. file' = file \o Log!Trailer \o v
  BY DEF v
<1>5. /\ file' \in Seq(S) /\ Len(file') = Len(file) + z + n
      /\ \A i \in 1..(Len(file) + z + n) :
            /\ i <= Len(file) => file'[i] = file[i]
            /\ Len(file) < i /\ i <= Len(file) + z => file'[i] = Log!Trailer[i - Len(file)]
            /\ Len(file) + z < i => file'[i] = v[i - (Len(file) + z)]
  <2>1. JoinOf(file \o Log!Trailer \o v, file, Log!Trailer, v, S)
    BY <1>1, <1>2, <1>3, Joined, Zenon
  <2>2. JoinOf(file', file, Log!Trailer, v, S)
    BY <1>4, <2>1
  <2> QED BY <1>3, <2>2 DEF JoinOf
<1> HIDE DEF z
<1>6. DOMAIN file' = 1..(Len(file) + z + n)
  BY <1>5
<1>7. \A u \in DOMAIN file : file'[u] = file[u]
  <2> SUFFICES ASSUME NEW u \in 1..Len(file) PROVE file'[u] = file[u]
    BY <1>1
  <2>1. u \in 1..(Len(file) + z + n) /\ u <= Len(file)
    BY <1>1, <1>2
  <2> QED BY <1>5, <2>1
<1>8. ASSUME NEW u \in 1..(Len(file) + z + n), Len(file) < u, u <= Len(file) + z PROVE file'[u] = <<Log!Zero, u - Len(file)>>
  <2>1. u - Len(file) \in 1..z
    BY <1>1, <1>2, <1>8
  <2> QED BY <1>2, <1>5, <1>8, <2>1
<1>9. ASSUME NEW u \in 1..(Len(file) + z + n), Len(file) + z < u PROVE file'[u] = <<p, u - (Len(file) + z)>>
  <2>1. u - (Len(file) + z) \in 1..n
    BY <1>1, <1>2, <1>9
  <2> QED BY <1>3, <1>5, <1>9, <2>1
<1> QED BY <1>5, <1>6, <1>7, <1>8, <1>9 DEF Grown, S, z

LEMMA ChangedAt ==
    ASSUME NEW S, NEW s \in Seq(S), NEW i \in DOMAIN s, NEW e \in S
    PROVE  /\ [s EXCEPT ![i] = e] \in Seq(S) /\ Len([s EXCEPT ![i] = e]) = Len(s)
           /\ DOMAIN [s EXCEPT ![i] = e] = DOMAIN s /\ [s EXCEPT ![i] = e][i] = e
           /\ \A j \in DOMAIN s : j # i => [s EXCEPT ![i] = e][j] = s[j]
  OBVIOUS

LEMMA ExtendedBy ==
    ASSUME LogTypes, Log!Current \in DOMAIN made, NEW p \in Physical, NEW w \in BOOLEAN,
           made' = [made EXCEPT ![Log!Current].parts = Append(@, p), ![Log!Current].whole = w]
    PROVE  Extended(p, w)
<1> DEFINE R == [parts : Seq(Physical), start : Nat, whole : BOOLEAN]
           P == Append(made[Log!Current].parts, p)
           new == [parts |-> P, start |-> made[Log!Current].start, whole |-> w]
<1>1. made \in Seq(R) /\ made[Log!Current] \in R
  BY ElementOf DEF LogTypes
<1>2. made[Log!Current].parts \in Seq(Physical) /\ made[Log!Current].start \in Nat
  BY <1>1
<1>3. /\ P \in Seq(Physical) /\ Len(P) = Len(made[Log!Current].parts) + 1
      /\ DOMAIN P = 1..(Len(made[Log!Current].parts) + 1)
      /\ \A j \in DOMAIN made[Log!Current].parts : P[j] = made[Log!Current].parts[j]
      /\ P[Len(made[Log!Current].parts) + 1] = p
  BY <1>2
<1>4. [[made[Log!Current] EXCEPT !.parts = P] EXCEPT !.whole = w] = new
  <2> HIDE DEF P
  <2>1. PICK m : m = made[Log!Current]
    OBVIOUS
  <2>2. m = [parts |-> m.parts, start |-> m.start, whole |-> m.whole]
    BY <1>1, <2>1
  <2>3. [m EXCEPT !.parts = P] = [parts |-> P, start |-> m.start, whole |-> m.whole]
    BY <2>2
  <2>4. [[parts |-> P, start |-> m.start, whole |-> m.whole] EXCEPT !.whole = w]
          = [parts |-> P, start |-> m.start, whole |-> w]
    OBVIOUS
  <2> QED BY <2>1, <2>3, <2>4
<1>5. made' = [made EXCEPT ![Log!Current] = new]
  <2>1. made' = [made EXCEPT ![Log!Current] = [[made[Log!Current] EXCEPT !.parts = P] EXCEPT !.whole = w]]
    OBVIOUS
  <2> QED BY <1>4, <2>1
<1>6. new \in R
  <2> HIDE DEF P
  <2> QED BY <1>2, <1>3
<1> HIDE DEF new, R, P
<1>7. /\ made' \in Seq(R) /\ Len(made') = Len(made) /\ DOMAIN made' = DOMAIN made /\ made'[Log!Current] = new
      /\ \A r \in DOMAIN made : r # Log!Current => made'[r] = made[r]
  <2>1. made \in Seq(R)
    BY <1>1
  <2>2. /\ [made EXCEPT ![Log!Current] = new] \in Seq(R) /\ Len([made EXCEPT ![Log!Current] = new]) = Len(made)
        /\ DOMAIN [made EXCEPT ![Log!Current] = new] = DOMAIN made /\ [made EXCEPT ![Log!Current] = new][Log!Current] = new
        /\ \A j \in DOMAIN made : j # Log!Current => [made EXCEPT ![Log!Current] = new][j] = made[j]
    BY <1>6, <2>1, ChangedAt, Zenon
  <2> QED BY <1>5, <2>2, Zenon
<1>8. made'[Log!Current].parts = P /\ made'[Log!Current].start = made[Log!Current].start /\ made'[Log!Current].whole = w
  BY <1>7 DEF new
<1>9. Log!Current' = Log!Current
  BY <1>7 DEF Log!Current
<1> QED BY <1>3, <1>7, <1>8, <1>9 DEF Extended, R

(* The offset says how much room the block has. *)
LEMMA FitsBlockOf ==
    ASSUME LogTypes, writer.on, Log!Current \in DOMAIN made, OffsetAt(offset, Len(file))
    PROVE  FitsBlock(Log!Fragment, Len(Log!Trailer), Log!Start)
<1>0. HeaderSize \in Nat /\ HeaderSize > 0 /\ BlockSize \in Nat /\ offset \in Nat /\ offset <= BlockSize
      /\ BlockSize > HeaderSize
  BY LogSizes DEF LogTypes
<1>1. Len(file) \in Nat /\ Log!Start \in Nat /\ Log!Start + Length(Log!Fragment) <= BlockSize
  BY FileTypes, FragmentOf
<1>2. Len(Log!Trailer) = IF Log!NoRoom THEN BlockSize - offset ELSE 0
  BY TrailerOf
<1>3. BlockStart(Len(file)) \in Nat /\ BlockStart(Len(file)) <= Len(file) /\ Len(file) < BlockStart(Len(file)) + BlockSize
  BY <1>1, BlockOf
<1>4. BlockStart(Len(file)) = Len(file) - offset \/ (offset = BlockSize /\ BlockStart(Len(file)) = Len(file))
  BY DEF OffsetAt
<1>5. CASE ~ Log!NoRoom
  <2>1. Len(Log!Trailer) = 0 /\ Log!Start = offset /\ offset < BlockSize /\ Len(file) + 0 = Len(file)
    BY <1>0, <1>1, <1>2, <1>5 DEF Log!NoRoom, Log!Start
  <2>2. offset # BlockSize
    BY <1>0, <2>1
  <2>3. BlockStart(Len(file)) = Len(file) - offset
    BY <1>4, <2>2
  <2>4. PICK x : x = Len(file) + Len(Log!Trailer)
    OBVIOUS
  <2>5. x = Len(file) /\ ~ (Len(Log!Trailer) > 0)
    BY <2>1, <2>4
  <2>6. BlockStart(x) = x - Log!Start
    BY <2>1, <2>3, <2>5
  <2> QED BY <1>1, <2>4, <2>5, <2>6 DEF FitsBlock
<1>6. CASE Log!NoRoom
  <2>1. Len(Log!Trailer) = BlockSize - offset /\ Log!Start = 0
    BY <1>2, <1>6 DEF Log!Start
  <2>2. CASE offset = BlockSize
    <3>1. Len(Log!Trailer) = 0 /\ Len(file) + 0 = Len(file) /\ Len(file) - 0 = Len(file)
      BY <1>0, <1>1, <2>1, <2>2
    <3>2. BlockStart(Len(file)) = Len(file)
      BY <1>0, <1>1, <1>3, <1>4, <2>2
    <3> QED BY <1>1, <2>1, <3>1, <3>2 DEF FitsBlock
  <2>3. CASE offset # BlockSize
    <3>1. PICK x : x = Len(file) + Len(Log!Trailer)
      OBVIOUS
    <3>2. x = BlockStart(Len(file)) + BlockSize /\ x \in Nat /\ x - 0 = x
      BY <1>0, <1>1, <1>3, <1>4, <2>1, <2>3, <3>1
    <3>3. BlockStart(x) = x
      BY <1>1, <3>2, BlockBegins
    <3> QED BY <1>1, <2>1, <3>1, <3>2, <3>3 DEF FitsBlock
  <2> QED BY <2>2, <2>3
<1> QED BY <1>5, <1>6

LEMMA EmitSteps == ASSUME LogInv, Log!EmitPhysicalRecord \/ Log!EmitFails PROVE LogInv'
<1>0. FileRight /\ LogTypes /\ WriterAtEnd /\ OffsetRight /\ reader.pc = "none" /\ writer.on /\ reader' = reader
  BY DEF LogInv, FileRight, Log!EmitPhysicalRecord, Log!EmitFails, Log!Writes
<1>1. Log!Current \in DOMAIN made
  BY <1>0, FileTypes DEF WriterAtEnd
<1>2. PICK f : f = Log!Fragment
  OBVIOUS
<1>3. /\ f \in Physical /\ f.type # "zero" /\ f.record = Log!Current
      /\ f.part = Len(made[Log!Current].parts) + 1
      /\ f.type \in Begins <=> made[Log!Current].parts = <<>>
      /\ f.type \in Ends <=> f.size = writer.left
      /\ f.size <= writer.left /\ writer.left \in Nat
      /\ Log!Start \in Nat /\ Log!Start + Length(f) <= BlockSize /\ f.size \in Nat /\ Length(f) \in Nat
  BY <1>0, <1>1, <1>2, FragmentOf, LengthOf DEF Physical
<1>4. Len(Log!Trailer) \in Nat /\ Len(Log!Trailer) < HeaderSize
  BY <1>0, <1>1, TrailerOf
<1>5. offset' = Log!Start + Length(f) /\ offset' \in 0..BlockSize
  <2>1. offset' = Log!Start + HeaderSize + f.size
    BY <1>2 DEF Log!EmitPhysicalRecord, Log!EmitFails
  <2> QED BY <1>3, <2>1, LogSizes DEF Length
<1>6. Regular => FitsBlock(f, Len(Log!Trailer), Log!Start)
  BY <1>0, <1>1, <1>2, FitsBlockOf DEF OffsetRight
<1>7. CASE Log!EmitPhysicalRecord
  <2> DEFINE n == Length(f)
             w == f.size = writer.left
  <2>1. /\ file' = file \o Log!Trailer \o Log!Units(f) /\ made' = Log!Emitted(w) /\ UNCHANGED <<reader, faults>>
        /\ writer' = IF f.size = writer.left THEN Log!NoWriter ELSE [writer EXCEPT !.left = @ - f.size]
    BY <1>2, <1>7 DEF Log!EmitPhysicalRecord
  <2>2. Grown(f, Len(Log!Trailer), n)
    <3>1. n <= Length(f) /\ n \in Nat
      BY <1>3
    <3>2. SubSeq(Log!Units(f), 1, n) = Log!Units(f)
      BY <1>3, <3>1, UnitsOf
    <3>3. file' = file \o Log!Trailer \o SubSeq(Log!Units(f), 1, n)
      BY <2>1, <3>2
    <3> QED BY <1>0, <1>1, <1>3, <3>1, <3>3, GrownBy
  <2>3. w \in BOOLEAN
    OBVIOUS
  <2> HIDE DEF w
  <2>4. Extended(f, w)
    <3>1. made' = [made EXCEPT ![Log!Current].parts = Append(@, f), ![Log!Current].whole = w]
      BY <1>2, <2>1 DEF Log!Emitted
    <3> QED BY <1>0, <1>1, <1>3, <2>3, <3>1, ExtendedBy
  <2>5. writer' \in [on : BOOLEAN, left : Nat] /\ (writer'.on => ~ w)
    <3>1. writer \in [on : BOOLEAN, left : Nat]
      BY <1>0 DEF LogTypes
    <3>2. ~ w => writer.left - f.size \in Nat
      BY <1>3 DEF w
    <3>3. w => writer' = Log!NoWriter
      BY <2>1 DEF w
    <3>4. ~ w => writer' = [writer EXCEPT !.left = @ - f.size]
      BY <2>1 DEF w
    <3>5. CASE w
      <4>1. Log!NoWriter \in [on : BOOLEAN, left : Nat] /\ Log!NoWriter.on = FALSE
        BY DEF Log!NoWriter
      <4>2. writer' = Log!NoWriter
        BY <3>3, <3>5
      <4> QED BY <4>1, <4>2
    <3>6. CASE ~ w
      <4>1. PICK k : k = writer.left - f.size
        OBVIOUS
      <4>2. writer' = [writer EXCEPT !.left = k] /\ k \in Nat
        BY <3>2, <3>4, <3>6, <4>1
      <4>3. [writer EXCEPT !.left = k] \in [on : BOOLEAN, left : Nat]
        BY <3>1, <4>2
      <4> QED BY <3>6, <4>2, <4>3
    <3> QED BY <2>3, <3>5, <3>6
  <2>6. (w => f.type \in Ends) /\ (writer'.on => f.type \notin Ends)
    BY <1>3, <2>5 DEF w
  <2>7. faults' \in [writes : Nat, crashes : Nat] /\ faults' = faults
    BY <1>0, <2>1 DEF LogTypes
  <2>8. n \in Nat /\ n <= Length(f)
    BY <1>3
  <2>9. Emits(f, Len(Log!Trailer), n, w)
    BY <1>0, <1>3, <1>4, <1>5, <1>6, <2>2, <2>3, <2>4, <2>5, <2>6, <2>7, <2>8 DEF Emits
  <2> QED BY <2>9, EmitsStep
<1>8. CASE Log!EmitFails
  <2>1. PICK n \in 0..(HeaderSize + f.size) : file' = file \o Log!Trailer \o SubSeq(Log!Units(f), 1, n)
    BY <1>2, <1>8 DEF Log!EmitFails
  <2>2. made' = Log!Emitted(FALSE) /\ writer' = Log!NoWriter /\ faults' = [faults EXCEPT !.writes = @ + 1]
    BY <1>8 DEF Log!EmitFails
  <2>3. n \in Nat /\ n <= Length(f)
    BY <1>3, <2>1, LogSizes DEF Length
  <2>4. Grown(f, Len(Log!Trailer), n)
    BY <1>0, <1>1, <1>3, <2>1, <2>3, GrownBy
  <2>5. Extended(f, FALSE)
    <3>1. made' = [made EXCEPT ![Log!Current].parts = Append(@, f), ![Log!Current].whole = FALSE]
      BY <1>2, <2>2 DEF Log!Emitted
    <3> QED BY <1>0, <1>1, <1>3, <3>1, ExtendedBy
  <2>6. writer' \in [on : BOOLEAN, left : Nat] /\ ~ writer'.on
    BY <2>2 DEF Log!NoWriter
  <2>7. faults' \in [writes : Nat, crashes : Nat] /\ faults'.writes # 0
    <3>1. faults \in [writes : Nat, crashes : Nat]
      BY <1>0 DEF LogTypes
    <3>2. PICK k : k = faults.writes + 1
      OBVIOUS
    <3>3. k \in Nat /\ k # 0
      BY <3>1, <3>2
    <3>4. faults' = [faults EXCEPT !.writes = k]
      BY <2>2, <3>2
    <3> QED BY <3>1, <3>3, <3>4
  <2>8. Emits(f, Len(Log!Trailer), n, FALSE)
    BY <1>0, <1>3, <1>4, <1>5, <1>6, <2>3, <2>4, <2>5, <2>6, <2>7 DEF Emits
  <2> QED BY <2>8, EmitsStep
<1> QED BY <1>7, <1>8

(***************************************************************************)
(* Crash: the first n units of the file are kept, and the first k records. *)
(***************************************************************************)
CutTo(n, k) ==
    /\ FileRight /\ n \in Nat /\ n <= Len(file) /\ k \in Nat /\ k <= Log!Current
    /\ file' \in Seq(Physical \X Nat) /\ Len(file') = n /\ DOMAIN file' = 1..n /\ \A u \in 1..n : file'[u] = file[u]
    /\ Log!Current' = k /\ DOMAIN made' = 1..k /\ made' \in Seq([parts : Seq(Physical), start : Nat, whole : BOOLEAN])
    /\ \A r \in 1..k : /\ made'[r].parts = made[r].parts /\ made'[r].start = made[r].start /\ made[r].start < n
                       /\ made'[r].whole => made[r].whole /\ Log!Kept(r, n)
    /\ \A r \in DOMAIN made : k < r => n <= made[r].start
    /\ writer' = Log!NoWriter /\ reader' = [Log!NoReader EXCEPT !.pc = "reads"] /\ offset' = offset
    /\ faults' \in [writes : Nat, crashes : Nat] /\ faults'.writes = faults.writes

(* The records that start in a prefix of the file are the first ones. *)
LEMMA FirstRecords ==
    ASSUME FileRight, NEW n \in Nat
    PROVE  \E k \in Nat : k <= Log!Current /\ {r \in DOMAIN made : made[r].start < n} = 1..k
<1>0. Log!Current \in Nat /\ DOMAIN made = 1..Log!Current /\ \A r \in DOMAIN made : made[r].start \in Nat
  BY FileTypes DEF FileRight
<1>1. \A r, s \in DOMAIN made : r < s => made[r].start <= made[s].start
  BY DEF FileRight, StartsRight
<1> DEFINE D == {r \in DOMAIN made : made[r].start < n}
           E == {r \in 1..(Log!Current + 1) : r \notin D}
<1>2. Log!Current + 1 \in E
  BY <1>0
<1>3. E \subseteq Nat
  BY <1>0
<1>4. PICK m \in E : \A y \in E : m <= y
  <2> HIDE DEF E
  <2> QED BY <1>2, <1>3, LeastOf
<1>5. m \in 1..(Log!Current + 1) /\ m \notin D
  BY <1>4
<1>6. ASSUME NEW r \in D PROVE r \in 1..(m - 1)
  <2>1. r \in 1..Log!Current /\ made[r].start < n
    BY <1>0, <1>6
  <2>2. SUFFICES ASSUME m <= r PROVE FALSE
    BY <1>0, <1>5, <2>1
  <2>3. m \in DOMAIN made
    BY <1>0, <1>5, <2>1, <2>2
  <2>4. made[m].start <= made[r].start
    <3>1. CASE m = r
      BY <1>0, <2>3, <3>1
    <3>2. CASE m < r
      BY <1>1, <1>0, <2>1, <2>3, <3>2
    <3> QED BY <1>0, <1>5, <2>1, <2>2, <3>1, <3>2
  <2>5. ~ (made[m].start < n)
    BY <1>5, <2>3
  <2>6. r \in DOMAIN made /\ made[r].start < n
    BY <1>0, <2>1
  <2>7. made[m].start \in Nat /\ made[r].start \in Nat
    BY <1>0, <2>3, <2>6
  <2> QED BY <2>4, <2>5, <2>6, <2>7
<1>7. ASSUME NEW r \in 1..(m - 1) PROVE r \in D
  <2>1. r \in 1..(Log!Current + 1) /\ ~ (m <= r)
    BY <1>0, <1>5
  <2> HIDE DEF D
  <2>2. r \notin E
    BY <1>4, <2>1
  <2> QED BY <2>1, <2>2
<1>8. D = 1..(m - 1) /\ m - 1 \in Nat /\ m - 1 <= Log!Current
  <2>1. D = 1..(m - 1)
    BY <1>6, <1>7
  <2> QED BY <1>0, <1>5, <2>1
<1> QED BY <1>8

LEMMA CutOf == ASSUME LogInv, Log!Crash PROVE \E n, k \in Nat : CutTo(n, k)
<1>0. FileRight /\ LogTypes
  BY DEF LogInv, FileRight
<1>1. /\ writer' = Log!NoWriter /\ reader' = [Log!NoReader EXCEPT !.pc = "reads"] /\ offset' = offset
      /\ faults' = [faults EXCEPT !.crashes = @ + 1]
  BY DEF Log!Crash
<1> DEFINE After(r, n) == [made[r] EXCEPT !.whole = @ /\ Log!Kept(r, n)]
           R == [parts : Seq(Physical), start : Nat, whole : BOOLEAN]
<1>2. PICK n \in 0..Len(file) :
         /\ file' = SubSeq(file, 1, n)
         /\ made' = [r \in {r \in DOMAIN made : made[r].start < n} |-> After(r, n)]
  BY DEF Log!Crash
<1>3. Len(file) \in Nat /\ Log!Current \in Nat /\ DOMAIN made = 1..Log!Current /\ n \in Nat /\ n <= Len(file)
      /\ \A r \in DOMAIN made : r \in Nat
  BY <1>0, <1>2, FileTypes
<1>4. PICK k \in Nat : k <= Log!Current /\ {r \in DOMAIN made : made[r].start < n} = 1..k
  BY <1>0, <1>3, FirstRecords
<1>5. /\ file' \in Seq(Physical \X Nat) /\ Len(file') = n /\ DOMAIN file' = 1..n /\ \A u \in 1..n : file'[u] = file[u]
  <2> DEFINE S == Physical \X Nat
  <2>1. file \in Seq(S)
    BY <1>0 DEF LogTypes
  <2> HIDE DEF S
  <2>2. file' \in Seq(S) /\ Len(file') = n /\ DOMAIN file' = 1..n /\ \A u \in 1..n : file'[u] = file[u]
    BY <1>2, <1>3, <2>1
  <2> QED BY <2>2 DEF S
<1>6. ASSUME NEW r \in 1..k
      PROVE  /\ After(r, n) \in R /\ After(r, n).parts = made[r].parts /\ After(r, n).start = made[r].start
             /\ made[r].start < n /\ (After(r, n).whole => made[r].whole /\ Log!Kept(r, n))
  <2>1. r \in DOMAIN made /\ made[r].start < n
    BY <1>4
  <2>2. made \in Seq(R)
    BY <1>0 DEF LogTypes
  <2>3. made[r] \in R
    BY <2>1, <2>2, ElementOf
  <2>4. PICK b \in BOOLEAN : b <=> (made[r].whole /\ Log!Kept(r, n))
    OBVIOUS
  <2>5. After(r, n) = [made[r] EXCEPT !.whole = b]
    BY <2>3, <2>4
  <2>6. [made[r] EXCEPT !.whole = b] \in R /\ [made[r] EXCEPT !.whole = b].parts = made[r].parts
        /\ [made[r] EXCEPT !.whole = b].start = made[r].start /\ [made[r] EXCEPT !.whole = b].whole = b
    BY <2>3
  <2> HIDE DEF After, R
  <2> QED BY <2>1, <2>4, <2>5, <2>6
<1>7. made' = [r \in 1..k |-> After(r, n)]
  BY <1>2, <1>4
<1>8. /\ Len(made') = k /\ DOMAIN made' = 1..k /\ made' \in Seq(R)
      /\ \A r \in 1..k : made'[r] = After(r, n)
  <2> HIDE DEF After, R
  <2> QED BY <1>6, <1>7
<1>9. \A r \in DOMAIN made : k < r => n <= made[r].start
  <2> SUFFICES ASSUME NEW r \in DOMAIN made, k < r PROVE n <= made[r].start
    OBVIOUS
  <2>1. r \notin 1..k
    BY <1>3
  <2>2. ~ (made[r].start < n)
    BY <1>4, <2>1
  <2>3. made[r].start \in Nat
    BY <1>0, FileTypes
  <2> QED BY <1>3, <2>2, <2>3
<1>10. faults' \in [writes : Nat, crashes : Nat] /\ faults'.writes = faults.writes
  <2>1. faults \in [writes : Nat, crashes : Nat]
    BY <1>0 DEF LogTypes
  <2>2. PICK c : c = faults.crashes + 1
    OBVIOUS
  <2>3. faults' = [faults EXCEPT !.crashes = c] /\ c \in Nat
    BY <1>1, <2>1, <2>2
  <2> QED BY <2>1, <2>3
<1>11. Log!Current' = k
  BY <1>8 DEF Log!Current
<1>12. ASSUME NEW r \in 1..k
       PROVE  /\ made'[r].parts = made[r].parts /\ made'[r].start = made[r].start /\ made[r].start < n
              /\ made'[r].whole => made[r].whole /\ Log!Kept(r, n)
  <2> HIDE DEF After, R
  <2> QED BY <1>6, <1>8
<1> HIDE DEF After
<1> QED BY <1>0, <1>1, <1>3, <1>4, <1>5, <1>8, <1>9, <1>10, <1>11, <1>12 DEF CutTo

LEMMA CutFacts ==
    ASSUME NEW n \in Nat, NEW k \in Nat, CutTo(n, k)
    PROVE  /\ FileRight /\ LogTypes /\ Len(file) \in Nat /\ Log!Current \in Nat /\ n <= Len(file) /\ k <= Log!Current
           /\ DOMAIN file = 1..Len(file) /\ DOMAIN made = 1..Log!Current
           /\ Len(file') = n /\ DOMAIN file' = 1..n /\ Log!Current' = k /\ DOMAIN made' = 1..k
           /\ \A u \in 1..n : u \in DOMAIN file /\ u \in Nat /\ u <= n /\ file'[u] = file[u]
           /\ \A u \in 1..n : file[u][1] # Log!Zero => file[u][1].record \in 1..k
           /\ \A r \in 1..k : /\ r \in DOMAIN made /\ r \in Nat /\ r <= k
                              /\ made'[r].parts = made[r].parts /\ made'[r].start = made[r].start /\ made[r].start < n
                              /\ made'[r].whole => made[r].whole /\ Log!Kept(r, n)
           /\ \A r \in DOMAIN made : k < r => n <= made[r].start
           /\ \A p : IsPart(p) /\ p.record \in 1..k => IsPartNext(p)
<1>1. /\ FileRight /\ LogTypes /\ StartsRight /\ n <= Len(file) /\ k <= Log!Current
      /\ Len(file') = n /\ DOMAIN file' = 1..n /\ Log!Current' = k /\ DOMAIN made' = 1..k
      /\ \A u \in 1..n : file'[u] = file[u]
      /\ \A r \in 1..k : /\ made'[r].parts = made[r].parts /\ made'[r].start = made[r].start /\ made[r].start < n
                         /\ made'[r].whole => made[r].whole /\ Log!Kept(r, n)
      /\ \A r \in DOMAIN made : k < r => n <= made[r].start
  BY DEF CutTo, FileRight
<1>2. Len(file) \in Nat /\ Log!Current \in Nat /\ DOMAIN file = 1..Len(file) /\ DOMAIN made = 1..Log!Current
  BY <1>1, FileTypes
<1>3. \A u \in 1..n : u \in DOMAIN file /\ u \in Nat /\ u <= n
  BY <1>1, <1>2
<1>4. \A r \in 1..k : r \in DOMAIN made /\ r \in Nat /\ r <= k
  BY <1>1, <1>2
<1>5. ASSUME NEW u \in 1..n, file[u][1] # Log!Zero PROVE file[u][1].record \in 1..k
  <2>1. PICK r : r = file[u][1].record
    OBVIOUS
  <2>2. r \in DOMAIN made /\ made[r].start < u
    BY <1>1, <1>3, <1>5, <2>1, UnitOf DEF StartsRight
  <2>3. made[r].start \in Nat /\ r \in 1..Log!Current
    BY <1>1, <1>2, <2>2, FileTypes
  <2>4. ~ (n <= made[r].start)
    BY <1>3, <2>2, <2>3
  <2>5. ~ (k < r)
    BY <1>1, <2>2, <2>4
  <2> QED BY <1>1, <1>2, <2>1, <2>3, <2>5
<1>6. \A p : IsPart(p) /\ p.record \in 1..k => IsPartNext(p)
  BY <1>1 DEF IsPart, IsPartNext
<1> QED BY <1>1, <1>2, <1>3, <1>4, <1>5, <1>6

LEMMA CutParts == ASSUME NEW n \in Nat, NEW k \in Nat, CutTo(n, k) PROVE PartsRight'
<1>0. FileRight /\ PartsRight
  BY CutFacts DEF FileRight
<1>1. DOMAIN made' = 1..k /\ DOMAIN file' = 1..n /\ \A u \in 1..n : file'[u] = file[u]
  BY CutFacts
<1> SUFFICES ASSUME NEW r \in 1..k
             PROVE  /\ \A j \in DOMAIN made'[r].parts :
                          LET p == made'[r].parts[j]
                          IN  /\ p.record = r /\ p.part = j /\ p.type \in Begins \cup Ends \cup {"middle"}
                              /\ p.type \in Begins <=> j = 1
                              /\ p.type \in Ends => j = Len(made'[r].parts)
                    /\ made'[r].whole =>
                          /\ made'[r].parts # <<>> /\ made'[r].parts[Len(made'[r].parts)].type \in Ends
                          /\ \A j \in DOMAIN made'[r].parts : InNext(made'[r].parts[j])
  BY <1>1 DEF PartsRight, InFile, InNext, Log!LastUnit
<1>2. /\ r \in DOMAIN made /\ made'[r].parts = made[r].parts
      /\ made'[r].whole => made[r].whole /\ Log!Kept(r, n)
  BY CutFacts
<1>3. Log!Kept(r, n) => \A j \in DOMAIN made[r].parts : InNext(made[r].parts[j])
  BY <1>1 DEF Log!Kept, InNext
<1>4. /\ \A j \in DOMAIN made[r].parts :
            LET p == made[r].parts[j]
            IN  /\ p.record = r /\ p.part = j /\ p.type \in Begins \cup Ends \cup {"middle"}
                /\ p.type \in Begins <=> j = 1
                /\ p.type \in Ends => j = Len(made[r].parts)
      /\ made[r].whole => made[r].parts # <<>> /\ made[r].parts[Len(made[r].parts)].type \in Ends
  BY <1>0, <1>2 DEF PartsRight
<1>5. PICK P : P = made[r].parts
  OBVIOUS
<1>6. made'[r].whole => \A j \in DOMAIN P : InNext(P[j])
  BY <1>2, <1>3, <1>5
<1>7. made'[r].whole => \A j \in DOMAIN made'[r].parts : InNext(made'[r].parts[j])
  BY <1>2, <1>5, <1>6 DEF InNext, Log!LastUnit
<1> QED BY <1>2, <1>4, <1>7

LEMMA CutUnits == ASSUME NEW n \in Nat, NEW k \in Nat, CutTo(n, k) PROVE UnitsRight'
<1>0. FileRight /\ UnitsRight
  BY CutFacts DEF FileRight
<1>1. DOMAIN file' = 1..n /\ \A u \in 1..n : u \in DOMAIN file /\ u \in Nat /\ u <= n /\ file'[u] = file[u]
  BY CutFacts
<1> SUFFICES ASSUME NEW u \in DOMAIN file'
             PROVE  /\ IF file'[u][1] = Log!Zero THEN file'[u][2] < HeaderSize
                       ELSE IsPartNext(file'[u][1]) /\ file'[u][2] <= Length(file'[u][1])
                    /\ file'[u][2] \in 1..u
                    /\ \A j \in 1..file'[u][2] : file'[u - file'[u][2] + j] = <<file'[u][1], j>>
  BY DEF UnitsRight, Before, IsPart, IsPartNext, Length
<1>a. u \in 1..n
  BY <1>1
<1>b. PICK p, i : p = file[u][1] /\ i = file[u][2]
  OBVIOUS
<1>2. /\ IF p = Log!Zero THEN i < HeaderSize ELSE IsPart(p) /\ i <= Length(p)
      /\ i \in 1..u
      /\ \A j \in 1..i : file[u - i + j] = <<p, j>>
  BY <1>0, <1>1, <1>a, <1>b DEF UnitsRight, Before
<1>3. p # Log!Zero => IsPartNext(p)
  <2>1. p # Log!Zero => p.record \in 1..k
    BY <1>a, <1>b, CutFacts
  <2> QED BY <1>2, <2>1, CutFacts
<1>4. ASSUME NEW j \in 1..i PROVE file'[u - i + j] = <<p, j>>
  <2>1. u - i + j \in 1..n
    BY <1>1, <1>2, <1>a
  <2> QED BY <1>1, <1>2, <2>1
<1> QED BY <1>1, <1>a, <1>b, <1>2, <1>3, <1>4

LEMMA CutStarts == ASSUME NEW n \in Nat, NEW k \in Nat, CutTo(n, k) PROVE StartsRight'
<1>0. FileRight /\ LogTypes /\ StartsRight
  BY CutFacts DEF FileRight
<1>1. /\ DOMAIN file' = 1..n /\ \A u \in 1..n : u \in DOMAIN file /\ file'[u] = file[u]
      /\ DOMAIN made' = 1..k /\ \A r \in 1..k : r \in DOMAIN made /\ made'[r].start = made[r].start /\ made[r].start < n
      /\ \A u \in 1..n : file[u][1] # Log!Zero => file[u][1].record \in 1..k
      /\ Len(file') = n
  BY CutFacts
<1>2. \A r \in DOMAIN made' : made'[r].start <= Len(file')
  BY <1>0, <1>1, FileTypes
<1>3. \A r, s \in DOMAIN made' : r < s => made'[r].start <= made'[s].start
  BY <1>0, <1>1 DEF StartsRight
<1>4. ASSUME NEW u \in DOMAIN file', file'[u][1] # Log!Zero
      PROVE  /\ made'[file'[u][1].record].start < u
             /\ \A s \in DOMAIN made' : file'[u][1].record < s => u <= made'[s].start
  BY <1>0, <1>1, <1>4 DEF StartsRight
<1> QED BY <1>2, <1>3, <1>4 DEF StartsRight

LEMMA CutCuts == ASSUME NEW n \in Nat, NEW k \in Nat, CutTo(n, k) PROVE CutsRight'
<1>0. FileRight /\ LogTypes /\ StartsRight /\ CutsRight
  BY CutFacts DEF FileRight
<1>1. /\ DOMAIN file' = 1..n /\ \A u \in 1..n : u \in DOMAIN file /\ u \in Nat /\ u <= n /\ file'[u] = file[u]
      /\ \A u \in 1..n : file[u][1] # Log!Zero => file[u][1].record \in 1..k
      /\ Len(file') = n /\ Log!Current' = k /\ n <= Len(file) /\ k <= Log!Current /\ Len(file) \in Nat /\ Log!Current \in Nat
      /\ DOMAIN made = 1..Log!Current /\ DOMAIN file = 1..Len(file)
  BY CutFacts
<1>2. /\ \A r \in 1..k : r \in DOMAIN made /\ r \in Nat /\ r <= k /\ made'[r].start = made[r].start /\ made[r].start < n
      /\ \A r \in DOMAIN made : k < r => n <= made[r].start
      /\ \A r \in DOMAIN made : made[r].start \in Nat
  BY <1>0, CutFacts, FileTypes
<1>c. Log!Current' = k
  BY <1>1
<1>3. ~ writer'.on
  BY DEF CutTo, Log!NoWriter
<1> SUFFICES ASSUME NEW u \in DOMAIN file', NEW q, q = file'[u][1], q # Log!Zero, file'[u][2] = 1
             PROVE  \E m \in 1..Length(q) :
                       /\ \A j \in 1..m : u - 1 + j <= Len(file') /\ file'[u - 1 + j] = <<q, j>>
                       /\ \/ m = Length(q)
                          \/ IF q.record = k THEN u - 1 + m = Len(file') /\ ~ writer'.on
                             ELSE made'[q.record + 1].start = u - 1 + m
  BY <1>c DEF CutsRight, CutAt, HasPart, Length
<1>a. u \in 1..n /\ q = file[u][1] /\ file[u][2] = 1
  BY <1>1
<1> SUFFICES \E m \in 1..Length(q) :
                /\ \A j \in 1..m : u - 1 + j <= n /\ file'[u - 1 + j] = <<q, j>>
                /\ \/ m = Length(q)
                   \/ IF q.record = k THEN u - 1 + m = n ELSE made'[q.record + 1].start = u - 1 + m
  BY <1>1, <1>3
<1>4. u \in Nat /\ u >= 1 /\ u <= n /\ u \in DOMAIN file /\ q.record \in 1..k /\ q.record \in DOMAIN made
  BY <1>1, <1>2, <1>a
<1>5. PICK m \in 1..Length(q) : HasPart(u, m) /\ (m = Length(q) \/ CutAt(q.record, u - 1 + m))
  BY <1>0, <1>1, <1>a DEF CutsRight
<1>6. Length(q) \in Nat /\ m \in Nat /\ m >= 1 /\ m <= Length(q)
  <2>1. q \in Physical
    BY <1>0, <1>4, <1>a, FileTypes
  <2> QED BY <1>5, <2>1, LengthOf
<1>7. \A j \in 1..m : u - 1 + j <= Len(file) /\ file[u - 1 + j] = <<q, j>>
  BY <1>5, <1>a DEF HasPart
<1>8. CASE u - 1 + m <= n
  <2>1. ASSUME NEW j \in 1..m PROVE u - 1 + j <= n /\ file'[u - 1 + j] = <<q, j>>
    <3>1. u - 1 + j \in 1..n
      BY <1>4, <1>6, <1>8
    <3> QED BY <1>1, <1>7, <3>1
  <2>2. ASSUME m # Length(q)
        PROVE  IF q.record = k THEN u - 1 + m = n ELSE made'[q.record + 1].start = u - 1 + m
    <3>1. IF q.record = Log!Current THEN u - 1 + m = Len(file) ELSE made[q.record + 1].start = u - 1 + m
      BY <1>5, <2>2 DEF CutAt
    <3>2. CASE q.record = Log!Current
      BY <1>1, <1>4, <1>8, <3>1, <3>2
    <3>3. CASE q.record # Log!Current
      <4>1. q.record + 1 \in DOMAIN made /\ made[q.record + 1].start = u - 1 + m
        BY <1>1, <1>4, <3>1, <3>3
      <4>2. CASE q.record = k
        <5>1. n <= made[q.record + 1].start
          BY <1>2, <1>4, <4>1, <4>2
        <5> QED BY <1>4, <1>6, <1>8, <4>1, <4>2, <5>1
      <4>3. CASE q.record # k
        <5>1. q.record + 1 \in 1..k
          BY <1>4, <4>3
        <5> QED BY <1>2, <4>1, <4>3, <5>1
      <4> QED BY <4>2, <4>3
    <3> QED BY <3>2, <3>3
  <2> QED BY <1>5, <2>1, <2>2
<1>9. CASE n < u - 1 + m
  <2>1. PICK h : h = n - (u - 1)
    OBVIOUS
  <2>2. h \in 1..Length(q) /\ h + 1 \in 1..m /\ u - 1 + h = n /\ u - 1 + (h + 1) = n + 1
    BY <1>4, <1>6, <1>9, <2>1
  <2>3. ASSUME NEW j \in 1..h PROVE u - 1 + j <= n /\ file'[u - 1 + j] = <<q, j>>
    <3>1. u - 1 + j \in 1..n /\ j \in 1..m
      BY <1>4, <1>6, <2>2
    <3> QED BY <1>1, <1>7, <3>1
  <2>4. n + 1 \in DOMAIN file /\ file[n + 1][1] = q
    <3>1. n + 1 <= Len(file) /\ file[n + 1] = <<q, h + 1>>
      BY <1>7, <2>2
    <3> QED BY <1>1, <3>1
  <2>5. q.record = k
    <3> SUFFICES ASSUME q.record # k PROVE FALSE
      OBVIOUS
    <3>1. q.record + 1 \in 1..k /\ q.record < q.record + 1
      BY <1>4
    <3>2. n + 1 <= made[q.record + 1].start
      BY <1>0, <1>2, <2>4, <3>1 DEF StartsRight
    <3>3. made[q.record + 1].start < n /\ made[q.record + 1].start \in Nat
      BY <1>2, <3>1
    <3> QED BY <3>2, <3>3
  <2> QED BY <2>2, <2>3, <2>5
<1>10. u - 1 + m <= n \/ n < u - 1 + m
  BY <1>4, <1>6, SMTT(30)
<1> QED BY <1>8, <1>9, <1>10

LEMMA CutFollows == ASSUME NEW n \in Nat, NEW k \in Nat, CutTo(n, k) PROVE FollowsRight'
<1>0. FileRight /\ LogTypes /\ FollowsRight
  BY CutFacts DEF FileRight
<1>1. /\ DOMAIN file' = 1..n /\ \A u \in 1..n : u \in DOMAIN file /\ u \in Nat /\ u <= n /\ file'[u] = file[u]
      /\ \A u \in 1..n : file[u][1] # Log!Zero => file[u][1].record \in 1..k
      /\ \A r \in 1..k : made'[r].parts = made[r].parts
      /\ DOMAIN file = 1..Len(file) /\ Len(file) \in Nat
  BY CutFacts
<1> SUFFICES ASSUME NEW u \in DOMAIN file', NEW q, q = file'[u][1], q # Log!Zero, file'[u][2] = 1, q.part > 1
             PROVE  \E e \in DOMAIN file' :
                       /\ e < u /\ u <= e + HeaderSize
                       /\ file'[e] = Log!LastUnit(made'[q.record].parts[q.part - 1])
                       /\ \A v \in DOMAIN file' : e < v /\ v < u => file'[v][1] = Log!Zero
  BY DEF FollowsRight, Follows, Log!LastUnit
<1>2. u \in 1..n /\ u \in DOMAIN file /\ q = file[u][1] /\ file[u][2] = 1
  BY <1>1
<1>3. PICK e \in DOMAIN file : Follows(u, e)
  BY <1>0, <1>2 DEF FollowsRight
<1>4. /\ e < u /\ u <= e + HeaderSize /\ file[e] = Log!LastUnit(made[q.record].parts[q.part - 1])
      /\ \A v \in DOMAIN file : e < v /\ v < u => file[v][1] = Log!Zero
  BY <1>2, <1>3 DEF Follows
<1>5. e \in 1..n
  BY <1>1, <1>2, <1>3, <1>4
<1>6. made'[q.record].parts = made[q.record].parts
  BY <1>1, <1>2
<1>7. file'[e] = Log!LastUnit(made'[q.record].parts[q.part - 1])
  BY <1>1, <1>4, <1>5, <1>6
<1> QED BY <1>1, <1>4, <1>5, <1>7, ZenonT(30)

LEMMA CutOrder == ASSUME NEW n \in Nat, NEW k \in Nat, CutTo(n, k) PROVE OrderRight'
<1>0. OrderRight
  BY CutFacts DEF FileRight
<1>1. DOMAIN file' = 1..n /\ \A u \in 1..n : u \in DOMAIN file /\ file'[u] = file[u]
  BY CutFacts
<1> QED BY <1>0, <1>1 DEF OrderRight

LEMMA CutBlocks == ASSUME NEW n \in Nat, NEW k \in Nat, CutTo(n, k) PROVE BlocksRight'
<1>0. FileRight /\ LogTypes /\ BlocksRight
  BY CutFacts DEF FileRight
<1>1. /\ DOMAIN file' = 1..n /\ \A u \in 1..n : u \in DOMAIN file /\ u \in Nat /\ u <= n /\ file'[u] = file[u]
      /\ \A u \in 1..n : file[u][1] # Log!Zero => file[u][1].record \in 1..k
      /\ DOMAIN made' = 1..k /\ DOMAIN made = 1..Log!Current /\ Log!Current \in Nat
      /\ \A r \in 1..k : /\ r \in DOMAIN made /\ r \in Nat /\ r <= k /\ made'[r].start = made[r].start
                         /\ made'[r].whole => made[r].whole /\ Log!Kept(r, n)
      /\ \A r \in DOMAIN made : k < r => n <= made[r].start
  BY CutFacts
<1>2. faults'.writes = faults.writes
  BY DEF CutTo
<1>3. ASSUME NEW r \in 1..k, faults'.writes = 0 \/ \A t \in DOMAIN made' : t < r => made'[t].whole PROVE Good(r)
  <2> SUFFICES ASSUME faults.writes # 0, NEW t \in DOMAIN made, t < r PROVE made[t].whole
    BY DEF Good
  <2>1. t \in 1..k
    BY <1>1
  <2> QED BY <1>1, <1>2, <1>3, <2>1
<1> SUFFICES ASSUME NEW u \in DOMAIN file', NEW p, p = file'[u][1]
             PROVE  /\ p # Log!Zero /\ file'[u][2] = 1
                       /\ (faults'.writes = 0 \/ \A t \in DOMAIN made' : t < p.record => made'[t].whole)
                       => u - 1 + Length(p) <= BlockStart(u - 1) + BlockSize
                    /\ p = Log!Zero /\ (\A s \in DOMAIN made' : made'[s].start < u =>
                                           (faults'.writes = 0 \/ \A t \in DOMAIN made' : t < s => made'[t].whole))
                       => BlockStart(u - 1) + BlockSize < u - 1 + HeaderSize
  BY DEF BlocksRight, Good, Length, BlockStart
<1>4. u \in 1..n /\ u \in DOMAIN file /\ u \in Nat /\ u <= n /\ p = file[u][1] /\ file'[u][2] = file[u][2]
  BY <1>1
<1>5. ASSUME p # Log!Zero, file'[u][2] = 1, faults'.writes = 0 \/ \A t \in DOMAIN made' : t < p.record => made'[t].whole
      PROVE  u - 1 + Length(p) <= BlockStart(u - 1) + BlockSize
  <2>1. p.record \in 1..k
    BY <1>1, <1>4, <1>5
  <2>2. Good(p.record)
    BY <1>3, <1>5, <2>1
  <2> QED BY <1>0, <1>4, <1>5, <2>2 DEF BlocksRight
<1>6. ASSUME p = Log!Zero, \A s \in DOMAIN made' : made'[s].start < u =>
                          (faults'.writes = 0 \/ \A t \in DOMAIN made' : t < s => made'[t].whole)
      PROVE  BlockStart(u - 1) + BlockSize < u - 1 + HeaderSize
  <2>1. ASSUME NEW s \in DOMAIN made, made[s].start < u PROVE Good(s)
    <3>1. made[s].start \in Nat /\ s \in Nat
      BY <1>0, FileTypes
    <3>2. s \in 1..k
      BY <1>1, <1>4, <2>1, <3>1
    <3> QED BY <1>1, <1>3, <1>6, <2>1, <3>2
  <2> QED BY <1>0, <1>4, <1>6, <2>1 DEF BlocksRight
<1> QED BY <1>5, <1>6

LEMMA CutReader == ASSUME NEW n \in Nat, NEW k \in Nat, CutTo(n, k) PROVE ReaderRight'
<1>1. /\ reader'.pc = "reads" /\ reader'.at = 0 /\ reader'.scratch = <<>> /\ reader'.got = <<>> /\ reader'.reports = FALSE
  BY DEF CutTo, Log!NoReader
<1>2. AtRight'
  <2>1. BlockStart(0) = 0
    <3>1. BlockStart(0) \in Nat /\ BlockStart(0) <= 0
      BY BlockOf
    <3> QED BY <3>1
  <2>2. reader'.at <= Len(file') /\ BlockStart(reader'.at) = reader'.at
    BY <1>1, <2>1, CutFacts
  <2> QED BY <2>2 DEF AtRight, BlockStart
<1>3. ScratchRight'
  BY <1>1 DEF ScratchRight
<1>4. GotRight'
  BY <1>1 DEF GotRight
<1>5. NothingMissed'
  <2>1. \A u \in DOMAIN file' : reader'.at <= u - file'[u][2]
    <3> SUFFICES ASSUME NEW u \in DOMAIN file' PROVE 0 <= u - file'[u][2]
      BY <1>1
    <3>1. UnitsRight' /\ DOMAIN file' = 1..n
      BY CutUnits, CutFacts
    <3>2. file'[u][2] \in 1..u
      BY <3>1 DEF UnitsRight
    <3> QED BY <3>1, <3>2
  <2> QED BY <1>1, <2>1 DEF NothingMissed, Before
<1>6. ReportsRight'
  BY <1>1 DEF ReportsRight
<1> QED BY <1>2, <1>3, <1>4, <1>5, <1>6 DEF ReaderRight

LEMMA CrashStep == ASSUME LogInv, Log!Crash PROVE LogInv'
<1>1. PICK n \in Nat, k \in Nat : CutTo(n, k)
  BY CutOf
<1>2. LogTypes'
  <2>1. offset \in 0..BlockSize
    BY DEF LogInv, FileRight, LogTypes
  <2>2. writer' \in [on : BOOLEAN, left : Nat]
    BY <1>1 DEF CutTo, Log!NoWriter
  <2>3. reader' \in [pc : {"none", "reads", "done"}, at : Nat, scratch : Seq(Physical),
                     got : Seq(Seq(Physical)), reports : BOOLEAN]
    <3>1. reader' = [Log!NoReader EXCEPT !.pc = "reads"]
      BY <1>1 DEF CutTo
    <3>2. reader' = [pc |-> "reads", at |-> 0, scratch |-> <<>>, got |-> <<>>, reports |-> FALSE]
      BY <3>1 DEF Log!NoReader
    <3> QED BY <3>2
  <2>4. /\ file' \in Seq(Physical \X Nat) /\ made' \in Seq([parts : Seq(Physical), start : Nat, whole : BOOLEAN])
        /\ offset' = offset /\ faults' \in [writes : Nat, crashes : Nat]
    BY <1>1 DEF CutTo
  <2> QED BY <2>1, <2>2, <2>3, <2>4 DEF LogTypes
<1>3. FileRight'
  BY <1>1, <1>2, CutParts, CutUnits, CutStarts, CutCuts, CutFollows, CutOrder, CutBlocks DEF FileRight
<1>4. ~ writer'.on /\ reader'.pc # "none"
  BY <1>1 DEF CutTo, Log!NoWriter, Log!NoReader
<1>5. WriterAtEnd' /\ OffsetRight'
  BY <1>4 DEF WriterAtEnd, OffsetRight
<1> QED BY <1>1, <1>3, <1>5, CutReader DEF LogInv

-----------------------------------------------------------------------------
LEMMA LogStep == ASSUME LogInv, [Log!Next]_Log!vars PROVE LogInv'
<1>1. CASE UNCHANGED Log!vars
  <2>1. UNCHANGED <<file, offset, writer, made, reader, faults>>
    BY <1>1 DEF Log!vars
  <2>2. /\ Log!Current' = Log!Current /\ \A p : (InFile(p)' <=> InFile(p)) /\ (IsPart(p)' <=> IsPart(p))
        /\ \A u, n : HasPart(u, n)' <=> HasPart(u, n)
        /\ \A r, c : CutAt(r, c)' <=> CutAt(r, c)
        /\ \A u, e : Follows(u, e)' <=> Follows(u, e)
        /\ \A r, i, e : ScratchAt(r, i, e)' <=> ScratchAt(r, i, e)
    BY <2>1 DEF Log!Current, InFile, IsPart, HasPart, CutAt, Follows, ScratchAt
  <2>3. /\ \A r : (Due(r)' <=> Due(r)) /\ (Good(r)' <=> Good(r))
        /\ Log!Torn' = Log!Torn
    BY <2>1, FileStays
  <2>4. PartsRight' /\ UnitsRight' /\ StartsRight' /\ OrderRight'
    BY <2>1, <2>2 DEF LogInv, FileRight, PartsRight, UnitsRight, StartsRight, OrderRight, Before
  <2>a. LogTypes'
    BY <2>1 DEF LogInv, FileRight, LogTypes
  <2>5. CutsRight'
    BY <2>1, <2>2 DEF LogInv, FileRight, CutsRight
  <2>6. FollowsRight'
    BY <2>1, <2>2 DEF LogInv, FileRight, FollowsRight
  <2>7. BlocksRight'
    BY <2>1, <2>3 DEF LogInv, FileRight, BlocksRight
  <2>8. WriterAtEnd' /\ OffsetRight'
    BY <2>1, <2>2 DEF LogInv, WriterAtEnd, OffsetRight, Regular
  <2>9. ReaderRight'
    <3>1. AtRight' <=> AtRight
      BY <2>1 DEF AtRight
    <3>2. ScratchRight' <=> ScratchRight
      BY <2>1, <2>2 DEF ScratchRight
    <3>3. GotRight' <=> GotRight
      BY <2>1 DEF GotRight
    <3>4. NothingMissed' <=> NothingMissed
      BY <2>1, <2>3 DEF NothingMissed, Log!IsRead, InHand, Before
    <3>5. ReportsRight' <=> ReportsRight
      BY <2>1, <2>3 DEF ReportsRight
    <3> QED BY <2>1, <3>1, <3>2, <3>3, <3>4, <3>5 DEF LogInv, ReaderRight
  <2> QED BY <2>a, <2>4, <2>5, <2>6, <2>7, <2>8, <2>9 DEF LogInv, FileRight
<1>2. CASE Log!Next
  BY <1>2, AddStep, EmitSteps, CrashStep, SkipStep, DropStep, ReadStep, ReuseStep DEF Log!Next
<1> QED BY <1>1, <1>2

-----------------------------------------------------------------------------
(* A recovery puts no record together from parts of several, and gives     *)
(* records in their order, none twice; without a torn record it reports    *)
(* nothing and has every whole record; behind records that crashes tore it *)
(* still has those that start in a later block (ReadRecord's resyncing and *)
(* in_fragmented_record, log_reader.cc).                                   *)
THEOREM LogReadsAreRight == StorageSpec => []LogReadsRight
<1> DEFINE Inv == part = "log" => LogInv
<1>1. StorageInit => Inv
  BY LogInit DEF StorageInit
<1>2. Inv /\ [StorageNext]_storage => Inv'
  <2> SUFFICES ASSUME Inv, [StorageNext]_storage, part' = "log" PROVE LogInv'
    OBVIOUS
  <2>1. part = "log" /\ [Log!Next]_Log!vars
    BY DEF StorageNext, storage, log, Log!vars
  <2> QED BY <2>1, LogStep
<1>3. Inv => LogReadsRight
  BY LogShown DEF LogReadsRight
<1> QED BY <1>1, <1>2, <1>3, PTL DEF StorageSpec

-----------------------------------------------------------------------------
(***************************************************************************)
(* The tables.  The end of a loop, by what one of its turns does.          *)
(***************************************************************************)
IsTurned(turn, s, after) == after = [n \in Nat |-> IF n = 0 THEN s ELSE turn[after[n - 1]]]

LEMMA TurnedExists == ASSUME NEW turn, NEW s PROVE \E after : IsTurned(turn, s, after)
<1> DEFINE Begins2(g, n) == g = [m \in 0..n |-> IF m = 0 THEN s ELSE turn[g[m - 1]]]
           Wrong == {n \in Nat : ~ \E g : Begins2(g, n)}
<1>1. Wrong = {}
  <2> SUFFICES ASSUME Wrong # {} PROVE FALSE
    OBVIOUS
  <2>1. PICK n \in Wrong : \A m \in Wrong : n <= m
    BY LeastOf
  <2>2. n # 0
    <3>1. Begins2([m \in 0..0 |-> s], 0)
      OBVIOUS
    <3> QED BY <2>1, <3>1
  <2>3. n - 1 \in Nat /\ n - 1 \notin Wrong
    <3>1. n \in Nat
      BY <2>1
    <3>2. n - 1 \in Nat /\ ~ (n <= n - 1)
      BY <2>2, <3>1
    <3> HIDE DEF Wrong
    <3> QED BY <2>1, <3>2
  <2>4. PICK g : Begins2(g, n - 1)
    BY <2>3
  <2> DEFINE h == [m \in 0..n |-> IF m = 0 THEN s ELSE turn[g[m - 1]]]
  <2>5. \A m \in 0..(n - 1) : h[m] = g[m]
    BY <2>1, <2>3, <2>4
  <2>6. ASSUME NEW m \in 0..n, m # 0 PROVE h[m - 1] = g[m - 1]
    <3>1. n \in Nat /\ m - 1 \in 0..(n - 1)
      BY <2>6
    <3> HIDE DEF h
    <3> QED BY <2>5, <3>1
  <2>7. Begins2(h, n)
    BY <2>6
  <2> QED BY <2>1, <2>7
<1>2. \A n \in Nat : \E g : Begins2(g, n)
  BY <1>1
<1> DEFINE G(n) == CHOOSE g : Begins2(g, n)
<1>3. \A n \in Nat : Begins2(G(n), n)
  BY <1>2
<1> HIDE DEF G
<1>4. ASSUME NEW n \in Nat, n # 0, NEW k \in 0..(n - 1) PROVE G(n - 1)[k] = G(n)[k]
  <2> DEFINE D == {m \in 0..(n - 1) : G(n - 1)[m] # G(n)[m]}
  <2> SUFFICES ASSUME D # {} PROVE FALSE
    BY <1>4
  <2>1. PICK m \in D : \A l \in D : m <= l
    <3>1. D \subseteq Nat
      OBVIOUS
    <3> HIDE DEF D
    <3> QED BY <3>1, LeastOf
  <2>2. Begins2(G(n - 1), n - 1) /\ Begins2(G(n), n)
    <3>1. n - 1 \in Nat
      BY <1>4
    <3> HIDE DEF Begins2
    <3> QED BY <1>3, <3>1
  <2>3. m \in 0..(n - 1) /\ m \in 0..n
    BY <1>4, <2>1
  <2>4. G(n - 1)[m] = (IF m = 0 THEN s ELSE turn[G(n - 1)[m - 1]])
    BY <2>2, <2>3
  <2>5. G(n)[m] = (IF m = 0 THEN s ELSE turn[G(n)[m - 1]])
    BY <2>2, <2>3
  <2>6. m # 0 => m - 1 \in 0..(n - 1) /\ m - 1 \notin D
    BY <1>4, <2>1, <2>3
  <2>7. m # 0 => G(n - 1)[m - 1] = G(n)[m - 1]
    BY <2>6
  <2> QED BY <2>1, <2>4, <2>5, <2>7
<1> DEFINE after == [n \in Nat |-> G(n)[n]]
<1>5. \A n \in Nat : n # 0 => after[n - 1] = G(n)[n - 1]
  BY <1>4
<1>6. \A n \in Nat : after[n] = IF n = 0 THEN s ELSE turn[after[n - 1]]
  <2> SUFFICES ASSUME NEW n \in Nat PROVE G(n)[n] = IF n = 0 THEN s ELSE turn[after[n - 1]]
    OBVIOUS
  <2>1. Begins2(G(n), n) /\ n \in 0..n
    BY <1>3
  <2>2. G(n)[n] = IF n = 0 THEN s ELSE turn[G(n)[n - 1]]
    BY <2>1
  <2> QED BY <1>5, <2>2
<1>7. after = [n \in Nat |-> IF n = 0 THEN s ELSE turn[after[n - 1]]]
  BY <1>6
<1> QED BY <1>7 DEF IsTurned

LEMMA TurnedIs ==
    ASSUME NEW turn, NEW s
    PROVE  /\ Blocks!Turned(turn, s)[0] = s
           /\ \A n \in Nat : n # 0 => Blocks!Turned(turn, s)[n] = turn[Blocks!Turned(turn, s)[n - 1]]
<1> DEFINE f == CHOOSE after : IsTurned(turn, s, after)
<1>1. IsTurned(turn, s, f)
  BY TurnedExists
<1>2. Blocks!Turned(turn, s) = f
  BY DEF Blocks!Turned, IsTurned
<1> HIDE DEF f
<1>3. f[0] = s /\ \A n \in Nat : n # 0 => f[n] = turn[f[n - 1]]
  BY <1>1 DEF IsTurned
<1> QED BY <1>2, <1>3

(* What holds at the beginning and is kept by a turn holds at the end,     *)
(* where no other turn is made, if the measure of the state goes down.     *)
LEMMA LoopEnds ==
    ASSUME NEW turn, NEW goes, NEW s, NEW most \in Nat, NEW I, s \in I,
           \A x \in I : x \in goes => turn[x] \in I,
           NEW left, \A x \in I : left[x] \in Nat /\ (x \in goes => left[turn[x]] < left[x]),
           left[s] <= most
    PROVE  Blocks!Loop(turn, goes, s, most) \in I /\ Blocks!Loop(turn, goes, s, most) \notin goes
<1> DEFINE after == Blocks!Turned(turn, s)
           Ends2(n) == after[n] \notin goes /\ \A m \in 0..(n - 1) : after[m] \in goes
<1> HIDE DEF after
<1>1. after[0] = s /\ \A n \in Nat : n # 0 => after[n] = turn[after[n - 1]]
  BY TurnedIs DEF after
<1>2. ASSUME NEW n \in Nat, \A m \in 0..(n - 1) : after[m] \in goes
      PROVE  after[n] \in I /\ left[after[n]] + n <= left[s]
  <2> DEFINE Wrong == {m \in 0..n : ~ (after[m] \in I /\ left[after[m]] + m <= left[s])}
  <2> SUFFICES ASSUME Wrong # {} PROVE FALSE
    OBVIOUS
  <2>1. PICK m \in Wrong : \A l \in Wrong : m <= l
    <3>1. Wrong \subseteq Nat
      OBVIOUS
    <3> HIDE DEF Wrong
    <3> QED BY <3>1, LeastOf
  <2>2. m \in 0..n /\ left[s] \in Nat
    BY <2>1
  <2>3. m # 0
    BY <1>1, <2>1, <2>2
  <2>4. m - 1 \in 0..n /\ m - 1 \notin Wrong /\ m - 1 \in 0..(n - 1)
    BY <2>1, <2>2, <2>3
  <2>5. after[m - 1] \in I /\ left[after[m - 1]] + (m - 1) <= left[s] /\ after[m - 1] \in goes
    BY <1>2, <2>4
  <2>6. after[m] = turn[after[m - 1]]
    BY <1>1, <2>2, <2>3
  <2>7. after[m] \in I /\ left[after[m]] < left[after[m - 1]]
    BY <2>5, <2>6
  <2>8. left[after[m]] \in Nat /\ left[after[m - 1]] \in Nat
    BY <2>5, <2>7
  <2>9. left[after[m]] + m <= left[s]
    BY <2>2, <2>5, <2>7, <2>8
  <2> QED BY <2>1, <2>7, <2>9
<1>3. \E n \in 0..most : Ends2(n)
  <2> DEFINE Out == {n \in 0..most : after[n] \notin goes}
  <2>1. CASE Out = {}
    <3>1. \A m \in 0..most : after[m] \in goes
      BY <2>1
    <3>2. \A m \in 0..(most - 1) : after[m] \in goes
      BY <3>1
    <3>3. after[most] \in I /\ left[after[most]] + most <= left[s] /\ after[most] \in goes
      BY <1>2, <3>1, <3>2
    <3>4. left[after[most]] \in Nat /\ left[s] \in Nat
      BY <3>3
    <3>5. left[turn[after[most]]] < left[after[most]] /\ turn[after[most]] \in I
      BY <3>3
    <3>6. left[turn[after[most]]] \in Nat
      BY <3>5
    <3> QED BY <3>3, <3>4, <3>5, <3>6
  <2>2. CASE Out # {}
    <3>1. PICK n \in Out : \A l \in Out : n <= l
      <4>1. Out \subseteq Nat
        OBVIOUS
      <4> HIDE DEF Out
      <4> QED BY <2>2, <4>1, LeastOf
    <3>2. n \in 0..most /\ after[n] \notin goes
      BY <3>1
    <3>3. \A m \in 0..(n - 1) : m \in 0..most /\ ~ (n <= m)
      BY <3>2
    <3>4. \A m \in 0..(n - 1) : after[m] \in goes
      BY <3>1, <3>3
    <3> QED BY <3>2, <3>4
  <2> QED BY <2>1, <2>2
<1> DEFINE n == CHOOSE n \in 0..most : Ends2(n)
<1>4. n \in 0..most /\ Ends2(n)
  BY <1>3
<1>5. Blocks!Loop(turn, goes, s, most) = after[n]
  BY DEF Blocks!Loop, after
<1> HIDE DEF n
<1>6. n \in Nat
  BY <1>4
<1>7. after[n] \in I
  BY <1>2, <1>4, <1>6
<1> QED BY <1>4, <1>5, <1>7

-----------------------------------------------------------------------------
(* The order of the keys. *)
Keys == [key : Nat, seq : Nat]

LEMMA KeysOrdered ==
    ASSUME NEW a \in Keys, NEW b \in Keys
    PROVE  /\ Blocks!Before(a, b) \/ a = b \/ Blocks!Before(b, a)
           /\ Blocks!Before(a, b) => ~ Blocks!Before(b, a) /\ a # b
           /\ \A c \in Keys : Blocks!Before(a, b) /\ Blocks!Before(b, c) => Blocks!Before(a, c)
<1>1. a = [key |-> a.key, seq |-> a.seq] /\ b = [key |-> b.key, seq |-> b.seq]
  BY DEF Keys
<1>2. a.key \in Nat /\ a.seq \in Nat /\ b.key \in Nat /\ b.seq \in Nat
  BY DEF Keys
<1>3. a.key = b.key /\ a.seq = b.seq => a = b
  BY <1>1
<1>4. Blocks!Before(a, b) \/ a = b \/ Blocks!Before(b, a)
  BY <1>2, <1>3 DEF Blocks!Before
<1>5. Blocks!Before(a, b) => ~ Blocks!Before(b, a) /\ a # b
  BY <1>2 DEF Blocks!Before
<1>6. ASSUME NEW c \in Keys, Blocks!Before(a, b), Blocks!Before(b, c) PROVE Blocks!Before(a, c)
  <2>1. c.key \in Nat /\ c.seq \in Nat
    BY DEF Keys
  <2> QED BY <1>2, <1>6, <2>1 DEF Blocks!Before
<1> QED BY <1>4, <1>5, <1>6

-----------------------------------------------------------------------------
(* A block: its entries are in order, and those of its restart points are  *)
(* there and share nothing with the ones before.                           *)
Entries == [key : Keys, value : Nat, shared : BOOLEAN]
IsBlock(b) ==
    /\ b \in [entries : Seq(Entries), restarts : Seq(Nat), counter : Nat]
    /\ b.restarts # <<>> /\ b.restarts[1] = 0
    /\ \A i \in DOMAIN b.restarts :
          /\ i > 1 => b.restarts[i] < Len(b.entries)
          /\ b.entries # <<>> => ~ b.entries[b.restarts[i] + 1].shared
    /\ \A i, j \in DOMAIN b.entries : i < j => Blocks!Before(b.entries[i].key, b.entries[j].key)
    /\ b.entries # <<>> \/ b = Blocks!EmptyBlock

LEMMA EmptyIsBlock == IsBlock(Blocks!EmptyBlock) /\ Blocks!End(Blocks!EmptyBlock) = 0
<1>1. Blocks!EmptyBlock = [entries |-> <<>>, restarts |-> <<0>>, counter |-> 0]
  BY DEF Blocks!EmptyBlock
<1>2. Blocks!EmptyBlock.entries = <<>> /\ Blocks!EmptyBlock.restarts = <<0>> /\ Len(Blocks!EmptyBlock.entries) = 0
  BY <1>1
<1>3. <<0>> \in Seq(Nat) /\ <<0>> # <<>> /\ <<0>>[1] = 0 /\ DOMAIN <<0>> = {1}
  OBVIOUS
<1>4. <<>> \in Seq(Entries) /\ DOMAIN <<>> = {}
  OBVIOUS
<1>5. Blocks!EmptyBlock \in [entries : Seq(Entries), restarts : Seq(Nat), counter : Nat]
  BY <1>1, <1>3, <1>4
<1>6. IsBlock(Blocks!EmptyBlock)
  BY <1>2, <1>3, <1>4, <1>5 DEF IsBlock
<1> QED BY <1>2, <1>6 DEF Blocks!End

LEMMA BlockTypes ==
    ASSUME NEW b, IsBlock(b)
    PROVE  /\ Blocks!End(b) \in Nat /\ Blocks!End(b) = Len(b.entries) /\ DOMAIN b.entries = 1..Blocks!End(b)
           /\ b.entries # <<>> <=> Blocks!End(b) > 0
           /\ \A i \in 1..Blocks!End(b) :
                 b.entries[i].key \in Keys /\ b.entries[i].value \in Nat /\ b.entries[i].shared \in BOOLEAN
           /\ \A i, j \in 1..Blocks!End(b) : i < j => Blocks!Before(b.entries[i].key, b.entries[j].key)
           /\ Len(b.restarts) \in Nat /\ Len(b.restarts) > 0 /\ Blocks!RestartPoint(b, 0) = 0
           /\ \A i \in 0..(Len(b.restarts) - 1) :
                 /\ Blocks!RestartPoint(b, i) \in Nat /\ Blocks!RestartPoint(b, i) <= Blocks!End(b)
                 /\ Blocks!End(b) > 0 => /\ Blocks!RestartPoint(b, i) < Blocks!End(b)
                                         /\ ~ b.entries[Blocks!RestartPoint(b, i) + 1].shared
<1>1. b.entries \in Seq(Entries) /\ b.restarts \in Seq(Nat) /\ b.restarts # <<>>
  BY DEF IsBlock
<1>2. /\ Blocks!End(b) \in Nat /\ Blocks!End(b) = Len(b.entries) /\ DOMAIN b.entries = 1..Blocks!End(b)
      /\ b.entries # <<>> <=> Blocks!End(b) > 0
  BY <1>1 DEF Blocks!End
<1>3. \A i \in 1..Blocks!End(b) : b.entries[i] \in Entries
  BY <1>1, <1>2
<1>4. Len(b.restarts) \in Nat /\ Len(b.restarts) > 0 /\ DOMAIN b.restarts = 1..Len(b.restarts)
  BY <1>1
<1>5. ASSUME NEW i \in 0..(Len(b.restarts) - 1)
      PROVE  /\ Blocks!RestartPoint(b, i) \in Nat /\ Blocks!RestartPoint(b, i) <= Blocks!End(b)
             /\ Blocks!End(b) > 0 => /\ Blocks!RestartPoint(b, i) < Blocks!End(b)
                                     /\ ~ b.entries[Blocks!RestartPoint(b, i) + 1].shared
  <2>1. i \in Nat /\ i + 1 \in DOMAIN b.restarts /\ Blocks!RestartPoint(b, i) = b.restarts[i + 1]
    BY <1>4 DEF Blocks!RestartPoint
  <2>2. b.restarts[i + 1] \in Nat
    BY <1>1, <2>1
  <2>3. i + 1 > 1 => b.restarts[i + 1] < Blocks!End(b)
    BY <1>2, <2>1 DEF IsBlock
  <2>4. i = 0 => b.restarts[i + 1] = 0
    BY DEF IsBlock
  <2>5. Blocks!End(b) > 0 => ~ b.entries[b.restarts[i + 1] + 1].shared
    BY <1>2, <2>1 DEF IsBlock
  <2> QED BY <1>2, <2>1, <2>2, <2>3, <2>4, <2>5
<1>6. Blocks!RestartPoint(b, 0) = 0
  BY DEF IsBlock, Blocks!RestartPoint
<1>7. \A i, j \in 1..Blocks!End(b) : i < j => Blocks!Before(b.entries[i].key, b.entries[j].key)
  BY <1>2 DEF IsBlock
<1>8. \A i \in 1..Blocks!End(b) :
         b.entries[i].key \in Keys /\ b.entries[i].value \in Nat /\ b.entries[i].shared \in BOOLEAN
  BY <1>3 DEF Entries
<1> QED BY <1>2, <1>4, <1>5, <1>6, <1>7, <1>8

(* An iterator of a block at an entry has its key and the place behind it; *)
(* one that is ready to parse has what the next entry may share.           *)
IsAt(b, it) ==
    /\ it \in Blocks!Iterator /\ it.ok /\ it.at <= Blocks!End(b)
    /\ it.at < Blocks!End(b) =>
          it.key = b.entries[it.at + 1].key /\ it.next = it.at + 1 /\ it.restart < Len(b.restarts)
IsReady(b, it) ==
    /\ it \in Blocks!Iterator /\ it.ok /\ it.next <= Blocks!End(b) /\ it.restart < Len(b.restarts)
    /\ it.next < Blocks!End(b) =>
          ~ b.entries[it.next + 1].shared \/ (it.next > 0 /\ it.key = b.entries[it.next].key)

LEMMA IteratorTypes ==
    ASSUME NEW it \in Blocks!Iterator
    PROVE  it.at \in Nat /\ it.restart \in Nat /\ it.key \in Keys /\ it.next \in Nat /\ it.ok \in BOOLEAN
  BY DEF Blocks!Iterator, Keys

LEMMA NewIsAt ==
    ASSUME NEW b, IsBlock(b)
    PROVE  IsAt(b, Blocks!NewIterator(b)) /\ ~ Blocks!Valid(b, Blocks!NewIterator(b))
<1>1. Blocks!NewIterator(b) =
         [at |-> Blocks!End(b), restart |-> Len(b.restarts), key |-> Blocks!NoKey, next |-> 0, ok |-> TRUE]
  BY DEF Blocks!NewIterator
<1>2. Blocks!End(b) \in Nat /\ Len(b.restarts) \in Nat
  BY BlockTypes
<1>3. Blocks!NoKey \in [key : Nat, seq : Nat]
  BY DEF Blocks!NoKey
<1>4. Blocks!NewIterator(b) \in Blocks!Iterator
  BY <1>1, <1>2, <1>3 DEF Blocks!Iterator
<1>5. Blocks!NewIterator(b).at = Blocks!End(b) /\ Blocks!NewIterator(b).ok
  BY <1>1
<1> QED BY <1>2, <1>4, <1>5 DEF IsAt, Blocks!Valid

LEMMA AtRestartPoint ==
    ASSUME NEW b, IsBlock(b), NEW it \in Blocks!Iterator, it.ok, NEW i \in 0..(Len(b.restarts) - 1)
    PROVE  /\ IsReady(b, Blocks!SeekToRestartPoint(b, it, i))
           /\ Blocks!SeekToRestartPoint(b, it, i).next = Blocks!RestartPoint(b, i)
<1> DEFINE s == Blocks!SeekToRestartPoint(b, it, i)
<1>1. s = [it EXCEPT !.key = Blocks!NoKey, !.restart = i, !.next = Blocks!RestartPoint(b, i)]
  BY DEF Blocks!SeekToRestartPoint
<1>2. it \in [at : Nat, restart : Nat, key : [key : Nat, seq : Nat], next : Nat, ok : BOOLEAN]
  BY DEF Blocks!Iterator
<1>3. Blocks!RestartPoint(b, i) \in Nat /\ i \in Nat
  BY BlockTypes
<1> HIDE DEF s
<1>4. s.next = Blocks!RestartPoint(b, i) /\ s.restart = i /\ s.ok = it.ok
  BY <1>1, <1>2
<1>5. s \in Blocks!Iterator
  <2>1. Blocks!NoKey \in [key : Nat, seq : Nat]
    BY DEF Blocks!NoKey
  <2>2. s \in [at : Nat, restart : Nat, key : [key : Nat, seq : Nat], next : Nat, ok : BOOLEAN]
    BY <1>1, <1>2, <1>3, <2>1
  <2> QED BY <2>2 DEF Blocks!Iterator
<1>6. i < Len(b.restarts)
  BY BlockTypes
<1>7. /\ Blocks!RestartPoint(b, i) <= Blocks!End(b)
      /\ Blocks!RestartPoint(b, i) < Blocks!End(b) => ~ b.entries[Blocks!RestartPoint(b, i) + 1].shared
  BY BlockTypes
<1>8. IsReady(b, s)
  BY <1>4, <1>5, <1>6, <1>7 DEF IsReady
<1> QED BY <1>4, <1>8 DEF s

(* Whatever restart point NextEntryOffset has, it is one of the block. *)
LEMMA RestartPointCount ==
    ASSUME NEW m \in Nat, NEW n \in Nat, NEW S, S \subseteq (m + 1)..n, m <= n
    PROVE  Blocks!Cardinality(S) \in Nat /\ m + Blocks!Cardinality(S) <= n
<1>1. Blocks!Cardinality(S) = Cardinality(S)
  BY DEF Blocks!Cardinality, Cardinality
<1>2. IsFiniteSet((m + 1)..n) /\ Cardinality((m + 1)..n) = IF m + 1 > n THEN 0 ELSE n - (m + 1) + 1
  BY FS_Interval
<1>3. Cardinality(S) <= Cardinality((m + 1)..n) /\ IsFiniteSet(S)
  BY <1>2, FS_Subset
<1>4. Cardinality(S) \in Nat
  BY <1>3, FS_CardinalityType
<1>5. Cardinality((m + 1)..n) = n - m
  BY <1>2
<1> QED BY <1>1, <1>3, <1>4, <1>5

(* ParseNextKey: to the next entry, with its key, or to the end. *)
LEMMA Parsed ==
    ASSUME NEW b, IsBlock(b), NEW it, IsReady(b, it)
    PROVE  IsAt(b, Blocks!ParseNextKey(b, it)) /\ Blocks!ParseNextKey(b, it).at = it.next
<1> DEFINE p == Blocks!ParseNextKey(b, it)
<1>1. it \in [at : Nat, restart : Nat, key : [key : Nat, seq : Nat], next : Nat, ok : BOOLEAN]
  BY DEF IsReady, Blocks!Iterator
<1>2. /\ it.restart \in Nat /\ it.next \in Nat /\ it.ok /\ it.next <= Blocks!End(b)
      /\ it.restart < Len(b.restarts) /\ Len(b.restarts) \in Nat /\ Blocks!End(b) \in Nat
  BY <1>1, BlockTypes DEF IsReady
<1>3. CASE it.next >= Blocks!End(b)
  <2>1. p = [it EXCEPT !.at = Blocks!End(b), !.restart = Len(b.restarts)]
    BY <1>3 DEF Blocks!ParseNextKey
  <2> HIDE DEF p
  <2>2. p.at = Blocks!End(b) /\ p.ok
    BY <1>1, <1>2, <2>1
  <2>3. p \in Blocks!Iterator
    BY <1>1, <1>2, <2>1 DEF Blocks!Iterator
  <2>4. IsAt(b, p)
    BY <1>2, <2>2, <2>3 DEF IsAt
  <2>5. p.at = it.next
    BY <1>2, <1>3, <2>2
  <2> QED BY <2>4, <2>5 DEF p
<1>4. CASE it.next < Blocks!End(b)
  <2> DEFINE e == b.entries[it.next + 1]
             S == {i \in (it.restart + 1)..(Len(b.restarts) - 1) : Blocks!RestartPoint(b, i) < it.next}
             n == Blocks!Cardinality(S)
             k == Blocks!Decoded(b, it)
  <2>1. it.next + 1 \in 1..Blocks!End(b) /\ ~ it.next >= Blocks!End(b)
    BY <1>2, <1>4
  <2>2. e.key \in Keys
    BY <2>1, BlockTypes
  <2>3. k = e.key
    BY <1>4 DEF IsReady, Blocks!Decoded
  <2>4. n \in Nat /\ it.restart + n <= Len(b.restarts) - 1
    <3>1. S \subseteq (it.restart + 1)..(Len(b.restarts) - 1) /\ Len(b.restarts) - 1 \in Nat /\ it.restart <= Len(b.restarts) - 1
      BY <1>2
    <3> HIDE DEF S
    <3> QED BY <1>2, <3>1, RestartPointCount
  <2>5. p = [it EXCEPT !.at = it.next, !.next = it.next + 1, !.key = k, !.restart = it.restart + n]
    BY <1>1, <2>1 DEF Blocks!ParseNextKey
  <2> HIDE DEF p, n, k, S
  <2>6. p.at = it.next /\ p.next = it.next + 1 /\ p.key = k /\ p.restart = it.restart + n /\ p.ok = it.ok
    BY <1>1, <2>5
  <2>7. p \in Blocks!Iterator
    <3>1. it.next + 1 \in Nat /\ it.restart + n \in Nat
      BY <1>2, <2>4
    <3>2. k \in [key : Nat, seq : Nat]
      BY <2>2, <2>3 DEF Keys
    <3>3. p \in [at : Nat, restart : Nat, key : [key : Nat, seq : Nat], next : Nat, ok : BOOLEAN]
      BY <1>1, <1>2, <2>5, <3>1, <3>2
    <3> QED BY <3>3 DEF Blocks!Iterator
  <2>8. it.restart + n < Len(b.restarts)
    BY <1>2, <2>4
  <2>9. IsAt(b, p)
    BY <1>2, <1>4, <2>3, <2>6, <2>7, <2>8 DEF IsAt
  <2> QED BY <2>6, <2>9 DEF p
<1> QED BY <1>2, <1>3, <1>4

LEMMA AtIsReady ==
    ASSUME NEW b, IsBlock(b), NEW it, IsAt(b, it), Blocks!Valid(b, it)
    PROVE  IsReady(b, it) /\ it.next = it.at + 1 /\ it.at \in Nat /\ it.at < Blocks!End(b)
<1>1. it \in Blocks!Iterator /\ it.ok /\ it.at < Blocks!End(b) /\ it.at \in Nat /\ Blocks!End(b) \in Nat
  BY BlockTypes, IteratorTypes DEF IsAt, Blocks!Valid
<1>2. it.key = b.entries[it.at + 1].key /\ it.next = it.at + 1 /\ it.restart < Len(b.restarts)
  BY <1>1 DEF IsAt
<1>3. it.next <= Blocks!End(b) /\ it.next > 0 /\ it.key = b.entries[it.next].key
  BY <1>1, <1>2
<1> QED BY <1>1, <1>2, <1>3 DEF IsReady

LEMMA NextFound ==
    ASSUME NEW b, IsBlock(b), NEW it, IsAt(b, it), Blocks!Valid(b, it)
    PROVE  IsAt(b, Blocks!ParseNextKey(b, it)) /\ Blocks!ParseNextKey(b, it).at = it.at + 1
  BY AtIsReady, Parsed

LEMMA FirstFound ==
    ASSUME NEW b, IsBlock(b), NEW it \in Blocks!Iterator, it.ok
    PROVE  IsAt(b, Blocks!BlockFirst(b, it)) /\ Blocks!BlockFirst(b, it).at = 0
<1>1. 0 \in 0..(Len(b.restarts) - 1) /\ Blocks!RestartPoint(b, 0) = 0
  BY BlockTypes
<1> DEFINE s == Blocks!SeekToRestartPoint(b, it, 0)
<1>2. IsReady(b, s) /\ s.next = 0
  BY <1>1, AtRestartPoint
<1> HIDE DEF s
<1>3. IsAt(b, Blocks!ParseNextKey(b, s)) /\ Blocks!ParseNextKey(b, s).at = 0
  BY <1>2, Parsed
<1> QED BY <1>3 DEF Blocks!BlockFirst, s

(* The entry before end, which is behind the next one; or the end. *)
LEMMA Skipped ==
    ASSUME NEW b, IsBlock(b), NEW it, IsReady(b, it), NEW end \in Nat, end <= Blocks!End(b),
           it.next < end \/ end = 0
    PROVE  /\ IsAt(b, Blocks!SkipTo(b, it, end))
           /\ Blocks!SkipTo(b, it, end).at = IF it.next < end THEN end - 1 ELSE it.next
<1> DEFINE p == Blocks!ParseNextKey(b, it)
           turn == Blocks!Parsing(b)
           goes == {n \in Blocks!Iterator : Blocks!Valid(b, n) /\ n.next < end}
           result == Blocks!Loop(turn, goes, p, Blocks!End(b))
<1>1. IsAt(b, p) /\ p.at = it.next
  BY Parsed
<1>2. Blocks!End(b) \in Nat /\ it.next \in Nat
  BY BlockTypes, IteratorTypes DEF IsReady
<1>3. Blocks!SkipTo(b, it, end) = result
  BY DEF Blocks!SkipTo
<1>4. \A x \in Blocks!Iterator : turn[x] = Blocks!ParseNextKey(b, x)
  BY DEF Blocks!Parsing
<1> HIDE DEF p, turn, goes
<1>5. CASE it.next < end
  <2> DEFINE I == {x \in Blocks!Iterator : IsAt(b, x) /\ x.at < end}
             left == [x \in I |-> end - x.at]
  <2>1. p \in I
    BY <1>1, <1>5 DEF IsAt
  <2>2. \A x \in I : x \in goes => turn[x] \in I /\ turn[x].at = x.at + 1
    <3> SUFFICES ASSUME NEW x \in I, x \in goes PROVE turn[x] \in I /\ turn[x].at = x.at + 1
      OBVIOUS
    <3>1. x \in Blocks!Iterator /\ IsAt(b, x) /\ Blocks!Valid(b, x) /\ x.next < end
      BY DEF goes
    <3>2. IsAt(b, turn[x]) /\ turn[x].at = x.at + 1
      BY <1>4, <3>1, NextFound
    <3>3. x.next = x.at + 1
      BY <3>1, AtIsReady
    <3> QED BY <3>1, <3>2, <3>3 DEF IsAt
  <2>3. \A x \in I : x.at \in Nat /\ left[x] = end - x.at /\ left[x] \in Nat
    BY IteratorTypes
  <2>4. \A x \in I : left[x] \in Nat /\ (x \in goes => left[turn[x]] < left[x])
    <3> SUFFICES ASSUME NEW x \in I, x \in goes PROVE left[turn[x]] < left[x]
      BY <2>3
    <3>1. turn[x] \in I /\ turn[x].at = x.at + 1
      BY <2>2
    <3>2. left[turn[x]] = end - turn[x].at
      BY <2>3, <3>1
    <3> QED BY <2>3, <3>1, <3>2
  <2>5. left[p] <= Blocks!End(b)
    <3>1. left[p] = end - p.at /\ p.at \in Nat
      BY <2>1, <2>3
    <3> QED BY <1>2, <3>1
  <2> HIDE DEF I, left
  <2>6. result \in I /\ result \notin goes
    BY <1>2, <2>1, <2>2, <2>4, <2>5, LoopEnds
  <2> HIDE DEF result
  <2>7. result \in Blocks!Iterator /\ IsAt(b, result) /\ result.at < end /\ result.at \in Nat
    BY <2>6, IteratorTypes DEF I
  <2>8. Blocks!Valid(b, result)
    BY <1>2, <2>7 DEF Blocks!Valid
  <2>9. ~ result.next < end
    BY <2>6, <2>7, <2>8 DEF goes
  <2>10. result.next = result.at + 1
    BY <2>7, <2>8, AtIsReady
  <2> QED BY <1>3, <1>5, <2>7, <2>9, <2>10
<1>6. CASE ~ it.next < end
  <2>1. end = 0
    BY <1>6
  <2> DEFINE I == {p}
             left == [x \in I |-> 0]
  <2>2. p \notin goes
    <3> SUFFICES ASSUME p \in goes PROVE FALSE
      OBVIOUS
    <3>1. p \in Blocks!Iterator /\ p.next < 0
      BY <2>1 DEF goes
    <3>2. p.next \in Nat
      BY <3>1, IteratorTypes
    <3> QED BY <3>1, <3>2
  <2>3. p \in I /\ \A x \in I : x \in goes => turn[x] \in I
    BY <2>2
  <2>4. \A x \in I : left[x] \in Nat /\ (x \in goes => left[turn[x]] < left[x])
    BY <2>2
  <2>5. left[p] <= Blocks!End(b)
    BY <1>2
  <2> HIDE DEF I, left
  <2>6. result \in I /\ result \notin goes
    BY <1>2, <2>3, <2>4, <2>5, LoopEnds
  <2>7. result = p
    BY <2>6 DEF I
  <2> HIDE DEF result
  <2> QED BY <1>1, <1>3, <1>6, <2>7
<1> QED BY <1>5, <1>6

LEMMA LastFound ==
    ASSUME NEW b, IsBlock(b), NEW it \in Blocks!Iterator, it.ok
    PROVE  /\ IsAt(b, Blocks!BlockLast(b, it))
           /\ Blocks!BlockLast(b, it).at = IF Blocks!End(b) > 0 THEN Blocks!End(b) - 1 ELSE 0
<1> DEFINE i == Len(b.restarts) - 1
           s == Blocks!SeekToRestartPoint(b, it, i)
<1>1. i \in 0..(Len(b.restarts) - 1) /\ Blocks!End(b) \in Nat
  BY BlockTypes
<1>2. /\ Blocks!RestartPoint(b, i) \in Nat /\ Blocks!RestartPoint(b, i) <= Blocks!End(b)
      /\ Blocks!End(b) > 0 => Blocks!RestartPoint(b, i) < Blocks!End(b)
  BY <1>1, BlockTypes
<1>3. Blocks!BlockLast(b, it) = Blocks!SkipTo(b, s, Blocks!End(b))
  BY DEF Blocks!BlockLast
<1> HIDE DEF i
<1>4. IsReady(b, s) /\ s.next = Blocks!RestartPoint(b, i)
  BY <1>1, AtRestartPoint
<1> HIDE DEF s
<1>5. s.next < Blocks!End(b) \/ Blocks!End(b) = 0
  BY <1>1, <1>2, <1>4
<1>6. Blocks!End(b) <= Blocks!End(b)
  BY <1>1
<1>7. /\ IsAt(b, Blocks!SkipTo(b, s, Blocks!End(b)))
      /\ Blocks!SkipTo(b, s, Blocks!End(b)).at = IF s.next < Blocks!End(b) THEN Blocks!End(b) - 1 ELSE s.next
  BY <1>1, <1>4, <1>5, <1>6, Skipped
<1> QED BY <1>1, <1>2, <1>3, <1>4, <1>5, <1>7

LEMMA PrevFound ==
    ASSUME NEW b, IsBlock(b), NEW it, IsAt(b, it), Blocks!Valid(b, it)
    PROVE  /\ IsAt(b, Blocks!BlockPrev(b, it))
           /\ Blocks!BlockPrev(b, it).at = IF it.at = 0 THEN Blocks!End(b) ELSE it.at - 1
<1> DEFINE points == {i \in 0..it.restart : Blocks!RestartPoint(b, i) < it.at}
<1>1. /\ it \in Blocks!Iterator /\ it.ok /\ it.at < Blocks!End(b) /\ it.at \in Nat /\ it.restart \in Nat
      /\ it.restart < Len(b.restarts)
  BY AtIsReady, IteratorTypes DEF IsAt
<1>2. Blocks!End(b) \in Nat /\ Len(b.restarts) \in Nat
  BY BlockTypes
<1>3. \A i \in 0..it.restart : i \in 0..(Len(b.restarts) - 1)
  BY <1>1, <1>2
<1>4. \A i \in 0..it.restart : Blocks!RestartPoint(b, i) \in Nat
  BY <1>3, BlockTypes
<1>5. 0 \in 0..it.restart /\ Blocks!RestartPoint(b, 0) = 0
  BY <1>1, BlockTypes
<1>6. CASE points = {}
  <2>1. it.at = 0
    BY <1>1, <1>5, <1>6
  <2> DEFINE p == Blocks!BlockPrev(b, it)
  <2>2. p = [it EXCEPT !.at = Blocks!End(b), !.restart = Len(b.restarts)]
    BY <1>6 DEF Blocks!BlockPrev
  <2> HIDE DEF p
  <2>3. it \in [at : Nat, restart : Nat, key : [key : Nat, seq : Nat], next : Nat, ok : BOOLEAN]
    BY <1>1 DEF Blocks!Iterator
  <2>4. p.at = Blocks!End(b) /\ p.ok
    BY <1>1, <2>2, <2>3
  <2>5. p \in Blocks!Iterator
    BY <1>2, <2>2, <2>3 DEF Blocks!Iterator
  <2>6. IsAt(b, p)
    BY <1>2, <2>4, <2>5 DEF IsAt
  <2> QED BY <2>1, <2>4, <2>6 DEF p
<1>7. CASE points # {}
  <2> DEFINE i == CHOOSE i \in points : \A j \in points : j <= i
             s == Blocks!SeekToRestartPoint(b, it, i)
  <2>1. Blocks!BlockPrev(b, it) = Blocks!SkipTo(b, s, it.at)
    BY <1>7 DEF Blocks!BlockPrev
  <2>2. i \in points
    <3>1. \E k \in points : \A j \in points : j <= k
      <4> DEFINE D == {it.restart - j : j \in points}
      <4>1. D \subseteq Nat /\ D # {}
        BY <1>1, <1>7
      <4>2. PICK d \in D : \A e \in D : d <= e
        <5> HIDE DEF D
        <5> QED BY <4>1, LeastOf
      <4>3. PICK k \in points : d = it.restart - k
        BY <4>2
      <4>4. \A j \in points : it.restart - k <= it.restart - j
        BY <4>2, <4>3
      <4>5. \A j \in points : j <= k
        BY <1>1, <4>4
      <4> QED BY <4>5
    <3> HIDE DEF points
    <3> QED BY <3>1
  <2> HIDE DEF i
  <2>3. i \in 0..(Len(b.restarts) - 1) /\ Blocks!RestartPoint(b, i) < it.at /\ Blocks!RestartPoint(b, i) \in Nat
    BY <1>3, <1>4, <2>2
  <2>4. IsReady(b, s) /\ s.next = Blocks!RestartPoint(b, i)
    BY <1>1, <2>3, AtRestartPoint
  <2> HIDE DEF s
  <2>5. s.next < it.at /\ it.at <= Blocks!End(b)
    BY <1>1, <1>2, <2>3, <2>4
  <2>6. /\ IsAt(b, Blocks!SkipTo(b, s, it.at))
        /\ Blocks!SkipTo(b, s, it.at).at = IF s.next < it.at THEN it.at - 1 ELSE s.next
    BY <1>1, <2>4, <2>5, Skipped
  <2>7. it.at # 0
    BY <1>1, <2>3
  <2> QED BY <2>1, <2>5, <2>6, <2>7
<1> QED BY <1>6, <1>7

(* The binary search: the entry of the restart point that it ends at is    *)
(* before the target, unless it is the first one.                          *)
LEMMA LastRestartOf ==
    ASSUME NEW b, IsBlock(b), NEW t
    PROVE  /\ Blocks!LastRestart(b, t) \in 0..(Len(b.restarts) - 1)
           /\ LET i == Blocks!LastRestart(b, t)
              IN  i # 0 => Blocks!Before(b.entries[Blocks!RestartPoint(b, i) + 1].key, t)
<1> DEFINE n == Len(b.restarts)
           range == Nat \X Nat
           turn == [r \in range |-> Blocks!Halved(b, t, r[1], r[2])]
           goes == {r \in range : r[1] < r[2]}
           s == <<0, n - 1>>
           First(i) == b.entries[Blocks!RestartPoint(b, i) + 1]
           I == {r \in range : r[1] <= r[2] /\ r[2] < n /\ (r[1] # 0 => Blocks!Before(First(r[1]).key, t))}
           left == [r \in I |-> r[2] - r[1]]
           result == Blocks!Loop(turn, goes, s, n)
<1>1. n \in Nat /\ n > 0
  BY BlockTypes
<1>2. s \in I
  BY <1>1
<1>3. ASSUME NEW r \in I, r \in goes
      PROVE  turn[r] \in I /\ turn[r][2] - turn[r][1] < r[2] - r[1]
  <2> DEFINE m == (r[1] + r[2] + 1) \div 2
  <2>1. r[1] \in Nat /\ r[2] \in Nat /\ r[1] < r[2] /\ r[2] < n /\ r \in range
    BY <1>3
  <2>2. m \in Nat /\ r[1] < m /\ m <= r[2]
    <3> DEFINE x == r[1] + r[2] + 1
    <3>1. x \in Nat
      BY <2>1
    <3>2. x \div 2 \in Int /\ 2 * (x \div 2) <= x /\ x < 2 * (x \div 2) + 2
      BY <3>1
    <3> QED BY <2>1, <3>2
  <2>3. turn[r] = Blocks!Halved(b, t, r[1], r[2])
    BY <2>1
  <2> HIDE DEF m
  <2>4. ~ First(m).shared
    <3>1. m \in 0..(n - 1) /\ n - 1 < n /\ m > 0
      BY <1>1, <2>1, <2>2
    <3>2. Blocks!End(b) > 0
      <4>1. m + 1 \in DOMAIN b.restarts /\ m + 1 > 1
        BY <3>1 DEF IsBlock
      <4>2. b.restarts[m + 1] < Len(b.entries) /\ b.restarts[m + 1] \in Nat
        BY <4>1 DEF IsBlock
      <4>3. Blocks!End(b) = Len(b.entries) /\ Blocks!End(b) \in Nat
        BY BlockTypes
      <4> QED BY <4>2, <4>3
    <3> QED BY <3>1, <3>2, BlockTypes
  <2>5. Blocks!Halved(b, t, r[1], r[2]) =
           IF Blocks!Before(First(m).key, t) THEN <<m, r[2]>> ELSE <<r[1], m - 1>>
    BY <2>4 DEF Blocks!Halved, m
  <2>6. CASE Blocks!Before(First(m).key, t)
    <3>1. turn[r] = <<m, r[2]>>
      BY <2>3, <2>5, <2>6
    <3> HIDE DEF turn, First
    <3>2. <<m, r[2]>> \in I
      BY <2>1, <2>2, <2>6
    <3> QED BY <2>1, <2>2, <3>1, <3>2
  <2>7. CASE ~ Blocks!Before(First(m).key, t)
    <3>1. turn[r] = <<r[1], m - 1>>
      BY <2>3, <2>5, <2>7
    <3>2. r[1] # 0 => Blocks!Before(First(r[1]).key, t)
      BY <1>3
    <3> HIDE DEF turn, First
    <3>3. <<r[1], m - 1>> \in I
      BY <1>1, <2>1, <2>2, <3>2
    <3> QED BY <2>1, <2>2, <3>1, <3>3
  <2> QED BY <2>6, <2>7
<1>4. \A r \in I : left[r] = r[2] - r[1] /\ left[r] \in Nat
  OBVIOUS
<1>5. left[s] <= n
  BY <1>1, <1>2
<1> HIDE DEF turn, goes, s, I, left, First
<1>6. \A r \in I : left[r] \in Nat /\ (r \in goes => left[turn[r]] < left[r])
  BY <1>3, <1>4
<1>7. \A r \in I : r \in goes => turn[r] \in I
  BY <1>3
<1>8. result \in I
  BY <1>1, <1>2, <1>5, <1>6, <1>7, LoopEnds
<1>9. Blocks!LastRestart(b, t) = result[1]
  BY DEF Blocks!LastRestart, turn, goes, s
<1> HIDE DEF result
<1>10. result[1] \in 0..(n - 1) /\ (result[1] # 0 => Blocks!Before(First(result[1]).key, t))
  BY <1>1, <1>8 DEF I
<1> QED BY <1>9, <1>10 DEF First

(* Seek: the first entry that is not before the target, or the end. *)
LEMMA SeekFound ==
    ASSUME NEW b, IsBlock(b), NEW it \in Blocks!Iterator, it.ok, NEW t \in Keys
    PROVE  /\ IsAt(b, Blocks!BlockSeek(b, it, t))
           /\ \A j \in 1..Blocks!End(b) :
                 Blocks!Before(b.entries[j].key, t) <=> j <= Blocks!BlockSeek(b, it, t).at
<1> DEFINE i == Blocks!LastRestart(b, t)
           s == Blocks!SeekToRestartPoint(b, it, i)
           p == Blocks!ParseNextKey(b, s)
           turn == Blocks!Parsing(b)
           goes == {n \in Blocks!Iterator : Blocks!Valid(b, n) /\ Blocks!Before(n.key, t)}
           result == Blocks!Loop(turn, goes, p, Blocks!End(b))
           I == {x \in Blocks!Iterator : IsAt(b, x) /\ \A j \in 1..x.at : Blocks!Before(b.entries[j].key, t)}
           left == [x \in I |-> Blocks!End(b) - x.at]
<1>a. i \in 0..(Len(b.restarts) - 1)
  BY LastRestartOf
<1>b. Blocks!BlockSeek(b, it, t) = result
  <2>1. i # -1
    BY <1>a
  <2> QED BY <2>1 DEF Blocks!BlockSeek, Blocks!ScanTo
<1>2. Blocks!End(b) \in Nat /\ Blocks!RestartPoint(b, i) \in Nat /\ Blocks!RestartPoint(b, i) <= Blocks!End(b)
  BY <1>a, BlockTypes
<1> HIDE DEF i
<1>3. IsReady(b, s) /\ s.next = Blocks!RestartPoint(b, i)
  BY <1>a, AtRestartPoint
<1> HIDE DEF s
<1>4. IsAt(b, p) /\ p.at = Blocks!RestartPoint(b, i)
  BY <1>3, Parsed
<1> HIDE DEF p
<1>5. ASSUME NEW x \in Blocks!Iterator, IsAt(b, x)
      PROVE  x.at \in Nat /\ x.at <= Blocks!End(b)
  BY <1>5, IteratorTypes DEF IsAt
<1>6. ASSUME NEW m \in 1..Blocks!End(b), Blocks!Before(b.entries[m].key, t), NEW j \in 1..m
      PROVE  Blocks!Before(b.entries[j].key, t)
  <2>1. CASE j = m
    BY <1>6, <2>1
  <2>2. CASE j # m
    <3>1. j < m /\ j \in 1..Blocks!End(b)
      BY <1>2, <2>2
    <3>2. Blocks!Before(b.entries[j].key, b.entries[m].key) /\ b.entries[j].key \in Keys /\ b.entries[m].key \in Keys
      BY <3>1, BlockTypes
    <3> QED BY <1>6, <3>2, KeysOrdered
  <2> QED BY <2>1, <2>2
<1>7. p \in I
  <2>1. p \in Blocks!Iterator
    BY <1>4 DEF IsAt
  <2>2. ASSUME NEW j \in 1..p.at PROVE Blocks!Before(b.entries[j].key, t)
    <3>1. p.at \in Nat /\ p.at > 0
      BY <1>2, <1>4
    <3>2. i # 0
      BY <1>4, <3>1, BlockTypes
    <3>3. i + 1 \in DOMAIN b.restarts /\ i + 1 > 1
      BY <1>a, <3>2 DEF IsBlock
    <3>4. Blocks!RestartPoint(b, i) < Blocks!End(b)
      <4>1. Blocks!End(b) > 0
        BY <1>2, <1>4, <3>1
      <4> QED BY <1>a, <4>1, BlockTypes
    <3>5. Blocks!RestartPoint(b, i) + 1 \in 1..Blocks!End(b) /\ j \in 1..(Blocks!RestartPoint(b, i) + 1)
      BY <1>2, <1>4, <3>4
    <3>6. Blocks!Before(b.entries[Blocks!RestartPoint(b, i) + 1].key, t)
      BY <3>2, LastRestartOf DEF i
    <3> QED BY <1>6, <3>5, <3>6
  <2> QED BY <1>4, <2>1, <2>2
<1>8. \A x \in Blocks!Iterator : turn[x] = Blocks!ParseNextKey(b, x)
  BY DEF Blocks!Parsing
<1> HIDE DEF turn
<1>9. ASSUME NEW x \in I, x \in goes
      PROVE  turn[x] \in I /\ turn[x].at = x.at + 1 /\ x.at < Blocks!End(b)
  <2>1. x \in Blocks!Iterator /\ IsAt(b, x) /\ Blocks!Valid(b, x) /\ Blocks!Before(x.key, t)
    BY <1>9
  <2>2. IsAt(b, turn[x]) /\ turn[x].at = x.at + 1
    BY <1>8, <2>1, NextFound
  <2>3. x.key = b.entries[x.at + 1].key /\ x.at \in Nat /\ x.at < Blocks!End(b)
    BY <2>1, AtIsReady DEF IsAt
  <2>4. ASSUME NEW j \in 1..(x.at + 1) PROVE Blocks!Before(b.entries[j].key, t)
    BY <1>6, <1>2, <2>1, <2>3
  <2>5. turn[x] \in Blocks!Iterator
    BY <2>2 DEF IsAt
  <2> QED BY <2>2, <2>3, <2>4, <2>5
<1>10. \A x \in I : x.at \in Nat /\ x.at <= Blocks!End(b) /\ left[x] = Blocks!End(b) - x.at /\ left[x] \in Nat
  BY <1>2, <1>5
<1> HIDE DEF goes, I, left
<1>11. \A x \in I : left[x] \in Nat /\ (x \in goes => left[turn[x]] < left[x])
  <2> SUFFICES ASSUME NEW x \in I, x \in goes PROVE left[turn[x]] < left[x]
    BY <1>10
  <2>1. turn[x] \in I /\ turn[x].at = x.at + 1 /\ left[turn[x]] = Blocks!End(b) - turn[x].at
    BY <1>9, <1>10
  <2> QED BY <1>2, <1>10, <2>1
<1>12. left[p] <= Blocks!End(b)
  <2>1. left[p] = Blocks!End(b) - p.at /\ p.at \in Nat
    BY <1>7, <1>10
  <2> QED BY <1>2, <2>1
<1>13. \A x \in I : x \in goes => turn[x] \in I
  BY <1>9
<1>14. result \in I /\ result \notin goes
  BY <1>2, <1>7, <1>11, <1>12, <1>13, LoopEnds
<1> HIDE DEF result
<1>15. /\ result \in Blocks!Iterator /\ IsAt(b, result)
       /\ \A j \in 1..result.at : Blocks!Before(b.entries[j].key, t)
  BY <1>14 DEF I
<1>16. result.at \in Nat /\ result.at <= Blocks!End(b)
  BY <1>5, <1>15
<1>17. ASSUME NEW j \in 1..Blocks!End(b), Blocks!Before(b.entries[j].key, t), ~ j <= result.at PROVE FALSE
  <2>1. result.at < Blocks!End(b) /\ result.at + 1 \in 1..j
    BY <1>2, <1>16, <1>17
  <2>2. Blocks!Before(b.entries[result.at + 1].key, t)
    BY <1>6, <1>17, <2>1
  <2>3. Blocks!Valid(b, result) /\ result.key = b.entries[result.at + 1].key
    BY <1>15, <2>1 DEF Blocks!Valid, IsAt
  <2> QED BY <1>14, <1>15, <2>2, <2>3 DEF goes
<1>18. \A j \in 1..Blocks!End(b) : Blocks!Before(b.entries[j].key, t) <=> j <= result.at
  BY <1>15, <1>16, <1>17
<1> QED BY <1>b, <1>15, <1>18

-----------------------------------------------------------------------------
(***************************************************************************)
(* The builder.  The blocks of its file and the one that it fills, in      *)
(* order; what the entries of its index have of them.                      *)
(***************************************************************************)
KeysOf(b) == {b.entries[j].key : j \in DOMAIN b.entries}
LastKey(b) == b.entries[Len(b.entries)].key
Row(bs, b, i) == IF i \in DOMAIN bs THEN bs[i] ELSE b.data
BlockRecords == [entries : Seq(Entries), restarts : Seq(Nat), counter : Nat]

BuilderTypes(bs, b) ==
    /\ b \in [open : BOOLEAN, ok : BOOLEAN, data : BlockRecords, index : BlockRecords, last : Keys,
              pending : BOOLEAN, added : SUBSET Keys]
    /\ bs \in Seq(BlockRecords)

RowsRight(bs, b) ==
    /\ \A i \in DOMAIN bs : IsBlock(bs[i]) /\ bs[i].entries # <<>>
    /\ IsBlock(b.data)
    /\ \A i, j \in 1..(Len(bs) + 1) :
          i < j => \A k \in KeysOf(Row(bs, b, i)), m \in KeysOf(Row(bs, b, j)) : Blocks!Before(k, m)
    /\ b.added = UNION {KeysOf(Row(bs, b, i)) : i \in 1..(Len(bs) + 1)}
    /\ b.added # {} => b.last \in b.added
    /\ \A k \in b.added : k = b.last \/ Blocks!Before(k, b.last)

(* A separator is the last key of its block, or between that and the user  *)
(* keys behind it.                                                         *)
Separates(bs, b, i) ==
    LET s == b.index.entries[i].key
        l == LastKey(bs[i])
    IN  s = l \/ (/\ Blocks!Before(l, s)
                  /\ \A j \in (i + 1)..(Len(bs) + 1) : \A k \in KeysOf(Row(bs, b, j)) : s.key < k.key)
IndexRight(bs, b) ==
    /\ IsBlock(b.index)
    /\ Len(b.index.entries) = IF b.pending THEN Len(bs) - 1 ELSE Len(bs)
    /\ b.pending => bs # <<>> /\ b.data = Blocks!EmptyBlock
    /\ \A i \in DOMAIN b.index.entries : b.index.entries[i].value = i /\ Separates(bs, b, i)

BuilderRight(bs, b) == BuilderTypes(bs, b) /\ RowsRight(bs, b) /\ IndexRight(bs, b)
Between(bs, b) ==
    IF b.open THEN b.pending <=> b.data = Blocks!EmptyBlock /\ bs # <<>>
    ELSE ~ b.pending /\ b.data = Blocks!EmptyBlock /\ bs # <<>>

(***************************************************************************)
(* The reader.                                                             *)
(***************************************************************************)
IsOpen == ~ builder.open /\ builder.ok
NoError(c) == c.ok /\ Blocks!DataOk(c)
CursorRight ==
    /\ cursor \in Blocks!Cursor /\ cursor.data.ok
    /\ IF IsOpen
       THEN /\ IsAt(builder.index, cursor.index)
            /\ cursor.block # 0 => /\ Blocks!IndexValid(cursor) /\ cursor.block = cursor.index.at + 1
                                   /\ cursor.readable /\ IsAt(blocks[cursor.block], cursor.data)
                                   /\ Blocks!DataValid(cursor)
       ELSE cursor.block = 0 /\ cursor.ok /\ wanted = {}

TableInv ==
    /\ BuilderTypes(blocks, builder)
    /\ builder.ok => BuilderRight(blocks, builder) /\ Between(blocks, builder)
    /\ CursorRight /\ Blocks!FileIteratorRight

-----------------------------------------------------------------------------
LEMMA TableConstants ==
    /\ UserKey \subseteq Nat \ {0} /\ MaxSeq \in Nat /\ RestartInterval \in Nat /\ RestartInterval > 0
    /\ Blocks!Key \subseteq Keys /\ Blocks!NoKey \in Keys
<1>1. UserKey \subseteq Nat \ {0} /\ MaxSeq \in Nat /\ RestartInterval \in Nat /\ RestartInterval > 0
  BY StorageAssumption DEF Blocks!FileAssumption
<1>2. Blocks!Key \subseteq Keys
  <2>1. UserKey \subseteq Nat /\ 1..(MaxSeq - 1) \subseteq Nat
    BY <1>1
  <2> QED BY <2>1 DEF Blocks!Key, Keys
<1>3. Blocks!NoKey \in Keys
  BY DEF Keys, Blocks!NoKey
<1> QED BY <1>1, <1>2, <1>3

LEMMA KeysOfBlock ==
    ASSUME NEW b, IsBlock(b)
    PROVE  /\ KeysOf(b) \subseteq Keys
           /\ \A k : k \in KeysOf(b) <=> \E j \in 1..Blocks!End(b) : k = b.entries[j].key
           /\ b.entries = <<>> => KeysOf(b) = {}
           /\ b.entries # <<>> =>
                 /\ LastKey(b) \in KeysOf(b) /\ LastKey(b) = b.entries[Blocks!End(b)].key
                 /\ \A k \in KeysOf(b) : k = LastKey(b) \/ Blocks!Before(k, LastKey(b))
<1>1. /\ Blocks!End(b) \in Nat /\ Blocks!End(b) = Len(b.entries) /\ DOMAIN b.entries = 1..Blocks!End(b)
      /\ b.entries # <<>> <=> Blocks!End(b) > 0
      /\ \A i \in 1..Blocks!End(b) : b.entries[i].key \in Keys
  BY BlockTypes
<1>2. \A k : k \in KeysOf(b) <=> \E j \in 1..Blocks!End(b) : k = b.entries[j].key
  BY <1>1 DEF KeysOf
<1>3. KeysOf(b) \subseteq Keys
  BY <1>1, <1>2
<1>4. b.entries = <<>> => KeysOf(b) = {}
  BY <1>1, <1>2
<1>5. ASSUME b.entries # <<>>
      PROVE  /\ LastKey(b) \in KeysOf(b) /\ LastKey(b) = b.entries[Blocks!End(b)].key
             /\ \A k \in KeysOf(b) : k = LastKey(b) \/ Blocks!Before(k, LastKey(b))
  <2>1. Blocks!End(b) \in 1..Blocks!End(b)
    BY <1>1, <1>5
  <2>2. LastKey(b) = b.entries[Blocks!End(b)].key
    BY <1>1 DEF LastKey
  <2>3. ASSUME NEW k \in KeysOf(b) PROVE k = LastKey(b) \/ Blocks!Before(k, LastKey(b))
    <3>1. PICK j \in 1..Blocks!End(b) : k = b.entries[j].key
      BY <1>2
    <3>2. j = Blocks!End(b) \/ j < Blocks!End(b)
      BY <1>1
    <3> QED BY <2>1, <2>2, <3>1, <3>2, BlockTypes
  <2> QED BY <1>2, <2>1, <2>2, <2>3
<1> QED BY <1>2, <1>3, <1>4, <1>5

(* BlockBuilder::Add of a key behind those of the block. *)
LEMMA BlockAdded ==
    ASSUME NEW b, IsBlock(b), NEW interval \in Nat, interval > 0, NEW key \in Keys, NEW value \in Nat,
           NEW shares, \A k \in KeysOf(b) : Blocks!Before(k, key)
    PROVE  LET a == Blocks!BlockAdd(b, interval, key, value, shares)
               n == Len(b.entries)
           IN  /\ IsBlock(a) /\ a.entries # <<>> /\ Len(a.entries) = n + 1 /\ DOMAIN a.entries = 1..(n + 1)
               /\ a.entries[n + 1].key = key /\ a.entries[n + 1].value = value
               /\ \A j \in 1..n : a.entries[j] = b.entries[j]
               /\ KeysOf(a) = KeysOf(b) \cup {key} /\ LastKey(a) = key
<1> DEFINE a == Blocks!BlockAdd(b, interval, key, value, shares)
           n == Len(b.entries)
           restart == b.counter >= interval
           e == [key |-> key, value |-> value, shared |-> shares /\ ~ restart /\ b.entries # <<>>]
           restarts == IF restart THEN Append(b.restarts, n) ELSE b.restarts
           counter == IF restart THEN 1 ELSE b.counter + 1
<1>1. b.entries \in Seq(Entries) /\ b.restarts \in Seq(Nat) /\ b.counter \in Nat
  BY DEF IsBlock
<1>2. a = [entries |-> Append(b.entries, e), restarts |-> restarts, counter |-> counter]
  BY DEF Blocks!BlockAdd
<1>3. a.entries = Append(b.entries, e) /\ a.restarts = restarts /\ a.counter = counter
  BY <1>2
<1>4. e.key = key /\ e.value = value /\ e \in Entries /\ (e.shared => ~ restart /\ b.entries # <<>>)
  BY DEF Entries
<1> HIDE DEF e, a
<1>5. /\ n \in Nat /\ Len(a.entries) = n + 1 /\ DOMAIN a.entries = 1..(n + 1) /\ a.entries # <<>>
      /\ a.entries[n + 1] = e /\ \A j \in 1..n : a.entries[j] = b.entries[j]
      /\ a.entries \in Seq(Entries) /\ DOMAIN b.entries = 1..n /\ (b.entries # <<>> <=> n > 0)
  <2> DEFINE f == b.entries
             g == a.entries
  <2>1. f \in Seq(Entries) /\ e \in Entries /\ g = Append(f, e)
    BY <1>1, <1>3, <1>4
  <2> HIDE DEF f, g
  <2>2. /\ Len(f) \in Nat /\ Len(g) = Len(f) + 1 /\ g \in Seq(Entries) /\ DOMAIN f = 1..Len(f)
        /\ g[Len(f) + 1] = e /\ \A j \in 1..Len(f) : g[j] = f[j]
    BY <2>1
  <2>3. DOMAIN g = 1..(Len(f) + 1) /\ g # <<>> /\ (f # <<>> <=> Len(f) > 0)
    BY <2>1, <2>2
  <2> QED BY <2>2, <2>3 DEF f, g
<1>6. restart => b.entries # <<>>
  <2> SUFFICES ASSUME restart, b = Blocks!EmptyBlock PROVE FALSE
    BY DEF IsBlock
  <2>1. b.counter = 0
    BY DEF Blocks!EmptyBlock
  <2> QED BY <2>1
<1>7. a \in [entries : Seq(Entries), restarts : Seq(Nat), counter : Nat]
  <2>1. restarts \in Seq(Nat)
    BY <1>1, <1>5
  <2>2. counter \in Nat
    BY <1>1
  <2> HIDE DEF restarts, counter
  <2> QED BY <1>2, <1>3, <1>5, <2>1, <2>2
<1>8. a.restarts # <<>> /\ a.restarts[1] = 0
  <2>1. b.restarts # <<>> /\ b.restarts[1] = 0 /\ 1 \in DOMAIN b.restarts /\ Len(b.restarts) \in Nat
    BY <1>1 DEF IsBlock
  <2>2. CASE restart
    <3>1. a.restarts = Append(b.restarts, n)
      BY <1>3, <2>2
    <3> QED BY <1>1, <1>5, <2>1, <3>1, SMTT(30)
  <2>3. CASE ~ restart
    BY <1>3, <2>1, <2>3
  <2> QED BY <2>2, <2>3
<1>9. ASSUME NEW i \in DOMAIN a.restarts
      PROVE  (i > 1 => a.restarts[i] < Len(a.entries)) /\ ~ a.entries[a.restarts[i] + 1].shared
  <2>1. CASE i \in DOMAIN b.restarts
    <3>1. a.restarts[i] = b.restarts[i] /\ i \in Nat /\ b.restarts[i] \in Nat
      <4>1. i \in Nat /\ b.restarts[i] \in Nat
        BY <1>1, <2>1
      <4>2. CASE restart
        <5>1. a.restarts = Append(b.restarts, n)
          BY <1>3, <4>2
        <5> QED BY <1>1, <1>5, <2>1, <4>1, <5>1
      <4>3. CASE ~ restart
        BY <1>3, <4>1, <4>3
      <4> QED BY <4>2, <4>3
    <3>2. /\ i > 1 => b.restarts[i] < n
          /\ b.entries # <<>> => ~ b.entries[b.restarts[i] + 1].shared
      BY <2>1 DEF IsBlock
    <3>3. i > 1 => a.restarts[i] < Len(a.entries)
      BY <1>5, <3>1, <3>2
    <3>4. CASE b.entries # <<>>
      <4>1. b.restarts[i] < n
        <5>1. i = 1 \/ i > 1
          BY <1>1, <2>1
        <5>2. i = 1 => b.restarts[i] = 0
          BY DEF IsBlock
        <5> QED BY <1>5, <3>2, <3>4, <5>1, <5>2
      <4>2. b.restarts[i] + 1 \in 1..n
        BY <1>5, <3>1, <4>1
      <4>3. a.entries[a.restarts[i] + 1] = b.entries[b.restarts[i] + 1]
        BY <1>5, <3>1, <4>2
      <4> QED BY <3>2, <3>3, <3>4, <4>3
    <3>5. CASE b.entries = <<>>
      <4>1. b = Blocks!EmptyBlock
        BY <3>5 DEF IsBlock
      <4>2. b.restarts = <<0>>
        BY <4>1 DEF Blocks!EmptyBlock
      <4>3. b.restarts[i] = 0 /\ n = 0
        BY <1>5, <2>1, <3>5, <4>2
      <4>4. a.entries[a.restarts[i] + 1] = e
        BY <1>5, <3>1, <4>3
      <4> QED BY <1>4, <3>3, <3>5, <4>4
    <3> QED BY <3>4, <3>5
  <2>2. CASE i \notin DOMAIN b.restarts
    <3>1. restart
      BY <1>3, <2>2
    <3>2. a.restarts = Append(b.restarts, n)
      BY <1>3, <3>1
    <3>3. a.restarts[i] = n
      BY <1>1, <1>5, <2>2, <3>2
    <3>4. ~ e.shared
      BY <1>4, <3>1
    <3> QED BY <1>5, <3>3, <3>4
  <2> QED BY <2>1, <2>2
<1>10. \A j \in 1..n : b.entries[j].key \in KeysOf(b)
  BY <1>5 DEF KeysOf
<1>11. ASSUME NEW i \in DOMAIN a.entries, NEW j \in DOMAIN a.entries, i < j
       PROVE  Blocks!Before(a.entries[i].key, a.entries[j].key)
  <2>1. i \in 1..n
    BY <1>5, <1>11
  <2>2. CASE j = n + 1
    BY <1>4, <1>5, <1>10, <2>1, <2>2
  <2>3. CASE j # n + 1
    <3>1. j \in 1..n /\ i \in DOMAIN b.entries /\ j \in DOMAIN b.entries
      BY <1>5, <2>1, <2>3
    <3>2. Blocks!Before(b.entries[i].key, b.entries[j].key)
      BY <1>11, <3>1 DEF IsBlock
    <3> QED BY <1>5, <2>1, <3>1, <3>2
  <2> QED BY <2>2, <2>3
<1>12. IsBlock(a)
  BY <1>5, <1>7, <1>8, <1>9, <1>11 DEF IsBlock
<1>13. KeysOf(a) = KeysOf(b) \cup {key}
  <2>1. \A k : k \in KeysOf(a) <=> \E j \in 1..(n + 1) : k = a.entries[j].key
    BY <1>5 DEF KeysOf
  <2>2. \A k : k \in KeysOf(b) <=> \E j \in 1..n : k = b.entries[j].key
    BY <1>5 DEF KeysOf
  <2>3. \A k : k \in KeysOf(a) => k \in KeysOf(b) \/ k = key
    <3> SUFFICES ASSUME NEW k \in KeysOf(a) PROVE k \in KeysOf(b) \/ k = key
      OBVIOUS
    <3>1. PICK j \in 1..(n + 1) : k = a.entries[j].key
      BY <2>1
    <3>2. j \in 1..n \/ j = n + 1
      BY <1>5
    <3> QED BY <1>4, <1>5, <2>2, <3>1, <3>2
  <2>4. \A k \in KeysOf(b) : k \in KeysOf(a)
    <3> SUFFICES ASSUME NEW k \in KeysOf(b) PROVE k \in KeysOf(a)
      OBVIOUS
    <3>1. PICK j \in 1..n : k = b.entries[j].key
      BY <2>2
    <3>2. j \in 1..(n + 1) /\ a.entries[j] = b.entries[j]
      BY <1>5
    <3> QED BY <2>1, <3>1, <3>2
  <2>5. key \in KeysOf(a)
    <3>1. n + 1 \in 1..(n + 1) /\ a.entries[n + 1].key = key
      BY <1>4, <1>5
    <3> QED BY <2>1, <3>1
  <2> QED BY <2>3, <2>4, <2>5
<1>14. LastKey(a) = key
  BY <1>4, <1>5 DEF LastKey
<1> QED BY <1>4, <1>5, <1>12, <1>13, <1>14 DEF a

-----------------------------------------------------------------------------
LEMMA RowFacts ==
    ASSUME NEW bs, NEW b, BuilderTypes(bs, b), RowsRight(bs, b)
    PROVE  /\ Len(bs) \in Nat /\ DOMAIN bs = 1..Len(bs) /\ (bs # <<>> <=> Len(bs) > 0)
           /\ \A i \in 1..Len(bs) : Row(bs, b, i) = bs[i] /\ bs[i].entries # <<>> /\ bs[i] # Blocks!EmptyBlock
           /\ Row(bs, b, Len(bs) + 1) = b.data
           /\ \A i \in 1..(Len(bs) + 1) :
                 /\ IsBlock(Row(bs, b, i))
                 /\ \A k \in KeysOf(Row(bs, b, i)) : k \in Keys /\ k \in b.added
           /\ \A k \in b.added : k \in Keys /\ \E i \in 1..(Len(bs) + 1) : k \in KeysOf(Row(bs, b, i))
<1>1. bs \in Seq(BlockRecords)
  BY DEF BuilderTypes
<1>2. Len(bs) \in Nat /\ DOMAIN bs = 1..Len(bs) /\ (bs # <<>> <=> Len(bs) > 0)
  BY <1>1
<1>3. \A i \in 1..Len(bs) : Row(bs, b, i) = bs[i] /\ bs[i].entries # <<>> /\ bs[i] # Blocks!EmptyBlock
  <2>1. Blocks!EmptyBlock.entries = <<>>
    BY DEF Blocks!EmptyBlock
  <2> QED BY <1>2, <2>1 DEF RowsRight, Row
<1>4. Row(bs, b, Len(bs) + 1) = b.data
  BY <1>2 DEF Row
<1>5. ASSUME NEW i \in 1..(Len(bs) + 1) PROVE IsBlock(Row(bs, b, i))
  <2>1. i \in 1..Len(bs) \/ i = Len(bs) + 1
    BY <1>2
  <2> QED BY <1>2, <1>3, <1>4, <2>1 DEF RowsRight
<1>6. b.added = UNION {KeysOf(Row(bs, b, i)) : i \in 1..(Len(bs) + 1)}
  BY DEF RowsRight
<1>7. ASSUME NEW i \in 1..(Len(bs) + 1), NEW k \in KeysOf(Row(bs, b, i)) PROVE k \in Keys /\ k \in b.added
  <2>1. k \in Keys
    BY <1>5, KeysOfBlock
  <2> QED BY <1>6, <2>1
<1>8. ASSUME NEW k \in b.added PROVE k \in Keys /\ \E i \in 1..(Len(bs) + 1) : k \in KeysOf(Row(bs, b, i))
  <2>1. \E i \in 1..(Len(bs) + 1) : k \in KeysOf(Row(bs, b, i))
    BY <1>6
  <2> QED BY <1>7, <2>1
<1> QED BY <1>2, <1>3, <1>4, <1>5, <1>7, <1>8

(* The last of the rows that are not empty ends with the greatest key. *)
LEMMA LastRow ==
    ASSUME NEW bs, NEW b, BuilderTypes(bs, b), RowsRight(bs, b), NEW i \in 1..(Len(bs) + 1),
           Row(bs, b, i).entries # <<>>, \A j \in (i + 1)..(Len(bs) + 1) : KeysOf(Row(bs, b, j)) = {}
    PROVE  LastKey(Row(bs, b, i)) = b.last /\ b.last \in Keys
<1> DEFINE l == LastKey(Row(bs, b, i))
<1>1. Len(bs) \in Nat /\ IsBlock(Row(bs, b, i))
  BY RowFacts
<1>2. l \in KeysOf(Row(bs, b, i)) /\ \A k \in KeysOf(Row(bs, b, i)) : k = l \/ Blocks!Before(k, l)
  BY <1>1, KeysOfBlock
<1> HIDE DEF l
<1>3. l \in b.added /\ l \in Keys
  BY <1>2, RowFacts
<1>4. b.last \in b.added
  BY <1>3 DEF RowsRight
<1>5. PICK m \in 1..(Len(bs) + 1) : b.last \in KeysOf(Row(bs, b, m))
  BY <1>4, RowFacts
<1>6. m <= i
  BY <1>1, <1>5
<1>7. b.last = l \/ Blocks!Before(b.last, l)
  <2>1. CASE m = i
    BY <1>2, <1>5, <2>1
  <2>2. CASE m < i
    BY <1>2, <1>5, <2>2 DEF RowsRight
  <2> QED BY <1>1, <1>6, <2>1, <2>2
<1>8. l = b.last \/ Blocks!Before(l, b.last)
  BY <1>3 DEF RowsRight
<1>9. b.last \in Keys
  BY <1>4, RowFacts
<1> QED BY <1>3, <1>7, <1>8, <1>9, KeysOrdered DEF l

(* The keys of the index are in order, the last one not behind the last    *)
(* key that was added, or a separator behind it.                           *)
LEMMA IndexFacts ==
    ASSUME NEW bs, NEW b, BuilderRight(bs, b)
    PROVE  LET n == Blocks!End(b.index)
           IN  /\ n \in Nat /\ n <= Len(bs) /\ DOMAIN b.index.entries = 1..n /\ Len(b.index.entries) = n
               /\ \A i \in 1..n :
                     /\ b.index.entries[i].value = i /\ b.index.entries[i].key \in Keys
                     /\ LastKey(bs[i]) \in Keys
                     /\ LastKey(bs[i]) = b.index.entries[i].key
                        \/ Blocks!Before(LastKey(bs[i]), b.index.entries[i].key)
                     /\ \A k \in KeysOf(bs[i]) : k = b.index.entries[i].key \/ Blocks!Before(k, b.index.entries[i].key)
                     /\ \A j \in (i + 1)..(Len(bs) + 1) : \A k \in KeysOf(Row(bs, b, j)) :
                           Blocks!Before(b.index.entries[i].key, k)
<1> DEFINE n == Blocks!End(b.index)
<1>1. BuilderTypes(bs, b) /\ RowsRight(bs, b) /\ IndexRight(bs, b) /\ IsBlock(b.index)
  BY DEF BuilderRight, IndexRight
<1>2. n \in Nat /\ DOMAIN b.index.entries = 1..n /\ Len(b.index.entries) = n
  BY <1>1, BlockTypes
<1>3. n <= Len(bs) /\ Len(bs) \in Nat
  BY <1>1, <1>2, RowFacts DEF IndexRight
<1> HIDE DEF n
<1>4. ASSUME NEW i \in 1..n
      PROVE  /\ b.index.entries[i].value = i /\ b.index.entries[i].key \in Keys
             /\ LastKey(bs[i]) \in Keys
             /\ LastKey(bs[i]) = b.index.entries[i].key
                \/ Blocks!Before(LastKey(bs[i]), b.index.entries[i].key)
             /\ \A k \in KeysOf(bs[i]) : k = b.index.entries[i].key \/ Blocks!Before(k, b.index.entries[i].key)
             /\ \A j \in (i + 1)..(Len(bs) + 1) : \A k \in KeysOf(Row(bs, b, j)) :
                   Blocks!Before(b.index.entries[i].key, k)
  <2> DEFINE s == b.index.entries[i].key
             l == LastKey(bs[i])
  <2>1. b.index.entries[i].value = i /\ Separates(bs, b, i)
    BY <1>1, <1>2 DEF IndexRight
  <2>2. i \in 1..Len(bs) /\ i \in 1..(Len(bs) + 1)
    BY <1>2, <1>3
  <2>3. IsBlock(bs[i]) /\ bs[i].entries # <<>> /\ Row(bs, b, i) = bs[i]
    BY <1>1, <2>2, RowFacts
  <2>4. l \in KeysOf(bs[i]) /\ \A k \in KeysOf(bs[i]) : k \in Keys /\ (k = l \/ Blocks!Before(k, l))
    BY <2>3, KeysOfBlock
  <2>5. s \in Keys
    BY <1>1, BlockTypes DEF n
  <2>6. s = l \/ (/\ Blocks!Before(l, s)
                  /\ \A j \in (i + 1)..(Len(bs) + 1) : \A k \in KeysOf(Row(bs, b, j)) : s.key < k.key)
    BY <2>1 DEF Separates
  <2> HIDE DEF s, l
  <2>7. \A k \in KeysOf(bs[i]) : k = s \/ Blocks!Before(k, s)
    BY <2>4, <2>5, <2>6, KeysOrdered
  <2>8. ASSUME NEW j \in (i + 1)..(Len(bs) + 1), NEW k \in KeysOf(Row(bs, b, j)) PROVE Blocks!Before(s, k)
    <3>1. CASE s = l
      <4>1. j \in 1..(Len(bs) + 1) /\ i < j
        BY <1>3, <2>2
      <4> QED BY <1>1, <2>2, <2>3, <2>4, <3>1, <4>1 DEF RowsRight
    <3>2. CASE s.key < k.key
      BY <3>2 DEF Blocks!Before
    <3> QED BY <2>6, <3>1, <3>2
  <2> QED BY <2>1, <2>4, <2>5, <2>6, <2>7, <2>8 DEF s, l
<1> QED BY <1>2, <1>3, <1>4 DEF n

(* The entry of a block in the index. *)
WithEntry(bs, b, s) == [b EXCEPT !.index = Blocks!BlockAdd(@, 1, s, Len(bs), FALSE), !.pending = FALSE]
LEMMA IndexedRight ==
    ASSUME NEW bs, NEW b, BuilderRight(bs, b), b.pending, NEW s \in Keys,
           s = b.last \/ Blocks!Before(b.last, s)
    PROVE  LET c == WithEntry(bs, b, s)
           IN  /\ BuilderRight(bs, c) /\ ~ c.pending
               /\ c.data = b.data /\ c.last = b.last /\ c.added = b.added
               /\ (b.open => c.open) /\ (b.ok => c.ok)
               /\ \A i \in DOMAIN c.index.entries :
                     i # Len(bs) => c.index.entries[i] = b.index.entries[i] /\ i \in DOMAIN b.index.entries
               /\ Len(c.index.entries) = Len(bs) /\ c.index.entries[Len(bs)].key = s
               /\ LastKey(bs[Len(bs)]) = b.last
<1> DEFINE n == Len(bs)
           a == Blocks!BlockAdd(b.index, 1, s, n, FALSE)
           c == [b EXCEPT !.index = a, !.pending = FALSE]
<1>1. BuilderTypes(bs, b) /\ RowsRight(bs, b) /\ IndexRight(bs, b) /\ IsBlock(b.index)
  BY DEF BuilderRight, IndexRight
<1>2. n \in Nat /\ n > 0 /\ Len(b.index.entries) = n - 1 /\ b.data = Blocks!EmptyBlock
  BY <1>1, RowFacts DEF IndexRight
<1>3. Blocks!End(b.index) = n - 1 /\ DOMAIN b.index.entries = 1..(n - 1)
  BY <1>1, <1>2, BlockTypes
<1>4. LastKey(bs[n]) = b.last /\ b.last \in Keys /\ b.last \in KeysOf(bs[n])
  <2>1. n \in 1..Len(bs) /\ n \in 1..(Len(bs) + 1)
    BY <1>2
  <2>2. Row(bs, b, n) = bs[n] /\ bs[n].entries # <<>> /\ IsBlock(bs[n])
    BY <1>1, <2>1, RowFacts
  <2>3. KeysOf(Row(bs, b, n + 1)) = {}
    <3>1. Row(bs, b, n + 1) = Blocks!EmptyBlock /\ Blocks!EmptyBlock.entries = <<>>
      BY <1>1, <1>2, RowFacts DEF Blocks!EmptyBlock
    <3> QED BY <3>1, EmptyIsBlock, KeysOfBlock
  <2>4. \A j \in (n + 1)..(Len(bs) + 1) : KeysOf(Row(bs, b, j)) = {}
    <3>1. \A j \in (n + 1)..(Len(bs) + 1) : j = n + 1
      BY <1>2
    <3> QED BY <2>3, <3>1
  <2>5. LastKey(bs[n]) = b.last /\ b.last \in Keys
    BY <1>1, <2>1, <2>2, <2>4, LastRow
  <2> QED BY <2>2, <2>5, KeysOfBlock
<1>5. ASSUME NEW k \in KeysOf(b.index) PROVE Blocks!Before(k, s)
  <2>1. PICK i \in 1..(n - 1) : k = b.index.entries[i].key
    BY <1>3 DEF KeysOf
  <2>2. n \in (i + 1)..(Len(bs) + 1) /\ Row(bs, b, n) = bs[n] /\ i \in 1..(n - 1)
    <3>1. n \in 1..Len(bs) /\ n \in (i + 1)..(Len(bs) + 1)
      BY <1>2
    <3> QED BY <1>1, <3>1, RowFacts
  <2>3. Blocks!Before(k, b.last) /\ k \in Keys
    BY <1>3, <1>4, <2>1, <2>2, IndexFacts
  <2> QED BY <1>4, <2>3, KeysOrdered
<1>6. /\ IsBlock(a) /\ Len(a.entries) = n /\ DOMAIN a.entries = 1..n
      /\ a.entries[n].key = s /\ a.entries[n].value = n
      /\ \A j \in 1..(n - 1) : a.entries[j] = b.index.entries[j]
  <2> DEFINE one == 1
             size == n
             index == b.index
             d(x) == Blocks!BlockAdd(index, one, s, size, x)
             m == Len(index.entries)
  <2>1. n - 1 + 1 = n /\ m = n - 1
    BY <1>2
  <2>a. one \in Nat /\ one > 0 /\ size \in Nat /\ IsBlock(index) /\ \A k \in KeysOf(index) : Blocks!Before(k, s)
    BY <1>1, <1>2, <1>5
  <2>2. \A x : /\ IsBlock(d(x)) /\ Len(d(x).entries) = m + 1 /\ DOMAIN d(x).entries = 1..(m + 1)
              /\ d(x).entries[m + 1].key = s /\ d(x).entries[m + 1].value = size
              /\ \A j \in 1..m : d(x).entries[j] = index.entries[j]
    <3> SUFFICES ASSUME NEW x
                 PROVE  /\ IsBlock(d(x)) /\ Len(d(x).entries) = m + 1 /\ DOMAIN d(x).entries = 1..(m + 1)
                        /\ d(x).entries[m + 1].key = s /\ d(x).entries[m + 1].value = size
                        /\ \A j \in 1..m : d(x).entries[j] = index.entries[j]
      OBVIOUS
    <3> HIDE DEF one, size, index
    <3> QED BY <2>a, BlockAdded
  <2>3. a = d(FALSE)
    OBVIOUS
  <2> HIDE DEF d, m, a
  <2>4. /\ IsBlock(a) /\ Len(a.entries) = m + 1 /\ DOMAIN a.entries = 1..(m + 1)
        /\ a.entries[m + 1].key = s /\ a.entries[m + 1].value = n
        /\ \A j \in 1..m : a.entries[j] = b.index.entries[j]
    BY <2>2, <2>3
  <2> QED BY <2>1, <2>4
<1> HIDE DEF a
<1>7. /\ c.index = a /\ c.pending = FALSE
      /\ c.data = b.data /\ c.last = b.last /\ c.added = b.added /\ c.open = b.open /\ c.ok = b.ok
  BY <1>1 DEF BuilderTypes
<1>8. BuilderTypes(bs, c)
  <2>1. a \in BlockRecords
    BY <1>6 DEF IsBlock, BlockRecords
  <2> QED BY <1>1, <2>1 DEF BuilderTypes
<1> HIDE DEF c
<1>9. \A j : Row(bs, c, j) = Row(bs, b, j)
  BY <1>7 DEF Row
<1>10. RowsRight(bs, c)
  BY <1>1, <1>7, <1>9 DEF RowsRight
<1>11. ASSUME NEW i \in DOMAIN c.index.entries PROVE c.index.entries[i].value = i /\ Separates(bs, c, i)
  <2>1. CASE i = n
    <3>1. c.index.entries[n].value = n /\ c.index.entries[n].key = s
      BY <1>6, <1>7
    <3>2. ASSUME NEW j \in (n + 1)..(Len(bs) + 1), NEW k \in KeysOf(Row(bs, c, j)) PROVE FALSE
      <4>1. j = n + 1
        BY <1>2
      <4>2. Row(bs, c, j) = Blocks!EmptyBlock /\ Blocks!EmptyBlock.entries = <<>>
        BY <1>1, <1>2, <1>9, <4>1, RowFacts DEF Blocks!EmptyBlock
      <4> QED BY <3>2, <4>2, EmptyIsBlock, KeysOfBlock
    <3>3. Separates(bs, c, n)
      BY <1>4, <3>1, <3>2 DEF Separates
    <3> QED BY <2>1, <3>1, <3>3
  <2>2. CASE i # n
    <3>1. i \in 1..(n - 1)
      BY <1>2, <1>6, <1>7, <2>2
    <3>2. c.index.entries[i] = b.index.entries[i]
      BY <1>6, <1>7, <3>1
    <3>3. b.index.entries[i].value = i /\ Separates(bs, b, i)
      BY <1>1, <1>3, <3>1 DEF IndexRight
    <3>4. Separates(bs, c, i) <=> Separates(bs, b, i)
      BY <1>9, <3>2 DEF Separates
    <3> QED BY <3>2, <3>3, <3>4
  <2> QED BY <2>1, <2>2
<1>12. IndexRight(bs, c)
  BY <1>6, <1>7, <1>11 DEF IndexRight
<1>13. ASSUME NEW i \in DOMAIN c.index.entries, i # n
       PROVE  c.index.entries[i] = b.index.entries[i] /\ i \in DOMAIN b.index.entries
  <2>1. i \in 1..(n - 1)
    BY <1>2, <1>6, <1>7, <1>13
  <2> QED BY <1>3, <1>6, <1>7, <2>1
<1>14. Len(c.index.entries) = n /\ c.index.entries[n].key = s
  BY <1>6, <1>7
<1> QED BY <1>4, <1>7, <1>8, <1>10, <1>12, <1>13, <1>14 DEF BuilderRight, c, a, WithEntry

(* A key behind all the others. *)
WithKey(b, key, shares) ==
    [b EXCEPT !.data = Blocks!BlockAdd(@, RestartInterval, key, 0, shares), !.last = key, !.added = @ \cup {key}]
LEMMA AddedRight ==
    ASSUME NEW bs, NEW b, BuilderRight(bs, b), ~ b.pending, NEW key \in Keys, NEW shares,
           b.added = {} \/ Blocks!Before(b.last, key),
           \A i \in DOMAIN b.index.entries :
              b.index.entries[i].key = LastKey(bs[i]) \/ b.index.entries[i].key.key < key.key
    PROVE  LET c == WithKey(b, key, shares)
           IN  /\ BuilderRight(bs, c) /\ c.data.entries # <<>> /\ ~ c.pending
               /\ c.index = b.index /\ (b.open => c.open) /\ (b.ok => c.ok)
<1> DEFINE n == Len(bs)
           data == b.data
           a == Blocks!BlockAdd(data, RestartInterval, key, 0, shares)
           c == [b EXCEPT !.data = a, !.last = key, !.added = @ \cup {key}]
<1>1. BuilderTypes(bs, b) /\ RowsRight(bs, b) /\ IndexRight(bs, b) /\ IsBlock(data)
  BY DEF BuilderRight, RowsRight
<1>2. n \in Nat /\ DOMAIN bs = 1..n /\ Row(bs, b, n + 1) = data /\ n + 1 \in 1..(n + 1)
  BY <1>1, RowFacts
<1>3. ASSUME NEW k \in b.added PROVE Blocks!Before(k, key)
  <2>1. k \in Keys /\ b.last \in Keys /\ (k = b.last \/ Blocks!Before(k, b.last)) /\ Blocks!Before(b.last, key)
    BY <1>1, <1>3, RowFacts DEF RowsRight
  <2> QED BY <2>1, KeysOrdered
<1>4. \A k \in KeysOf(data) : Blocks!Before(k, key)
  BY <1>1, <1>2, <1>3, RowFacts
<1>5. /\ IsBlock(a) /\ a.entries # <<>> /\ KeysOf(a) = KeysOf(data) \cup {key}
  <2> HIDE DEF data
  <2>1. RestartInterval \in Nat /\ RestartInterval > 0 /\ 0 \in Nat
    BY TableConstants
  <2> QED BY <1>1, <1>4, <2>1, BlockAdded
<1> HIDE DEF a
<1>6. /\ c.data = a /\ c.last = key /\ c.added = b.added \cup {key} /\ c.index = b.index
      /\ c.pending = b.pending /\ c.open = b.open /\ c.ok = b.ok
  BY <1>1 DEF BuilderTypes
<1>7. BuilderTypes(bs, c)
  <2>1. a \in BlockRecords
    BY <1>5 DEF IsBlock, BlockRecords
  <2>2. b.added \cup {key} \in SUBSET Keys
    BY <1>1 DEF BuilderTypes
  <2> QED BY <1>1, <2>1, <2>2 DEF BuilderTypes
<1> HIDE DEF c
<1>8. Row(bs, c, n + 1) = a /\ \A j \in 1..n : Row(bs, c, j) = Row(bs, b, j) /\ Row(bs, b, j) = bs[j]
  BY <1>2, <1>6 DEF Row
<1>9. \A j \in 1..n : KeysOf(Row(bs, c, j)) = KeysOf(Row(bs, b, j))
  BY <1>8
<1>10. KeysOf(Row(bs, c, n + 1)) = KeysOf(Row(bs, b, n + 1)) \cup {key}
  BY <1>2, <1>5, <1>8
<1>11. RowsRight(bs, c)
  <2>1. \A i \in DOMAIN bs : IsBlock(bs[i]) /\ bs[i].entries # <<>>
    BY <1>1 DEF RowsRight
  <2>2. IsBlock(c.data)
    BY <1>5, <1>6
  <2>3. ASSUME NEW i \in 1..(n + 1), NEW j \in 1..(n + 1), i < j,
               NEW k \in KeysOf(Row(bs, c, i)), NEW m \in KeysOf(Row(bs, c, j))
        PROVE  Blocks!Before(k, m)
    <3>1. i \in 1..n /\ k \in KeysOf(Row(bs, b, i))
      <4>1. i \in 1..n
        BY <1>2, <2>3
      <4> QED BY <1>9, <4>1
    <3>2. m \in KeysOf(Row(bs, b, j)) \/ m = key
      <4>1. CASE j \in 1..n
        BY <1>9, <4>1
      <4>2. CASE j = n + 1
        BY <1>10, <4>2
      <4> QED BY <1>2, <4>1, <4>2
    <3>3. CASE m = key
      <4>1. k \in b.added
        BY <1>1, <3>1, <2>3, RowFacts
      <4> QED BY <1>3, <3>3, <4>1
    <3>4. CASE m \in KeysOf(Row(bs, b, j))
      BY <1>1, <2>3, <3>1, <3>4 DEF RowsRight
    <3> QED BY <3>2, <3>3, <3>4
  <2>4. c.added = UNION {KeysOf(Row(bs, c, i)) : i \in 1..(n + 1)}
    <3>1. b.added = UNION {KeysOf(Row(bs, b, i)) : i \in 1..(n + 1)}
      BY <1>1 DEF RowsRight
    <3>2. ASSUME NEW k \in c.added PROVE \E i \in 1..(n + 1) : k \in KeysOf(Row(bs, c, i))
      <4>1. CASE k = key
        BY <1>2, <1>10, <4>1
      <4>2. CASE k \in b.added
        <5>1. PICK i \in 1..(n + 1) : k \in KeysOf(Row(bs, b, i))
          BY <3>1, <4>2
        <5>2. i \in 1..n \/ i = n + 1
          BY <1>2
        <5> QED BY <1>9, <1>10, <5>1, <5>2
      <4> QED BY <1>6, <4>1, <4>2
    <3>3. ASSUME NEW i \in 1..(n + 1), NEW k \in KeysOf(Row(bs, c, i)) PROVE k \in c.added
      <4>1. i \in 1..n \/ i = n + 1
        BY <1>2
      <4>2. k \in KeysOf(Row(bs, b, i)) \/ k = key
        BY <1>9, <1>10, <4>1
      <4> QED BY <1>6, <3>1, <4>2
    <3> QED BY <3>2, <3>3
  <2>5. key \in c.added /\ \A k \in c.added : k = key \/ Blocks!Before(k, key)
    BY <1>3, <1>6
  <2> QED BY <1>6, <2>1, <2>2, <2>3, <2>4, <2>5 DEF RowsRight
<1>12. ASSUME NEW i \in DOMAIN c.index.entries PROVE c.index.entries[i].value = i /\ Separates(bs, c, i)
  <2> DEFINE s == b.index.entries[i].key
             l == LastKey(bs[i])
  <2>1. c.index.entries[i] = b.index.entries[i] /\ i \in DOMAIN b.index.entries
    BY <1>6
  <2>2. b.index.entries[i].value = i /\ Separates(bs, b, i)
    BY <1>1, <2>1 DEF IndexRight
  <2>3. CASE s = l
    BY <2>1, <2>2, <2>3 DEF Separates
  <2>4. CASE s # l
    <3>1. /\ Blocks!Before(l, s)
          /\ \A j \in (i + 1)..(Len(bs) + 1) : \A k \in KeysOf(Row(bs, b, j)) : s.key < k.key
      BY <2>2, <2>4 DEF Separates
    <3>2. s.key < key.key
      BY <2>1, <2>4
    <3> HIDE DEF s, l
    <3>3. i \in Nat
      BY <1>1, <2>1, BlockTypes DEF IndexRight
    <3>4. ASSUME NEW j \in (i + 1)..(Len(bs) + 1), NEW k \in KeysOf(Row(bs, c, j)) PROVE s.key < k.key
      <4>1. j \in 1..n \/ j = n + 1
        BY <1>2, <3>3
      <4>2. k \in KeysOf(Row(bs, b, j)) \/ k = key
        BY <1>9, <1>10, <4>1
      <4> QED BY <3>1, <3>2, <4>2
    <3> QED BY <2>1, <2>2, <3>1, <3>4 DEF Separates, s, l
  <2> QED BY <2>3, <2>4
<1>13. IndexRight(bs, c)
  BY <1>1, <1>6, <1>12 DEF IndexRight
<1> QED BY <1>5, <1>6, <1>7, <1>11, <1>13 DEF BuilderRight, c, a, WithKey

(* Flush: the block that was filled is the last of the file. *)
LEMMA FlushedRight ==
    ASSUME NEW bs, NEW b, BuilderRight(bs, b), ~ b.pending, b.data.entries # <<>>
    PROVE  LET c == Blocks!Flushed(b, TRUE)
               cs == Append(bs, b.data)
           IN  /\ BuilderRight(cs, c) /\ c.pending /\ c.data = Blocks!EmptyBlock /\ cs # <<>> /\ Len(cs) = Len(bs) + 1
               /\ c.index = b.index /\ (b.open => c.open) /\ c.ok /\ c.last = b.last /\ c.added = b.added
<1> DEFINE n == Len(bs)
           c == Blocks!Flushed(b, TRUE)
           data == b.data
           cs == Append(bs, data)
<1>1. BuilderTypes(bs, b) /\ RowsRight(bs, b) /\ IndexRight(bs, b) /\ IsBlock(data)
  BY DEF BuilderRight, RowsRight
<1>2. n \in Nat /\ DOMAIN bs = 1..n /\ Row(bs, b, n + 1) = data /\ bs \in Seq(BlockRecords) /\ data \in BlockRecords
  BY <1>1, RowFacts DEF BuilderTypes
<1>3. /\ c.data = Blocks!EmptyBlock /\ c.pending = TRUE /\ c.ok = TRUE
      /\ c.last = b.last /\ c.added = b.added /\ c.index = b.index /\ c.open = b.open
  BY <1>1 DEF BuilderTypes, Blocks!Flushed
<1>4. BuilderTypes(cs, c)
  <2>1. Blocks!EmptyBlock \in BlockRecords
    BY EmptyIsBlock DEF IsBlock, BlockRecords
  <2>2. c \in [open : BOOLEAN, ok : BOOLEAN, data : BlockRecords, index : BlockRecords, last : Keys,
               pending : BOOLEAN, added : SUBSET Keys]
    BY <1>1, <2>1 DEF BuilderTypes, Blocks!Flushed
  <2>3. cs \in Seq(BlockRecords)
    BY <1>2
  <2> QED BY <2>2, <2>3 DEF BuilderTypes
<1> HIDE DEF c, data
<1>5. /\ Len(cs) = n + 1 /\ DOMAIN cs = 1..(n + 1) /\ cs # <<>> /\ cs[n + 1] = data
      /\ \A j \in 1..n : cs[j] = bs[j]
  BY <1>2
<1> HIDE DEF cs
<1>6. /\ Row(cs, c, n + 2) = Blocks!EmptyBlock
      /\ \A j \in 1..(n + 1) : Row(cs, c, j) = Row(bs, b, j)
  <2>1. n + 2 \notin 1..(n + 1)
    BY <1>2
  <2>2. \A j \in 1..(n + 1) : j \in 1..n \/ j = n + 1
    BY <1>2
  <2>3. \A j \in 1..n : Row(bs, b, j) = bs[j]
    BY <1>2 DEF Row
  <2> QED BY <1>2, <1>3, <1>5, <2>1, <2>2, <2>3 DEF Row
<1>7. KeysOf(Row(cs, c, n + 2)) = {}
  BY <1>6, EmptyIsBlock, KeysOfBlock DEF Blocks!EmptyBlock
<1>8. \A j \in 1..(n + 1) : KeysOf(Row(cs, c, j)) = KeysOf(Row(bs, b, j))
  BY <1>6
<1>9. Len(cs) + 1 = n + 2 /\ \A j \in 1..(n + 2) : j \in 1..(n + 1) \/ j = n + 2
  BY <1>2, <1>5
<1>10. RowsRight(cs, c)
  <2>1. \A i \in DOMAIN cs : IsBlock(cs[i]) /\ cs[i].entries # <<>>
    <3>1. \A i \in 1..(n + 1) : i \in 1..n \/ i = n + 1
      BY <1>2
    <3>2. data.entries # <<>>
      BY DEF data
    <3> QED BY <1>1, <1>2, <1>5, <3>1, <3>2 DEF RowsRight
  <2>2. IsBlock(c.data)
    BY <1>3, EmptyIsBlock
  <2>3. ASSUME NEW i \in 1..(n + 2), NEW j \in 1..(n + 2), i < j,
               NEW k \in KeysOf(Row(cs, c, i)), NEW m \in KeysOf(Row(cs, c, j))
        PROVE  Blocks!Before(k, m)
    <3>1. i \in 1..(n + 1) /\ j \in 1..(n + 1)
      BY <1>7, <1>9, <2>3
    <3>2. k \in KeysOf(Row(bs, b, i)) /\ m \in KeysOf(Row(bs, b, j))
      BY <1>8, <3>1
    <3> QED BY <1>1, <2>3, <3>1, <3>2 DEF RowsRight
  <2>4. c.added = UNION {KeysOf(Row(cs, c, i)) : i \in 1..(n + 2)}
    <3>1. b.added = UNION {KeysOf(Row(bs, b, i)) : i \in 1..(n + 1)}
      BY <1>1 DEF RowsRight
    <3>2. ASSUME NEW k \in c.added PROVE \E i \in 1..(n + 2) : k \in KeysOf(Row(cs, c, i))
      <4>1. PICK i \in 1..(n + 1) : k \in KeysOf(Row(bs, b, i))
        BY <1>3, <3>1
      <4>2. i \in 1..(n + 2)
        BY <1>2
      <4> QED BY <1>8, <4>1, <4>2
    <3>3. ASSUME NEW i \in 1..(n + 2), NEW k \in KeysOf(Row(cs, c, i)) PROVE k \in c.added
      <4>1. i \in 1..(n + 1)
        BY <1>7, <1>9, <3>3
      <4> QED BY <1>3, <1>8, <3>1, <4>1
    <3> QED BY <3>2, <3>3
  <2>5. (c.added # {} => c.last \in c.added) /\ \A k \in c.added : k = c.last \/ Blocks!Before(k, c.last)
    BY <1>1, <1>3, SMTT(30) DEF RowsRight
  <2> QED BY <1>9, <2>1, <2>2, <2>3, <2>4, <2>5 DEF RowsRight
<1>11. IndexRight(cs, c)
  <2>1. IsBlock(c.index) /\ Len(c.index.entries) = n
    BY <1>1, <1>3 DEF IndexRight
  <2>2. ASSUME NEW i \in DOMAIN c.index.entries PROVE c.index.entries[i].value = i /\ Separates(cs, c, i)
    <3>1. i \in 1..n
      BY <2>1, BlockTypes
    <3>2. c.index.entries[i] = b.index.entries[i] /\ cs[i] = bs[i]
      BY <1>3, <1>5, <3>1
    <3>3. b.index.entries[i].value = i /\ Separates(bs, b, i)
      BY <1>1, <1>3 DEF IndexRight
    <3>4. ASSUME NEW j \in (i + 1)..(n + 2), NEW k \in KeysOf(Row(cs, c, j))
          PROVE  j \in (i + 1)..(n + 1) /\ k \in KeysOf(Row(bs, b, j))
      <4>1. j \in 1..(n + 2) /\ j # n + 2
        BY <1>7, <3>1
      <4>2. j \in 1..(n + 1) /\ j \in (i + 1)..(n + 1)
        BY <1>9, <3>1, <4>1
      <4> QED BY <1>8, <4>2
    <3> QED BY <1>9, <3>2, <3>3, <3>4 DEF Separates
  <2>3. Len(cs) - 1 = n
    BY <1>2, <1>5
  <2> QED BY <1>3, <1>5, <2>1, <2>2, <2>3 DEF IndexRight
<1>12. BuilderRight(cs, c) /\ cs # <<>> /\ Len(cs) = n + 1
  BY <1>4, <1>5, <1>10, <1>11 DEF BuilderRight
<1> QED BY <1>3, <1>12 DEF c, cs, data

LEMMA SameRight ==
    ASSUME NEW bs, NEW b, NEW d, BuilderRight(bs, b), BuilderTypes(bs, d), d.data = b.data, d.index = b.index,
           d.last = b.last, d.pending = b.pending, d.added = b.added
    PROVE  BuilderRight(bs, d)
<1>1. \A i : Row(bs, d, i) = Row(bs, b, i)
  BY DEF Row
<1>2. RowsRight(bs, d)
  BY <1>1 DEF BuilderRight, RowsRight
<1>3. \A i : Separates(bs, d, i) <=> Separates(bs, b, i)
  BY <1>1 DEF Separates
<1>4. IndexRight(bs, d)
  BY <1>3 DEF BuilderRight, IndexRight
<1> QED BY <1>2, <1>4 DEF BuilderRight

(* No reader yet. *)
LEMMA IdleRight == ASSUME cursor.block = 0, wanted = {} PROVE Blocks!FileIteratorRight
<1>1. ~ Blocks!DataValid(cursor)
  BY DEF Blocks!DataValid
<1> QED BY <1>1 DEF Blocks!FileIteratorRight

LEMMA IdleStays == ASSUME cursor'.block = 0, wanted' = {} PROVE Blocks!FileIteratorRight'
<1>1. ~ (Blocks!DataValid(cursor)')
  BY DEF Blocks!DataValid
<1> QED BY <1>1 DEF Blocks!FileIteratorRight

LEMMA TableInit == ASSUME Blocks!Init PROVE TableInv
<1>1. IsBlock(Blocks!EmptyBlock) /\ Blocks!EmptyBlock \in BlockRecords /\ KeysOf(Blocks!EmptyBlock) = {}
      /\ Blocks!EmptyBlock.entries = <<>>
  <2>1. Blocks!EmptyBlock.entries = <<>>
    BY DEF Blocks!EmptyBlock
  <2> QED BY <2>1, EmptyIsBlock, KeysOfBlock DEF IsBlock, BlockRecords
<1>2. /\ builder = [open |-> TRUE, ok |-> TRUE, data |-> Blocks!EmptyBlock, index |-> Blocks!EmptyBlock,
                    last |-> Blocks!NoKey, pending |-> FALSE, added |-> {}]
      /\ blocks = <<>> /\ wanted = {}
      /\ cursor = [index |-> Blocks!NewIterator(Blocks!EmptyBlock), block |-> 0, readable |-> TRUE,
                   data |-> Blocks!NewIterator(Blocks!EmptyBlock), ok |-> TRUE, forward |-> TRUE, errors |-> 0]
  BY DEF Blocks!Init
<1>3. BuilderTypes(blocks, builder)
  BY <1>1, <1>2, TableConstants DEF BuilderTypes
<1>4. Len(blocks) = 0 /\ DOMAIN blocks = {} /\ builder.data = Blocks!EmptyBlock /\ builder.added = {}
      /\ builder.index = Blocks!EmptyBlock /\ builder.pending = FALSE /\ builder.open = TRUE /\ builder.ok = TRUE
  BY <1>2
<1>5. \A i : Row(blocks, builder, i) = Blocks!EmptyBlock
  BY <1>4 DEF Row
<1>6. RowsRight(blocks, builder)
  <2>1. UNION {KeysOf(Row(blocks, builder, i)) : i \in 1..(Len(blocks) + 1)} = {}
    BY <1>1, <1>5
  <2> QED BY <1>1, <1>4, <1>5, <2>1 DEF RowsRight
<1>7. IndexRight(blocks, builder)
  <2>1. Len(builder.index.entries) = 0 /\ DOMAIN builder.index.entries = {}
    BY <1>1, <1>4
  <2> QED BY <1>1, <1>4, <2>1 DEF IndexRight
<1>8. Between(blocks, builder)
  BY <1>2 DEF Between
<1>9. CursorRight
  <2> DEFINE it == Blocks!NewIterator(Blocks!EmptyBlock)
  <2>1. it \in Blocks!Iterator /\ it.ok
    BY <1>1, NewIsAt DEF IsAt
  <2> HIDE DEF it
  <2>2. cursor = [index |-> it, block |-> 0, readable |-> TRUE, data |-> it, ok |-> TRUE,
                  forward |-> TRUE, errors |-> 0]
    BY <1>2 DEF it
  <2>3. cursor \in Blocks!Cursor /\ cursor.data.ok /\ cursor.block = 0 /\ cursor.ok
    BY <2>1, <2>2 DEF Blocks!Cursor
  <2> QED BY <1>2, <1>4, <2>3 DEF CursorRight, IsOpen
<1>10. Blocks!FileIteratorRight
  <2>1. cursor.block = 0
    BY <1>2
  <2> QED BY <1>2, <2>1, IdleRight
<1> QED BY <1>3, <1>6, <1>7, <1>8, <1>9, <1>10 DEF TableInv, BuilderRight

LEMMA SeparatorOf ==
    ASSUME NEW a \in Keys, NEW b \in Keys, NEW s \in Blocks!FindShortestSeparator(a, b)
    PROVE  s \in Keys /\ (s = a \/ (Blocks!Before(a, s) /\ s.key < b.key))
<1>1. CASE s = a
  BY <1>1
<1>2. CASE s # a
  <2>1. PICK u \in UserKey : a.key < u /\ u < b.key /\ s = [key |-> u, seq |-> MaxSeq]
    <3>1. s \in [key : {u \in UserKey : a.key < u /\ u < b.key}, seq : {MaxSeq}]
      BY <1>2 DEF Blocks!FindShortestSeparator, Blocks!Shortened
    <3>2. s = [key |-> s.key, seq |-> s.seq] /\ s.seq = MaxSeq /\ s.key \in {u \in UserKey : a.key < u /\ u < b.key}
      BY <3>1
    <3> QED BY <3>2
  <2>2. s.key = u /\ s \in Keys
    BY <2>1, TableConstants DEF Keys
  <2> QED BY <2>1, <2>2 DEF Blocks!Before
<1> QED BY <1>1, <1>2

LEMMA SuccessorOf ==
    ASSUME NEW a \in Keys, NEW s \in Blocks!FindShortSuccessor(a)
    PROVE  s \in Keys /\ (s = a \/ Blocks!Before(a, s))
<1>1. CASE s = a
  BY <1>1
<1>2. CASE s # a
  <2>1. PICK u \in UserKey : a.key < u /\ s = [key |-> u, seq |-> MaxSeq]
    <3>1. s \in [key : {u \in UserKey : a.key < u}, seq : {MaxSeq}]
      BY <1>2 DEF Blocks!FindShortSuccessor, Blocks!Shortened
    <3>2. s = [key |-> s.key, seq |-> s.seq] /\ s.seq = MaxSeq /\ s.key \in {u \in UserKey : a.key < u}
      BY <3>1
    <3> QED BY <3>2
  <2>2. s.key = u /\ s \in Keys
    BY <2>1, TableConstants DEF Keys
  <2> QED BY <2>1, <2>2 DEF Blocks!Before
<1> QED BY <1>1, <1>2

(* The key that was added last is in a row behind each block that the      *)
(* index has, as long as the builder is open.                              *)
LEMMA LastBehind ==
    ASSUME NEW bs, NEW b, BuilderRight(bs, b), b.open, Between(bs, b), NEW i \in DOMAIN b.index.entries
    PROVE  \E j \in (i + 1)..(Len(bs) + 1) : b.last \in KeysOf(Row(bs, b, j))
<1>1. BuilderTypes(bs, b) /\ RowsRight(bs, b) /\ IndexRight(bs, b)
  BY DEF BuilderRight
<1>2. Len(bs) \in Nat /\ Row(bs, b, Len(bs) + 1) = b.data /\ IsBlock(b.data) /\ DOMAIN bs = 1..Len(bs)
      /\ (bs # <<>> <=> Len(bs) > 0)
  BY <1>1, RowFacts DEF RowsRight
<1>3. i \in 1..Len(b.index.entries) /\ Len(b.index.entries) = IF b.pending THEN Len(bs) - 1 ELSE Len(bs)
  BY <1>1, BlockTypes DEF IndexRight
<1>4. CASE b.pending
  <2> DEFINE n == Len(bs)
  <2>a. bs # <<>> /\ b.data = Blocks!EmptyBlock
    BY <1>1, <1>4, SMTT(30) DEF IndexRight
  <2>b. i \in 1..(n - 1) /\ n \in Nat /\ n > 0
    BY <1>2, <1>3, <1>4, <2>a, Zenon
  <2>1. n \in (i + 1)..(Len(bs) + 1) /\ n \in 1..n /\ n \in 1..(Len(bs) + 1) /\ b.data = Blocks!EmptyBlock
    BY <2>a, <2>b
  <2>2. \A j \in (n + 1)..(Len(bs) + 1) : KeysOf(Row(bs, b, j)) = {}
    <3>1. \A j \in (n + 1)..(Len(bs) + 1) : j = n + 1
      BY <1>2
    <3>2. KeysOf(Blocks!EmptyBlock) = {}
      BY EmptyIsBlock, KeysOfBlock DEF Blocks!EmptyBlock
    <3> QED BY <1>2, <2>1, <3>1, <3>2
  <2>3. Row(bs, b, n).entries # <<>> /\ IsBlock(Row(bs, b, n))
    BY <1>1, <2>1, RowFacts
  <2>4. LastKey(Row(bs, b, n)) = b.last
    BY <1>1, <2>1, <2>2, <2>3, LastRow
  <2>5. b.last \in KeysOf(Row(bs, b, n))
    BY <2>3, <2>4, KeysOfBlock
  <2> QED BY <2>1, <2>5
<1>5. CASE ~ b.pending
  <2> DEFINE m == Len(bs) + 1
  <2>1. m \in (i + 1)..(Len(bs) + 1) /\ m \in 1..(Len(bs) + 1) /\ Len(bs) > 0
    BY <1>2, <1>3, <1>5
  <2>2. b.data.entries # <<>>
    BY <1>2, <1>5, <2>1 DEF Between, IsBlock
  <2>3. \A j \in (m + 1)..(Len(bs) + 1) : KeysOf(Row(bs, b, j)) = {}
    BY <1>2
  <2>4. LastKey(Row(bs, b, m)) = b.last
    BY <1>1, <1>2, <2>1, <2>2, <2>3, LastRow
  <2>5. b.last \in KeysOf(Row(bs, b, m))
    BY <1>2, <2>2, <2>4, KeysOfBlock
  <2> QED BY <2>1, <2>5
<1> QED BY <1>4, <1>5

(* The index has the key of the block before, if it waited for this key. *)
LEMMA IndexedForKey ==
    ASSUME BuilderRight(blocks, builder), Between(blocks, builder), builder.open, NEW key \in Keys,
           builder.added = {} \/ Blocks!Before(builder.last, key),
           NEW s \in Blocks!FindShortestSeparator(builder.last, key)
    PROVE  LET b == Blocks!Indexed(builder, s)
           IN  /\ BuilderRight(blocks, b) /\ ~ b.pending
               /\ b.data = builder.data /\ b.last = builder.last /\ b.added = builder.added
               /\ b.open /\ (builder.ok => b.ok)
               /\ \A i \in DOMAIN b.index.entries :
                     b.index.entries[i].key = LastKey(blocks[i]) \/ b.index.entries[i].key.key < key.key
<1> DEFINE b == Blocks!Indexed(builder, s)
<1>1. BuilderTypes(blocks, builder) /\ RowsRight(blocks, builder) /\ IndexRight(blocks, builder)
      /\ builder.last \in Keys
  BY DEF BuilderRight, BuilderTypes
<1>2. ASSUME NEW i \in DOMAIN builder.index.entries
      PROVE  \/ builder.index.entries[i].key = LastKey(blocks[i])
             \/ builder.index.entries[i].key.key < key.key
  <2>1. PICK j \in (i + 1)..(Len(blocks) + 1) : builder.last \in KeysOf(Row(blocks, builder, j))
    BY LastBehind
  <2>2. builder.last \in builder.added
    <3>1. j \in 1..(Len(blocks) + 1)
      <4>1. i \in Nat /\ Len(blocks) \in Nat /\ i > 0
        BY <1>1, BlockTypes, RowFacts DEF IndexRight
      <4> QED BY <4>1
    <3> QED BY <1>1, <2>1, <3>1, RowFacts
  <2>3. Blocks!Before(builder.last, key)
    BY <2>2
  <2>4. Separates(blocks, builder, i)
    BY <1>1 DEF IndexRight
  <2> DEFINE k == builder.index.entries[i].key
  <2>5. CASE k # LastKey(blocks[i])
    <3>1. k.key < builder.last.key
      BY <2>1, <2>4, <2>5 DEF Separates
    <3>2. builder.last.key <= key.key /\ builder.last.key \in Nat /\ key.key \in Nat
      BY <1>1, <2>3 DEF Blocks!Before, Keys
    <3>3. k.key \in Nat
      BY <1>1, BlockTypes DEF IndexRight, Keys
    <3> HIDE DEF k
    <3>4. k.key < key.key
      BY <3>1, <3>2, <3>3
    <3> QED BY <3>4 DEF k
  <2> QED BY <2>5
<1>3. CASE ~ builder.pending
  <2>1. b = builder
    BY <1>3 DEF Blocks!Indexed
  <2> QED BY <1>2, <1>3, <2>1
<1>4. CASE builder.pending
  <2> DEFINE n == Len(blocks)
             c == WithEntry(blocks, builder, s)
  <2>1. b = c
    BY <1>4 DEF Blocks!Indexed, WithEntry
  <2>2. s \in Keys /\ (s = builder.last \/ (Blocks!Before(builder.last, s) /\ s.key < key.key))
    BY <1>1, SeparatorOf
  <2>a. /\ BuilderRight(blocks, c) /\ ~ c.pending
        /\ c.data = builder.data /\ c.last = builder.last /\ c.added = builder.added
        /\ c.open /\ (builder.ok => c.ok)
        /\ \A i \in DOMAIN c.index.entries :
              i # Len(blocks) => c.index.entries[i] = builder.index.entries[i] /\ i \in DOMAIN builder.index.entries
        /\ Len(c.index.entries) = Len(blocks) /\ c.index.entries[Len(blocks)].key = s
        /\ LastKey(blocks[Len(blocks)]) = builder.last
    BY <1>4, <2>2, IndexedRight
  <2> HIDE DEF b, c
  <2>3. /\ BuilderRight(blocks, b) /\ ~ b.pending
        /\ b.data = builder.data /\ b.last = builder.last /\ b.added = builder.added
        /\ b.open /\ (builder.ok => b.ok)
        /\ \A i \in DOMAIN b.index.entries :
              i # n => b.index.entries[i] = builder.index.entries[i] /\ i \in DOMAIN builder.index.entries
        /\ Len(b.index.entries) = n /\ b.index.entries[n].key = s
        /\ LastKey(blocks[n]) = builder.last
    BY <2>1, <2>a
  <2>4. ASSUME NEW i \in DOMAIN b.index.entries
        PROVE  b.index.entries[i].key = LastKey(blocks[i]) \/ b.index.entries[i].key.key < key.key
    <3>1. CASE i = n
      BY <2>2, <2>3, <3>1
    <3>2. CASE i # n
      BY <1>2, <2>3, <3>2
    <3> QED BY <3>1, <3>2
  <2> QED BY <2>3, <2>4 DEF b
<1> QED BY <1>3, <1>4

(* Before there is a reader, or when there will be none. *)
LEMMA NoReader ==
    ASSUME cursor'.block = 0, cursor'.ok, wanted' = {}, cursor' \in Blocks!Cursor, cursor'.data.ok,
           BuilderTypes(blocks', builder'), builder'.open \/ ~ builder'.ok,
           builder'.ok => BuilderRight(blocks', builder') /\ Between(blocks', builder')
    PROVE  TableInv'
<1>1. CursorRight'
  BY DEF CursorRight, IsOpen
<1>2. Blocks!FileIteratorRight'
  BY IdleStays
<1> QED BY <1>1, <1>2 DEF TableInv

LEMMA TableAddStep ==
    ASSUME TableInv, NEW key \in Blocks!Key, NEW separator \in Blocks!FindShortestSeparator(builder.last, key),
           NEW shares, NEW full, NEW ok \in BOOLEAN, Blocks!Add(key, separator, shares, full, ok)
    PROVE  TableInv'
<1> DEFINE b == Blocks!Indexed(builder, separator)
           c == WithKey(b, key, shares)
<1>1. /\ builder.open /\ builder.ok /\ (builder.added = {} \/ Blocks!Before(builder.last, key))
      /\ builder' = (IF full THEN Blocks!Flushed(c, ok) ELSE c)
      /\ blocks' = (IF full /\ ok THEN Append(blocks, c.data) ELSE blocks)
      /\ cursor' = cursor /\ wanted' = wanted
  BY DEF Blocks!Add, WithKey
<1>2. key \in Keys
  BY TableConstants
<1>3. BuilderRight(blocks, builder) /\ Between(blocks, builder) /\ CursorRight
  BY <1>1 DEF TableInv
<1>4. /\ BuilderRight(blocks, b) /\ ~ b.pending
      /\ b.data = builder.data /\ b.last = builder.last /\ b.added = builder.added /\ b.open /\ b.ok
      /\ \A i \in DOMAIN b.index.entries :
            b.index.entries[i].key = LastKey(blocks[i]) \/ b.index.entries[i].key.key < key.key
  BY <1>1, <1>2, <1>3, IndexedForKey
<1> HIDE DEF b
<1>5. b.added = {} \/ Blocks!Before(b.last, key)
  BY <1>1, <1>4
<1>6. BuilderRight(blocks, c) /\ c.data.entries # <<>> /\ ~ c.pending /\ c.open /\ c.ok
  BY <1>2, <1>4, <1>5, AddedRight
<1> HIDE DEF c
<1>7. BuilderTypes(blocks, c) /\ c.data # Blocks!EmptyBlock
  BY <1>6 DEF BuilderRight, Blocks!EmptyBlock
<1>8. /\ cursor'.block = 0 /\ cursor'.ok /\ wanted' = {} /\ cursor' \in Blocks!Cursor /\ cursor'.data.ok
  BY <1>1, <1>3 DEF CursorRight, IsOpen
<1>9. CASE ~ full
  <2>1. builder' = c /\ blocks' = blocks
    BY <1>1, <1>9
  <2>2. BuilderTypes(blocks', builder') /\ BuilderRight(blocks', builder') /\ builder'.open
    BY <1>6, <1>7, <2>1
  <2>3. Between(blocks', builder')
    BY <1>6, <1>7, <2>1 DEF Between
  <2> QED BY <1>8, <2>2, <2>3, NoReader
<1>10. CASE full /\ ok
  <2> DEFINE d == Blocks!Flushed(c, TRUE)
             cs == Append(blocks, c.data)
  <2>1. ok = TRUE
    BY <1>10
  <2>2. builder' = d /\ blocks' = cs
    BY <1>1, <1>10, <2>1
  <2>3. /\ BuilderRight(cs, d) /\ d.pending /\ d.data = Blocks!EmptyBlock /\ cs # <<>> /\ d.open
    BY <1>6, FlushedRight
  <2> HIDE DEF d, cs
  <2>4. BuilderTypes(blocks', builder') /\ BuilderRight(blocks', builder') /\ builder'.open
    BY <2>2, <2>3 DEF BuilderRight
  <2>5. Between(blocks', builder')
    BY <2>2, <2>3 DEF Between
  <2> QED BY <1>8, <2>4, <2>5, NoReader
<1>11. CASE full /\ ~ ok
  <2> DEFINE d == Blocks!Flushed(c, FALSE)
  <2>1. ok = FALSE
    BY <1>11
  <2>2. builder' = d /\ blocks' = blocks
    BY <1>1, <1>11, <2>1
  <2>3. d.ok = FALSE /\ BuilderTypes(blocks, d)
    <3>1. Blocks!EmptyBlock \in BlockRecords
      BY EmptyIsBlock DEF IsBlock, BlockRecords
    <3> QED BY <1>7, <3>1 DEF BuilderTypes, Blocks!Flushed
  <2> HIDE DEF d
  <2>4. BuilderTypes(blocks', builder') /\ ~ builder'.ok
    BY <2>2, <2>3
  <2> QED BY <1>8, <2>4, NoReader
<1> QED BY <1>9, <1>10, <1>11

LEMMA FinishStep ==
    ASSUME TableInv, NEW successor \in Blocks!FindShortSuccessor(builder.last), NEW ok \in BOOLEAN,
           Blocks!Finish(successor, ok)
    PROVE  TableInv'
<1> DEFINE unwritten == builder.data # Blocks!EmptyBlock
           written2 == IF unwritten THEN Append(blocks, builder.data) ELSE blocks
           b == IF unwritten THEN Blocks!Flushed(builder, ok) ELSE [builder EXCEPT !.ok = ok]
           index == IF ok THEN Blocks!BlockAdd(b.index, 1, successor, Len(written2), FALSE) ELSE b.index
<1>1. /\ builder.open /\ builder.ok /\ builder.added # {}
      /\ blocks' = (IF ok THEN written2 ELSE blocks)
      /\ builder' = [b EXCEPT !.open = FALSE, !.pending = FALSE, !.index = index]
      /\ cursor' = [cursor EXCEPT !.index = Blocks!NewIterator(builder'.index)]
      /\ wanted' = wanted
  BY DEF Blocks!Finish
<1>2. BuilderRight(blocks, builder) /\ Between(blocks, builder) /\ CursorRight
  BY <1>1 DEF TableInv
<1>3. BuilderTypes(blocks, builder) /\ RowsRight(blocks, builder) /\ IndexRight(blocks, builder)
      /\ builder.last \in Keys
  BY <1>2 DEF BuilderRight, BuilderTypes
<1>4. successor \in Keys /\ (successor = builder.last \/ Blocks!Before(builder.last, successor))
  BY <1>3, SuccessorOf
<1>5. cursor \in Blocks!Cursor /\ cursor.data.ok /\ cursor.block = 0 /\ cursor.ok /\ wanted = {}
  BY <1>1, <1>2 DEF CursorRight, IsOpen
<1>6. ASSUME IsBlock(builder'.index)
      PROVE  /\ cursor' \in Blocks!Cursor /\ cursor'.data.ok /\ cursor'.block = 0 /\ cursor'.ok /\ wanted' = {}
             /\ IsAt(builder'.index, cursor'.index)
  <2> DEFINE it == Blocks!NewIterator(builder'.index)
  <2>1. IsAt(builder'.index, it) /\ it \in Blocks!Iterator
    BY <1>6, NewIsAt DEF IsAt
  <2> HIDE DEF it
  <2>2. cursor' = [cursor EXCEPT !.index = it]
    BY <1>1 DEF it
  <2>3. cursor \in [index : Blocks!Iterator, block : Nat, readable : BOOLEAN, data : Blocks!Iterator,
                    ok : BOOLEAN, forward : BOOLEAN, errors : Nat]
    BY <1>5 DEF Blocks!Cursor
  <2>4. cursor'.index = it /\ cursor'.data = cursor.data /\ cursor'.block = cursor.block /\ cursor'.ok = cursor.ok
    BY <2>2, <2>3
  <2>5. cursor' \in Blocks!Cursor
    BY <2>1, <2>2, <2>3 DEF Blocks!Cursor
  <2> QED BY <1>1, <1>5, <2>1, <2>4, <2>5
<1>7. CASE ~ ok
  <2> DEFINE d == [b EXCEPT !.open = FALSE, !.pending = FALSE, !.index = b.index]
  <2>1. ok = FALSE
    BY <1>7
  <2>2. blocks' = blocks /\ builder' = d
    BY <1>1, <1>7
  <2>3. BuilderTypes(blocks, b) /\ b.ok = FALSE /\ b.index = builder.index
    <3>1. Blocks!EmptyBlock \in BlockRecords
      BY EmptyIsBlock DEF IsBlock, BlockRecords
    <3>2. CASE unwritten
      <4>1. b = Blocks!Flushed(builder, FALSE)
        BY <2>1, <3>2
      <4> HIDE DEF b
      <4> QED BY <1>3, <3>1, <4>1 DEF BuilderTypes, Blocks!Flushed
    <3>3. CASE ~ unwritten
      <4>1. b = [builder EXCEPT !.ok = FALSE]
        BY <2>1, <3>3
      <4> HIDE DEF b
      <4> QED BY <1>3, <4>1 DEF BuilderTypes
    <3> QED BY <3>2, <3>3
  <2> HIDE DEF b
  <2>4. BuilderTypes(blocks, d) /\ d.ok = FALSE /\ d.index = builder.index
    BY <2>3 DEF BuilderTypes
  <2> HIDE DEF d
  <2>5. IsBlock(builder'.index)
    BY <1>3, <2>2, <2>4 DEF IndexRight
  <2>6. BuilderTypes(blocks', builder') /\ ~ builder'.ok
    BY <2>2, <2>4
  <2> QED BY <1>6, <2>5, <2>6, NoReader
<1>8. CASE ok
  <2>1. ok = TRUE
    BY <1>8
  <2>2. BuilderRight(written2, b) /\ b.pending /\ b.data = Blocks!EmptyBlock /\ written2 # <<>> /\ b.ok /\ b.last = builder.last
    <3>1. CASE unwritten
      <4>1. b = Blocks!Flushed(builder, TRUE) /\ written2 = Append(blocks, builder.data)
        BY <2>1, <3>1
      <4>2. builder.data.entries # <<>> /\ ~ builder.pending
        BY <1>1, <1>2, <1>3, <3>1 DEF Between, RowsRight, IsBlock
      <4> HIDE DEF b, written2
      <4> QED BY <1>2, <4>1, <4>2, FlushedRight
    <3>2. CASE ~ unwritten
      <4>1. b = [builder EXCEPT !.ok = TRUE] /\ written2 = blocks
        BY <2>1, <3>2
      <4>2. b.data = builder.data /\ b.index = builder.index /\ b.last = builder.last /\ b.pending = builder.pending
            /\ b.added = builder.added /\ b.ok = TRUE /\ BuilderTypes(blocks, b)
        <5> HIDE DEF b
        <5> QED BY <1>3, <4>1 DEF BuilderTypes
      <4>3. blocks # <<>>
        <5> SUFFICES ASSUME blocks = <<>> PROVE FALSE
          OBVIOUS
        <5>1. PICK k : k \in builder.added
          BY <1>1
        <5>2. PICK i \in 1..(Len(blocks) + 1) : k \in KeysOf(Row(blocks, builder, i))
          BY <1>3, <5>1, RowFacts
        <5>3. i = Len(blocks) + 1 /\ Row(blocks, builder, i) = Blocks!EmptyBlock
          <6>1. i = Len(blocks) + 1
            BY <1>3, RowFacts
          <6> QED BY <1>3, <3>2, <6>1, RowFacts
        <5> QED BY <5>2, <5>3, EmptyIsBlock, KeysOfBlock DEF Blocks!EmptyBlock
      <4>4. builder.pending
        BY <1>1, <1>2, <3>2, <4>3 DEF Between
      <4> HIDE DEF b, written2
      <4>5. BuilderRight(blocks, b)
        BY <1>2, <4>2, SameRight
      <4> QED BY <3>2, <4>1, <4>2, <4>3, <4>4, <4>5
    <3> QED BY <3>1, <3>2
  <2> DEFINE e == WithEntry(written2, b, successor)
             d == [b EXCEPT !.open = FALSE, !.pending = FALSE,
                            !.index = Blocks!BlockAdd(b.index, 1, successor, Len(written2), FALSE)]
  <2>3. blocks' = written2 /\ builder' = d
    BY <1>1, <1>8
  <2> HIDE DEF b, written2
  <2>4. BuilderTypes(written2, b)
    BY <2>2 DEF BuilderRight
  <2>5. /\ d.data = e.data /\ d.index = e.index /\ d.last = e.last /\ d.pending = e.pending /\ d.added = e.added
        /\ d.open = FALSE /\ d.pending = FALSE /\ d.ok = b.ok /\ d.data = b.data
    BY <2>4 DEF BuilderTypes, WithEntry
  <2>6. BuilderRight(written2, e)
    BY <1>4, <2>2, IndexedRight
  <2>7. BuilderTypes(written2, d)
    <3>1. BuilderTypes(written2, e)
      BY <2>6 DEF BuilderRight
    <3>2. Blocks!BlockAdd(b.index, 1, successor, Len(written2), FALSE) \in BlockRecords
      <4>1. e.index \in BlockRecords
        BY <3>1 DEF BuilderTypes
      <4>2. e.index = Blocks!BlockAdd(b.index, 1, successor, Len(written2), FALSE)
        BY <2>4 DEF BuilderTypes, WithEntry
      <4> HIDE DEF e
      <4> QED BY <4>1, <4>2
    <3> DEFINE a == Blocks!BlockAdd(b.index, 1, successor, Len(written2), FALSE)
    <3> HIDE DEF a
    <3>3. d = [b EXCEPT !.open = FALSE, !.pending = FALSE, !.index = a] /\ a \in BlockRecords
      BY <3>2 DEF a
    <3> HIDE DEF d
    <3> QED BY <2>4, <3>3 DEF BuilderTypes
  <2> HIDE DEF d, e
  <2>8. BuilderRight(written2, d)
    BY <2>5, <2>6, <2>7, SameRight
  <2>9. BuilderTypes(blocks', builder') /\ BuilderRight(blocks', builder') /\ ~ builder'.open /\ builder'.ok
        /\ builder'.pending = FALSE /\ builder'.data = Blocks!EmptyBlock /\ blocks' # <<>>
    BY <2>2, <2>3, <2>5, <2>7, <2>8
  <2>10. Between(blocks', builder')
    BY <2>9 DEF Between
  <2>11. IsBlock(builder'.index)
    BY <2>9 DEF BuilderRight, IndexRight
  <2>12. CursorRight'
    BY <1>6, <2>11 DEF CursorRight, IsOpen
  <2>13. Blocks!FileIteratorRight'
    BY <1>6, <2>11, IdleStays
  <2> QED BY <2>9, <2>10, <2>12, <2>13 DEF TableInv
<1> QED BY <1>7, <1>8

-----------------------------------------------------------------------------
(***************************************************************************)
(* The reader.  What a finished table is.                                  *)
(***************************************************************************)
Built == ~ builder.open /\ builder.ok /\ BuilderRight(blocks, builder) /\ Between(blocks, builder)

LEMMA BuiltFacts ==
    ASSUME Built
    PROVE  LET n == Len(blocks)
           IN  /\ n \in Nat /\ n > 0 /\ DOMAIN blocks = 1..n
               /\ IsBlock(builder.index) /\ Blocks!End(builder.index) = n
               /\ \A i \in 1..n :
                     /\ IsBlock(blocks[i]) /\ Blocks!End(blocks[i]) \in Nat /\ Blocks!End(blocks[i]) > 0
                     /\ builder.index.entries[i].value = i
                     /\ \A k \in KeysOf(blocks[i]) : k \in Keys /\ k \in builder.added
               /\ \A i, j \in 1..n :
                     i < j => \A k \in KeysOf(blocks[i]), m \in KeysOf(blocks[j]) : Blocks!Before(k, m)
               /\ \A k \in builder.added : k \in Keys /\ \E i \in 1..n : k \in KeysOf(blocks[i])
<1> DEFINE n == Len(blocks)
<1>1. BuilderTypes(blocks, builder) /\ RowsRight(blocks, builder) /\ IndexRight(blocks, builder)
  BY DEF Built, BuilderRight
<1>2. ~ builder.pending /\ builder.data = Blocks!EmptyBlock /\ blocks # <<>>
  BY DEF Built, Between
<1>3. n \in Nat /\ n > 0 /\ DOMAIN blocks = 1..n /\ Row(blocks, builder, n + 1) = Blocks!EmptyBlock
  BY <1>1, <1>2, RowFacts
<1>4. IsBlock(builder.index) /\ Len(builder.index.entries) = n
  BY <1>1, <1>2 DEF IndexRight
<1>5. Blocks!End(builder.index) = n /\ DOMAIN builder.index.entries = 1..n
  BY <1>4, BlockTypes
<1>6. ASSUME NEW i \in 1..n
      PROVE  /\ IsBlock(blocks[i]) /\ Blocks!End(blocks[i]) \in Nat /\ Blocks!End(blocks[i]) > 0
             /\ builder.index.entries[i].value = i
             /\ \A k \in KeysOf(blocks[i]) : k \in Keys /\ k \in builder.added
  <2>1. i \in 1..(n + 1) /\ Row(blocks, builder, i) = blocks[i] /\ blocks[i].entries # <<>>
    BY <1>1, <1>3, RowFacts
  <2>2. IsBlock(blocks[i]) /\ \A k \in KeysOf(blocks[i]) : k \in Keys /\ k \in builder.added
    BY <1>1, <2>1, RowFacts
  <2>3. Blocks!End(blocks[i]) \in Nat /\ Blocks!End(blocks[i]) > 0
    BY <2>1, <2>2, BlockTypes
  <2> QED BY <1>1, <1>5, <2>2, <2>3 DEF IndexRight
<1>7. ASSUME NEW i \in 1..n, NEW j \in 1..n, i < j, NEW k \in KeysOf(blocks[i]), NEW m \in KeysOf(blocks[j])
      PROVE  Blocks!Before(k, m)
  <2>1. i \in 1..(n + 1) /\ j \in 1..(n + 1)
    BY <1>3
  <2>2. Row(blocks, builder, i) = blocks[i] /\ Row(blocks, builder, j) = blocks[j]
    BY <1>1, RowFacts
  <2> QED BY <1>1, <1>7, <2>1, <2>2 DEF RowsRight
<1>8. ASSUME NEW k \in builder.added PROVE k \in Keys /\ \E i \in 1..n : k \in KeysOf(blocks[i])
  <2>1. k \in Keys /\ \E i \in 1..(n + 1) : k \in KeysOf(Row(blocks, builder, i))
    BY <1>1, RowFacts
  <2>2. PICK i \in 1..(n + 1) : k \in KeysOf(Row(blocks, builder, i))
    BY <2>1
  <2>3. i # n + 1
    <3>1. KeysOf(Blocks!EmptyBlock) = {}
      BY EmptyIsBlock, KeysOfBlock DEF Blocks!EmptyBlock
    <3> QED BY <1>3, <2>2, <3>1
  <2>4. i \in 1..n
    BY <1>3, <2>3
  <2>5. Row(blocks, builder, i) = blocks[i]
    BY <1>1, <2>4, RowFacts
  <2> QED BY <2>1, <2>2, <2>4, <2>5
<1> QED BY <1>3, <1>4, <1>5, <1>6, <1>7, <1>8

LEMMA SeparatorFacts ==
    ASSUME Built, NEW i \in 1..Len(blocks)
    PROVE  LET s == builder.index.entries[i].key
           IN  /\ s \in Keys
               /\ \A k \in KeysOf(blocks[i]) : k = s \/ Blocks!Before(k, s)
               /\ \A j \in (i + 1)..Len(blocks) : \A k \in KeysOf(blocks[j]) : Blocks!Before(s, k)
               /\ \/ s \in KeysOf(blocks[i])
                  \/ \A j \in (i + 1)..Len(blocks) : \A k \in KeysOf(blocks[j]) : s.key < k.key
<1> DEFINE s == builder.index.entries[i].key
           n == Len(blocks)
<1>1. BuilderRight(blocks, builder) /\ BuilderTypes(blocks, builder) /\ RowsRight(blocks, builder)
      /\ IndexRight(blocks, builder)
  BY DEF Built, BuilderRight
<1>2. n \in Nat /\ DOMAIN blocks = 1..n /\ Blocks!End(builder.index) = n /\ IsBlock(blocks[i])
      /\ DOMAIN builder.index.entries = 1..n /\ Blocks!End(blocks[i]) > 0
  BY BuiltFacts, BlockTypes
<1>3. \A j \in (i + 1)..n : j \in (i + 1)..(n + 1) /\ Row(blocks, builder, j) = blocks[j]
  <2> SUFFICES ASSUME NEW j \in (i + 1)..n PROVE j \in (i + 1)..(n + 1) /\ Row(blocks, builder, j) = blocks[j]
    OBVIOUS
  <2>1. j \in 1..n /\ j \in (i + 1)..(n + 1)
    BY <1>2
  <2> QED BY <1>2, <2>1 DEF Row
<1>4. /\ s \in Keys /\ \A k \in KeysOf(blocks[i]) : k = s \/ Blocks!Before(k, s)
      /\ \A j \in (i + 1)..(n + 1) : \A k \in KeysOf(Row(blocks, builder, j)) : Blocks!Before(s, k)
  BY <1>1, <1>2, IndexFacts
<1>5. \A j \in (i + 1)..n : \A k \in KeysOf(blocks[j]) : Blocks!Before(s, k)
  BY <1>3, <1>4
<1>6. Separates(blocks, builder, i)
  BY <1>1, <1>2 DEF IndexRight
<1>7. LastKey(blocks[i]) \in KeysOf(blocks[i])
  <2>1. blocks[i].entries # <<>>
    BY <1>2, BlockTypes
  <2> QED BY <1>2, <2>1, KeysOfBlock
<1>8. s \in KeysOf(blocks[i]) \/ \A j \in (i + 1)..n : \A k \in KeysOf(blocks[j]) : s.key < k.key
  BY <1>3, <1>6, <1>7 DEF Separates
<1> QED BY <1>4, <1>5, <1>8

(* The cursor, and what its steps change of it. *)
LEMMA CursorTypes ==
    ASSUME NEW c \in Blocks!Cursor
    PROVE  /\ c.index \in Blocks!Iterator /\ c.block \in Nat /\ c.readable \in BOOLEAN /\ c.data \in Blocks!Iterator
           /\ c.ok \in BOOLEAN /\ c.forward \in BOOLEAN /\ c.errors \in Nat
           /\ \A it \in Blocks!Iterator :
                 LET d == [c EXCEPT !.index = it]
                 IN  d \in Blocks!Cursor /\ d.index = it /\ d.block = c.block /\ d.readable = c.readable
                     /\ d.data = c.data /\ d.ok = c.ok
           /\ \A it \in Blocks!Iterator :
                 LET d == [c EXCEPT !.data = it]
                 IN  d \in Blocks!Cursor /\ d.data = it /\ d.block = c.block /\ d.readable = c.readable
                     /\ d.index = c.index /\ d.ok = c.ok
<1>1. c \in [index : Blocks!Iterator, block : Nat, readable : BOOLEAN, data : Blocks!Iterator,
             ok : BOOLEAN, forward : BOOLEAN, errors : Nat]
  BY DEF Blocks!Cursor
<1>2. /\ c.index \in Blocks!Iterator /\ c.block \in Nat /\ c.readable \in BOOLEAN /\ c.data \in Blocks!Iterator
      /\ c.ok \in BOOLEAN /\ c.forward \in BOOLEAN /\ c.errors \in Nat
  BY <1>1
<1>3. ASSUME NEW it \in Blocks!Iterator
      PROVE  LET d == [c EXCEPT !.index = it]
             IN  d \in Blocks!Cursor /\ d.index = it /\ d.block = c.block /\ d.readable = c.readable
                 /\ d.data = c.data /\ d.ok = c.ok
  BY <1>1 DEF Blocks!Cursor
<1>4. ASSUME NEW it \in Blocks!Iterator
      PROVE  LET d == [c EXCEPT !.data = it]
             IN  d \in Blocks!Cursor /\ d.data = it /\ d.block = c.block /\ d.readable = c.readable
                 /\ d.index = c.index /\ d.ok = c.ok
  BY <1>1 DEF Blocks!Cursor
<1> QED BY <1>2, <1>3, <1>4

LEMMA DataBlockIs ==
    ASSUME Built, NEW c \in Blocks!Cursor, c.block \in 0..Len(blocks)
    PROVE  /\ IsBlock(Blocks!DataBlock(c))
           /\ c.block # 0 /\ c.readable => Blocks!DataBlock(c) = blocks[c.block] /\ c.block \in 1..Len(blocks)
           /\ ~ (c.block # 0 /\ c.readable) => Blocks!DataBlock(c) = Blocks!EmptyBlock
<1>1. ASSUME c.block # 0, c.readable
      PROVE  IsBlock(Blocks!DataBlock(c)) /\ Blocks!DataBlock(c) = blocks[c.block] /\ c.block \in 1..Len(blocks)
  <2>1. c.block \in 1..Len(blocks)
    BY <1>1, BuiltFacts
  <2>2. Blocks!DataBlock(c) = blocks[c.block]
    BY <1>1 DEF Blocks!DataBlock
  <2> QED BY <2>1, <2>2, BuiltFacts
<1>2. ASSUME ~ (c.block # 0 /\ c.readable)
      PROVE  IsBlock(Blocks!DataBlock(c)) /\ Blocks!DataBlock(c) = Blocks!EmptyBlock
  <2>1. Blocks!DataBlock(c) = Blocks!EmptyBlock
    BY <1>2 DEF Blocks!DataBlock
  <2> QED BY <2>1, EmptyIsBlock
<1> QED BY <1>1, <1>2

(* A valid data iterator is at an entry of the block that the cursor is in. *)
LEMMA AtEntry ==
    ASSUME Built, NEW c \in Blocks!Cursor, c.block \in 0..Len(blocks), Blocks!DataValid(c),
           IsAt(Blocks!DataBlock(c), c.data)
    PROVE  /\ c.readable /\ c.block \in 1..Len(blocks) /\ Blocks!DataBlock(c) = blocks[c.block]
           /\ c.data.at \in Nat /\ c.data.at + 1 \in 1..Blocks!End(blocks[c.block])
           /\ c.data.key = blocks[c.block].entries[c.data.at + 1].key
           /\ c.data.key \in KeysOf(blocks[c.block]) /\ c.data.key \in Keys /\ c.data.key \in builder.added
<1>1. c.block # 0 /\ c.data.at < Blocks!End(Blocks!DataBlock(c)) /\ c.data.at \in Nat
  BY CursorTypes, IteratorTypes DEF Blocks!DataValid, Blocks!Valid
<1>2. c.readable
  BY <1>1, DataBlockIs, EmptyIsBlock
<1>3. c.block \in 1..Len(blocks) /\ Blocks!DataBlock(c) = blocks[c.block]
  BY <1>1, <1>2, DataBlockIs
<1>4. IsBlock(blocks[c.block]) /\ Blocks!End(blocks[c.block]) \in Nat
  BY <1>3, BuiltFacts
<1>5. c.data.at + 1 \in 1..Blocks!End(blocks[c.block])
  BY <1>1, <1>3, <1>4
<1>6. c.data.key = blocks[c.block].entries[c.data.at + 1].key
  BY <1>1, <1>3 DEF IsAt
<1>7. c.data.key \in KeysOf(blocks[c.block])
  BY <1>4, <1>5, <1>6, KeysOfBlock
<1> QED BY <1>1, <1>2, <1>3, <1>5, <1>6, <1>7, BuiltFacts

(* SetDataIterator: at the end of the block, the error of the last one kept. *)
LEMMA DataSet ==
    ASSUME Built, NEW c \in Blocks!Cursor, NEW h \in 0..Len(blocks), NEW bad
    PROVE  LET d == Blocks!SetDataIterator(c, h, bad)
           IN  /\ d \in Blocks!Cursor /\ d.index = c.index /\ d.block = h /\ d.data.ok
               /\ IsAt(Blocks!DataBlock(d), d.data) /\ ~ Blocks!DataValid(d)
               /\ NoError(d) => NoError(c)
<1> DEFINE e == [c EXCEPT !.block = h, !.readable = h \notin bad, !.ok = c.ok /\ Blocks!DataOk(c)]
           it == Blocks!NewIterator(Blocks!DataBlock(e))
           d == Blocks!SetDataIterator(c, h, bad)
<1>1. d = [e EXCEPT !.data = it]
  BY DEF Blocks!SetDataIterator
<1>2. c \in [index : Blocks!Iterator, block : Nat, readable : BOOLEAN, data : Blocks!Iterator,
             ok : BOOLEAN, forward : BOOLEAN, errors : Nat]
  BY DEF Blocks!Cursor
<1>3. h \in Nat
  BY BuiltFacts
<1>4. e \in Blocks!Cursor
  <2> DEFINE ok2 == c.ok /\ Blocks!DataOk(c)
             readable2 == h \notin bad
  <2>1. ok2 \in BOOLEAN /\ readable2 \in BOOLEAN
    OBVIOUS
  <2>2. e = [c EXCEPT !.block = h, !.readable = readable2, !.ok = ok2]
    OBVIOUS
  <2> HIDE DEF e, ok2, readable2
  <2> QED BY <1>2, <1>3, <2>1, <2>2 DEF Blocks!Cursor
<1>5. e.block = h /\ e.index = c.index /\ (e.ok => c.ok /\ Blocks!DataOk(c))
  BY <1>2
<1> HIDE DEF e
<1>6. IsBlock(Blocks!DataBlock(e))
  BY <1>4, <1>5, DataBlockIs
<1>7. IsAt(Blocks!DataBlock(e), it) /\ it \in Blocks!Iterator /\ it.ok /\ ~ Blocks!Valid(Blocks!DataBlock(e), it)
  BY <1>6, NewIsAt DEF IsAt
<1> HIDE DEF it, d
<1>8. d \in Blocks!Cursor /\ d.data = it /\ d.block = e.block /\ d.readable = e.readable /\ d.index = e.index /\ d.ok = e.ok
  BY <1>1, <1>4, <1>7, CursorTypes
<1>9. Blocks!DataBlock(d) = Blocks!DataBlock(e)
  BY <1>8 DEF Blocks!DataBlock
<1>10. IsAt(Blocks!DataBlock(d), d.data) /\ ~ Blocks!DataValid(d) /\ d.data.ok
  BY <1>7, <1>8, <1>9 DEF Blocks!DataValid
<1>11. NoError(d) => NoError(c)
  BY <1>5, <1>8 DEF NoError
<1> QED BY <1>5, <1>8, <1>10, <1>11 DEF d

(* The cursor is where the index is: in the block that it has there. *)
InBlock(c) ==
    /\ c \in Blocks!Cursor /\ c.data.ok /\ IsAt(builder.index, c.index)
    /\ c.block = IF c.index.at < Len(blocks) THEN c.index.at + 1 ELSE 0
    /\ IsAt(Blocks!DataBlock(c), c.data)

LEMMA InBlockFacts ==
    ASSUME Built, NEW c, InBlock(c)
    PROVE  /\ c.index.at \in Nat /\ c.index.at <= Len(blocks) /\ c.block \in 0..Len(blocks)
           /\ Blocks!IndexValid(c) <=> c.index.at < Len(blocks)
           /\ Blocks!IndexValid(c) <=> c.block # 0
           /\ Blocks!IndexValid(c) => c.block = c.index.at + 1 /\ c.block \in 1..Len(blocks)
<1>1. c.index \in Blocks!Iterator /\ c.index.at <= Blocks!End(builder.index)
  BY DEF InBlock, IsAt
<1>2. c.index.at \in Nat /\ Blocks!End(builder.index) = Len(blocks) /\ Len(blocks) \in Nat
  BY <1>1, IteratorTypes, BuiltFacts
<1>3. Blocks!IndexValid(c) <=> c.index.at < Len(blocks)
  BY <1>2 DEF Blocks!IndexValid, Blocks!Valid, Blocks!Index
<1> QED BY <1>1, <1>2, <1>3 DEF InBlock

LEMMA IndexMoved ==
    ASSUME Built, NEW c \in Blocks!Cursor, c.data.ok, c.block \in 0..Len(blocks),
           c.block # 0 => IsAt(Blocks!DataBlock(c), c.data), NEW it, IsAt(builder.index, it), NEW bad
    PROVE  LET d == Blocks!WithIndex(c, it, bad)
           IN  InBlock(d) /\ d.index = it /\ (NoError(d) => NoError(c))
<1> DEFINE e == [c EXCEPT !.index = it]
           h == builder.index.entries[e.index.at + 1].value
           d == Blocks!WithIndex(c, it, bad)
           n == Len(blocks)
<1>1. it \in Blocks!Iterator /\ it.at <= Blocks!End(builder.index)
  BY DEF IsAt
<1>2. it.at \in Nat /\ Blocks!End(builder.index) = n /\ n \in Nat /\ it.at <= n
  BY <1>1, IteratorTypes, BuiltFacts
<1>3. e \in Blocks!Cursor /\ e.index = it /\ e.block = c.block /\ e.readable = c.readable /\ e.data = c.data /\ e.ok = c.ok
  BY <1>1, CursorTypes
<1>4. d = Blocks!InitDataBlock(e, bad)
  BY DEF Blocks!WithIndex
<1>5. NoError(e) <=> NoError(c)
  BY <1>3 DEF NoError, Blocks!DataOk
<1>6. Blocks!DataBlock(e) = Blocks!DataBlock(c)
  BY <1>3 DEF Blocks!DataBlock
<1> HIDE DEF e, d
<1>7. Blocks!IndexValid(e) <=> it.at < n
  BY <1>2, <1>3 DEF Blocks!IndexValid, Blocks!Valid, Blocks!Index
<1>8. CASE ~ it.at < n
  <2>1. d = Blocks!SetDataIterator(e, 0, {})
    BY <1>4, <1>7, <1>8 DEF Blocks!InitDataBlock
  <2>2. 0 \in 0..n
    BY <1>2
  <2>3. /\ d \in Blocks!Cursor /\ d.index = it /\ d.block = 0 /\ d.data.ok
        /\ IsAt(Blocks!DataBlock(d), d.data) /\ (NoError(d) => NoError(e))
    BY <1>3, <2>1, <2>2, DataSet
  <2> QED BY <1>5, <1>8, <2>3 DEF InBlock, d
<1>9. CASE it.at < n
  <2>1. h = it.at + 1 /\ it.at + 1 \in 1..n
    BY <1>2, <1>3, <1>9, BuiltFacts
  <2>2. CASE h = c.block
    <3>1. d = e
      <4>1. Blocks!Index.entries[e.index.at + 1].value = e.block
        BY <1>3, <2>2 DEF Blocks!Index
      <4> QED BY <1>4, <1>7, <1>9, <4>1 DEF Blocks!InitDataBlock
    <3>2. c.block # 0
      BY <1>2, <2>1, <2>2
    <3>3. IsAt(Blocks!DataBlock(d), d.data)
      BY <1>3, <1>6, <3>1, <3>2
    <3>4. d.block = d.index.at + 1 /\ d.index = it
      BY <1>3, <2>1, <2>2, <3>1
    <3> QED BY <1>3, <1>5, <1>9, <3>1, <3>3, <3>4 DEF InBlock, d
  <2>3. CASE h # c.block
    <3>1. d = Blocks!SetDataIterator(e, h, bad)
      <4>1. Blocks!Index.entries[e.index.at + 1].value = h /\ h # e.block
        BY <1>3, <2>3 DEF Blocks!Index
      <4> QED BY <1>4, <1>7, <1>9, <4>1 DEF Blocks!InitDataBlock
    <3>2. h \in 0..n
      BY <1>2, <2>1
    <3> HIDE DEF h
    <3>3. /\ d \in Blocks!Cursor /\ d.index = it /\ d.block = h /\ d.data.ok
          /\ IsAt(Blocks!DataBlock(d), d.data) /\ (NoError(d) => NoError(e))
      BY <1>3, <3>1, <3>2, DataSet
    <3> QED BY <1>5, <1>9, <2>1, <3>3 DEF InBlock, d
  <2> QED BY <2>2, <2>3
<1> QED BY <1>8, <1>9

LEMMA DataMoved ==
    ASSUME Built, NEW c, InBlock(c), NEW it, c.block # 0 => IsAt(Blocks!DataBlock(c), it)
    PROVE  LET d == Blocks!WithData(c, it)
           IN  /\ InBlock(d) /\ d.index = c.index /\ d.block = c.block /\ (NoError(d) <=> NoError(c))
               /\ Blocks!DataBlock(d) = Blocks!DataBlock(c)
               /\ c.block # 0 => d.data = it
               /\ Blocks!DataValid(d) <=> c.block # 0 /\ it.at < Blocks!End(Blocks!DataBlock(c))
<1> DEFINE d == Blocks!WithData(c, it)
<1>1. c \in Blocks!Cursor /\ c.data.ok
  BY DEF InBlock
<1>2. CASE c.block = 0
  <2>1. d = c
    BY <1>2 DEF Blocks!WithData
  <2>2. ~ Blocks!DataValid(c)
    BY <1>2 DEF Blocks!DataValid
  <2> HIDE DEF d
  <2> QED BY <1>2, <2>1, <2>2 DEF d
<1>3. CASE c.block # 0
  <2>1. d = [c EXCEPT !.data = it]
    BY <1>3 DEF Blocks!WithData
  <2>2. it \in Blocks!Iterator /\ it.ok
    BY <1>3 DEF IsAt
  <2> HIDE DEF d
  <2>3. /\ d \in Blocks!Cursor /\ d.data = it /\ d.block = c.block /\ d.readable = c.readable
        /\ d.index = c.index /\ d.ok = c.ok
    BY <1>1, <2>1, <2>2, CursorTypes
  <2>4. Blocks!DataBlock(d) = Blocks!DataBlock(c)
    BY <2>3 DEF Blocks!DataBlock
  <2>5. NoError(d) <=> NoError(c)
    BY <1>1, <2>2, <2>3 DEF NoError, Blocks!DataOk
  <2>6. InBlock(d)
    BY <1>3, <2>2, <2>3, <2>4 DEF InBlock
  <2>7. Blocks!DataValid(d) <=> it.at < Blocks!End(Blocks!DataBlock(c))
    BY <1>3, <2>3, <2>4 DEF Blocks!DataValid, Blocks!Valid
  <2> QED BY <1>3, <2>3, <2>4, <2>5, <2>6, <2>7 DEF d
<1> QED BY <1>2, <1>3

(* To where an iterator goes: forward or backward, over the entries U that *)
(* its call is about.  While it skips blocks it is at the first of them,   *)
(* or none is in the blocks that it is past, unless it met an error; and   *)
(* the blocks beyond have nothing else.                                    *)
Leads(f, a, b) == IF f THEN Blocks!Before(a, b) ELSE Blocks!Before(b, a)
Beyond(f, i, j) == IF f THEN i < j ELSE j < i
FirstsOf(f, U) == {k \in U : \A j \in U : j = k \/ Leads(f, k, j)}
Past(c, f, U, i) == (Blocks!IndexValid(c) => ~ Beyond(f, c.block, i)) => \A u \in U : u \notin KeysOf(blocks[i])
Walks(c, f, U) ==
    /\ InBlock(c)
    /\ Blocks!DataValid(c) =>
          c.data.key \in U /\ (NoError(c) => \A u \in U : u = c.data.key \/ Leads(f, c.data.key, u))
    /\ ~ Blocks!DataValid(c) /\ NoError(c) => \A i \in 1..Len(blocks) : Past(c, f, U, i)
    /\ Blocks!IndexValid(c) =>
          \A i \in 1..Len(blocks) : Beyond(f, c.block, i) => \A k \in KeysOf(blocks[i]) : k \in U

(* The entry at the near end of a block. *)
LEMMA NearEnd ==
    ASSUME NEW f \in BOOLEAN, NEW b, IsBlock(b), Blocks!End(b) > 0,
           NEW at, at = IF f THEN 0 ELSE Blocks!End(b) - 1
    PROVE  \A k \in KeysOf(b) : k = b.entries[at + 1].key \/ Leads(f, b.entries[at + 1].key, k)
<1>1. Blocks!End(b) \in Nat /\ at + 1 = IF f THEN 1 ELSE Blocks!End(b)
  BY BlockTypes
<1> SUFFICES ASSUME NEW k \in KeysOf(b)
             PROVE  k = b.entries[at + 1].key \/ Leads(f, b.entries[at + 1].key, k)
  OBVIOUS
<1>2. PICK j \in 1..Blocks!End(b) : k = b.entries[j].key
  BY KeysOfBlock
<1>3. CASE j = at + 1
  BY <1>2, <1>3
<1>4. CASE f /\ j # at + 1
  <2>1. 1 \in 1..Blocks!End(b) /\ 1 < j /\ at + 1 = 1
    BY <1>1, <1>4
  <2>2. Blocks!Before(b.entries[1].key, b.entries[j].key)
    BY <2>1, BlockTypes
  <2> QED BY <1>2, <1>4, <2>1, <2>2 DEF Leads
<1>5. CASE ~ f /\ j # at + 1
  <2>1. Blocks!End(b) \in 1..Blocks!End(b) /\ j < Blocks!End(b) /\ at + 1 = Blocks!End(b)
    BY <1>1, <1>5
  <2>2. Blocks!Before(b.entries[j].key, b.entries[Blocks!End(b)].key)
    BY <2>1, BlockTypes
  <2> QED BY <1>2, <1>5, <2>1, <2>2 DEF Leads
<1> QED BY <1>3, <1>4, <1>5

(* One block further. *)
LEMMA WalkTurn ==
    ASSUME Built, NEW f \in BOOLEAN, NEW U, NEW c, Walks(c, f, U), ~ Blocks!DataValid(c), Blocks!IndexValid(c),
           \A u \in U : u \in builder.added,
           NEW it, IsAt(builder.index, it),
           it.at = IF f THEN c.index.at + 1 ELSE IF c.index.at = 0 THEN Len(blocks) ELSE c.index.at - 1,
           NEW bad, NEW data,
           LET d == Blocks!WithIndex(c, it, bad)
           IN  d.block # 0 => /\ IsAt(Blocks!DataBlock(d), data)
                              /\ data.at = IF f \/ Blocks!End(Blocks!DataBlock(d)) = 0 THEN 0
                                           ELSE Blocks!End(Blocks!DataBlock(d)) - 1
    PROVE  LET e == Blocks!WithData(Blocks!WithIndex(c, it, bad), data)
           IN  Walks(e, f, U) /\ e.index = it
<1> DEFINE d == Blocks!WithIndex(c, it, bad)
           e == Blocks!WithData(d, data)
           n == Len(blocks)
<1>1. InBlock(c) /\ c.index.at \in Nat /\ c.index.at < n /\ c.block = c.index.at + 1 /\ c.block \in 1..n /\ n \in Nat
  BY InBlockFacts, BuiltFacts DEF Walks
<1>2. c \in Blocks!Cursor /\ c.data.ok /\ c.block \in 0..n /\ IsAt(Blocks!DataBlock(c), c.data)
  BY <1>1 DEF InBlock
<1>3. InBlock(d) /\ d.index = it /\ (NoError(d) => NoError(c))
  BY <1>2, IndexMoved
<1>a. d.block # 0 => /\ IsAt(Blocks!DataBlock(d), data)
                     /\ data.at = IF f \/ Blocks!End(Blocks!DataBlock(d)) = 0 THEN 0
                                  ELSE Blocks!End(Blocks!DataBlock(d)) - 1
  OBVIOUS
<1> HIDE DEF d
<1>4. /\ InBlock(e) /\ e.index = d.index /\ e.block = d.block /\ (NoError(e) <=> NoError(d))
      /\ Blocks!DataBlock(e) = Blocks!DataBlock(d)
      /\ d.block # 0 => e.data = data
      /\ Blocks!DataValid(e) <=> d.block # 0 /\ data.at < Blocks!End(Blocks!DataBlock(d))
  BY <1>3, <1>a, DataMoved
<1> HIDE DEF e
<1>5. /\ e.index.at = it.at /\ e.index.at \in Nat
      /\ Blocks!IndexValid(e) <=> it.at < n
      /\ Blocks!IndexValid(e) <=> e.block # 0
      /\ Blocks!IndexValid(e) => e.block = it.at + 1 /\ e.block \in 1..n
  BY <1>3, <1>4, InBlockFacts
<1>6. NoError(e) => \A i \in 1..n : Past(c, f, U, i)
  BY <1>3, <1>4 DEF Walks
<1>7. \A i \in 1..n : ~ Beyond(f, c.block, i) =>
         (NoError(e) => \A u \in U : u \notin KeysOf(blocks[i]))
  BY <1>6 DEF Past
<1>8. \A i \in 1..n : Beyond(f, c.block, i) => \A k \in KeysOf(blocks[i]) : k \in U
  BY DEF Walks
<1>9. ~ Blocks!IndexValid(e) => \A i \in 1..n : ~ Beyond(f, c.block, i)
  BY <1>1, <1>5 DEF Beyond
<1>10. Blocks!IndexValid(e) => /\ Beyond(f, c.block, e.block)
                               /\ \A i \in 1..n : Beyond(f, e.block, i) => Beyond(f, c.block, i)
                               /\ \A i \in 1..n : Beyond(f, c.block, i) => i = e.block \/ Beyond(f, e.block, i)
  BY <1>1, <1>5, SMTT(30) DEF Beyond
<1>11. ASSUME Blocks!IndexValid(e), e.readable
       PROVE  /\ Blocks!DataValid(e) /\ e.data.key \in KeysOf(blocks[e.block])
              /\ \A k \in KeysOf(blocks[e.block]) : k = e.data.key \/ Leads(f, e.data.key, k)
  <2>1. e.block \in 1..n /\ e.block # 0 /\ e \in Blocks!Cursor
    BY <1>4, <1>5, <1>11 DEF InBlock
  <2>2. Blocks!DataBlock(e) = blocks[e.block]
    BY <1>11, <2>1, DataBlockIs
  <2>3. IsBlock(blocks[e.block]) /\ Blocks!End(blocks[e.block]) \in Nat /\ Blocks!End(blocks[e.block]) > 0
    BY <2>1, BuiltFacts
  <2> DEFINE b == blocks[e.block]
  <2>4. d.block # 0 /\ Blocks!DataBlock(d) = b /\ e.data = data
    BY <1>4, <2>1, <2>2
  <2> HIDE DEF b
  <2>5. e.data.at = (IF f THEN 0 ELSE Blocks!End(b) - 1) /\ e.data.at < Blocks!End(b) /\ Blocks!DataValid(e)
    BY <1>4, <1>a, <2>3, <2>4 DEF b
  <2>6. /\ e.data.key = b.entries[e.data.at + 1].key /\ e.data.key \in KeysOf(b)
    <3>1. e.block \in 0..n /\ IsAt(Blocks!DataBlock(e), e.data)
      BY <1>1, <1>4, <2>1 DEF InBlock
    <3> QED BY <2>1, <2>5, <3>1, AtEntry DEF b
  <2>7. \A k \in KeysOf(b) : k = b.entries[e.data.at + 1].key \/ Leads(f, b.entries[e.data.at + 1].key, k)
    BY <2>3, <2>5, NearEnd DEF b
  <2> QED BY <2>5, <2>6, <2>7 DEF b
<1>12. Blocks!DataValid(e) => Blocks!IndexValid(e) /\ e.readable
  <2> SUFFICES ASSUME Blocks!DataValid(e) PROVE Blocks!IndexValid(e) /\ e.readable
    OBVIOUS
  <2>1. Blocks!IndexValid(e)
    BY <1>4, <1>5
  <2>2. e \in Blocks!Cursor /\ e.block \in 0..n /\ IsAt(Blocks!DataBlock(e), e.data)
    BY <1>1, <1>4, <1>5, <2>1 DEF InBlock
  <2> QED BY <2>1, <2>2, AtEntry
<1>13. ASSUME Blocks!DataValid(e)
       PROVE  e.data.key \in U /\ (NoError(e) => \A u \in U : u = e.data.key \/ Leads(f, e.data.key, u))
  <2>1. /\ Blocks!IndexValid(e) /\ e.data.key \in KeysOf(blocks[e.block]) /\ e.block \in 1..n
        /\ \A k \in KeysOf(blocks[e.block]) : k = e.data.key \/ Leads(f, e.data.key, k)
    BY <1>5, <1>11, <1>12, <1>13
  <2>2. e.data.key \in U
    BY <1>8, <1>10, <2>1
  <2>3. ASSUME NoError(e), NEW u \in U PROVE u = e.data.key \/ Leads(f, e.data.key, u)
    <3>1. PICK i \in 1..n : u \in KeysOf(blocks[i])
      BY BuiltFacts
    <3>2. Beyond(f, c.block, i)
      BY <1>7, <2>3, <3>1
    <3>3. CASE i = e.block
      BY <2>1, <3>1, <3>3
    <3>4. CASE Beyond(f, e.block, i)
      BY <2>1, <3>1, <3>4, BuiltFacts DEF Beyond, Leads
    <3> QED BY <1>10, <2>1, <3>2, <3>3, <3>4
  <2> QED BY <2>2, <2>3
<1>14. ASSUME ~ Blocks!DataValid(e), NoError(e), NEW i \in 1..n PROVE Past(e, f, U, i)
  <2>1. ~ Blocks!IndexValid(e)
    <3> SUFFICES ASSUME Blocks!IndexValid(e) PROVE FALSE
      OBVIOUS
    <3>1. e.readable
      BY <1>5, <1>14 DEF NoError, Blocks!DataOk
    <3> QED BY <1>11, <1>14, <3>1
  <2>2. \A u \in U : u \notin KeysOf(blocks[i])
    BY <1>7, <1>9, <1>14, <2>1
  <2> QED BY <2>2 DEF Past
<1>15. Blocks!IndexValid(e) => \A i \in 1..n : Beyond(f, e.block, i) => \A k \in KeysOf(blocks[i]) : k \in U
  BY <1>8, <1>10
<1>16. Walks(e, f, U)
  BY <1>4, <1>13, <1>14, <1>15 DEF Walks
<1> QED BY <1>3, <1>4, <1>16 DEF e, d

(* The loops of SkipEmptyDataBlocksForward and Backward. *)
LEMMA WalkEnds ==
    ASSUME Built, NEW f \in BOOLEAN, NEW U, NEW c, Walks(c, f, U), NEW turn,
           \A d : Walks(d, f, U) /\ d \in Blocks!EmptyData =>
                     /\ Walks(turn[d], f, U)
                     /\ turn[d].index.at = IF f THEN d.index.at + 1
                                           ELSE IF d.index.at = 0 THEN Len(blocks) ELSE d.index.at - 1
    PROVE  LET r == Blocks!EndIfEmpty(Blocks!Loop(turn, Blocks!EmptyData, c, Len(blocks)))
           IN  Walks(r, f, U) /\ (Blocks!DataValid(r) \/ r.block = 0)
<1> DEFINE n == Len(blocks)
           goes == Blocks!EmptyData
           I == {d \in Blocks!Cursor : Walks(d, f, U)}
           Left(at) == IF f THEN n - at ELSE IF at < n THEN at + 1 ELSE 0
           left == [d \in I |-> Left(d.index.at)]
           l == Blocks!Loop(turn, goes, c, n)
           r == Blocks!EndIfEmpty(l)
<1>1. n \in Nat /\ n > 0
  BY BuiltFacts
<1>2. \A d : Walks(d, f, U) => d \in Blocks!Cursor /\ d \in I /\ d.index.at \in Nat /\ d.index.at <= n
                               /\ (Blocks!IndexValid(d) <=> d.index.at < n)
  <2> SUFFICES ASSUME NEW d, Walks(d, f, U)
               PROVE  d \in Blocks!Cursor /\ d \in I /\ d.index.at \in Nat /\ d.index.at <= n
                      /\ (Blocks!IndexValid(d) <=> d.index.at < n)
    OBVIOUS
  <2>1. InBlock(d)
    BY DEF Walks
  <2>2. d \in Blocks!Cursor
    BY <2>1 DEF InBlock
  <2> QED BY <2>1, <2>2, InBlockFacts
<1>3. \A d \in goes : d \in Blocks!Cursor /\ ~ Blocks!DataValid(d) /\ Blocks!IndexValid(d)
  BY DEF Blocks!EmptyData
<1>4. \A x \in I : Walks(x, f, U)
  OBVIOUS
<1> HIDE DEF I, goes
<1>5. \A x \in I : x \in goes => turn[x] \in I
  BY <1>2, <1>4 DEF goes
<1>6. \A at \in 0..n : Left(at) \in Nat /\ Left(at) <= n
  BY <1>1
<1>7. ASSUME NEW at \in Nat, at < n
      PROVE  Left(IF f THEN at + 1 ELSE IF at = 0 THEN n ELSE at - 1) < Left(at)
  BY <1>1, <1>7
<1> HIDE DEF Left
<1>8. \A x \in I : left[x] = Left(x.index.at) /\ x.index.at \in 0..n
  BY <1>1, <1>2, <1>4
<1> HIDE DEF left
<1>9. \A x \in I : left[x] \in Nat /\ left[x] <= n
  BY <1>6, <1>8
<1>10. ASSUME NEW x \in I, x \in goes PROVE left[turn[x]] < left[x]
  <2>1. Walks(x, f, U) /\ turn[x] \in I
    BY <1>4, <1>5, <1>10
  <2>2. x.index.at \in Nat /\ x.index.at < n
    BY <1>2, <1>3, <1>10, <2>1
  <2>3. turn[x].index.at = IF f THEN x.index.at + 1 ELSE IF x.index.at = 0 THEN n ELSE x.index.at - 1
    BY <1>10, <2>1 DEF goes
  <2>4. Left(turn[x].index.at) < Left(x.index.at)
    BY <1>7, <2>2, <2>3
  <2> QED BY <1>8, <2>1, <2>4
<1>11. \A x \in I : left[x] \in Nat /\ (x \in goes => left[turn[x]] < left[x])
  BY <1>9, <1>10
<1>12. c \in I /\ left[c] <= n
  BY <1>2, <1>9
<1> HIDE DEF n
<1>13. l \in I /\ l \notin goes
  BY <1>1, <1>5, <1>11, <1>12, LoopEnds
<1> USE DEF n
<1> HIDE DEF l
<1>14. Walks(l, f, U) /\ l \in Blocks!Cursor /\ (Blocks!DataValid(l) \/ ~ Blocks!IndexValid(l))
  BY <1>2, <1>4, <1>13 DEF Blocks!EmptyData, goes
<1>15. CASE Blocks!DataValid(l)
  <2>1. r = l
    BY <1>15 DEF Blocks!EndIfEmpty
  <2> HIDE DEF r
  <2> QED BY <1>14, <1>15, <2>1 DEF r, l, goes, n
<1>16. CASE ~ Blocks!DataValid(l)
  <2>1. r = Blocks!SetDataIterator(l, 0, {})
    BY <1>16 DEF Blocks!EndIfEmpty
  <2> HIDE DEF r
  <2>2. 0 \in 0..n /\ ~ Blocks!IndexValid(l) /\ ~ l.index.at < n
    BY <1>1, <1>2, <1>14, <1>16
  <2>3. /\ r \in Blocks!Cursor /\ r.index = l.index /\ r.block = 0 /\ r.data.ok
        /\ IsAt(Blocks!DataBlock(r), r.data) /\ ~ Blocks!DataValid(r)
        /\ NoError(r) => NoError(l)
    BY <1>14, <2>1, <2>2, DataSet
  <2>4. ~ Blocks!IndexValid(r)
    BY <2>2, <2>3 DEF Blocks!IndexValid
  <2>5. InBlock(r)
    BY <1>14, <2>2, <2>3 DEF InBlock, Walks
  <2>6. NoError(r) => \A i \in 1..n : Past(r, f, U, i)
    BY <1>14, <1>16, <2>2, <2>3 DEF Walks, Past
  <2>7. Walks(r, f, U)
    BY <2>3, <2>4, <2>5, <2>6 DEF Walks
  <2> QED BY <2>3, <2>7 DEF r, l, goes, n
<1> QED BY <1>15, <1>16

LEMMA SkippedForward ==
    ASSUME Built, NEW U, \A u \in U : u \in builder.added, NEW c, Walks(c, TRUE, U), NEW bad
    PROVE  LET r == Blocks!SkipEmptyDataBlocksForward(c, bad)
           IN  Walks(r, TRUE, U) /\ (Blocks!DataValid(r) \/ r.block = 0)
<1> DEFINE f == TRUE
           turn == [d \in Blocks!Cursor |->
                       Blocks!AtFirst(Blocks!WithIndex(d, Blocks!ParseNextKey(Blocks!Index, d.index), bad))]
<1>1. f \in BOOLEAN /\ Walks(c, f, U)
  OBVIOUS
<1>a. f
  OBVIOUS
<1>2. Blocks!SkipEmptyDataBlocksForward(c, bad) = Blocks!EndIfEmpty(Blocks!Loop(turn, Blocks!EmptyData, c, Len(blocks)))
  BY DEF Blocks!SkipEmptyDataBlocksForward
<1> HIDE DEF f
<1>3. ASSUME NEW d, Walks(d, f, U), d \in Blocks!EmptyData
      PROVE  Walks(turn[d], f, U) /\ turn[d].index.at = d.index.at + 1
  <2> DEFINE it == Blocks!ParseNextKey(builder.index, d.index)
             w == Blocks!WithIndex(d, it, bad)
             data == Blocks!BlockFirst(Blocks!DataBlock(w), w.data)
  <2>1. d \in Blocks!Cursor /\ ~ Blocks!DataValid(d) /\ Blocks!IndexValid(d)
    BY <1>3 DEF Blocks!EmptyData
  <2>2. turn[d] = Blocks!WithData(w, data)
    BY <2>1 DEF Blocks!AtFirst, Blocks!Index
  <2> HIDE DEF turn
  <2>3. InBlock(d) /\ IsAt(builder.index, d.index) /\ IsAt(Blocks!DataBlock(d), d.data) /\ d.data.ok
    BY <1>3 DEF Walks, InBlock
  <2>4. IsAt(builder.index, it) /\ it.at = d.index.at + 1
    <3>1. Blocks!Valid(builder.index, d.index) /\ IsBlock(builder.index)
      BY <2>1, BuiltFacts DEF Blocks!IndexValid, Blocks!Index
    <3> QED BY <2>3, <3>1, NextFound
  <2> HIDE DEF it
  <2>5. InBlock(w) /\ d.block \in 0..Len(blocks)
    BY <2>1, <2>3, <2>4, IndexMoved, InBlockFacts
  <2>6. IsBlock(Blocks!DataBlock(w)) /\ w.data \in Blocks!Iterator /\ w.data.ok
    BY <2>5, DataBlockIs, InBlockFacts, CursorTypes DEF InBlock
  <2>7. IsAt(Blocks!DataBlock(w), data) /\ data.at = 0
    BY <2>6, FirstFound
  <2>8. it.at = IF f THEN d.index.at + 1 ELSE IF d.index.at = 0 THEN Len(blocks) ELSE d.index.at - 1
    BY <1>a, <2>4
  <2>9. data.at = IF f \/ Blocks!End(Blocks!DataBlock(w)) = 0 THEN 0 ELSE Blocks!End(Blocks!DataBlock(w)) - 1
    BY <1>a, <2>7
  <2> HIDE DEF data
  <2>10. Walks(Blocks!WithData(w, data), f, U) /\ Blocks!WithData(w, data).index = it
    BY <1>1, <1>3, <2>1, <2>4, <2>7, <2>8, <2>9, WalkTurn
  <2> QED BY <2>2, <2>4, <2>10
<1> HIDE DEF turn
<1>4. \A d : Walks(d, f, U) /\ d \in Blocks!EmptyData =>
                /\ Walks(turn[d], f, U)
                /\ turn[d].index.at = IF f THEN d.index.at + 1
                                      ELSE IF d.index.at = 0 THEN Len(blocks) ELSE d.index.at - 1
  BY <1>a, <1>3
<1>5. LET r == Blocks!EndIfEmpty(Blocks!Loop(turn, Blocks!EmptyData, c, Len(blocks)))
      IN  Walks(r, f, U) /\ (Blocks!DataValid(r) \/ r.block = 0)
  BY <1>1, <1>4, WalkEnds
<1> QED BY <1>2, <1>5 DEF f

LEMMA SkippedBackward ==
    ASSUME Built, NEW U, \A u \in U : u \in builder.added, NEW c, Walks(c, FALSE, U), NEW bad
    PROVE  LET r == Blocks!SkipEmptyDataBlocksBackward(c, bad)
           IN  Walks(r, FALSE, U) /\ (Blocks!DataValid(r) \/ r.block = 0)
<1> DEFINE f == FALSE
           turn == [d \in Blocks!Cursor |->
                       Blocks!AtLast(Blocks!WithIndex(d, Blocks!BlockPrev(Blocks!Index, d.index), bad))]
<1>1. f \in BOOLEAN /\ Walks(c, f, U)
  OBVIOUS
<1>a. ~ f
  OBVIOUS
<1>2. Blocks!SkipEmptyDataBlocksBackward(c, bad) = Blocks!EndIfEmpty(Blocks!Loop(turn, Blocks!EmptyData, c, Len(blocks)))
  BY DEF Blocks!SkipEmptyDataBlocksBackward
<1> HIDE DEF f
<1>3. ASSUME NEW d, Walks(d, f, U), d \in Blocks!EmptyData
      PROVE  Walks(turn[d], f, U) /\ turn[d].index.at = IF d.index.at = 0 THEN Len(blocks) ELSE d.index.at - 1
  <2> DEFINE it == Blocks!BlockPrev(builder.index, d.index)
             w == Blocks!WithIndex(d, it, bad)
             data == Blocks!BlockLast(Blocks!DataBlock(w), w.data)
  <2>1. d \in Blocks!Cursor /\ ~ Blocks!DataValid(d) /\ Blocks!IndexValid(d)
    BY <1>3 DEF Blocks!EmptyData
  <2>2. turn[d] = Blocks!WithData(w, data)
    BY <2>1 DEF Blocks!AtLast, Blocks!Index
  <2> HIDE DEF turn
  <2>3. InBlock(d) /\ IsAt(builder.index, d.index) /\ IsAt(Blocks!DataBlock(d), d.data) /\ d.data.ok
    BY <1>3 DEF Walks, InBlock
  <2>4. IsAt(builder.index, it) /\ it.at = IF d.index.at = 0 THEN Len(blocks) ELSE d.index.at - 1
    <3>1. Blocks!Valid(builder.index, d.index) /\ IsBlock(builder.index) /\ Blocks!End(builder.index) = Len(blocks)
      BY <2>1, BuiltFacts DEF Blocks!IndexValid, Blocks!Index
    <3> QED BY <2>3, <3>1, PrevFound
  <2> HIDE DEF it
  <2>5. InBlock(w) /\ d.block \in 0..Len(blocks)
    BY <2>1, <2>3, <2>4, IndexMoved, InBlockFacts
  <2>6. IsBlock(Blocks!DataBlock(w)) /\ w.data \in Blocks!Iterator /\ w.data.ok
    BY <2>5, DataBlockIs, InBlockFacts, CursorTypes DEF InBlock
  <2>7. IsAt(Blocks!DataBlock(w), data)
        /\ data.at = IF Blocks!End(Blocks!DataBlock(w)) > 0 THEN Blocks!End(Blocks!DataBlock(w)) - 1 ELSE 0
    BY <2>6, LastFound
  <2>8. it.at = IF f THEN d.index.at + 1 ELSE IF d.index.at = 0 THEN Len(blocks) ELSE d.index.at - 1
    BY <1>a, <2>4
  <2>9. data.at = IF f \/ Blocks!End(Blocks!DataBlock(w)) = 0 THEN 0 ELSE Blocks!End(Blocks!DataBlock(w)) - 1
    BY <1>a, <2>6, <2>7, BlockTypes
  <2> HIDE DEF data
  <2>10. Walks(Blocks!WithData(w, data), f, U) /\ Blocks!WithData(w, data).index = it
    BY <1>1, <1>3, <2>1, <2>4, <2>7, <2>8, <2>9, WalkTurn
  <2> QED BY <2>2, <2>4, <2>10
<1> HIDE DEF turn
<1>4. \A d : Walks(d, f, U) /\ d \in Blocks!EmptyData =>
                /\ Walks(turn[d], f, U)
                /\ turn[d].index.at = IF f THEN d.index.at + 1
                                      ELSE IF d.index.at = 0 THEN Len(blocks) ELSE d.index.at - 1
  BY <1>a, <1>3
<1>5. LET r == Blocks!EndIfEmpty(Blocks!Loop(turn, Blocks!EmptyData, c, Len(blocks)))
      IN  Walks(r, f, U) /\ (Blocks!DataValid(r) \/ r.block = 0)
  BY <1>1, <1>4, WalkEnds
<1> QED BY <1>2, <1>5 DEF f

(* Where the walk ends is what the call wants. *)
LEMMA WalkRight ==
    ASSUME Built, NEW f \in BOOLEAN, NEW U, \A u \in U : u \in builder.added, NEW r, Walks(r, f, U),
           Blocks!DataValid(r) \/ r.block = 0
    PROVE  /\ r \in Blocks!Cursor /\ r.data.ok /\ IsAt(builder.index, r.index)
           /\ r.block # 0 => /\ Blocks!IndexValid(r) /\ r.block = r.index.at + 1
                             /\ r.readable /\ IsAt(blocks[r.block], r.data) /\ Blocks!DataValid(r)
           /\ NoError(r) => FirstsOf(f, U) = IF Blocks!DataValid(r) THEN {r.data.key} ELSE {}
           /\ Blocks!DataValid(r) =>
                 /\ r.data.key \in builder.added
                 /\ \A w \in FirstsOf(f, U) : IF f THEN ~ Blocks!Before(r.data.key, w) ELSE ~ Blocks!Before(w, r.data.key)
<1> DEFINE n == Len(blocks)
<1>1. InBlock(r)
  BY DEF Walks
<1>2. r \in Blocks!Cursor /\ r.data.ok /\ IsAt(builder.index, r.index) /\ IsAt(Blocks!DataBlock(r), r.data)
  BY <1>1 DEF InBlock
<1>3. r.block \in 0..n /\ (Blocks!IndexValid(r) <=> r.block # 0) /\ (r.block # 0 => r.block = r.index.at + 1)
  BY <1>1, InBlockFacts
<1>4. Blocks!DataValid(r) =>
         /\ r.readable /\ Blocks!DataBlock(r) = blocks[r.block] /\ r.block \in 1..n
         /\ r.data.key \in Keys /\ r.data.key \in builder.added
  BY <1>2, <1>3, AtEntry
<1>5. r.block # 0 => Blocks!DataValid(r)
  OBVIOUS
<1>6. r.block # 0 => /\ Blocks!IndexValid(r) /\ r.block = r.index.at + 1
                     /\ r.readable /\ IsAt(blocks[r.block], r.data) /\ Blocks!DataValid(r)
  BY <1>2, <1>3, <1>4, <1>5
<1>7. \A u \in U : u \in Keys
  BY BuiltFacts
<1>8. ASSUME NoError(r), Blocks!DataValid(r) PROVE FirstsOf(f, U) = {r.data.key}
  <2>1. r.data.key \in U /\ \A u \in U : u = r.data.key \/ Leads(f, r.data.key, u)
    BY <1>8 DEF Walks
  <2>2. r.data.key \in FirstsOf(f, U)
    BY <2>1 DEF FirstsOf
  <2>3. ASSUME NEW k \in FirstsOf(f, U) PROVE k = r.data.key
    <3>1. k \in U /\ (r.data.key = k \/ Leads(f, k, r.data.key)) /\ (k = r.data.key \/ Leads(f, r.data.key, k))
      BY <2>1, <2>3 DEF FirstsOf
    <3>2. k \in Keys /\ r.data.key \in Keys
      BY <1>7, <2>1, <3>1
    <3> QED BY <3>1, <3>2, KeysOrdered DEF Leads
  <2> QED BY <2>2, <2>3
<1>9. ASSUME NoError(r), ~ Blocks!DataValid(r) PROVE FirstsOf(f, U) = {}
  <2>1. r.block = 0 /\ ~ Blocks!IndexValid(r)
    BY <1>3, <1>9
  <2>2. \A i \in 1..n : \A u \in U : u \notin KeysOf(blocks[i])
    BY <1>9, <2>1 DEF Walks, Past
  <2>3. \A u \in U : \E i \in 1..n : u \in KeysOf(blocks[i])
    BY BuiltFacts
  <2>4. U = {}
    BY <2>2, <2>3
  <2> QED BY <2>4 DEF FirstsOf
<1>10. ASSUME Blocks!DataValid(r), NEW w \in FirstsOf(f, U)
       PROVE  IF f THEN ~ Blocks!Before(r.data.key, w) ELSE ~ Blocks!Before(w, r.data.key)
  <2>1. r.data.key \in U /\ w \in U /\ (r.data.key = w \/ Leads(f, w, r.data.key))
    BY <1>10 DEF Walks, FirstsOf
  <2>2. w \in Keys /\ r.data.key \in Keys
    BY <1>7, <2>1
  <2> QED BY <2>1, <2>2, KeysOrdered DEF Leads
<1> QED BY <1>2, <1>4, <1>6, <1>8, <1>9, <1>10

LEMMA CallStep ==
    ASSUME TableInv, IsOpen, NEW f \in BOOLEAN, NEW U, \A u \in U : u \in builder.added, NEW r, Walks(r, f, U),
           Blocks!DataValid(r) \/ r.block = 0, NEW bad, Blocks!Called(r, f, FirstsOf(f, U), bad)
    PROVE  TableInv'
<1> DEFINE want == FirstsOf(f, U)
           more == IF bad = {} THEN r.errors ELSE r.errors + 1
<1>1. BuilderTypes(blocks, builder) /\ BuilderRight(blocks, builder) /\ Between(blocks, builder) /\ Built
  BY DEF TableInv, IsOpen, Built
<1>2. /\ cursor' = [r EXCEPT !.forward = f, !.errors = more] /\ wanted' = want
      /\ builder' = builder /\ blocks' = blocks
  BY DEF Blocks!Called
<1>3. /\ r \in Blocks!Cursor /\ r.data.ok /\ IsAt(builder.index, r.index)
      /\ r.block # 0 => /\ Blocks!IndexValid(r) /\ r.block = r.index.at + 1
                        /\ r.readable /\ IsAt(blocks[r.block], r.data) /\ Blocks!DataValid(r)
      /\ NoError(r) => want = IF Blocks!DataValid(r) THEN {r.data.key} ELSE {}
      /\ Blocks!DataValid(r) =>
            /\ r.data.key \in builder.added
            /\ \A w \in want : IF f THEN ~ Blocks!Before(r.data.key, w) ELSE ~ Blocks!Before(w, r.data.key)
  BY <1>1, WalkRight
<1> HIDE DEF want
<1>4. /\ cursor'.index = r.index /\ cursor'.block = r.block /\ cursor'.readable = r.readable
      /\ cursor'.data = r.data /\ cursor'.ok = r.ok /\ cursor'.forward = f /\ cursor' \in Blocks!Cursor
  <2>1. more \in Nat
    BY <1>3, CursorTypes
  <2> HIDE DEF more
  <2> QED BY <1>2, <1>3, <2>1 DEF Blocks!Cursor
<1>5. /\ Blocks!DataBlock(cursor)' = Blocks!DataBlock(r)
  BY <1>2, <1>4 DEF Blocks!DataBlock
<1>6. Blocks!DataValid(cursor)' <=> Blocks!DataValid(r)
  BY <1>2, <1>4, <1>5 DEF Blocks!DataValid, Blocks!Valid
<1>7. Blocks!IndexValid(cursor)' <=> Blocks!IndexValid(r)
  BY <1>2, <1>4 DEF Blocks!IndexValid, Blocks!Index
<1>8. (cursor.ok /\ Blocks!DataOk(cursor))' <=> NoError(r)
  BY <1>4 DEF Blocks!DataOk, NoError
<1>9. CursorRight'
  BY <1>1, <1>2, <1>3, <1>4, <1>6, <1>7 DEF CursorRight, IsOpen
<1>10. Blocks!FileIteratorRight'
  BY <1>2, <1>3, <1>4, <1>6, <1>8 DEF Blocks!FileIteratorRight, Blocks!Added
<1>11. TableInv'
  BY <1>1, <1>2, <1>9, <1>10 DEF TableInv
<1> QED BY <1>11

(* Where a walk begins. *)
LEMMA WalkBegins ==
    ASSUME Built, NEW f \in BOOLEAN, NEW U, \A u \in U : u \in builder.added, NEW e, InBlock(e),
           Blocks!DataValid(e) =>
              /\ e.data.key \in U
              /\ \A k \in KeysOf(blocks[e.block]) : k \in U => k = e.data.key \/ Leads(f, e.data.key, k),
           ~ Blocks!DataValid(e) /\ Blocks!IndexValid(e) /\ e.readable => \A u \in U : u \notin KeysOf(blocks[e.block]),
           \A i \in 1..Len(blocks) :
              (Blocks!IndexValid(e) => Beyond(f, i, e.block)) => \A u \in U : u \notin KeysOf(blocks[i]),
           Blocks!IndexValid(e) =>
              \A i \in 1..Len(blocks) : Beyond(f, e.block, i) => \A k \in KeysOf(blocks[i]) : k \in U
    PROVE  Walks(e, f, U)
<1> DEFINE n == Len(blocks)
<1>1. /\ Blocks!IndexValid(e) <=> e.block # 0
      /\ Blocks!IndexValid(e) => e.block \in 1..n
      /\ e.block \in 0..n /\ n \in Nat
  BY InBlockFacts, BuiltFacts
<1>2. Blocks!IndexValid(e) => \A i \in 1..n : i = e.block \/ Beyond(f, i, e.block) \/ Beyond(f, e.block, i)
  BY <1>1 DEF Beyond
<1>3. Blocks!DataValid(e) => Blocks!IndexValid(e)
  BY <1>1 DEF Blocks!DataValid
<1>4. Blocks!DataValid(e) => e.data.key \in KeysOf(blocks[e.block])
  BY <1>1, AtEntry DEF InBlock
<1>5. ASSUME Blocks!DataValid(e), NEW u \in U PROVE u = e.data.key \/ Leads(f, e.data.key, u)
  <2>1. PICK i \in 1..n : u \in KeysOf(blocks[i])
    BY BuiltFacts
  <2>2. i = e.block \/ Beyond(f, e.block, i)
    BY <1>2, <1>3, <1>5, <2>1
  <2>3. CASE i = e.block
    BY <1>5, <2>1, <2>3
  <2>4. CASE Beyond(f, e.block, i)
    <3>1. e.block \in 1..n /\ e.data.key \in KeysOf(blocks[e.block])
      BY <1>1, <1>3, <1>4, <1>5
    <3> QED BY <2>1, <2>4, <3>1, BuiltFacts DEF Beyond, Leads
  <2> QED BY <2>2, <2>3, <2>4
<1>6. ASSUME ~ Blocks!DataValid(e), NoError(e), NEW i \in 1..n PROVE Past(e, f, U, i)
  <2>1. Blocks!IndexValid(e) => e.readable
    BY <1>1, <1>6 DEF NoError, Blocks!DataOk
  <2>2. (Blocks!IndexValid(e) => ~ Beyond(f, e.block, i)) => \A u \in U : u \notin KeysOf(blocks[i])
    BY <1>2, <1>6, <2>1
  <2> QED BY <2>2 DEF Past
<1> QED BY <1>5, <1>6 DEF Walks

LEMMA EndBegins ==
    ASSUME Built, NEW f \in BOOLEAN, NEW c \in Blocks!Cursor, c.data.ok, c.block \in 0..Len(blocks),
           c.block # 0 => IsAt(Blocks!DataBlock(c), c.data),
           NEW it, IsAt(builder.index, it), it.at = IF f THEN 0 ELSE Len(blocks) - 1, NEW bad, NEW data,
           LET d == Blocks!WithIndex(c, it, bad)
           IN  d.block # 0 => /\ IsAt(Blocks!DataBlock(d), data)
                              /\ data.at = IF f \/ Blocks!End(Blocks!DataBlock(d)) = 0 THEN 0
                                           ELSE Blocks!End(Blocks!DataBlock(d)) - 1
    PROVE  Walks(Blocks!WithData(Blocks!WithIndex(c, it, bad), data), f, builder.added)
<1> DEFINE d == Blocks!WithIndex(c, it, bad)
           e == Blocks!WithData(d, data)
           n == Len(blocks)
           U == builder.added
<1>1. n \in Nat /\ n > 0
  BY BuiltFacts
<1>2. InBlock(d) /\ d.index = it
  BY IndexMoved
<1>a. d.block # 0 => /\ IsAt(Blocks!DataBlock(d), data)
                     /\ data.at = IF f \/ Blocks!End(Blocks!DataBlock(d)) = 0 THEN 0
                                  ELSE Blocks!End(Blocks!DataBlock(d)) - 1
  OBVIOUS
<1> HIDE DEF d
<1>3. /\ InBlock(e) /\ e.index = d.index /\ e.block = d.block
      /\ Blocks!DataBlock(e) = Blocks!DataBlock(d)
      /\ d.block # 0 => e.data = data
      /\ Blocks!DataValid(e) <=> d.block # 0 /\ data.at < Blocks!End(Blocks!DataBlock(d))
  BY <1>2, <1>a, DataMoved
<1> HIDE DEF e
<1>4. Blocks!IndexValid(e) /\ e.block = it.at + 1 /\ e.block \in 1..n /\ e.block # 0 /\ e \in Blocks!Cursor
  <2>1. e.index.at < n
    BY <1>1, <1>2, <1>3
  <2>2. Blocks!IndexValid(e) /\ e.block = it.at + 1 /\ e.block \in 1..n /\ e.block # 0
    BY <1>2, <1>3, <2>1, InBlockFacts
  <2> QED BY <1>3, <2>2 DEF InBlock
<1>5. \A i \in 1..n : ~ Beyond(f, i, e.block)
  BY <1>1, <1>4 DEF Beyond
<1>6. ASSUME e.readable
      PROVE  /\ Blocks!DataValid(e)
             /\ \A k \in KeysOf(blocks[e.block]) : k = e.data.key \/ Leads(f, e.data.key, k)
  <2> DEFINE b == blocks[e.block]
  <2>1. Blocks!DataBlock(e) = b /\ IsBlock(b) /\ Blocks!End(b) \in Nat /\ Blocks!End(b) > 0 /\ e.block \in 0..n
    BY <1>1, <1>4, <1>6, DataBlockIs, BuiltFacts
  <2>2. d.block # 0 /\ Blocks!DataBlock(d) = b /\ e.data = data
    BY <1>3, <1>4, <2>1
  <2> HIDE DEF b
  <2>3. e.data.at = (IF f THEN 0 ELSE Blocks!End(b) - 1) /\ e.data.at < Blocks!End(b) /\ Blocks!DataValid(e)
    BY <1>3, <1>a, <2>1, <2>2
  <2>4. e.data.key = b.entries[e.data.at + 1].key
    <3>1. IsAt(Blocks!DataBlock(e), e.data)
      BY <1>3 DEF InBlock
    <3> QED BY <1>4, <2>1, <2>3, <3>1, AtEntry DEF b
  <2>5. \A k \in KeysOf(b) : k = b.entries[e.data.at + 1].key \/ Leads(f, b.entries[e.data.at + 1].key, k)
    BY <2>1, <2>3, NearEnd
  <2> QED BY <2>3, <2>4, <2>5 DEF b
<1>7. Blocks!DataValid(e) => e.readable /\ e.data.key \in U
  <2>1. e.block \in 0..n /\ IsAt(Blocks!DataBlock(e), e.data)
    BY <1>1, <1>3, <1>4 DEF InBlock
  <2> QED BY <1>4, <2>1, AtEntry
<1>8. \A i \in 1..n : \A k \in KeysOf(blocks[i]) : k \in U
  BY BuiltFacts
<1> HIDE DEF U
<1>9. \A u \in U : u \in builder.added
  BY DEF U
<1>10. Walks(e, f, U)
  BY <1>3, <1>4, <1>5, <1>6, <1>7, <1>8, <1>9, WalkBegins
<1> QED BY <1>10 DEF e, d, U

LEMMA StepBegins ==
    ASSUME Built, NEW f \in BOOLEAN, NEW c, InBlock(c), Blocks!DataValid(c),
           NEW it, IsAt(Blocks!DataBlock(c), it),
           it.at = IF f THEN c.data.at + 1
                   ELSE IF c.data.at = 0 THEN Blocks!End(Blocks!DataBlock(c)) ELSE c.data.at - 1
    PROVE  Walks(Blocks!WithData(c, it), f, {k \in builder.added : Leads(f, c.data.key, k)})
<1> DEFINE e == Blocks!WithData(c, it)
           n == Len(blocks)
           U == {k \in builder.added : Leads(f, c.data.key, k)}
           b == blocks[c.block]
           at == c.data.at
<1>1. c \in Blocks!Cursor /\ c.block \in 0..n /\ IsAt(Blocks!DataBlock(c), c.data)
  BY InBlockFacts DEF InBlock
<1>2. /\ c.readable /\ c.block \in 1..n /\ Blocks!DataBlock(c) = b
      /\ at \in Nat /\ at + 1 \in 1..Blocks!End(b)
      /\ c.data.key = b.entries[at + 1].key
      /\ c.data.key \in KeysOf(b) /\ c.data.key \in Keys
  BY <1>1, AtEntry
<1>3. IsBlock(b) /\ Blocks!End(b) \in Nat /\ c.block # 0
  BY <1>2, BuiltFacts
<1>4. /\ InBlock(e) /\ e.index = c.index /\ e.block = c.block /\ e.data = it
      /\ Blocks!DataBlock(e) = b
      /\ Blocks!DataValid(e) <=> it.at < Blocks!End(b)
  BY <1>2, <1>3, DataMoved
<1> HIDE DEF e
<1>5. Blocks!IndexValid(e) /\ e.block \in 1..n /\ e \in Blocks!Cursor /\ e.block \in 0..n
  <2>1. e \in Blocks!Cursor
    BY <1>4 DEF InBlock
  <2> QED BY <1>1, <1>2, <1>3, <1>4, <2>1, InBlockFacts
<1>6. \A u \in U : u \in builder.added /\ u \in Keys /\ Leads(f, c.data.key, u)
  BY BuiltFacts
<1>7. \A i \in 1..n : \A k \in KeysOf(blocks[i]) : k \in builder.added /\ (Leads(f, c.data.key, k) => k \in U)
  BY BuiltFacts, SMTT(30)
<1> HIDE DEF U
<1>8. \A i \in 1..n : Beyond(f, i, c.block) => \A u \in U : u \notin KeysOf(blocks[i])
  <2> SUFFICES ASSUME NEW i \in 1..n, Beyond(f, i, c.block), NEW u \in U, u \in KeysOf(blocks[i]) PROVE FALSE
    OBVIOUS
  <2>1. Leads(f, u, c.data.key)
    BY <1>2, BuiltFacts DEF Leads, Beyond
  <2> QED BY <1>2, <1>6, <2>1, KeysOrdered, Zenon DEF Leads
<1>9. \A i \in 1..n : Beyond(f, c.block, i) => \A k \in KeysOf(blocks[i]) : k \in U
  <2> SUFFICES ASSUME NEW i \in 1..n, Beyond(f, c.block, i), NEW k \in KeysOf(blocks[i]) PROVE k \in U
    OBVIOUS
  <2>1. Leads(f, c.data.key, k)
    BY <1>2, BuiltFacts DEF Leads, Beyond
  <2> QED BY <1>7, <2>1
<1> HIDE DEF b
<1>10. \A u \in U : u \in KeysOf(b) =>
          \E j \in 1..Blocks!End(b) : u = b.entries[j].key /\ Beyond(f, at + 1, j)
  <2> SUFFICES ASSUME NEW u \in U, u \in KeysOf(b)
               PROVE  \E j \in 1..Blocks!End(b) : u = b.entries[j].key /\ Beyond(f, at + 1, j)
    OBVIOUS
  <2>1. PICK j \in 1..Blocks!End(b) : u = b.entries[j].key
    BY <1>3, KeysOfBlock
  <2>2. ~ Beyond(f, at + 1, j) => FALSE
    <3> SUFFICES ASSUME ~ Beyond(f, at + 1, j) PROVE FALSE
      OBVIOUS
    <3>1. j = at + 1 \/ Beyond(f, j, at + 1)
      BY <1>2 DEF Beyond
    <3>2. u = c.data.key \/ Leads(f, u, c.data.key)
      BY <1>2, <1>3, <2>1, <3>1, BlockTypes DEF Beyond, Leads
    <3> QED BY <1>2, <1>6, <3>2, KeysOrdered DEF Leads
  <2> QED BY <2>1, <2>2
<1>11. Blocks!DataValid(e) =>
          /\ e.data.key \in U
          /\ \A k \in KeysOf(b) : k \in U => k = e.data.key \/ Leads(f, e.data.key, k)
  <2> SUFFICES ASSUME Blocks!DataValid(e)
               PROVE  /\ e.data.key \in U
                      /\ \A k \in KeysOf(b) : k \in U => k = e.data.key \/ Leads(f, e.data.key, k)
    OBVIOUS
  <2>1. it.at < Blocks!End(b) /\ it.at = (IF f THEN at + 1 ELSE at - 1) /\ it.at + 1 \in 1..Blocks!End(b)
        /\ Beyond(f, at + 1, it.at + 1) /\ (f \/ at # 0)
    BY <1>2, <1>3, <1>4, SMTT(30) DEF Beyond
  <2>2. e.data.key = b.entries[it.at + 1].key /\ e.data.key \in KeysOf(b)
    <3>1. IsAt(Blocks!DataBlock(e), e.data)
      BY <1>4 DEF InBlock
    <3> QED BY <1>4, <1>5, <3>1, AtEntry DEF b
  <2>3. Leads(f, c.data.key, e.data.key)
    BY <1>2, <1>3, <2>1, <2>2, BlockTypes, ZenonT(30) DEF Beyond, Leads
  <2>4. e.data.key \in U
    BY <1>2, <1>7, <2>2, <2>3, Zenon DEF b
  <2>5. ASSUME NEW k \in KeysOf(b), k \in U PROVE k = e.data.key \/ Leads(f, e.data.key, k)
    <3>1. PICK j \in 1..Blocks!End(b) : k = b.entries[j].key /\ Beyond(f, at + 1, j)
      BY <1>10, <2>5
    <3>2. j = it.at + 1 \/ Beyond(f, it.at + 1, j)
      BY <1>2, <2>1, <3>1 DEF Beyond
    <3> QED BY <1>3, <2>1, <2>2, <3>1, <3>2, BlockTypes DEF Beyond, Leads
  <2> QED BY <2>4, <2>5
<1>12. ~ Blocks!DataValid(e) => \A u \in U : u \notin KeysOf(b)
  <2> SUFFICES ASSUME ~ Blocks!DataValid(e), NEW u \in U, u \in KeysOf(b) PROVE FALSE
    OBVIOUS
  <2>1. PICK j \in 1..Blocks!End(b) : Beyond(f, at + 1, j)
    BY <1>10
  <2>2. IF f THEN at + 1 >= Blocks!End(b) ELSE at = 0
    BY <1>2, <1>3, <1>4
  <2> QED BY <1>2, <1>3, <2>1, <2>2 DEF Beyond
<1>13. Walks(e, f, U)
  BY <1>4, <1>5, <1>6, <1>8, <1>9, <1>11, <1>12, WalkBegins DEF b
<1> QED BY <1>13 DEF e, U

LEMMA SeekBegins ==
    ASSUME Built, NEW c \in Blocks!Cursor, c.data.ok, c.block \in 0..Len(blocks), c.index.ok,
           c.block # 0 => IsAt(Blocks!DataBlock(c), c.data), NEW t \in Keys, NEW bad
    PROVE  Walks(Blocks!AtKey(Blocks!WithIndex(c, Blocks!BlockSeek(builder.index, c.index, t), bad), t), TRUE,
                 {k \in builder.added : ~ Blocks!Before(k, t)})
<1> DEFINE f == TRUE
           n == Len(blocks)
           U == {k \in builder.added : ~ Blocks!Before(k, t)}
           it == Blocks!BlockSeek(builder.index, c.index, t)
           d == Blocks!WithIndex(c, it, bad)
           data == Blocks!BlockSeek(Blocks!DataBlock(d), d.data, t)
           e == Blocks!WithData(d, data)
           Sep(i) == builder.index.entries[i].key
<1>1. n \in Nat /\ n > 0 /\ IsBlock(builder.index) /\ Blocks!End(builder.index) = n
  BY BuiltFacts
<1>2. IsAt(builder.index, it) /\ \A i \in 1..n : Blocks!Before(Sep(i), t) <=> i <= it.at
  BY <1>1, CursorTypes, SeekFound
<1> HIDE DEF it
<1>3. InBlock(d) /\ d.index = it
  BY <1>2, IndexMoved
<1> HIDE DEF d
<1>4. IsBlock(Blocks!DataBlock(d)) /\ d.data \in Blocks!Iterator /\ d.data.ok
  BY <1>3, DataBlockIs, InBlockFacts, CursorTypes DEF InBlock
<1>5. /\ IsAt(Blocks!DataBlock(d), data)
      /\ \A j \in 1..Blocks!End(Blocks!DataBlock(d)) :
            Blocks!Before(Blocks!DataBlock(d).entries[j].key, t) <=> j <= data.at
  BY <1>4, SeekFound
<1> HIDE DEF data
<1>6. /\ InBlock(e) /\ e.index = d.index /\ e.block = d.block
      /\ Blocks!DataBlock(e) = Blocks!DataBlock(d)
      /\ d.block # 0 => e.data = data
      /\ Blocks!DataValid(e) <=> d.block # 0 /\ data.at < Blocks!End(Blocks!DataBlock(d))
  BY <1>3, <1>5, DataMoved
<1> HIDE DEF e
<1>7. /\ e \in Blocks!Cursor /\ it.at \in Nat /\ it.at <= n /\ e.block \in 0..n
      /\ Blocks!IndexValid(e) <=> it.at < n
      /\ Blocks!IndexValid(e) <=> e.block # 0
      /\ Blocks!IndexValid(e) => e.block = it.at + 1 /\ e.block \in 1..n
  <2>1. e \in Blocks!Cursor
    BY <1>6 DEF InBlock
  <2> QED BY <1>3, <1>6, <2>1, InBlockFacts
<1>8. \A u \in U : u \in builder.added /\ u \in Keys /\ ~ Blocks!Before(u, t)
  BY BuiltFacts
<1>9. \A i \in 1..n : \A k \in KeysOf(blocks[i]) : k \in Keys /\ k \in builder.added /\ (~ Blocks!Before(k, t) => k \in U)
  BY BuiltFacts
<1> HIDE DEF U
<1>10. \A i \in 1..n : /\ Sep(i) \in Keys
                       /\ \A k \in KeysOf(blocks[i]) : k = Sep(i) \/ Blocks!Before(k, Sep(i))
                       /\ \A j \in (i + 1)..n : \A k \in KeysOf(blocks[j]) : Blocks!Before(Sep(i), k)
  BY SeparatorFacts
<1> HIDE DEF Sep
<1>11. \A i \in 1..n : i <= it.at => \A u \in U : u \notin KeysOf(blocks[i])
  <2> SUFFICES ASSUME NEW i \in 1..n, i <= it.at, NEW u \in U, u \in KeysOf(blocks[i]) PROVE FALSE
    OBVIOUS
  <2>1. Blocks!Before(Sep(i), t) /\ Sep(i) \in Keys /\ (u = Sep(i) \/ Blocks!Before(u, Sep(i)))
    BY <1>2, <1>10
  <2>2. Blocks!Before(u, t)
    BY <1>8, <2>1, KeysOrdered
  <2> QED BY <1>8, <2>2
<1>12. \A i \in 1..n : it.at + 1 < i => \A k \in KeysOf(blocks[i]) : k \in U
  <2> SUFFICES ASSUME NEW i \in 1..n, it.at + 1 < i, NEW k \in KeysOf(blocks[i]) PROVE k \in U
    OBVIOUS
  <2> DEFINE h == it.at + 1
  <2>1. h \in 1..n /\ i \in (h + 1)..n /\ ~ (h <= it.at)
    BY <1>7
  <2> HIDE DEF h
  <2>2. ~ Blocks!Before(Sep(h), t) /\ Sep(h) \in Keys /\ Blocks!Before(Sep(h), k)
    BY <1>2, <1>10, <2>1
  <2>3. k \in Keys
    BY <1>9
  <2>4. ~ Blocks!Before(k, t)
    BY <2>2, <2>3, KeysOrdered
  <2> QED BY <1>9, <2>4
<1>13. \A i \in 1..n : (Blocks!IndexValid(e) => Beyond(f, i, e.block)) => \A u \in U : u \notin KeysOf(blocks[i])
  <2> SUFFICES ASSUME NEW i \in 1..n, Blocks!IndexValid(e) => Beyond(f, i, e.block)
               PROVE  i <= it.at
    BY <1>11
  <2> QED BY <1>1, <1>7 DEF Beyond
<1>14. Blocks!IndexValid(e) => \A i \in 1..n : Beyond(f, e.block, i) => \A k \in KeysOf(blocks[i]) : k \in U
  BY <1>7, <1>12 DEF Beyond
<1>15. ASSUME Blocks!IndexValid(e), e.readable
       PROVE  /\ Blocks!DataValid(e) =>
                    /\ e.data.key \in U
                    /\ \A k \in KeysOf(blocks[e.block]) : k \in U => k = e.data.key \/ Leads(f, e.data.key, k)
              /\ ~ Blocks!DataValid(e) => \A u \in U : u \notin KeysOf(blocks[e.block])
  <2> DEFINE b == blocks[e.block]
  <2>1. e.block \in 1..n /\ e.block # 0 /\ Blocks!DataBlock(e) = b /\ IsBlock(b) /\ Blocks!End(b) \in Nat
    BY <1>7, <1>15, DataBlockIs, BuiltFacts
  <2>2. Blocks!DataBlock(d) = b /\ e.data = data /\ (Blocks!DataValid(e) <=> data.at < Blocks!End(b))
    BY <1>6, <2>1
  <2>a. \A k \in KeysOf(b) : ~ Blocks!Before(k, t) => k \in U
    BY <1>9, <2>1
  <2> HIDE DEF b
  <2>3. \A j \in 1..Blocks!End(b) : Blocks!Before(b.entries[j].key, t) <=> j <= data.at
    BY <1>5, <2>2
  <2>4. data.at \in Nat
    BY <1>5, IteratorTypes DEF IsAt
  <2>5. \A u \in U : u \in KeysOf(b) => \E j \in 1..Blocks!End(b) : u = b.entries[j].key /\ j > data.at
    <3> SUFFICES ASSUME NEW u \in U, u \in KeysOf(b)
                 PROVE  \E j \in 1..Blocks!End(b) : u = b.entries[j].key /\ j > data.at
      OBVIOUS
    <3>1. PICK j \in 1..Blocks!End(b) : u = b.entries[j].key
      BY <2>1, KeysOfBlock
    <3>2. ~ (j <= data.at)
      BY <1>8, <2>3, <3>1
    <3> QED BY <2>4, <3>1, <3>2
  <2>6. ~ Blocks!DataValid(e) => \A u \in U : u \notin KeysOf(b)
    BY <2>1, <2>2, <2>4, <2>5
  <2>7. ASSUME Blocks!DataValid(e)
        PROVE  e.data.key \in U /\ \A k \in KeysOf(b) : k \in U => k = e.data.key \/ Leads(f, e.data.key, k)
    <3>1. data.at + 1 \in 1..Blocks!End(b) /\ ~ (data.at + 1 <= data.at)
      BY <2>1, <2>2, <2>4, <2>7
    <3>2. e.data.key = b.entries[data.at + 1].key /\ e.data.key \in KeysOf(b)
      <4>1. IsAt(Blocks!DataBlock(e), e.data)
        BY <1>6 DEF InBlock
      <4> QED BY <1>7, <2>2, <2>7, <4>1, AtEntry DEF b
    <3>3. e.data.key \in U
      BY <2>3, <2>a, <3>1, <3>2
    <3>4. ASSUME NEW k \in KeysOf(b), k \in U PROVE k = e.data.key \/ Leads(f, e.data.key, k)
      <4>1. PICK j \in 1..Blocks!End(b) : k = b.entries[j].key /\ j > data.at
        BY <2>5, <3>4
      <4>2. j = data.at + 1 \/ data.at + 1 < j
        BY <2>4, <4>1
      <4>3. k = e.data.key \/ Blocks!Before(e.data.key, k)
        BY <2>1, <3>1, <3>2, <4>1, <4>2, BlockTypes
      <4> QED BY <4>3 DEF Leads
    <3> QED BY <3>3, <3>4
  <2> QED BY <2>6, <2>7 DEF b
<1>16. Blocks!DataValid(e) => Blocks!IndexValid(e) /\ e.readable
  <2> SUFFICES ASSUME Blocks!DataValid(e) PROVE Blocks!IndexValid(e) /\ e.readable
    OBVIOUS
  <2>1. IsAt(Blocks!DataBlock(e), e.data)
    BY <1>6 DEF InBlock
  <2>2. e.readable /\ e.block # 0
    BY <1>7, <2>1, AtEntry DEF Blocks!DataValid
  <2> QED BY <1>7, <2>2
<1>17. f \in BOOLEAN /\ \A u \in U : u \in builder.added
  BY <1>8
<1> HIDE DEF f
<1>18. Walks(e, f, U)
  BY <1>6, <1>13, <1>14, <1>15, <1>16, <1>17, WalkBegins
<1>19. e = Blocks!AtKey(Blocks!WithIndex(c, Blocks!BlockSeek(builder.index, c.index, t), bad), t)
  BY DEF e, d, data, it, Blocks!AtKey
<1> QED BY <1>18, <1>19 DEF U, f

-----------------------------------------------------------------------------
(* The calls of the reader. *)
LEMMA ReaderReady ==
    ASSUME TableInv, IsOpen
    PROVE  /\ Built /\ cursor \in Blocks!Cursor /\ cursor.data.ok /\ cursor.index.ok /\ cursor.index \in Blocks!Iterator
           /\ cursor.block \in 0..Len(blocks)
           /\ cursor.block # 0 => IsAt(Blocks!DataBlock(cursor), cursor.data)
           /\ Blocks!DataValid(cursor) => InBlock(cursor)
<1>1. Built
  BY DEF TableInv, IsOpen, Built
<1>2. /\ cursor \in Blocks!Cursor /\ cursor.data.ok
      /\ IsAt(builder.index, cursor.index)
      /\ cursor.block # 0 => /\ Blocks!IndexValid(cursor) /\ cursor.block = cursor.index.at + 1
                             /\ cursor.readable /\ IsAt(blocks[cursor.block], cursor.data)
  BY DEF TableInv, CursorRight
<1>3. cursor.index \in Blocks!Iterator /\ cursor.index.ok /\ cursor.index.at \in Nat
  BY <1>2, IteratorTypes DEF IsAt
<1>4. Len(blocks) \in Nat /\ Blocks!End(builder.index) = Len(blocks)
  BY <1>1, BuiltFacts
<1>5. Blocks!IndexValid(cursor) <=> cursor.index.at < Len(blocks)
  BY <1>4 DEF Blocks!IndexValid, Blocks!Valid, Blocks!Index
<1>6. cursor.block \in 0..Len(blocks)
  BY <1>2, <1>3, <1>4, <1>5, CursorTypes
<1>7. cursor.block # 0 => IsAt(Blocks!DataBlock(cursor), cursor.data)
  BY <1>2 DEF Blocks!DataBlock
<1>8. Blocks!DataValid(cursor) => cursor.block # 0
  BY DEF Blocks!DataValid
<1>9. Blocks!DataValid(cursor) => InBlock(cursor)
  BY <1>2, <1>5, <1>7, <1>8 DEF InBlock
<1> QED BY <1>1, <1>2, <1>3, <1>6, <1>7, <1>9

LEMMA SeekStep ==
    ASSUME TableInv, NEW t \in Keys, NEW bad, Blocks!Seek(t, bad)
    PROVE  TableInv'
<1> DEFINE U == {k \in builder.added : ~ Blocks!Before(k, t)}
           e == Blocks!AtKey(Blocks!WithIndex(cursor, Blocks!BlockSeek(builder.index, cursor.index, t), bad), t)
           r == Blocks!SkipEmptyDataBlocksForward(e, bad)
<1>1. Blocks!Called(r, TRUE, Blocks!Least(U), bad)
  BY DEF Blocks!Seek, Blocks!Added, Blocks!Index
<1>2. IsOpen
  BY <1>1 DEF Blocks!Called, IsOpen
<1>3. /\ Built /\ cursor \in Blocks!Cursor /\ cursor.data.ok /\ cursor.index.ok /\ cursor.index \in Blocks!Iterator
      /\ cursor.block \in 0..Len(blocks)
      /\ cursor.block # 0 => IsAt(Blocks!DataBlock(cursor), cursor.data)
  BY <1>2, ReaderReady
<1>4. \A u \in U : u \in builder.added
  OBVIOUS
<1>5. Walks(e, TRUE, U)
  BY <1>3, SeekBegins
<1> HIDE DEF e, U
<1>6. Walks(r, TRUE, U) /\ (Blocks!DataValid(r) \/ r.block = 0)
  BY <1>3, <1>4, <1>5, SkippedForward
<1>7. Blocks!Least(U) = FirstsOf(TRUE, U)
  BY DEF Blocks!Least, FirstsOf, Leads
<1> HIDE DEF r
<1>8. Blocks!Called(r, TRUE, FirstsOf(TRUE, U), bad)
  BY <1>1, <1>7
<1> QED BY <1>2, <1>4, <1>6, <1>8, CallStep

LEMMA SeekToFirstStep ==
    ASSUME TableInv, NEW bad, Blocks!SeekToFirst(bad)
    PROVE  TableInv'
<1> DEFINE U == builder.added
           f == TRUE
           it == Blocks!BlockFirst(builder.index, cursor.index)
           d == Blocks!WithIndex(cursor, it, bad)
           data == Blocks!BlockFirst(Blocks!DataBlock(d), d.data)
           e == Blocks!WithData(d, data)
           r == Blocks!SkipEmptyDataBlocksForward(e, bad)
<1>1. Blocks!Called(r, TRUE, Blocks!Least(U), bad)
  BY DEF Blocks!SeekToFirst, Blocks!Added, Blocks!Index, Blocks!AtFirst
<1>2. IsOpen
  BY <1>1 DEF Blocks!Called, IsOpen
<1>3. /\ Built /\ cursor \in Blocks!Cursor /\ cursor.data.ok /\ cursor.index.ok /\ cursor.index \in Blocks!Iterator
      /\ cursor.block \in 0..Len(blocks)
      /\ cursor.block # 0 => IsAt(Blocks!DataBlock(cursor), cursor.data)
  BY <1>2, ReaderReady
<1>4. IsAt(builder.index, it) /\ it.at = 0
  BY <1>3, BuiltFacts, FirstFound
<1> HIDE DEF it
<1>5. InBlock(d)
  BY <1>3, <1>4, IndexMoved
<1>6. d.block # 0 => IsAt(Blocks!DataBlock(d), data) /\ data.at = 0
  <2> HIDE DEF d
  <2>1. IsBlock(Blocks!DataBlock(d)) /\ d.data \in Blocks!Iterator /\ d.data.ok
    BY <1>3, <1>5, DataBlockIs, InBlockFacts, CursorTypes DEF InBlock
  <2> QED BY <2>1, FirstFound
<1>7. f \in BOOLEAN /\ it.at = (IF f THEN 0 ELSE Len(blocks) - 1)
      /\ (d.block # 0 => data.at = IF f \/ Blocks!End(Blocks!DataBlock(d)) = 0 THEN 0
                                   ELSE Blocks!End(Blocks!DataBlock(d)) - 1)
  BY <1>4, <1>6
<1>a. f = TRUE
  OBVIOUS
<1> HIDE DEF f, data
<1>8. Walks(e, f, U)
  BY <1>3, <1>4, <1>6, <1>7, EndBegins
<1> HIDE DEF e
<1>9. Walks(r, TRUE, U) /\ (Blocks!DataValid(r) \/ r.block = 0)
  BY <1>3, <1>8, <1>a, SkippedForward
<1>10. Blocks!Least(U) = FirstsOf(TRUE, U)
  BY DEF Blocks!Least, FirstsOf, Leads
<1> HIDE DEF r
<1>11. Blocks!Called(r, TRUE, FirstsOf(TRUE, U), bad)
  BY <1>1, <1>10
<1> QED BY <1>2, <1>9, <1>11, CallStep

LEMMA SeekToLastStep ==
    ASSUME TableInv, NEW bad, Blocks!SeekToLast(bad)
    PROVE  TableInv'
<1> DEFINE U == builder.added
           f == FALSE
           it == Blocks!BlockLast(builder.index, cursor.index)
           d == Blocks!WithIndex(cursor, it, bad)
           data == Blocks!BlockLast(Blocks!DataBlock(d), d.data)
           e == Blocks!WithData(d, data)
           r == Blocks!SkipEmptyDataBlocksBackward(e, bad)
<1>1. Blocks!Called(r, FALSE, Blocks!Greatest(U), bad)
  BY DEF Blocks!SeekToLast, Blocks!Added, Blocks!Index, Blocks!AtLast
<1>2. IsOpen
  BY <1>1 DEF Blocks!Called, IsOpen
<1>3. /\ Built /\ cursor \in Blocks!Cursor /\ cursor.data.ok /\ cursor.index.ok /\ cursor.index \in Blocks!Iterator
      /\ cursor.block \in 0..Len(blocks)
      /\ cursor.block # 0 => IsAt(Blocks!DataBlock(cursor), cursor.data)
  BY <1>2, ReaderReady
<1>4. IsAt(builder.index, it) /\ it.at = Len(blocks) - 1
  BY <1>3, BuiltFacts, LastFound
<1> HIDE DEF it
<1>5. InBlock(d)
  BY <1>3, <1>4, IndexMoved
<1>6. d.block # 0 =>
         /\ IsAt(Blocks!DataBlock(d), data)
         /\ data.at = IF Blocks!End(Blocks!DataBlock(d)) = 0 THEN 0 ELSE Blocks!End(Blocks!DataBlock(d)) - 1
  <2> HIDE DEF d
  <2>1. IsBlock(Blocks!DataBlock(d)) /\ d.data \in Blocks!Iterator /\ d.data.ok
    BY <1>3, <1>5, DataBlockIs, InBlockFacts, CursorTypes DEF InBlock
  <2> QED BY <2>1, LastFound, BlockTypes
<1>7. f \in BOOLEAN /\ it.at = (IF f THEN 0 ELSE Len(blocks) - 1)
      /\ (d.block # 0 => data.at = IF f \/ Blocks!End(Blocks!DataBlock(d)) = 0 THEN 0
                                   ELSE Blocks!End(Blocks!DataBlock(d)) - 1)
  BY <1>4, <1>6
<1>a. f = FALSE
  OBVIOUS
<1> HIDE DEF f, data
<1>8. Walks(e, f, U)
  BY <1>3, <1>4, <1>6, <1>7, EndBegins
<1> HIDE DEF e
<1>9. Walks(r, FALSE, U) /\ (Blocks!DataValid(r) \/ r.block = 0)
  BY <1>3, <1>8, <1>a, SkippedBackward
<1>10. Blocks!Greatest(U) = FirstsOf(FALSE, U)
  BY DEF Blocks!Greatest, FirstsOf, Leads
<1> HIDE DEF r
<1>11. Blocks!Called(r, FALSE, FirstsOf(FALSE, U), bad)
  BY <1>1, <1>10
<1> QED BY <1>2, <1>9, <1>11, CallStep

LEMMA NextEntryStep ==
    ASSUME TableInv, NEW bad, Blocks!NextEntry(bad)
    PROVE  TableInv'
<1> DEFINE f == TRUE
           U == {k \in builder.added : Leads(f, cursor.data.key, k)}
           W == {k \in builder.added : Blocks!Before(cursor.data.key, k)}
           it == Blocks!ParseNextKey(Blocks!DataBlock(cursor), cursor.data)
           e == [cursor EXCEPT !.data = it]
           r == Blocks!SkipEmptyDataBlocksForward(e, bad)
<1>1. Blocks!DataValid(cursor) /\ Blocks!Called(r, TRUE, Blocks!Least(W), bad)
  BY DEF Blocks!NextEntry, Blocks!Added
<1>2. IsOpen
  BY <1>1 DEF Blocks!Called, IsOpen
<1>3. Built /\ InBlock(cursor) /\ cursor.block # 0 /\ cursor.block \in 0..Len(blocks) /\ cursor \in Blocks!Cursor
      /\ IsAt(Blocks!DataBlock(cursor), cursor.data) /\ Blocks!Valid(Blocks!DataBlock(cursor), cursor.data)
  BY <1>1, <1>2, ReaderReady DEF Blocks!DataValid
<1>4. IsAt(Blocks!DataBlock(cursor), it) /\ it.at = cursor.data.at + 1
  BY <1>3, DataBlockIs, NextFound
<1>5. e = Blocks!WithData(cursor, it)
  BY <1>3 DEF Blocks!WithData
<1>6. W = U
  BY DEF Leads
<1>7. f \in BOOLEAN
      /\ it.at = IF f THEN cursor.data.at + 1
                 ELSE IF cursor.data.at = 0 THEN Blocks!End(Blocks!DataBlock(cursor)) ELSE cursor.data.at - 1
  BY <1>4
<1>a. f = TRUE
  OBVIOUS
<1>b. \A u \in U : u \in builder.added
  OBVIOUS
<1> HIDE DEF f, it, e
<1>8. Walks(e, f, U)
  BY <1>1, <1>3, <1>4, <1>5, <1>7, StepBegins
<1> HIDE DEF U, W
<1>9. Walks(r, TRUE, U) /\ (Blocks!DataValid(r) \/ r.block = 0)
  BY <1>3, <1>8, <1>a, <1>b, SkippedForward
<1>10. Blocks!Least(W) = FirstsOf(TRUE, U)
  BY <1>6 DEF Blocks!Least, FirstsOf, Leads
<1> HIDE DEF r
<1>11. Blocks!Called(r, TRUE, FirstsOf(TRUE, U), bad)
  BY <1>1, <1>10
<1> QED BY <1>2, <1>9, <1>11, <1>b, CallStep

LEMMA PrevEntryStep ==
    ASSUME TableInv, NEW bad, Blocks!PrevEntry(bad)
    PROVE  TableInv'
<1> DEFINE f == FALSE
           U == {k \in builder.added : Leads(f, cursor.data.key, k)}
           W == {k \in builder.added : Blocks!Before(k, cursor.data.key)}
           it == Blocks!BlockPrev(Blocks!DataBlock(cursor), cursor.data)
           e == [cursor EXCEPT !.data = it]
           r == Blocks!SkipEmptyDataBlocksBackward(e, bad)
<1>1. Blocks!DataValid(cursor) /\ Blocks!Called(r, FALSE, Blocks!Greatest(W), bad)
  BY DEF Blocks!PrevEntry, Blocks!Added
<1>2. IsOpen
  BY <1>1 DEF Blocks!Called, IsOpen
<1>3. Built /\ InBlock(cursor) /\ cursor.block # 0 /\ cursor.block \in 0..Len(blocks) /\ cursor \in Blocks!Cursor
      /\ IsAt(Blocks!DataBlock(cursor), cursor.data) /\ Blocks!Valid(Blocks!DataBlock(cursor), cursor.data)
  BY <1>1, <1>2, ReaderReady DEF Blocks!DataValid
<1>4. /\ IsAt(Blocks!DataBlock(cursor), it)
      /\ it.at = IF cursor.data.at = 0 THEN Blocks!End(Blocks!DataBlock(cursor)) ELSE cursor.data.at - 1
  BY <1>3, DataBlockIs, PrevFound
<1>5. e = Blocks!WithData(cursor, it)
  BY <1>3 DEF Blocks!WithData
<1>6. W = U
  BY DEF Leads
<1>7. f \in BOOLEAN
      /\ it.at = IF f THEN cursor.data.at + 1
                 ELSE IF cursor.data.at = 0 THEN Blocks!End(Blocks!DataBlock(cursor)) ELSE cursor.data.at - 1
  BY <1>4
<1>a. f = FALSE
  OBVIOUS
<1>b. \A u \in U : u \in builder.added
  OBVIOUS
<1> HIDE DEF f, it, e
<1>8. Walks(e, f, U)
  BY <1>1, <1>3, <1>4, <1>5, <1>7, StepBegins
<1> HIDE DEF U, W
<1>9. Walks(r, FALSE, U) /\ (Blocks!DataValid(r) \/ r.block = 0)
  BY <1>3, <1>8, <1>a, <1>b, SkippedBackward
<1>10. Blocks!Greatest(W) = FirstsOf(FALSE, U)
  BY <1>6 DEF Blocks!Greatest, FirstsOf, Leads
<1> HIDE DEF r
<1>11. Blocks!Called(r, FALSE, FirstsOf(FALSE, U), bad)
  BY <1>1, <1>10
<1> QED BY <1>2, <1>9, <1>11, <1>b, CallStep

-----------------------------------------------------------------------------
(* A lookup. *)
LEMMA GetFound ==
    ASSUME Built, NEW t \in Keys
    PROVE  {k \in Blocks!InternalGet(t) : k.key = t.key} =
              Blocks!Least({k \in builder.added : k.key = t.key /\ k.seq <= t.seq})
<1> DEFINE n == Len(blocks)
           V == {k \in builder.added : k.key = t.key /\ k.seq <= t.seq}
           at == Blocks!BlockSeek(builder.index, Blocks!NewIterator(builder.index), t)
           h == at.at + 1
           b == blocks[builder.index.entries[h].value]
           it == Blocks!BlockSeek(b, Blocks!NewIterator(b), t)
           Sep(i) == builder.index.entries[i].key
           Got == Blocks!InternalGet(t)
<1>1. n \in Nat /\ n > 0 /\ IsBlock(builder.index) /\ Blocks!End(builder.index) = n
  BY BuiltFacts
<1>2. /\ IsAt(builder.index, at) /\ at.at \in Nat /\ at.at <= n
      /\ \A i \in 1..n : Blocks!Before(Sep(i), t) <=> i <= at.at
  <2>1. Blocks!NewIterator(builder.index) \in Blocks!Iterator /\ Blocks!NewIterator(builder.index).ok
    BY <1>1, NewIsAt DEF IsAt
  <2>2. IsAt(builder.index, at) /\ \A i \in 1..n : Blocks!Before(Sep(i), t) <=> i <= at.at
    BY <1>1, <2>1, SeekFound
  <2> HIDE DEF at
  <2>3. at.at \in Nat /\ at.at <= n
    BY <1>1, <2>2, IteratorTypes DEF IsAt
  <2> QED BY <2>2, <2>3
<1>3. Got = CASE ~ Blocks!Valid(builder.index, at) -> {}
              [] Blocks!Valid(builder.index, at) /\ Blocks!Valid(b, it) -> {it.key}
              [] Blocks!Valid(builder.index, at) /\ ~ Blocks!Valid(b, it) -> {}
  BY DEF Blocks!InternalGet, Blocks!Index
<1> HIDE DEF at, Got
<1>4. Blocks!Valid(builder.index, at) <=> at.at < n
  BY <1>1 DEF Blocks!Valid
<1>5. \A i \in 1..n : /\ Sep(i) \in Keys
                      /\ \A k \in KeysOf(blocks[i]) : k = Sep(i) \/ Blocks!Before(k, Sep(i))
                      /\ \/ Sep(i) \in KeysOf(blocks[i])
                         \/ \A j \in (i + 1)..n : \A k \in KeysOf(blocks[j]) : Sep(i).key < k.key
  BY SeparatorFacts
<1> HIDE DEF Sep
<1>6. t.key \in Nat /\ t.seq \in Nat
  BY DEF Keys
<1>7. \A v \in V : /\ v \in Keys /\ v.key \in Nat /\ v.seq \in Nat /\ v.key = t.key
                   /\ ~ Blocks!Before(v, t) /\ \E i \in 1..n : v \in KeysOf(blocks[i])
  <2> SUFFICES ASSUME NEW v \in V
               PROVE  /\ v \in Keys /\ v.key \in Nat /\ v.seq \in Nat /\ v.key = t.key
                      /\ ~ Blocks!Before(v, t) /\ \E i \in 1..n : v \in KeysOf(blocks[i])
    OBVIOUS
  <2>1. v \in Keys /\ v.key = t.key /\ v.seq <= t.seq /\ \E i \in 1..n : v \in KeysOf(blocks[i])
    BY BuiltFacts
  <2>2. v.key \in Nat /\ v.seq \in Nat
    BY <2>1 DEF Keys
  <2> QED BY <1>6, <2>1, <2>2 DEF Blocks!Before
<1>8. ASSUME NEW i \in 1..n, i <= at.at, NEW v \in V PROVE v \notin KeysOf(blocks[i])
  <2> SUFFICES ASSUME v \in KeysOf(blocks[i]) PROVE FALSE
    OBVIOUS
  <2>1. Blocks!Before(Sep(i), t) /\ Sep(i) \in Keys /\ (v = Sep(i) \/ Blocks!Before(v, Sep(i)))
    BY <1>2, <1>5, <1>8
  <2>2. v \in Keys /\ ~ Blocks!Before(v, t)
    BY <1>7
  <2> QED BY <2>1, <2>2, KeysOrdered
<1>a. \A v \in V : v \in builder.added /\ v.key = t.key /\ v.seq <= t.seq
  OBVIOUS
<1>b. \A k \in builder.added : k.key = t.key /\ k.seq <= t.seq => k \in V
  OBVIOUS
<1> HIDE DEF V
<1>9. CASE ~ at.at < n
  <2>1. Got = {}
    BY <1>3, <1>4, <1>9, Zenon
  <2>2. \A i \in 1..n : i <= at.at
    BY <1>1, <1>2, <1>9
  <2>3. V = {}
    BY <1>7, <1>8, <2>2
  <2> QED BY <2>1, <2>3, SMTT(30) DEF Blocks!Least, Got, V
<1>10. CASE at.at < n
  <2>1. h \in 1..n /\ builder.index.entries[h].value = h /\ b = blocks[h]
    BY <1>1, <1>2, <1>10, BuiltFacts
  <2>2. IsBlock(b) /\ Blocks!End(b) \in Nat
    BY <2>1, BuiltFacts
  <2>3. /\ IsAt(b, it) /\ \A j \in 1..Blocks!End(b) : Blocks!Before(b.entries[j].key, t) <=> j <= it.at
    <3>1. Blocks!NewIterator(b) \in Blocks!Iterator /\ Blocks!NewIterator(b).ok
      BY <2>2, NewIsAt DEF IsAt
    <3> QED BY <2>2, <3>1, SeekFound, ZenonT(30)
  <2> HIDE DEF it, b
  <2>4. it.at \in Nat /\ it.at <= Blocks!End(b) /\ (Blocks!Valid(b, it) <=> it.at < Blocks!End(b))
    BY <2>3, IteratorTypes DEF IsAt, Blocks!Valid
  <2>5. ~ Blocks!Before(Sep(h), t) /\ Sep(h) \in Keys
    <3>1. ~ (h <= at.at)
      BY <1>2
    <3> QED BY <1>2, <1>5, <2>1, <3>1
  <2>6. ASSUME NEW v \in V
        PROVE  \E i \in 1..n : v \in KeysOf(blocks[i]) /\ (i = h \/ i \in (h + 1)..n)
    <3>1. PICK i \in 1..n : v \in KeysOf(blocks[i])
      BY <1>7
    <3>2. ~ (i <= at.at)
      BY <1>8, <3>1
    <3> QED BY <1>1, <1>2, <3>1, <3>2
  <2> HIDE DEF h
  <2>7. CASE it.at < Blocks!End(b)
    <3> DEFINE j == it.at + 1
               k == b.entries[j].key
    <3>1. j \in 1..Blocks!End(b) /\ ~ (j <= it.at)
      BY <2>2, <2>4, <2>7
    <3>2. it.key = k
      BY <2>3, <2>7 DEF IsAt
    <3>3. ~ Blocks!Before(k, t) /\ k \in KeysOf(b)
      BY <2>2, <2>3, <3>1, KeysOfBlock
    <3>4. Got = {k}
      BY <1>3, <1>4, <1>10, <2>4, <2>7, <3>2
    <3>5. k \in builder.added /\ k \in Keys
      BY <2>1, <3>3, BuiltFacts
    <3>6. k.key \in Nat /\ k.seq \in Nat
      BY <3>5 DEF Keys
    <3>7. ASSUME NEW v \in V PROVE v = k \/ Blocks!Before(k, v)
      <4>1. PICK i \in 1..n : v \in KeysOf(blocks[i]) /\ (i = h \/ i \in (h + 1)..n)
        BY <2>6
      <4>2. CASE i = h
        <5>1. v \in KeysOf(b)
          BY <2>1, <4>1, <4>2
        <5>2. PICK m \in 1..Blocks!End(b) : v = b.entries[m].key
          BY <2>2, <5>1, KeysOfBlock
        <5>3. ~ (m <= it.at)
          BY <1>7, <2>3, <5>2
        <5>4. m = j \/ j < m
          BY <2>4, <5>3
        <5> HIDE DEF j
        <5> QED BY <2>2, <3>1, <5>2, <5>4, BlockTypes
      <4>3. CASE i \in (h + 1)..n
        <5>1. h < i
          BY <2>1, <4>3
        <5> QED BY <2>1, <3>3, <4>1, <5>1, BuiltFacts
      <4> QED BY <4>1, <4>2, <4>3
    <3> HIDE DEF k, j
    <3>8. CASE k.key = t.key
      <4>1. k.seq <= t.seq
        BY <1>6, <3>3, <3>6, <3>8 DEF Blocks!Before
      <4>2. k \in V
        BY <1>b, <3>5, <3>8, <4>1
      <4>3. k \in Blocks!Least(V)
        BY <3>7, <4>2 DEF Blocks!Least
      <4>4. ASSUME NEW l \in Blocks!Least(V) PROVE l = k
        <5>1. l \in V /\ (k = l \/ Blocks!Before(l, k))
          BY <4>2 DEF Blocks!Least
        <5>2. l = k \/ Blocks!Before(k, l)
          BY <3>7, <5>1
        <5>3. l \in Keys
          BY <1>7, <5>1
        <5> QED BY <3>5, <5>1, <5>2, <5>3, KeysOrdered
      <4>5. Blocks!Least(V) = {k}
        BY <4>3, <4>4
      <4> QED BY <3>4, <3>8, <4>5 DEF Got, V
    <3>9. CASE k.key # t.key
      <4>1. V = {}
        <5> SUFFICES ASSUME NEW v \in V PROVE FALSE
          OBVIOUS
        <5>1. v.key = t.key /\ (v = k \/ Blocks!Before(k, v)) /\ v.key \in Nat
          BY <1>7, <3>7
        <5>2. ~ Blocks!Before(k, t)
          BY <3>3 DEF k
        <5> QED BY <1>6, <3>6, <3>9, <5>1, <5>2 DEF Blocks!Before
      <4> QED BY <3>4, <3>9, <4>1 DEF Blocks!Least, Got, V
    <3> QED BY <3>8, <3>9
  <2>8. CASE ~ it.at < Blocks!End(b)
    <3>1. Got = {}
      BY <1>3, <1>4, <1>10, <2>4, <2>8
    <3>2. \A k \in KeysOf(b) : Blocks!Before(k, t)
      <4> SUFFICES ASSUME NEW k \in KeysOf(b) PROVE Blocks!Before(k, t)
        OBVIOUS
      <4>1. PICK j \in 1..Blocks!End(b) : k = b.entries[j].key
        BY <2>2, KeysOfBlock
      <4>2. j <= it.at
        BY <2>2, <2>4, <2>8, <4>1
      <4> QED BY <2>3, <4>1, <4>2
    <3>3. \A j \in (h + 1)..n : \A k \in KeysOf(blocks[j]) : Sep(h).key < k.key
      BY <1>5, <2>1, <2>5, <3>2
    <3>4. V = {}
      <4> SUFFICES ASSUME NEW v \in V PROVE FALSE
        OBVIOUS
      <4>1. PICK i \in 1..n : v \in KeysOf(blocks[i]) /\ (i = h \/ i \in (h + 1)..n)
        BY <2>6
      <4>2. ~ Blocks!Before(v, t) /\ v.key = t.key /\ v.key \in Nat
        BY <1>7
      <4>3. i \in (h + 1)..n
        BY <2>1, <3>2, <4>1, <4>2
      <4>4. Sep(h).key < v.key
        BY <3>3, <4>1, <4>3
      <4>5. Sep(h).key \in Nat /\ Sep(h).seq \in Nat
        BY <2>5 DEF Keys
      <4> QED BY <1>6, <2>5, <4>2, <4>4, <4>5 DEF Blocks!Before
    <3> QED BY <3>1, <3>4 DEF Blocks!Least, Got, V
  <2> QED BY <2>7, <2>8
<1> QED BY <1>9, <1>10

LEMMA TableGets == ASSUME TableInv PROVE Blocks!GetRight
<1> SUFFICES ASSUME ~ builder.open, builder.ok, NEW t \in [key : UserKey, seq : 1..MaxSeq]
             PROVE  {k \in Blocks!InternalGet(t) : k.key = t.key} =
                       Blocks!Least({k \in builder.added : k.key = t.key /\ k.seq <= t.seq})
  BY DEF Blocks!GetRight, Blocks!Added
<1>1. Built
  BY DEF TableInv, Built
<1>2. t \in Keys
  <2>1. t.key \in UserKey /\ t.seq \in 1..MaxSeq /\ t = [key |-> t.key, seq |-> t.seq]
    OBVIOUS
  <2>2. t.key \in Nat /\ t.seq \in Nat
    <3>1. \A k \in UserKey : k \in Nat
      BY TableConstants
    <3>2. \A s \in 1..MaxSeq : s \in Nat
      BY TableConstants
    <3> QED BY <2>1, <3>1, <3>2
  <2> QED BY <2>1, <2>2 DEF Keys
<1> QED BY <1>1, <1>2, GetFound

LEMMA TableStep == ASSUME TableInv, [Blocks!Next]_(Blocks!vars) PROVE TableInv'
<1>1. CASE Blocks!Next
  <2>1. ASSUME NEW key \in Blocks!Key, NEW shares \in BOOLEAN, NEW full \in BOOLEAN, NEW ok \in BOOLEAN,
               NEW separator \in Blocks!FindShortestSeparator(builder.last, key),
               Blocks!Add(key, separator, shares, full, ok)
        PROVE  TableInv'
    BY <2>1, TableAddStep
  <2>2. ASSUME NEW successor \in Blocks!FindShortSuccessor(builder.last), NEW ok \in BOOLEAN,
               Blocks!Finish(successor, ok)
        PROVE  TableInv'
    BY <2>2, FinishStep
  <2>3. ASSUME NEW bad, NEW k \in UserKey, NEW s \in 1..MaxSeq, Blocks!Seek([key |-> k, seq |-> s], bad)
        PROVE  TableInv'
    <3>1. [key |-> k, seq |-> s] \in Keys
      <4>1. k \in Nat /\ s \in Nat
        BY TableConstants
      <4> QED BY <4>1 DEF Keys
    <3> QED BY <2>3, <3>1, SeekStep
  <2>4. ASSUME NEW bad, Blocks!SeekToFirst(bad) PROVE TableInv'
    BY <2>4, SeekToFirstStep
  <2>5. ASSUME NEW bad, Blocks!SeekToLast(bad) PROVE TableInv'
    BY <2>5, SeekToLastStep
  <2>6. ASSUME NEW bad, Blocks!NextEntry(bad) PROVE TableInv'
    BY <2>6, NextEntryStep
  <2>7. ASSUME NEW bad, Blocks!PrevEntry(bad) PROVE TableInv'
    BY <2>7, PrevEntryStep
  <2> QED BY <1>1, <2>1, <2>2, <2>3, <2>4, <2>5, <2>6, <2>7 DEF Blocks!Next
<1>2. CASE UNCHANGED Blocks!vars
  <2>1. builder' = builder /\ blocks' = blocks /\ cursor' = cursor /\ wanted' = wanted
    BY <1>2 DEF Blocks!vars
  <2> QED BY <2>1 DEF TableInv, BuilderTypes, BuilderRight, RowsRight, IndexRight, Separates, Row, Between,
                      CursorRight, IsOpen, IsAt, Blocks!IndexValid, Blocks!Index, Blocks!DataValid,
                      Blocks!DataBlock, Blocks!Valid, Blocks!FileIteratorRight, Blocks!DataOk, Blocks!Added
<1> QED BY <1>1, <1>2

-----------------------------------------------------------------------------
(* A lookup in a finished table is handed the newest entry of its key that *)
(* it may see, if there is one; an iterator is where its calls lead to in  *)
(* the entries of the table, but for those that an error has hidden        *)
(* (Table::InternalGet, table.cc; Block::Iter::Seek and Prev, block.cc;    *)
(* SkipEmptyDataBlocksForward, two_level_iterator.cc).                     *)
THEOREM TableFilesAreRight == StorageSpec => []TableFileRight
<1> DEFINE Inv == part = "table" => TableInv
<1>1. StorageInit => Inv
  BY TableInit DEF StorageInit
<1>2. Inv /\ [StorageNext]_storage => Inv'
  <2> SUFFICES ASSUME Inv, [StorageNext]_storage, part' = "table" PROVE TableInv'
    OBVIOUS
  <2>1. part = "table" /\ [Blocks!Next]_(Blocks!vars)
    BY DEF StorageNext, storage, table, Blocks!vars
  <2> QED BY <2>1, TableStep
<1>3. Inv => TableFileRight
  BY TableGets DEF TableFileRight, TableInv
<1> QED BY <1>1, <1>2, <1>3, PTL DEF StorageSpec
=============================================================================
