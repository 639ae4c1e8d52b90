--------------------------- MODULE LevelDB_proofs ---------------------------
(***************************************************************************)
(* Proofs about LevelDB, for every set of threads and readers, all limits  *)
(* and all bounds: one writer at a time is past the queue; StoreInv of     *)
(* LevelDBInvariant is inductive, so that reads find their snapshot, no    *)
(* answered write is lost and no sequence number is given twice; and       *)
(* DBImpl is the DurableStore.                                             *)
(*                                                                         *)
(* In order: the queue; the operators; types; what each step does, as      *)
(* facts without CHOOSE, LET and IF; then, part by part, that a step keeps *)
(* the invariant; then the refinement.  A part is kept because of the      *)
(* others: logs hold the memtables (LoggedInv), every state the MANIFEST   *)
(* may recover has the version and the flushed memtables (VersionInv), a   *)
(* flush or a merge holds what it replaces (FlushInv, MergeInv), and       *)
(* numbers are never reused (EntryInv, NumberInv).                         *)
(***************************************************************************)
EXTENDS LevelDBSteps, FiniteSetTheorems, SequenceTheorems, FunctionTheorems,
        WellFoundedInduction, TLAPS

LEMMA InitQueue == Init => QueueInv
BY DEF Init, QueueInv, OneLogger, Idle, Ops, PCs, Serving, Leading

(* The first writer goes on: it keeps its place and the others theirs. *)
LEMMA LeaderMoves ==
    ASSUME QueueInv, NEW t \in Thread, op[t].pc \in Leading,
           NEW o \in Ops, o.pc \in Leading, op' = [op EXCEPT ![t] = o],
           UNCHANGED queue, o.pc \in Serving => group'.size \in 1..Len(queue)
    PROVE  QueueInv'
<1>1. \A u \in Thread : op'[u] = IF u = t THEN o ELSE op[u]
  BY DEF QueueInv
<1>2. op' \in [Thread -> Ops]
  BY DEF QueueInv
<1>3. \A u \in Thread : op'[u].pc \in Serving => u = t
  BY <1>1 DEF QueueInv, OneLogger, Serving, Leading
<1> QED
  BY <1>1, <1>2, <1>3 DEF QueueInv, OneLogger, Serving, Leading

LEMMA RestProperties ==
    ASSUME NEW s \in Seq(Thread), NEW n \in Nat, 1 <= n, n <= Len(s)
    PROVE  /\ SubSeq(s, n + 1, Len(s)) \in Seq(Thread)
           /\ Len(SubSeq(s, n + 1, Len(s))) = Len(s) - n
           /\ \A i \in 1..(Len(s) - n) : SubSeq(s, n + 1, Len(s))[i] = s[n + i]
<1> DEFINE r == SubSeq(s, n + 1, Len(s))
<1>1. Len(s) \in Nat /\ \A i \in 1..Len(s) : s[i] \in Thread
  OBVIOUS
<1>2. n + 1 \in Int /\ Len(s) \in Int /\ \A i \in (n + 1)..Len(s) : s[i] \in Thread
  BY <1>1
<1>3. /\ r \in Seq(Thread)
      /\ Len(r) = IF n + 1 <= Len(s) THEN Len(s) - (n + 1) + 1 ELSE 0
      /\ \A i \in 1..(Len(s) - (n + 1) + 1) : r[i] = s[(n + 1) + i - 1]
  BY <1>2, SubSeqProperties
<1> HIDE DEF r
<1>4. Len(r) = Len(s) - n
  BY <1>1, <1>3
<1>5. Len(s) - (n + 1) + 1 = Len(s) - n
  BY <1>1
<1>6. \A i \in 1..(Len(s) - n) : r[i] = s[n + i]
  <2> SUFFICES ASSUME NEW i \in 1..(Len(s) - n)
               PROVE  r[i] = s[n + i]
    OBVIOUS
  <2>1. i \in Int /\ (n + 1) + i - 1 = n + i
    BY <1>1
  <2>2. r[i] = s[(n + 1) + i - 1]
    BY <1>3, <1>5
  <2> QED
    BY <2>1, <2>2
<1> QED
  BY <1>3, <1>4, <1>6 DEF r

LEMMA IdleType == Idle \in Ops /\ Idle.pc = "idle" /\ [Idle EXCEPT !.pc = "immwait"] \in Ops
                    /\ [Idle EXCEPT !.pc = "immwait"].pc = "immwait"
BY DEF Idle, Ops, PCs

(* The first n writers leave the queue; o is op but for waits on bg_cv_.   *)
LEMMA AnswerKeeps ==
    ASSUME QueueInv, NEW n \in 1..Len(queue), NEW o \in [Thread -> Ops],
           NEW after \in Ops, after.pc \in {"idle", "immwait"},
           \A u \in Thread : op[u].pc = "wait" <=> o[u].pc = "wait",
           \A u \in Thread : o[u].pc \in Leading => queue # <<>> /\ queue[1] = u,
           Answer(n, o, after)
    PROVE  QueueInv'
<1> DEFINE rest == SubSeq(queue, n + 1, Len(queue))
           gone == {queue[i] : i \in 1..n}
           woken(u) == [o[u] EXCEPT !.pc = "room"]
           end(u) == IF op[u].null THEN after ELSE Idle
<1>1. /\ queue \in Seq(Thread) /\ Len(queue) \in Nat /\ DOMAIN queue = 1..Len(queue)
      /\ \A i \in 1..Len(queue) : queue[i] \in Thread
  BY DEF QueueInv
<1>0. Len(queue) \in Nat
  BY <1>1
<1>b. n \in Nat /\ 1 <= n /\ n <= Len(queue)
  BY <1>1
<1>2. /\ rest \in Seq(Thread) /\ Len(rest) = Len(queue) - n
      /\ \A i \in 1..(Len(queue) - n) : rest[i] = queue[n + i]
  BY <1>1, <1>b, RestProperties
<1>e. Len(rest) = Len(queue) - n
  BY <1>2
<1>3. queue' = rest /\ DOMAIN rest = 1..(Len(queue) - n)
  BY <1>1, <1>2 DEF Answer
<1>c. \A u \in Thread : /\ woken(u) \in Ops
                        /\ woken(u).pc = "room"
  BY DEF Ops, PCs
<1>d. op' = [u \in Thread |-> CASE u \in gone -> end(u)
                               [] rest # <<>> /\ u = rest[1] -> woken(u)
                               [] OTHER -> o[u]]
  BY Zenon DEF Answer
<1>a. /\ \A u \in gone : u \in Thread /\ \E k \in 1..n : queue[k] = u
      /\ \A k \in 1..n : queue[k] \in gone
  BY <1>1
<1>h. \A u \in Thread : end(u) \in Ops /\ end(u).pc \in {"idle", "immwait"}
  BY IdleType
<1> HIDE DEF rest, gone, woken, end
<1>f. \A u \in Thread : op'[u] = CASE u \in gone -> end(u)
                                  [] rest # <<>> /\ u = rest[1] -> woken(u)
                                  [] OTHER -> o[u]
  BY Zenon, <1>d
<1>5. \A i, j \in 1..Len(queue) : queue[i] = queue[j] => i = j
  BY <1>1 DEF QueueInv, OneLogger
<1>6. rest # <<>> <=> n < Len(queue)
  <2>1. rest = <<>> <=> Len(rest) = 0
    BY <1>2, EmptySeq
  <2> QED
    BY ONLY <1>0, <1>b, <1>e, <2>1
<1>7. \A u \in gone : \A i \in 1..(Len(queue) - n) : rest[i] # u
  <2> SUFFICES ASSUME NEW u \in gone, NEW i \in 1..(Len(queue) - n), rest[i] = u
               PROVE  FALSE
    OBVIOUS
  <2>1. PICK k \in 1..n : queue[k] = u
    BY <1>a
  <2>2. queue[n + i] = u
    BY <1>2
  <2>3. k \in 1..Len(queue) /\ n + i \in 1..Len(queue) /\ k # n + i
    BY <1>0, <1>b
  <2> QED BY <1>5, <2>1, <2>2, <2>3
<1>g. \A u \in gone : ~ (rest # <<>> /\ u = rest[1])
  BY <1>0, <1>b, <1>6, <1>7
<1>4. \A u \in Thread :
        /\ u \in gone => op'[u] = end(u)
        /\ u \notin gone /\ rest # <<>> /\ u = rest[1] => op'[u] = woken(u)
        /\ u \notin gone /\ ~ (rest # <<>> /\ u = rest[1]) => op'[u] = o[u]
  BY <1>f, <1>g
<1>8. \A u \in Thread : \A i \in 1..(Len(queue) - n) : rest[i] = u => o[u].pc = "wait"
  BY <1>1, <1>2 DEF QueueInv, OneLogger
<1>9. \A i, j \in 1..(Len(queue) - n) : rest[i] = rest[j] => i = j
  <2> TAKE i, j \in 1..(Len(queue) - n)
  <2>1. rest[i] = queue[n + i] /\ rest[j] = queue[n + j]
    BY <1>2
  <2>2. n + i \in 1..Len(queue) /\ n + j \in 1..Len(queue) /\ (n + i = n + j => i = j)
    BY <1>0, <1>b
  <2> QED
    BY <1>5, <2>1, <2>2
<1>10. \A u \in Thread : u \notin gone => o[u].pc \notin Leading
  BY <1>1, <1>a
<1>11. \A u \in Thread : u \notin gone /\ o[u].pc = "wait" =>
                            \E i \in 1..(Len(queue) - n) : rest[i] = u
  <2> SUFFICES ASSUME NEW u \in Thread, u \notin gone, o[u].pc = "wait"
               PROVE  \E i \in 1..(Len(queue) - n) : rest[i] = u
    OBVIOUS
  <2>1. PICK k \in 1..Len(queue) : queue[k] = u
    BY <1>1 DEF QueueInv, OneLogger
  <2>2. k \notin 1..n
    BY <2>1, <1>a
  <2> QED
    <3>1. k - n \in 1..(Len(queue) - n) /\ n + (k - n) = k
      BY <1>0, <1>b, <2>1, <2>2
    <3>2. rest[k - n] = queue[k]
      BY <3>1, <1>2
    <3> QED
      BY <3>1, <3>2, <2>1
<1>12. op' \in [Thread -> Ops]
  <2>1. \A u \in Thread : op'[u] \in Ops
    BY <1>4, <1>c, <1>h
  <2> QED
    BY <2>1, <1>d
<1>13. \A u \in Thread : op'[u].pc \notin Serving
  <2> SUFFICES ASSUME NEW u \in Thread
               PROVE  op'[u].pc \notin Serving
    OBVIOUS
  <2>1. CASE u \in gone
    BY <2>1, <1>4, <1>h DEF Serving
  <2>2. CASE u \notin gone /\ rest # <<>> /\ u = rest[1]
    BY <2>2, <1>4, <1>c DEF Serving
  <2>3. CASE u \notin gone /\ ~ (rest # <<>> /\ u = rest[1])
    BY <2>3, <1>4, <1>10 DEF Serving, Leading
  <2> QED
    BY <2>1, <2>2, <2>3
<1>14. \A u \in Thread : op'[u].pc = "wait" <=> \E i \in DOMAIN rest : i > 1 /\ rest[i] = u
  <2> SUFFICES ASSUME NEW u \in Thread
               PROVE  op'[u].pc = "wait" <=> \E i \in DOMAIN rest : i > 1 /\ rest[i] = u
    OBVIOUS
  <2>1. CASE u \in gone
    <3>1. op'[u].pc # "wait"
      BY <2>1, <1>4, <1>h
    <3> QED
      BY <2>1, <3>1, <1>3, <1>7
  <2>2. CASE u \notin gone /\ rest # <<>> /\ u = rest[1]
    <3>1. op'[u].pc = "room"
      BY <2>2, <1>4, <1>c
    <3> QED
      BY <2>2, <3>1, <1>3, <1>6, <1>9
  <2>3. CASE u \notin gone /\ ~ (rest # <<>> /\ u = rest[1])
    <3>1. op'[u] = o[u]
      BY <2>3, <1>4
    <3> QED
      BY <2>3, <3>1, <1>3, <1>6, <1>8, <1>11
  <2> QED
    BY <2>1, <2>2, <2>3
<1>15. \A u \in Thread : op'[u].pc \in Leading <=> rest # <<>> /\ rest[1] = u
  <2> SUFFICES ASSUME NEW u \in Thread
               PROVE  op'[u].pc \in Leading <=> rest # <<>> /\ rest[1] = u
    OBVIOUS
  <2>1. CASE u \in gone
    <3>1. op'[u].pc \notin Leading
      BY <2>1, <1>4, <1>h DEF Leading
    <3>2. rest # <<>> => rest[1] # u
      BY <2>1, <1>1, <1>b, <1>6, <1>7
    <3> QED
      BY <3>1, <3>2
  <2>2. CASE u \notin gone /\ rest # <<>> /\ u = rest[1]
    <3>1. op'[u].pc = "room"
      BY <2>2, <1>4, <1>c
    <3> QED
      BY <2>2, <3>1 DEF Leading
  <2>3. CASE u \notin gone /\ ~ (rest # <<>> /\ u = rest[1])
    BY <2>3, <1>4, <1>10
  <2> QED
    BY <2>1, <2>2, <2>3
<1>16. \A i, j \in DOMAIN rest : rest[i] = rest[j] => i = j
  BY <1>3, <1>9
<1> QED
  BY <1>2, <1>3, <1>12, <1>13, <1>14, <1>15, <1>16 DEF QueueInv, OneLogger

(* SignalAll wakes the first writer, or calls that are not in the queue. *)
LEMMA SignalType ==
    ASSUME QueueInv, NEW i, NEW e
    PROVE  /\ Signal(op, i, e) \in [Thread -> Ops]
           /\ \A u \in Thread : /\ op[u].pc = "wait" <=> Signal(op, i, e)[u].pc = "wait"
                                /\ op[u].pc \in Leading <=> Signal(op, i, e)[u].pc \in Leading
                                /\ op[u].pc \in Serving <=> Signal(op, i, e)[u].pc \in Serving
<1>1. \A u \in Thread : op[u] \in Ops
  BY DEF QueueInv
<1>2. Idle \in Ops /\ Idle.pc = "idle"
  BY DEF Idle, Ops, PCs
<1>3. \A u \in Thread : [op[u] EXCEPT !.pc = "room"] \in Ops /\ [op[u] EXCEPT !.pc = "room"].pc = "room"
  BY <1>1 DEF Ops, PCs
<1>4. \A u \in Thread : Signal(op, i, e)[u] \in {op[u], Idle, [op[u] EXCEPT !.pc = "room"]}
  BY DEF Signal
<1>5. \A u \in Thread : /\ op[u].pc = "bgwait" => Signal(op, i, e)[u].pc = "room"
                        /\ op[u].pc = "immwait" => Signal(op, i, e)[u].pc \in {"immwait", "idle"}
                        /\ op[u].pc \notin {"bgwait", "immwait"} => Signal(op, i, e)[u] = op[u]
  BY <1>2, <1>3 DEF Signal
<1>6. Signal(op, i, e) \in [Thread -> Ops]
  BY <1>1, <1>2, <1>3, <1>4 DEF Signal
<1> QED
  BY <1>5, <1>6 DEF Leading, Serving

LEMMA SignalKeeps ==
    ASSUME QueueInv, NEW i, NEW e, op' = Signal(op, i, e), UNCHANGED <<queue, group>>
    PROVE  QueueInv'
BY SignalType DEF QueueInv, OneLogger

LEMMA UnchangedKeeps == QueueInv /\ UNCHANGED <<queue, op, group>> => QueueInv'
BY DEF QueueInv, OneLogger

LEMMA ForgottenKeeps == Forgotten => QueueInv'
BY DEF Forgotten, QueueInv, OneLogger, Idle, Ops, PCs, Serving, Leading

(* A writer that answers itself, before it has a group. *)
LEMMA AnswerOneKeeps ==
    ASSUME QueueInv, NEW t \in Thread, Front(t, "room"),
           NEW after \in Ops, after.pc \in {"idle", "immwait"}, Answer(1, op, after)
    PROVE  QueueInv'
<1>1. 1 \in 1..Len(queue)
  BY DEF QueueInv, Front
<1>2. op \in [Thread -> Ops] /\ \A u \in Thread : op[u].pc \in Leading => queue # <<>> /\ queue[1] = u
  BY DEF QueueInv, OneLogger
<1> QED
  BY <1>1, <1>2, AnswerKeeps

(* A new writer is the last of the queue, and leads only an empty one. *)
LEMMA WriteKeeps ==
    ASSUME QueueInv, NEW t \in Thread, NEW sync \in BOOLEAN, NEW null \in BOOLEAN,
           Write(t, sync, null)
    PROVE  QueueInv'
<1> DEFINE o == [Idle EXCEPT !.pc = IF queue = <<>> THEN "room" ELSE "wait",
                             !.sync = sync, !.null = null, !.force = null, !.delay = ~ null]
<1>1. o \in Ops /\ o.pc = IF queue = <<>> THEN "room" ELSE "wait"
  BY DEF Idle, Ops, PCs
<1>2. op[t].pc = "idle" /\ op' = [op EXCEPT ![t] = o] /\ queue' = Append(queue, t)
        /\ group' = group
  BY DEF Write
<1> HIDE DEF o
<1>3. op' \in [Thread -> Ops] /\ \A u \in Thread : op'[u] = IF u = t THEN o ELSE op[u]
  BY <1>1, <1>2 DEF QueueInv
<1>4. /\ queue' \in Seq(Thread) /\ Len(queue') = Len(queue) + 1 /\ Len(queue) \in Nat
      /\ \A i \in 1..Len(queue) : queue'[i] = queue[i]
      /\ queue'[Len(queue) + 1] = t
      /\ DOMAIN queue = 1..Len(queue) /\ DOMAIN queue' = 1..(Len(queue) + 1)
  BY <1>2 DEF QueueInv
<1>5. \A i \in 1..Len(queue) : queue[i] # t
  <2> SUFFICES ASSUME NEW i \in 1..Len(queue), queue[i] = t
               PROVE  FALSE
    OBVIOUS
  <2>1. CASE i = 1
    BY <2>1, <1>2, <1>4 DEF QueueInv, OneLogger, Leading
  <2>2. CASE i > 1
    BY <2>2, <1>2, <1>4 DEF QueueInv, OneLogger
  <2> QED
    BY <1>4, <2>1, <2>2
<1>6. queue = <<>> <=> Len(queue) = 0
  BY <1>4 DEF QueueInv
<1>7. \A i, j \in DOMAIN queue' : queue'[i] = queue'[j] => i = j
  <2> SUFFICES ASSUME NEW i \in 1..(Len(queue) + 1), NEW j \in 1..(Len(queue) + 1),
                      queue'[i] = queue'[j]
               PROVE  i = j
    BY <1>4
  <2>1. CASE i \in 1..Len(queue) /\ j \in 1..Len(queue)
    <3>1. queue[i] = queue[j] /\ i \in DOMAIN queue /\ j \in DOMAIN queue
      BY <2>1, <1>4
    <3> QED
      BY <3>1 DEF QueueInv, OneLogger
  <2>2. CASE i = Len(queue) + 1 \/ j = Len(queue) + 1
    BY <2>2, <1>4, <1>5
  <2> QED
    BY <1>4, <2>1, <2>2
<1>8. \A u \in Thread : op'[u].pc = "wait" <=> \E i \in DOMAIN queue' : i > 1 /\ queue'[i] = u
  <2> SUFFICES ASSUME NEW u \in Thread
               PROVE  op'[u].pc = "wait" <=> \E i \in 1..(Len(queue) + 1) : i > 1 /\ queue'[i] = u
    BY <1>4
  <2>1. CASE u = t
    BY <2>1, <1>1, <1>3, <1>4, <1>5, <1>6
  <2>2. CASE u # t
    <3>1. op'[u] = op[u]
      BY <2>2, <1>3
    <3>2. op[u].pc = "wait" <=> \E i \in 1..Len(queue) : i > 1 /\ queue[i] = u
      BY <1>4 DEF QueueInv, OneLogger
    <3>3. (\E i \in 1..Len(queue) : i > 1 /\ queue[i] = u)
            <=> \E i \in 1..(Len(queue) + 1) : i > 1 /\ queue'[i] = u
      BY <2>2, <1>4
    <3> QED
      BY <3>1, <3>2, <3>3
  <2> QED
    BY <2>1, <2>2
<1>9. \A u \in Thread : op'[u].pc \in Leading <=> queue' # <<>> /\ queue'[1] = u
  <2> SUFFICES ASSUME NEW u \in Thread
               PROVE  op'[u].pc \in Leading <=> queue' # <<>> /\ queue'[1] = u
    OBVIOUS
  <2>0. queue' # <<>>
    BY <1>4
  <2>1. CASE queue = <<>>
    BY <2>0, <2>1, <1>1, <1>3, <1>4, <1>6 DEF QueueInv, OneLogger, Leading
  <2>2. CASE queue # <<>>
    <3>1. queue'[1] = queue[1] /\ queue[1] # t
      BY <2>2, <1>4, <1>5, <1>6
    <3>2. CASE u = t
      BY <2>2, <3>1, <3>2, <1>1, <1>3 DEF Leading
    <3>3. CASE u # t
      BY <2>0, <2>2, <3>1, <3>3, <1>3 DEF QueueInv, OneLogger
    <3> QED
      BY <3>2, <3>3
  <2> QED
    BY <2>1, <2>2
<1>10. \A u \in Thread : op'[u].pc \in Serving => group'.size \in 1..Len(queue')
  BY <1>1, <1>2, <1>3, <1>4 DEF QueueInv, Serving
<1> QED
  BY <1>3, <1>4, <1>7, <1>8, <1>9, <1>10 DEF QueueInv, OneLogger

LEMMA GroupSizeBounds ==
    ASSUME queue \in Seq(Thread), queue # <<>>
    PROVE  GroupSize \in 1..Len(queue)
<1> DEFINE S == {n \in 1..Len(queue) : \A i \in 2..n : Grouped(i)}
<1>1. Len(queue) \in Nat /\ Len(queue) >= 1
  OBVIOUS
<1>2. IsFiniteSet(1..Len(queue)) /\ Cardinality(1..Len(queue)) = Len(queue)
  BY <1>1, FS_Interval
<1>3. S \subseteq 1..Len(queue) /\ 1 \in S
  BY <1>1
<1> HIDE DEF S
<1>4. IsFiniteSet(S) /\ Cardinality(S) <= Len(queue)
  BY <1>2, <1>3, FS_Subset
<1>5. Cardinality(S) \in Nat /\ Cardinality(S) # 0
  BY <1>3, <1>4, FS_CardinalityType, FS_EmptySet
<1>6. GroupSize = Cardinality(S)
  BY DEF GroupSize, S
<1> QED
  BY <1>1, <1>4, <1>5, <1>6

LEMMA WriterStepKeeps ==
    ASSUME QueueInv, NEW t \in Thread, WriteStep(t) \/ WriteFault(t)
    PROVE  QueueInv'
<1>1. op[t] \in Ops /\ queue \in Seq(Thread)
  BY DEF QueueInv
<1>2. \A pc : Front(t, pc) => op[t].pc = pc /\ queue # <<>>
  BY DEF Front
<1>3. CASE RoomRefused(t) \/ RoomNoFile(t)
  <2>1. Front(t, "room") /\ Answer(1, op, Idle)
    BY <1>3 DEF RoomRefused, RoomNoFile, MaySwitch, MayLoop
  <2> QED
    BY <2>1, AnswerOneKeeps, IdleType
<1>4. CASE RoomForced(t)
  <2>1. Front(t, "room")
    BY <1>4 DEF RoomForced, MayLoop
  <2>2. PICK after \in {Idle, [Idle EXCEPT !.pc = "immwait"]} : Answer(1, op, after)
    BY <1>4 DEF RoomForced, AfterNull
  <2> QED
    BY <2>1, <2>2, AnswerOneKeeps, IdleType
<1>5. CASE RoomDelayed(t)
  <2>1. [op[t] EXCEPT !.pc = "asleep"] \in Ops /\ [op[t] EXCEPT !.pc = "asleep"].pc = "asleep"
    BY <1>1 DEF Ops, PCs
  <2>2. op[t].pc = "room" /\ op' = [op EXCEPT ![t] = [op[t] EXCEPT !.pc = "asleep"]]
          /\ UNCHANGED queue
    BY <1>5, <1>2 DEF RoomDelayed, MayLoop
  <2> QED
    BY <2>1, <2>2, LeaderMoves DEF Leading, Serving
<1>6. CASE RoomWoken(t)
  <2>1. [op[t] EXCEPT !.pc = "room", !.delay = FALSE] \in Ops
          /\ [op[t] EXCEPT !.pc = "room", !.delay = FALSE].pc = "room"
    BY <1>1 DEF Ops, PCs
  <2>2. op[t].pc = "asleep" /\ UNCHANGED queue
          /\ op' = [op EXCEPT ![t] = [op[t] EXCEPT !.pc = "room", !.delay = FALSE]]
    BY <1>6, <1>2 DEF RoomWoken
  <2> QED
    BY <2>1, <2>2, LeaderMoves DEF Leading, Serving
<1>7. CASE RoomWaits(t)
  <2>1. [op[t] EXCEPT !.pc = "bgwait"] \in Ops /\ [op[t] EXCEPT !.pc = "bgwait"].pc = "bgwait"
    BY <1>1 DEF Ops, PCs
  <2>2. op[t].pc = "room" /\ op' = [op EXCEPT ![t] = [op[t] EXCEPT !.pc = "bgwait"]]
          /\ UNCHANGED queue
    BY <1>7, <1>2 DEF RoomWaits, MayLoop
  <2> QED
    BY <2>1, <2>2, LeaderMoves DEF Leading, Serving
<1>8. CASE RoomSwitched(t)
  <2>1. op[t].pc = "room" /\ UNCHANGED queue
          /\ op' = [op EXCEPT ![t] = [op[t] EXCEPT !.force = FALSE]]
    BY <1>8, <1>2 DEF RoomSwitched, MaySwitch, MayLoop
  <2>2. [op[t] EXCEPT !.force = FALSE] \in Ops /\ [op[t] EXCEPT !.force = FALSE].pc = "room"
    BY <1>1, <2>1 DEF Ops, PCs
  <2> QED
    BY <2>1, <2>2, LeaderMoves DEF Leading, Serving
<1>9. CASE RoomFound(t)
  <2>1. [op[t] EXCEPT !.pc = "log"] \in Ops /\ [op[t] EXCEPT !.pc = "log"].pc = "log"
    BY <1>1 DEF Ops, PCs
  <2>2. op[t].pc = "room" /\ op' = [op EXCEPT ![t] = [op[t] EXCEPT !.pc = "log"]]
          /\ UNCHANGED queue /\ group'.size = GroupSize /\ queue # <<>>
    BY <1>9, <1>2 DEF RoomFound, MayLoop
  <2>3. group'.size \in 1..Len(queue)
    BY <2>2, <1>1, GroupSizeBounds
  <2> QED
    BY <2>1, <2>2, <2>3, LeaderMoves DEF Leading, Serving
<1>10. CASE AddRecord(t) \/ AddRecordFails(t) \/ Sync(t) \/ SyncFails(t) \/ InsertInto(t)
  <2>1. op[t].pc \in Serving
    BY <1>10, <1>2 DEF AddRecord, AddRecordFails, Sync, SyncFails, InsertInto, Serving
  <2>2. UNCHANGED <<queue, group>>
    BY <1>10 DEF AddRecord, AddRecordFails, Sync, SyncFails, InsertInto
  <2>3. group'.size \in 1..Len(queue)
    BY <2>1, <2>2 DEF QueueInv
  <2>4. \E pc \in {"sync", "insert", "commit"}, st \in {op[t].status, "failed", "sync failed"} :
           op' = [op EXCEPT ![t] = [op[t] EXCEPT !.pc = pc, !.status = st]]
    <3>1. op[t] = [op[t] EXCEPT !.status = op[t].status]
      BY <1>1 DEF Ops
    <3>2. \A pc : [op[t] EXCEPT !.pc = pc] = [op[t] EXCEPT !.pc = pc, !.status = op[t].status]
      BY <1>1 DEF Ops
    <3>3. CASE AddRecord(t)
      BY <3>2, <3>3 DEF AddRecord
    <3>4. CASE Sync(t) \/ InsertInto(t)
      BY <3>2, <3>4 DEF Sync, InsertInto
    <3>5. CASE AddRecordFails(t) \/ SyncFails(t)
      BY <3>5 DEF AddRecordFails, SyncFails
    <3> QED
      BY <1>10, <3>3, <3>4, <3>5
  <2>5. PICK pc \in {"sync", "insert", "commit"}, st \in {op[t].status, "failed", "sync failed"} :
           op' = [op EXCEPT ![t] = [op[t] EXCEPT !.pc = pc, !.status = st]]
    BY <2>4
  <2>6. [op[t] EXCEPT !.pc = pc, !.status = st] \in Ops
          /\ [op[t] EXCEPT !.pc = pc, !.status = st].pc = pc
    BY <1>1 DEF Ops, PCs
  <2>7. op[t].pc \in Leading /\ pc \in Leading
    BY <2>1 DEF Leading, Serving
  <2> QED
    BY <2>2, <2>3, <2>5, <2>6, <2>7, LeaderMoves
<1>11. CASE Commit(t)
  <2>0. op[t].pc = "commit"
    BY <1>11, <1>2 DEF Commit
  <2>1. group.size \in 1..Len(queue)
    BY <2>0 DEF QueueInv, Serving
  <2>2. PICK o \in {op, Signal(op, imm, TRUE)}, after \in {Idle, [Idle EXCEPT !.pc = "immwait"]} :
             Answer(group.size, o, after)
    BY <1>11 DEF Commit, AfterNull
  <2>3. /\ o \in [Thread -> Ops]
        /\ \A u \in Thread : op[u].pc = "wait" <=> o[u].pc = "wait"
        /\ \A u \in Thread : o[u].pc \in Leading => queue # <<>> /\ queue[1] = u
    <3>1. op \in [Thread -> Ops] /\ \A u \in Thread : op[u].pc \in Leading => queue # <<>> /\ queue[1] = u
      BY DEF QueueInv, OneLogger
    <3>2. CASE o = op
      BY <3>1, <3>2
    <3>3. CASE o = Signal(op, imm, TRUE)
      <4>1. /\ Signal(op, imm, TRUE) \in [Thread -> Ops]
            /\ \A u \in Thread :
                 /\ op[u].pc = "wait" <=> Signal(op, imm, TRUE)[u].pc = "wait"
                 /\ op[u].pc \in Leading <=> Signal(op, imm, TRUE)[u].pc \in Leading
        BY SignalType
      <4> QED
        BY <3>1, <3>3, <4>1
    <3> QED
      BY <2>2, <3>2, <3>3
  <2>4. after \in Ops /\ after.pc \in {"idle", "immwait"}
    BY <2>2, IdleType
  <2> QED
    BY <2>1, <2>2, <2>3, <2>4, AnswerKeeps
<1> QED
  BY <1>3, <1>4, <1>5, <1>6, <1>7, <1>8, <1>9, <1>10, <1>11 DEF WriteStep, WriteFault

(* The background thread signals, or leaves the writers alone. *)
LEMMA BackgroundKeeps ==
    ASSUME QueueInv, BackgroundStep \/ BackgroundFault
    PROVE  QueueInv'
<1>1. UNCHANGED <<queue, group>>
  BY DEF BackgroundStep, BackgroundFault, BackgroundIdles, CompactMemTable, CompactMemTableFirst,
         BuildTable, TableBuilt, PickCompaction, OpenCompactionOutputFile,
         FinishCompactionOutputFile, AppendEdit, MemTableInstalled, CompactionInstalled,
         TableFails, CompactionFails, EditNotLogged
<1>2. op' = op \/ \E i, e : op' = Signal(op, i, e)
  <2>1. \A i, v, e : BackgroundDone(i, v, e) \/ MemTableDone(i, v, e) => op' = Signal(op, i, e)
    BY DEF BackgroundDone, MemTableDone
  <2>2. CASE BackgroundIdles \/ MemTableInstalled \/ CompactionInstalled \/ TableFails
               \/ CompactionFails \/ EditNotLogged
    <3>1. \E i, v, e : BackgroundDone(i, v, e) \/ MemTableDone(i, v, e)
      BY <2>2 DEF BackgroundIdles, MemTableInstalled, CompactionInstalled, TableFails,
                  CompactionFails, EditNotLogged
    <3> QED
      BY <2>1, <3>1
  <2>3. CASE CompactMemTable \/ CompactMemTableFirst \/ TableBuilt \/ PickCompaction
               \/ OpenCompactionOutputFile \/ FinishCompactionOutputFile \/ AppendEdit
    BY <2>3 DEF CompactMemTable, CompactMemTableFirst, BuildTable, TableBuilt, PickCompaction,
                OpenCompactionOutputFile, FinishCompactionOutputFile, AppendEdit
  <2> QED
    BY <2>2, <2>3 DEF BackgroundStep, BackgroundFault
<1> QED
  BY <1>1, <1>2, SignalKeeps, UnchangedKeeps

LEMMA NextQueue == QueueInv /\ [Next]_vars => QueueInv'
<1> SUFFICES ASSUME QueueInv, [Next]_vars
             PROVE  QueueInv'
  OBVIOUS
<1>1. ASSUME NEW t \in Thread, NEW sync \in BOOLEAN, NEW null \in BOOLEAN, Write(t, sync, null)
      PROVE  QueueInv'
  BY <1>1, WriteKeeps
<1>2. ASSUME NEW t \in Thread, WriteStep(t) \/ WriteFault(t)
      PROVE  QueueInv'
  BY <1>2, WriterStepKeeps
<1>3. ASSUME NEW r \in Reader, Get(r) \/ GotValue(r)
      PROVE  QueueInv'
  BY <1>3, UnchangedKeeps DEF Get, GotValue
<1>4. CASE BackgroundStep \/ BackgroundFault
  BY <1>4, BackgroundKeeps
<1>5. CASE Closed \/ CrashProcess \/ CrashMachine \/ OpenFails
  BY <1>5, ForgottenKeeps DEF Closed, CrashProcess, CrashMachine, OpenFails
<1>6. CASE Close \/ OpenStep
  BY <1>6, UnchangedKeeps
     DEF Close, OpenStep, RecoverManifest, OpenRefused, RecoverLogFile, OpenNewLog, OpenInstalls,
         vars
<1>7. CASE UNCHANGED vars
  BY <1>7, UnchangedKeeps DEF vars
<1> QED
  BY <1>1, <1>2, <1>3, <1>4, <1>5, <1>6, <1>7 DEF Next

(* Whatever the number of threads and the bounds, one writer at a time is  *)
(* past the queue: it alone appends to log_, syncs it and inserts into     *)
(* mem_ while mutex_ is free (db_impl.cc:1214-1218).                       *)
THEOREM OneLoggerAtATime == Spec => []OneLogger
<1>1. QueueInv => OneLogger
  BY DEF QueueInv
<1> QED
  BY InitQueue, NextQueue, <1>1, PTL DEF Spec

(***************************************************************************)
(* The operators: least and greatest numbers, the entries of a log and of  *)
(* its first records, the records a damaged log keeps, the group.          *)
(***************************************************************************)
LEMMA LeastIn ==
    ASSUME NEW S, S \subseteq Nat, S # {}
    PROVE  Least(S) \in S /\ \A k \in S : Least(S) <= k
<1>1. PICK x \in S : \A y \in S : ~ (<<y, x>> \in OpToRel(<, Nat))
  BY NatLessThanWellFounded, WFMin, Zenon
<1>2. \A y, z \in Nat : y < z => <<y, z>> \in OpToRel(<, Nat)
  <2> SUFFICES ASSUME NEW y \in Nat, NEW z \in Nat, y < z
               PROVE  <<y, z>> \in {ss \in Nat \X Nat : ss[1] < ss[2]}
    BY Zenon DEF OpToRel
  <2> QED
    OBVIOUS
<1>3. \A y \in S : ~ (y < x)
  BY <1>1, <1>2
<1>4. \A y \in S : x <= y
  BY <1>3
<1> QED
  BY <1>4 DEF Least

(* A bounded set of numbers has a greatest one. *)
LEMMA GreatestIn ==
    ASSUME NEW S, S \subseteq Nat, S # {}, NEW b \in Nat, \A k \in S : k <= b
    PROVE  Greatest(S) \in S /\ \A k \in S : k <= Greatest(S)
<1> DEFINE T == {b - k : k \in S}
<1>1. T \subseteq Nat /\ T # {}
  <2>1. \A k \in S : b - k \in Nat
    OBVIOUS
  <2> QED
    BY <2>1
<1>2. PICK x \in T : \A y \in T : x <= y
  <2> HIDE DEF T
  <2> QED
    BY <1>1, LeastIn
<1>3. PICK g \in S : x = b - g
  BY <1>2
<1>4. \A k \in S : k <= g
  <2> SUFFICES ASSUME NEW k \in S
               PROVE  k <= g
    OBVIOUS
  <2>1. b - g <= b - k
    BY <1>2, <1>3
  <2>2. b - g \in Int /\ g \in Nat /\ k \in Nat
    OBVIOUS
  <2> QED
    BY <2>1, <2>2
<1> QED
  BY <1>4 DEF Greatest

(* The entries of a log are those of its whole records. *)
LEMMA LoggedIn ==
    ASSUME NEW s, NEW e
    PROVE  e \in Logged(s) <=> \E i \in DOMAIN s : s[i].ok /\ e \in s[i].entries
BY DEF Logged

LEMMA LoggedType ==
    ASSUME NEW s \in Seq(Record)
    PROVE  Logged(s) \subseteq Entry
<1>1. \A i \in DOMAIN s : s[i] \in Record
  OBVIOUS
<1>2. \A r \in Record : r.entries \subseteq Entry
  BY DEF Record
<1> QED
  BY <1>1, <1>2, LoggedIn

LEMMA LoggedEmpty == Logged(<<>>) = {}
BY DEF Logged

(* A record more in a log: its entries are added if it is whole. *)
LEMMA AppendRecord ==
    ASSUME NEW s \in Seq(Record), NEW r \in Record
    PROVE  /\ Append(s, r) \in Seq(Record)
           /\ Len(Append(s, r)) = Len(s) + 1
           /\ DOMAIN Append(s, r) = 1..(Len(s) + 1)
           /\ DOMAIN s = 1..Len(s)
           /\ Append(s, r)[Len(s) + 1] = r
           /\ \A i \in 1..Len(s) : Append(s, r)[i] = s[i]
           /\ Logged(Append(s, r)) = IF r.ok THEN Logged(s) \cup r.entries ELSE Logged(s)
<1>1. /\ Append(s, r) \in Seq(Record)
      /\ Len(Append(s, r)) = Len(s) + 1 /\ Len(s) \in Nat
      /\ DOMAIN Append(s, r) = 1..(Len(s) + 1)
      /\ DOMAIN s = 1..Len(s)
      /\ Append(s, r)[Len(s) + 1] = r
      /\ \A i \in 1..Len(s) : Append(s, r)[i] = s[i]
  OBVIOUS
<1> DEFINE a == Append(s, r)
<1> HIDE DEF a
<1>2. \A e : e \in Logged(a) <=> e \in (IF r.ok THEN Logged(s) \cup r.entries ELSE Logged(s))
  <2> SUFFICES ASSUME NEW e
               PROVE  e \in Logged(a) <=> e \in Logged(s) \/ (r.ok /\ e \in r.entries)
    BY DEF Record
  <2>1. e \in Logged(a) <=> \E i \in 1..(Len(s) + 1) : a[i].ok /\ e \in a[i].entries
    BY <1>1, LoggedIn DEF a
  <2>2. e \in Logged(s) <=> \E i \in 1..Len(s) : s[i].ok /\ e \in s[i].entries
    BY <1>1, LoggedIn
  <2>3. Len(s) + 1 \in 1..(Len(s) + 1) /\ \A i \in 1..(Len(s) + 1) : i \in 1..Len(s) \/ i = Len(s) + 1
    BY <1>1
  <2>4. a[Len(s) + 1] = r /\ \A i \in 1..Len(s) : a[i] = s[i] /\ i \in 1..(Len(s) + 1)
    BY <1>1 DEF a
  <2> QED
    BY <2>1, <2>2, <2>3, <2>4
<1> QED
  BY <1>1, <1>2 DEF a

(* The first records of a log have some of its entries. *)
LEMMA PrefixRecords ==
    ASSUME NEW s \in Seq(Record), NEW u \in Nat, u <= Len(s)
    PROVE  /\ SubSeq(s, 1, u) \in Seq(Record) /\ Len(SubSeq(s, 1, u)) = u
           /\ DOMAIN SubSeq(s, 1, u) = 1..u
           /\ \A i \in 1..u : SubSeq(s, 1, u)[i] = s[i]
           /\ \A e : e \in Logged(SubSeq(s, 1, u)) <=> \E i \in 1..u : s[i].ok /\ e \in s[i].entries
           /\ Logged(SubSeq(s, 1, u)) \subseteq Logged(s)
           /\ u = Len(s) => Logged(SubSeq(s, 1, u)) = Logged(s)
<1>1. Len(s) \in Nat /\ DOMAIN s = 1..Len(s) /\ \A i \in 1..Len(s) : s[i] \in Record
  OBVIOUS
<1>2. 1 \in Int /\ u \in Int /\ \A i \in 1..u : s[i] \in Record
  BY <1>1
<1> DEFINE p == SubSeq(s, 1, u)
<1>3. /\ p \in Seq(Record)
      /\ Len(p) = IF 1 <= u THEN u - 1 + 1 ELSE 0
      /\ \A i \in 1..(u - 1 + 1) : p[i] = s[1 + i - 1]
  BY <1>2, SubSeqProperties
<1> HIDE DEF p
<1>4. Len(p) = u /\ \A i \in 1..u : p[i] = s[i]
  BY <1>3
<1>5. DOMAIN p = 1..u
  BY <1>3, <1>4
<1>6. \A e : e \in Logged(p) <=> \E i \in 1..u : s[i].ok /\ e \in s[i].entries
  BY <1>4, <1>5, LoggedIn
<1>7. \A e : e \in Logged(s) <=> \E i \in 1..Len(s) : s[i].ok /\ e \in s[i].entries
  BY <1>1, LoggedIn
<1>8. \A i \in 1..u : i \in 1..Len(s)
  BY <1>1
<1> QED
  BY <1>3, <1>4, <1>5, <1>6, <1>7, <1>8 DEF p

(* How many chosen positions come before k. *)
Rank(chosen, k) == Cardinality({j \in chosen : j < k})

(* The chosen positions are numbered from 0, in their order. *)
LEMMA RankProperties ==
    ASSUME NEW n \in Nat, NEW chosen \in SUBSET (1..n)
    PROVE  /\ IsFiniteSet(chosen) /\ Cardinality(chosen) \in Nat
           /\ \A k \in chosen : Rank(chosen, k) \in 0..(Cardinality(chosen) - 1) /\ Rank(chosen, k) < k
           /\ \A k, l \in chosen : k < l => Rank(chosen, k) < Rank(chosen, l)
           /\ \A i \in 1..Cardinality(chosen) : \E k \in chosen : Rank(chosen, k) = i - 1
<1> DEFINE c == Cardinality(chosen)
           before(k) == {j \in chosen : j < k}
<1>0. \A k \in chosen : k \in Nat /\ 1 <= k
  OBVIOUS
<1>1. IsFiniteSet(chosen) /\ c \in Nat
  <2>1. IsFiniteSet(1..n)
    BY FS_Interval
  <2> QED
    BY <2>1, FS_Subset, FS_CardinalityType
<1>2. \A k \in chosen : /\ IsFiniteSet(before(k)) /\ Rank(chosen, k) \in Nat
                        /\ Rank(chosen, k) <= k - 1 /\ Rank(chosen, k) < c
  <2> SUFFICES ASSUME NEW k \in chosen
               PROVE  /\ IsFiniteSet(before(k)) /\ Cardinality(before(k)) \in Nat
                      /\ Cardinality(before(k)) <= k - 1 /\ Cardinality(before(k)) < c
    BY DEF Rank
  <2>1. IsFiniteSet(before(k)) /\ Cardinality(before(k)) <= c /\ (c = Cardinality(before(k)) => chosen = before(k))
    BY <1>1, FS_Subset
  <2>2. Cardinality(before(k)) \in Nat
    BY <2>1, FS_CardinalityType
  <2>3. k \notin before(k)
    OBVIOUS
  <2>4. before(k) \subseteq 1..(k - 1)
    <3> SUFFICES ASSUME NEW j \in chosen, j < k
                 PROVE  j \in 1..(k - 1)
      OBVIOUS
    <3>1. j \in Nat /\ 1 <= j /\ k \in Nat
      BY <1>0
    <3> QED
      BY <3>1
  <2>5. IsFiniteSet(1..(k - 1)) /\ Cardinality(1..(k - 1)) = k - 1
    BY FS_Interval
  <2>6. Cardinality(before(k)) <= k - 1
    BY <2>4, <2>5, FS_Subset
  <2>7. Cardinality(before(k)) # c
    BY <2>1, <2>3
  <2> HIDE DEF before, c
  <2> QED
    BY <2>1, <2>2, <2>6, <2>7, <1>1
<1>6. \A k \in chosen : Rank(chosen, k) \in Nat /\ Rank(chosen, k) <= k - 1 /\ Rank(chosen, k) < c
  BY <1>2
<1>3. \A k, l \in chosen : k < l => Rank(chosen, k) < Rank(chosen, l)
  <2> SUFFICES ASSUME NEW k \in chosen, NEW l \in chosen, k < l
               PROVE  Cardinality(before(k)) < Cardinality(before(l))
    BY DEF Rank
  <2>0. k \in Nat /\ l \in Nat
    BY <1>0
  <2>1. before(k) \subseteq before(l) /\ k \in before(l) /\ k \notin before(k)
    <3>1. ASSUME NEW j \in chosen, j < k PROVE j < l
      <4>1. j \in Nat
        BY <1>0
      <4> QED
        BY <4>1, <3>1, <2>0
    <3>2. ~ (k < k)
      BY <2>0
    <3> QED
      BY <3>1, <3>2
  <2>2. IsFiniteSet(before(l)) /\ Cardinality(before(k)) \in Nat /\ Cardinality(before(l)) \in Nat
    BY <1>2 DEF Rank
  <2>3. /\ Cardinality(before(k)) <= Cardinality(before(l))
        /\ Cardinality(before(l)) = Cardinality(before(k)) => before(l) = before(k)
    <3> HIDE DEF before
    <3> QED
      BY <2>1, <2>2, FS_Subset
  <2> HIDE DEF before
  <2> QED
    BY <2>1, <2>2, <2>3
<1>4. \A i \in 1..c : \E k \in chosen : Rank(chosen, k) = i - 1
  <2> DEFINE T == 0..(c - 1)
             f == [k \in chosen |-> Rank(chosen, k)]
  <2>1. IsFiniteSet(T) /\ Cardinality(T) = c
    <3> HIDE DEF c
    <3>1. c - 1 \in Int /\ (0 > c - 1 <=> c = 0) /\ c - 1 - 0 + 1 = c
      BY <1>1
    <3>2. 0 \in Int
      OBVIOUS
    <3> QED
      BY <3>1, <3>2, FS_Interval
  <2>2. f \in [chosen -> T]
    <3> HIDE DEF c
    <3>1. \A k \in chosen : Rank(chosen, k) \in T
      BY <1>1, <1>6
    <3> QED
      BY <3>1
  <2>3. \A a, b \in chosen : f[a] = f[b] => a = b
    <3> SUFFICES ASSUME NEW a \in chosen, NEW b \in chosen, Rank(chosen, a) = Rank(chosen, b)
                 PROVE  a = b
      OBVIOUS
    <3>1. ~ (a < b) /\ ~ (b < a)
      BY <1>6, <1>3
    <3> QED
      BY <3>1, <1>0
  <2>4. f \in Injection(chosen, T)
    <3> HIDE DEF f, T
    <3> QED
      BY <2>2, <2>3, Fun_IsInj
  <2>5. f \in Surjection(chosen, T)
    <3> HIDE DEF f, T
    <3> QED
      BY <2>1, <2>4, FS_Injection
  <2>6. \A t \in T : \E k \in chosen : f[k] = t
    BY <2>5 DEF Surjection
  <2>7. \A i \in 1..c : i - 1 \in T
    BY <1>1
  <2> QED
    BY <2>6, <2>7
<1>5. \A k \in chosen : Rank(chosen, k) \in 0..(c - 1) /\ Rank(chosen, k) < k
  <2> SUFFICES ASSUME NEW k \in chosen
               PROVE  Rank(chosen, k) \in 0..(c - 1) /\ Rank(chosen, k) < k
    OBVIOUS
  <2> HIDE DEF c
  <2>1. /\ Rank(chosen, k) \in Nat /\ Rank(chosen, k) <= k - 1 /\ Rank(chosen, k) < c
        /\ k \in Nat /\ c \in Nat
    BY <1>0, <1>1, <1>2
  <2> QED
    BY <2>1
<1> QED
  BY <1>1, <1>3, <1>4, <1>5

(* What is read of a damaged log: chosen records, none before its place. *)
LEMMA PickedProperties ==
    ASSUME NEW s \in Seq(Record), NEW chosen \in SUBSET (1..Len(s)),
           NEW p, p = Picked(s, chosen)
    PROVE  /\ p \in Seq(Record)
           /\ \E at \in [DOMAIN p -> 1..Len(s)] :
                /\ \A i \in DOMAIN p : at[i] \in chosen /\ p[i] = s[at[i]] /\ i <= at[i]
                /\ \A i, j \in DOMAIN p : at[i] = at[j] => i = j
                /\ \A k \in chosen : \E i \in DOMAIN p : at[i] = k
<1> DEFINE c == Cardinality(chosen)
           at == [i \in 1..c |-> CHOOSE k \in chosen : Rank(chosen, k) = i - 1]
<1>1. Len(s) \in Nat
  OBVIOUS
<1>2. /\ c \in Nat
      /\ \A k \in chosen : Rank(chosen, k) \in 0..(c - 1) /\ Rank(chosen, k) < k
      /\ \A k, l \in chosen : k < l => Rank(chosen, k) < Rank(chosen, l)
      /\ \A i \in 1..c : \E k \in chosen : Rank(chosen, k) = i - 1
  BY <1>1, RankProperties
<1>3. p = [i \in 1..c |-> s[CHOOSE k \in chosen : Rank(chosen, k) = i - 1]]
  BY DEF Picked, Rank
<1>4. \A i \in 1..c : at[i] \in chosen /\ Rank(chosen, at[i]) = i - 1
  BY <1>2
<1>5. p = [i \in 1..c |-> s[at[i]]]
  BY <1>3
<1> HIDE DEF at, c
<1>0. \A k \in chosen : k \in 1..Len(s) /\ k \in Nat /\ s[k] \in Record
  BY <1>1
<1>6. \A i \in 1..c : at[i] \in 1..Len(s) /\ s[at[i]] \in Record
  BY <1>0, <1>4
<1>7. p \in Seq(Record) /\ DOMAIN p = 1..c
  BY <1>2, <1>5, <1>6, IsASeq
<1>8. at \in [1..c -> 1..Len(s)]
  BY <1>6 DEF at
<1>9. \A i \in 1..c : p[i] = s[at[i]] /\ i <= at[i]
  <2> SUFFICES ASSUME NEW i \in 1..c
               PROVE  i <= at[i]
    BY <1>5
  <2>1. at[i] \in chosen /\ Rank(chosen, at[i]) = i - 1
    BY <1>4
  <2>2. i - 1 < at[i] /\ at[i] \in Nat /\ i \in Nat
    <3>1. Rank(chosen, at[i]) < at[i] /\ at[i] \in Nat
      BY <1>0, <1>2, <2>1
    <3> QED
      BY <3>1, <2>1
  <2> QED
    BY <2>2
<1>10. \A i, j \in 1..c : at[i] = at[j] => i = j
  <2> SUFFICES ASSUME NEW i \in 1..c, NEW j \in 1..c, at[i] = at[j]
               PROVE  i = j
    OBVIOUS
  <2>1. i - 1 = j - 1
    BY <1>4
  <2> QED
    BY <2>1, <1>2
<1>11. \A k \in chosen : \E i \in 1..c : at[i] = k
  <2> SUFFICES ASSUME NEW k \in chosen
               PROVE  \E i \in 1..c : at[i] = k
    OBVIOUS
  <2>1. PICK i \in 1..c : Rank(chosen, k) = i - 1
    <3>1. Rank(chosen, k) + 1 \in 1..c /\ Rank(chosen, k) = (Rank(chosen, k) + 1) - 1
      BY <1>2
    <3> QED
      BY <3>1
  <2>2. at[i] \in chosen /\ Rank(chosen, at[i]) = Rank(chosen, k)
    BY <2>1, <1>4
  <2>3. at[i] \in Nat /\ k \in Nat
    BY <1>0, <2>2
  <2>4. ~ (at[i] < k) /\ ~ (k < at[i])
    <3>1. Rank(chosen, k) \in Int /\ Rank(chosen, at[i]) = Rank(chosen, k)
      BY <1>2, <2>2
    <3>2. at[i] < k => Rank(chosen, at[i]) < Rank(chosen, k)
      BY <1>2, <2>2
    <3>3. k < at[i] => Rank(chosen, k) < Rank(chosen, at[i])
      BY <1>2, <2>2
    <3> QED
      BY <3>1, <3>2, <3>3
  <2> QED
    BY <2>3, <2>4
<1>12. /\ at \in [DOMAIN p -> 1..Len(s)]
       /\ \A i \in DOMAIN p : at[i] \in chosen /\ p[i] = s[at[i]] /\ i <= at[i]
       /\ \A i, j \in DOMAIN p : at[i] = at[j] => i = j
       /\ \A k \in chosen : \E i \in DOMAIN p : at[i] = k
  BY <1>4, <1>7, <1>8, <1>9, <1>10, <1>11
<1> QED
  BY <1>7, <1>12

(* BuildBatchGroup: the group is the longest run of writers that fit. *)
LEMMA GroupSizeProperties ==
    ASSUME queue \in Seq(Thread), queue # <<>>
    PROVE  GroupSize \in 1..Len(queue) /\ \A i \in 2..GroupSize : Grouped(i)
<1> DEFINE L == Len(queue)
           S == {n \in 1..L : \A i \in 2..n : Grouped(i)}
<1>1. L \in Nat /\ L >= 1
  OBVIOUS
<1> HIDE DEF L
<1>2. S \subseteq 1..L /\ 1 \in S
  BY <1>1
<1>3. \A m \in S : 1..m \subseteq S
  <2> SUFFICES ASSUME NEW m \in S, NEW n \in 1..m
               PROVE  n \in S
    OBVIOUS
  <2>1. m \in Nat /\ m <= L /\ n \in Nat /\ 1 <= n /\ n <= m
    BY <1>1, <1>2
  <2>2. n \in 1..L /\ 2..n \subseteq 2..m
    BY <2>1, <1>1
  <2> QED
    BY <2>2
<1>4. PICK m \in S : \A k \in S : k <= m
  <2>1. S \subseteq Nat /\ S # {} /\ L \in Nat /\ \A k \in S : k <= L
    BY <1>1, <1>2
  <2> HIDE DEF S
  <2> QED
    BY <2>1, GreatestIn
<1>5. S = 1..m
  <2>1. m \in 1..L /\ \A k \in S : k \in Nat /\ 1 <= k
    BY <1>1, <1>2
  <2> QED
    BY <2>1, <1>3, <1>4
<1>6. m \in Nat /\ m >= 1 /\ m <= L
  BY <1>1, <1>2
<1>7. Cardinality(1..m) = m
  <2>1. 1 \in Int /\ m \in Int /\ ~ (1 > m) /\ m - 1 + 1 = m
    BY <1>6
  <2> QED
    BY <2>1, FS_Interval
<1>8. GroupSize = m
  BY <1>5, <1>7 DEF GroupSize, L
<1>9. \A i \in 2..m : Grouped(i)
  BY <1>4
<1> QED
  BY <1>1, <1>6, <1>8, <1>9 DEF L

(* The batches of the first writers are no more than the writers. *)
LEMMA BatchesProperties ==
    ASSUME NEW n \in Nat
    PROVE  /\ Batches(n) \in Nat /\ Batches(n) <= n
           /\ \A i \in 1..n : Batches(i) \in Nat /\ Batches(i) <= Batches(n)
           /\ \A i \in 1..n : ~ op[queue[i]].null => Batches(i) >= 1
<1> DEFINE B(i) == {j \in 1..i : ~ op[queue[j]].null}
<1>1. \A i \in Nat : IsFiniteSet(1..i) /\ Cardinality(1..i) = i
  <2> SUFFICES ASSUME NEW i \in Nat
               PROVE  IsFiniteSet(1..i) /\ Cardinality(1..i) = i
    OBVIOUS
  <2>1. 1 \in Int /\ i \in Int /\ (1 > i => i = 0) /\ i - 1 + 1 = i
    OBVIOUS
  <2> QED
    BY <2>1, FS_Interval
<1>2. \A i \in Nat : IsFiniteSet(B(i)) /\ Cardinality(B(i)) \in Nat /\ Cardinality(B(i)) <= i
  <2> SUFFICES ASSUME NEW i \in Nat
               PROVE  IsFiniteSet(B(i)) /\ Cardinality(B(i)) \in Nat /\ Cardinality(B(i)) <= i
    OBVIOUS
  <2>1. B(i) \subseteq 1..i
    OBVIOUS
  <2> HIDE DEF B
  <2> QED
    BY <2>1, <1>1, FS_Subset, FS_CardinalityType
<1>3. \A i \in 1..n : B(i) \subseteq B(n) /\ i \in Nat
  OBVIOUS
<1>4. \A i \in 1..n : ~ op[queue[i]].null => i \in B(i)
  OBVIOUS
<1>5. \A i : Batches(i) = Cardinality(B(i))
  BY DEF Batches
<1> HIDE DEF B
<1>6. \A i \in 1..n : Cardinality(B(i)) <= Cardinality(B(n))
  BY <1>2, <1>3, FS_Subset
<1>7. \A i \in 1..n : ~ op[queue[i]].null => Cardinality(B(i)) # 0
  BY <1>2, <1>3, <1>4, FS_EmptySet
<1>8. \A i \in 1..n : ~ op[queue[i]].null => Cardinality(B(i)) >= 1
  <2> SUFFICES ASSUME NEW i \in 1..n, ~ op[queue[i]].null
               PROVE  Cardinality(B(i)) >= 1
    OBVIOUS
  <2>1. Cardinality(B(i)) \in Nat /\ Cardinality(B(i)) # 0
    BY <1>2, <1>3, <1>7
  <2> QED
    BY <2>1
<1> QED
  BY <1>2, <1>3, <1>5, <1>6, <1>8

(* The count depends on the writers of the group only. *)
LEMMA BatchesStable ==
    ASSUME NEW n \in Nat, \A i \in 1..n : op'[queue'[i]].null = op[queue[i]].null
    PROVE  Batches(n)' = Batches(n)
<1>1. {i \in 1..n : ~ op'[queue'[i]].null} = {i \in 1..n : ~ op[queue[i]].null}
  OBVIOUS
<1> QED
  BY <1>1 DEF Batches

(* A group has one entry for each batch, with the next numbers. *)
LEMMA NewEntriesProperties ==
    ASSUME NEW a \in Nat, NEW b \in Nat, NEW n \in Nat
    PROVE  /\ NewEntries(a, b, n) \subseteq Entry
           /\ \A e \in NewEntries(a, b, n) : \E k \in 1..n : e.id = a + k /\ e.seq = b + k
           /\ \A e \in NewEntries(a, b, n) : e.id \in (a + 1)..(a + n) /\ e.seq \in (b + 1)..(b + n)
           /\ \A e, f \in NewEntries(a, b, n) : e.id = f.id \/ e.seq = f.seq => e = f
           /\ Cardinality(NewEntries(a, b, n)) = n
<1> DEFINE N == NewEntries(a, b, n)
           f == [k \in 1..n |-> [id |-> a + k, seq |-> b + k]]
<1>1. \A e \in N : \E k \in 1..n : e = [id |-> a + k, seq |-> b + k]
  BY DEF NewEntries
<1>2. \A k \in 1..n : /\ [id |-> a + k, seq |-> b + k] \in Entry
                      /\ [id |-> a + k, seq |-> b + k].id = a + k
                      /\ [id |-> a + k, seq |-> b + k].seq = b + k
                      /\ a + k \in (a + 1)..(a + n) /\ b + k \in (b + 1)..(b + n)
  BY DEF Entry
<1>3. \A e \in N : \E k \in 1..n : e = [id |-> a + k, seq |-> b + k] /\ e.id = a + k /\ e.seq = b + k
  BY <1>1, <1>2
<1>4. \A e, g \in N : e.id = g.id \/ e.seq = g.seq => e = g
  <2> SUFFICES ASSUME NEW e \in N, NEW g \in N, e.id = g.id \/ e.seq = g.seq
               PROVE  e = g
    OBVIOUS
  <2>1. PICK k \in 1..n : e = [id |-> a + k, seq |-> b + k] /\ e.id = a + k /\ e.seq = b + k
    BY <1>3
  <2>2. PICK l \in 1..n : g = [id |-> a + l, seq |-> b + l] /\ g.id = a + l /\ g.seq = b + l
    BY <1>3
  <2>3. k \in Nat /\ l \in Nat /\ (a + k = a + l \/ b + k = b + l)
    BY <2>1, <2>2
  <2>4. k = l
    BY <2>3
  <2> QED
    BY <2>1, <2>2, <2>4
<1>5. Cardinality(N) = n
  <2>0. \A k \in 1..n : f[k] \in N
    BY DEF NewEntries
  <2>1. f \in [1..n -> N]
    BY <2>0
  <2>2. \A k, l \in 1..n : f[k] = f[l] => k = l
    <3> SUFFICES ASSUME NEW k \in 1..n, NEW l \in 1..n, f[k] = f[l]
                 PROVE  k = l
      OBVIOUS
    <3>1. a + k = a + l /\ k \in Nat /\ l \in Nat
      BY <1>2
    <3> QED
      BY <3>1
  <2>3. \A e \in N : \E k \in 1..n : f[k] = e
    BY <1>1
  <2>4. f \in Bijection(1..n, N)
    <3> HIDE DEF f
    <3> QED
      BY <2>1, <2>2, <2>3, Fun_IsInj, Fun_IsSurj DEF Bijection
  <2>5. ExistsBijection(1..n, N)
    BY <2>4 DEF ExistsBijection
  <2> QED
    BY <2>5, FS_CountingElements
<1> QED
  BY <1>2, <1>3, <1>4, <1>5

(* A batch of the group has its entry among those of the group. *)
LEMMA IdOfIn ==
    ASSUME NEW i \in Written, group.size \in Nat, issued \in Nat, lastSeq \in Nat,
           lastSeq + Batches(group.size) <= issued,
           group.entries = NewEntries(issued - Batches(group.size), lastSeq, Batches(group.size))
    PROVE  IdOf(i) \in Ids(group.entries) /\ IdOf(i) \in 1..issued
<1> DEFINE c == Batches(group.size)
<1>1. i \in 1..group.size /\ ~ op[queue[i]].null
  BY DEF Written
<1>2. /\ c \in Nat /\ Batches(i) \in Nat /\ Batches(i) <= c /\ Batches(i) >= 1
  BY <1>1, BatchesProperties
<1> HIDE DEF c
<1>3. \A x : x \in Ids(group.entries) <=> \E k \in 1..c : x = issued - c + k
  <2> DEFINE N == NewEntries(issued - c, lastSeq, c)
  <2>1. issued - c \in Nat
    BY <1>2 DEF c
  <2>2. \A e \in N : \E k \in 1..c : e.id = issued - c + k
    BY DEF NewEntries
  <2>3. \A k \in 1..c : \E e \in N : e.id = issued - c + k
    <3> SUFFICES ASSUME NEW k \in 1..c
                 PROVE  \E e \in N : e.id = issued - c + k
      OBVIOUS
    <3>1. [id |-> issued - c + k, seq |-> lastSeq + k] \in N
      BY DEF NewEntries
    <3> QED
      BY <3>1
  <2>4. group.entries = N
    BY DEF c
  <2> HIDE DEF N
  <2> QED
    BY <2>2, <2>3, <2>4 DEF Ids
<1>4. Least(Ids(group.entries)) = issued - c + 1
  <2>1. issued - c + 1 \in Ids(group.entries)
    BY <1>2, <1>3
  <2>2. \A x \in Ids(group.entries) : x \in Nat /\ issued - c + 1 <= x
    BY <1>2, <1>3 DEF c
  <2>3. \A x \in Ids(group.entries) : (\A y \in Ids(group.entries) : x <= y) => x = issued - c + 1
    BY <2>1, <2>2, <1>2
  <2> QED
    BY <2>1, <2>2, <2>3 DEF Least
<1>5. IdOf(i) = issued - c + Batches(i)
  BY <1>2, <1>4 DEF IdOf
<1> QED
  BY <1>2, <1>3, <1>5 DEF c

(***************************************************************************)
(* Types.                                                                  *)
(***************************************************************************)
LEMMA ExtendProperties ==
    ASSUME NEW S, NEW f, DOMAIN f \subseteq Nat, f \in [DOMAIN f -> S], NEW n \in Nat, NEW v \in S
    PROVE  /\ DOMAIN Extend(f, n, v) = DOMAIN f \cup {n} /\ DOMAIN Extend(f, n, v) \subseteq Nat
           /\ Extend(f, n, v) \in [DOMAIN Extend(f, n, v) -> S]
           /\ Extend(f, n, v)[n] = v
           /\ \A k \in DOMAIN f : k # n => Extend(f, n, v)[k] = f[k]
BY DEF Extend

(* A function restricted to some of its arguments. *)
LEMMA OnProperties ==
    ASSUME NEW S, NEW f, DOMAIN f \subseteq Nat, f \in [DOMAIN f -> S], NEW D, D \subseteq DOMAIN f
    PROVE  /\ DOMAIN On(f, D) = D /\ D \subseteq Nat
           /\ On(f, D) \in [D -> S]
           /\ \A k \in D : On(f, D)[k] = f[k]
BY DEF On

LEMMA InitType == Init => TypeOK
<1> SUFFICES ASSUME Init
             PROVE  TypeOK
  OBVIOUS
<1>1. left \in [old : Nat, writes : Nat, gets : Nat, faults : Nat, downs : Nat]
  BY ConstantsAssumption DEF Init
<1>2. left.old \in Nat
  BY <1>1
<1>3. CallType
  BY <1>1 DEF Init, CallType, Ops, PCs, Idle, NoGroup, NoRead, NoRecovery, Reads
<1>4. MemoryType
  <2>1. NoFiles \in Levels /\ NoBg \in Background
    BY DEF NoFiles, Levels, NoBg, Background, Edit
  <2>2. bgError \in BOOLEAN
    BY DEF Init
  <2>3. DOMAIN memtab \subseteq Nat /\ memtab \in [DOMAIN memtab -> SUBSET Entry]
    BY DEF Init
  <2>4. lastSeq \in Nat /\ mem \in Nat /\ imm \in Nat /\ nextFile \in Nat /\ logNum \in Nat
            /\ version = NoFiles /\ bg = NoBg /\ pending = {}
    BY DEF Init
  <2> QED
    BY <2>1, <2>2, <2>3, <2>4 DEF MemoryType
<1>5. DiskType
  <2>1. manifest = <<[log |-> 0, next |-> left.old + 2, last |-> left.old, ok |-> TRUE,
                      files |-> [l0 |-> 2..(left.old + 1), l1 |-> {}]]>>
    BY DEF Init
  <2>2. [log |-> 0, next |-> left.old + 2, last |-> left.old, ok |-> TRUE,
         files |-> [l0 |-> 2..(left.old + 1), l1 |-> {}]] \in State
    BY <1>2 DEF State, Levels
  <2>3. manifest \in Seq(State) /\ manifest # <<>>
    BY <2>1, <2>2
  <2>4. tables = [n \in 2..(left.old + 1) |-> {[id |-> n - 1, seq |-> n - 1]}]
    BY DEF Init
  <2>5. DOMAIN tables \subseteq Nat /\ tables \in [DOMAIN tables -> SUBSET Entry]
    <3>1. \A n \in 2..(left.old + 1) : n - 1 \in Nat /\ [id |-> n - 1, seq |-> n - 1] \in Entry
      BY <1>2 DEF Entry
    <3> QED
      BY <2>4, <3>1, <1>2
  <2>6. DOMAIN logs \subseteq Nat /\ logs \in [DOMAIN logs -> Seq(Record)]
           /\ synced \in [DOMAIN logs -> Nat] /\ \A n \in DOMAIN logs : synced[n] <= Len(logs[n])
    BY DEF Init
  <2> QED
    BY <1>2, <2>3, <2>5, <2>6 DEF Init, DiskType
<1> QED
  BY <1>3, <1>4, <1>5 DEF TypeOK

LEMMA LastManifest ==
    ASSUME DiskType
    PROVE  /\ Len(manifest) \in Nat /\ Len(manifest) >= 1 /\ DOMAIN manifest = 1..Len(manifest)
           /\ \A i \in DOMAIN manifest : manifest[i] \in State
           /\ Last(manifest) = manifest[Len(manifest)] /\ Last(manifest) \in State
           /\ 1 \in DOMAIN manifest /\ Len(manifest) \in DOMAIN manifest
<1>1. manifest \in Seq(State) /\ manifest # <<>>
  BY DEF DiskType
<1>2. Len(manifest) \in Nat /\ Len(manifest) # 0 /\ DOMAIN manifest = 1..Len(manifest)
  BY <1>1
<1>3. \A i \in 1..Len(manifest) : manifest[i] \in State
  BY <1>1
<1> QED
  BY <1>2, <1>3 DEF Last

LEMMA LevelTypes ==
    /\ NoFiles \in Levels
    /\ \A v, w \in Levels : Merged(v, w) \in Levels /\ Without(v, w) \in Levels /\ Files(v) \subseteq Nat
    /\ \A level, files : files \subseteq Nat => Placed(level, files) \in Levels
    /\ \A level, files : Files(Placed(level, files)) = files
<1>1. NoFiles \in Levels
  BY DEF NoFiles, Levels
<1>2. ASSUME NEW v \in Levels, NEW w \in Levels
      PROVE  Merged(v, w) \in Levels /\ Without(v, w) \in Levels /\ Files(v) \subseteq Nat
  <2>1. v.l0 \subseteq Nat /\ v.l1 \subseteq Nat /\ w.l0 \subseteq Nat /\ w.l1 \subseteq Nat
    BY DEF Levels
  <2>2. v.l0 \cup w.l0 \subseteq Nat /\ v.l1 \cup w.l1 \subseteq Nat
          /\ v.l0 \ w.l0 \subseteq Nat /\ v.l1 \ w.l1 \subseteq Nat
    BY <2>1
  <2> QED
    BY <2>1, <2>2 DEF Levels, Merged, Without, Files
<1>3. ASSUME NEW level, NEW files, files \subseteq Nat
      PROVE  Placed(level, files) \in Levels
  BY <1>3 DEF Levels, Placed
<1>4. ASSUME NEW level, NEW files
      PROVE  Files(Placed(level, files)) = files
  BY DEF Placed, Files
<1> QED
  BY <1>1, <1>2, <1>3, <1>4

LEMMA EditTypes ==
    ASSUME MemoryType, DiskType
    PROVE  /\ bg.edit \in Edit /\ \A v \in Levels : Edited(v) \in Levels
           /\ [log |-> bg.edit.log, next |-> bg.edit.next, last |-> bg.edit.last,
               files |-> Edited(Last(manifest).files), ok |-> TRUE] \in State
           /\ [Last(manifest) EXCEPT !.ok = FALSE] \in State
<1>1. bg.edit \in Edit
  BY DEF MemoryType, Background
<1>2. bg.edit.add \in Levels /\ bg.edit.del \in Levels
  BY <1>1 DEF Edit
<1>3. \A v \in Levels : Edited(v) \in Levels
  BY <1>2, LevelTypes DEF Edited
<1>4. Last(manifest) \in State /\ Last(manifest).files \in Levels
  BY LastManifest DEF State
<1> QED
  BY <1>1, <1>3, <1>4 DEF State, Edit

(* What LogAndApply can leave: the state it logged is the last. *)
LEMMA LoggedEditProperties ==
    ASSUME MemoryType, DiskType, NEW r \in State
    PROVE  /\ Append(manifest, r) \in Seq(State) /\ Append(manifest, r) # <<>>
           /\ Len(Append(manifest, r)) = Len(manifest) + 1
           /\ DOMAIN Append(manifest, r) = 1..(Len(manifest) + 1)
           /\ Append(manifest, r)[Len(manifest) + 1] = r /\ Last(Append(manifest, r)) = r
           /\ \A i \in DOMAIN manifest : Append(manifest, r)[i] = manifest[i]
           /\ Append(manifest, r)[1] = manifest[1]
BY LastManifest DEF DiskType, Last

(* log::Reader finds whole records of the log, in their order, each at or  *)
(* before the place it was written.                                        *)
LEMMA ReadableProperties ==
    ASSUME NEW s \in Seq(Record), NEW r \in Readable(s)
    PROVE  /\ r \in Seq(Record)
           /\ Logged(r) \subseteq Logged(s)
           /\ ~ Broken(s) => r = s
           /\ \E at \in [DOMAIN r -> DOMAIN s] :
                /\ \A i \in DOMAIN r : r[i] = s[at[i]] /\ i <= at[i]
                /\ \A i, j \in DOMAIN r : at[i] = at[j] => i = j
<1>0. Len(s) \in Nat /\ DOMAIN s = 1..Len(s)
  OBVIOUS
<1>1. r \in Seq(Record) /\ \E at \in [DOMAIN r -> DOMAIN s] :
                /\ \A i \in DOMAIN r : r[i] = s[at[i]] /\ i <= at[i]
                /\ \A i, j \in DOMAIN r : at[i] = at[j] => i = j
  <2>1. CASE ~ Broken(s)
    <3>1. r = s
      BY <2>1 DEF Readable
    <3> DEFINE at == [i \in DOMAIN r |-> i]
    <3>2. at \in [DOMAIN r -> DOMAIN s] /\ \A i \in DOMAIN r : r[i] = s[at[i]] /\ i <= at[i]
      BY <3>1, <1>0
    <3>3. \A i, j \in DOMAIN r : at[i] = at[j] => i = j
      OBVIOUS
    <3> QED
      BY <3>1, <3>2, <3>3
  <2>2. CASE Broken(s)
    <3> DEFINE B == {i \in DOMAIN s : ~ s[i].ok}
               bad == Least(B)
    <3>1. B \subseteq Nat /\ B # {}
      BY <2>2, <1>0 DEF Broken
    <3>2. bad \in B
      <4> HIDE DEF B
      <4> QED
        BY <3>1, LeastIn
    <3>3. PICK later \in SUBSET ((bad + 1)..Len(s)) : r = Picked(s, (1..(bad - 1)) \cup later)
      BY <2>2 DEF Readable
    <3> DEFINE chosen == (1..(bad - 1)) \cup later
    <3>4. bad \in Nat /\ bad >= 1 /\ bad <= Len(s)
      BY <3>2, <1>0
    <3> HIDE DEF bad
    <3>5. chosen \in SUBSET (1..Len(s))
      <4>1. 1..(bad - 1) \subseteq 1..Len(s) /\ (bad + 1)..Len(s) \subseteq 1..Len(s)
        BY <3>4, <1>0
      <4> QED
        BY <4>1
    <3> HIDE DEF chosen
    <3>6. r = Picked(s, chosen)
      BY <3>3 DEF chosen
    <3> QED
      BY <3>5, <3>6, <1>0, PickedProperties
  <2> QED
    BY <2>1, <2>2
<1>2. PICK at \in [DOMAIN r -> DOMAIN s] : \A i \in DOMAIN r : r[i] = s[at[i]]
  BY <1>1
<1>3. Logged(r) \subseteq Logged(s)
  <2> SUFFICES ASSUME NEW e \in Logged(r)
               PROVE  e \in Logged(s)
    OBVIOUS
  <2>1. PICK i \in DOMAIN r : r[i].ok /\ e \in r[i].entries
    BY LoggedIn
  <2>2. at[i] \in DOMAIN s /\ s[at[i]].ok /\ e \in s[at[i]].entries
    BY <1>2, <2>1
  <2> QED
    BY <2>2, LoggedIn
<1>4. ~ Broken(s) => r = s
  BY DEF Readable
<1> QED
  BY <1>1, <1>3, <1>4

(* RecoverLogFile takes the greatest sequence number that it has seen. *)
LEMMA MaxSequenceProperties ==
    ASSUME NEW found, found \subseteq Entry, lastSeq \in Nat, NEW b \in Nat,
           \A e \in found : e.seq <= b
    PROVE  /\ MaxSequence(found) \in Nat /\ lastSeq <= MaxSequence(found)
           /\ \A e \in found : e.seq <= MaxSequence(found)
           /\ lastSeq <= b => MaxSequence(found) <= b
<1> DEFINE S == {lastSeq} \cup {e.seq : e \in found}
           c == IF lastSeq <= b THEN b ELSE lastSeq
<1>1. S \subseteq Nat /\ lastSeq \in S
  BY DEF Entry
<1>2. c \in Nat /\ \A k \in S : k <= c
  <2>1. \A e \in found : e.seq \in Nat /\ e.seq <= b
    BY DEF Entry
  <2>2. \A k \in S : k \in Nat /\ (k = lastSeq \/ k <= b)
    BY <2>1
  <2> HIDE DEF S
  <2> QED
    BY <2>2
<1>3. \A e \in found : e.seq \in S
  OBVIOUS
<1>4. MaxSequence(found) = Greatest(S)
  BY DEF MaxSequence
<1> HIDE DEF S
<1>5. Greatest(S) \in S /\ \A k \in S : k <= Greatest(S)
  <2> HIDE DEF c
  <2> QED
    BY <1>1, <1>2, GreatestIn
<1> QED
  BY <1>1, <1>2, <1>3, <1>4, <1>5

(* RecoverLogFile does what Replay says, for one log and what was read. *)
LEMMA ReplayFacts ==
    ASSUME TypeOK, EntryInv, RecoveryInv, RecoverLogFile
    PROVE  \E n \in recovery.logs, r \in Seq(Record), found \in SUBSET Entry :
             Replay(n, r, found)
<1> DEFINE n == Least(recovery.logs)
<1>0. phase = "recovering" /\ recovery.logs # {}
  BY DEF RecoverLogFile
<1>1. recovery.logs \subseteq Nat /\ recovery.logs \subseteq NeededLogs
  BY <1>0 DEF TypeOK, CallType, RecoveryInv
<1>2. n \in recovery.logs /\ \A k \in recovery.logs : n <= k
  BY <1>0, <1>1, LeastIn
<1>3. n \in DOMAIN logs /\ n \in Nat /\ n >= logNum
  BY <1>0, <1>1, <1>2 DEF NeededLogs, RecoveryInv
<1> HIDE DEF n
<1>4. PICK r \in Readable(logs[n]) :
        LET found == Logged(r)
            made == found # {}
            lost == Ids(Logged(logs[n])) \ Ids(found)
        IN  /\ recovery' = [recovery EXCEPT !.logs = @ \ {n},
                                !.tables = IF made THEN @ \cup {nextFile} ELSE @]
            /\ tables' = IF made THEN Extend(tables, nextFile, found) ELSE tables
            /\ nextFile' = Higher(IF made THEN nextFile + 1 ELSE nextFile, n + 1)
            /\ lastSeq' = MaxSequence(found)
            /\ logs' = [logs EXCEPT ![n] = r]
            /\ synced' = [synced EXCEPT ![n] = Lower(@, Len(r))]
            /\ acked' = acked \ lost /\ promised' = promised \ lost
  BY DEF RecoverLogFile, n
<1> DEFINE found == Logged(r)
<1>5. logs[n] \in Seq(Record)
  BY <1>3 DEF TypeOK, DiskType
<1>6. /\ r \in Seq(Record) /\ found \subseteq Logged(logs[n])
      /\ ~ Broken(logs[n]) => r = logs[n]
      /\ \E at \in [DOMAIN r -> DOMAIN logs[n]] :
              /\ \A i \in DOMAIN r : r[i] = logs[n][at[i]] /\ i <= at[i]
              /\ \A i, j \in DOMAIN r : at[i] = at[j] => i = j
  BY <1>5, ReadableProperties
<1>7. found \subseteq Entry
  BY <1>6, LoggedType
<1>8. \A e \in found : e.seq <= issued
  <2> SUFFICES ASSUME NEW e \in found
               PROVE  e.seq <= issued
    OBVIOUS
  <2>1. e \in Known
    BY <1>3, <1>6 DEF Known
  <2>2. e.id \in 1..issued /\ e.seq \in 1..e.id /\ issued \in Nat
    BY <2>1 DEF EntryInv, TypeOK, DiskType
  <2> QED
    BY <2>2
<1> HIDE DEF found
<1>9. lastSeq \in Nat /\ issued \in Nat /\ lastSeq <= issued /\ nextFile \in Nat
  BY <1>0 DEF TypeOK, MemoryType, DiskType, RecoveryInv
<1>10. /\ lastSeq' \in Nat /\ lastSeq <= lastSeq' /\ lastSeq' <= issued
       /\ \A e \in found : e.seq <= lastSeq'
  <2>1. lastSeq' = MaxSequence(found)
    BY <1>4 DEF found
  <2> QED
    BY <2>1, <1>7, <1>8, <1>9, MaxSequenceProperties
<1>11. /\ nextFile' \in Nat /\ nextFile' >= nextFile /\ nextFile' > n
       /\ found # {} => nextFile' > nextFile
  <2>1. nextFile' = Higher(IF found # {} THEN nextFile + 1 ELSE nextFile, n + 1)
    BY <1>4 DEF found
  <2> QED
    BY <2>1, <1>3, <1>9 DEF Higher
<1>12. /\ recovery' = [recovery EXCEPT !.logs = recovery.logs \ {n},
                                !.tables = IF found = {} THEN recovery.tables
                                           ELSE recovery.tables \cup {nextFile}]
       /\ tables' = IF found = {} THEN tables ELSE Extend(tables, nextFile, found)
       /\ logs' = [logs EXCEPT ![n] = r]
       /\ synced' = [synced EXCEPT ![n] = Lower(synced[n], Len(r))]
       /\ acked' = acked \ (Ids(Logged(logs[n])) \ Ids(found))
       /\ promised' = promised \ (Ids(Logged(logs[n])) \ Ids(found))
  BY <1>4 DEF found
<1>13. found = Logged(r) /\ found \in SUBSET Entry
  BY <1>7 DEF found
<1> QED
  <2>1. Replay(n, r, found)
    BY <1>2, <1>3, <1>6, <1>10, <1>11, <1>12, <1>13 DEF Replay, found
  <2>2. r \in Seq(Record)
    BY <1>6
  <2> QED
    BY <2>1, <2>2, <1>2, <1>13

LEMMA SpendType ==
    ASSUME CallType, NEW b \in {"old", "writes", "gets", "faults", "downs"}, Spend(b)
    PROVE  left' \in [old : Nat, writes : Nat, gets : Nat, faults : Nat, downs : Nat]
<1>1. left \in [old : Nat, writes : Nat, gets : Nat, faults : Nat, downs : Nat] /\ left[b] > 0
  BY DEF CallType, Spend
<1>2. left[b] - 1 \in Nat
  BY <1>1
<1> QED
  BY <1>1, <1>2 DEF Spend

(* The bounds stay natural numbers. *)
LEMMA LeftType ==
    ASSUME CallType, [Next]_vars
    PROVE  left' \in [old : Nat, writes : Nat, gets : Nat, faults : Nat, downs : Nat]
<1>1. \/ UNCHANGED left \/ Spend("writes") \/ Spend("gets") \/ Spend("downs") \/ Spend("faults")
  <2>1. CASE UNCHANGED vars
    BY <2>1 DEF vars
  <2>2. ASSUME NEW t \in Thread, \/ \E sync, null \in BOOLEAN : Write(t, sync, null)
                                 \/ WriteStep(t) \/ WriteFault(t)
        PROVE  UNCHANGED left \/ Spend("writes") \/ Spend("faults")
    BY <2>2 DEF Write, WriteStep, WriteFault, RoomRefused, RoomDelayed, RoomWoken, RoomWaits,
                RoomSwitched, RoomFound, RoomForced, AddRecord, Sync, InsertInto, Commit,
                RoomNoFile, AddRecordFails, SyncFails, Fault
  <2>3. ASSUME NEW r \in Reader, Get(r) \/ GotValue(r)
        PROVE  UNCHANGED left \/ Spend("gets")
    BY <2>3 DEF Get, GotValue
  <2>4. CASE BackgroundStep
    BY <2>4 DEF BackgroundStep, BackgroundIdles, CompactMemTable, CompactMemTableFirst, BuildTable,
                TableBuilt, PickCompaction, OpenCompactionOutputFile, FinishCompactionOutputFile,
                AppendEdit, MemTableInstalled, CompactionInstalled
  <2>5. CASE BackgroundFault \/ OpenFails
    BY <2>5 DEF BackgroundFault, TableFails, CompactionFails, EditNotLogged, OpenFails, Fault
  <2>6. CASE Close \/ Closed \/ CrashProcess \/ CrashMachine
    BY <2>6 DEF Close, Closed, CrashProcess, CrashMachine
  <2>7. CASE OpenStep
    BY <2>7 DEF OpenStep, RecoverManifest, OpenRefused, RecoverLogFile, OpenNewLog, OpenInstalls, vars
  <2> QED
    BY <2>1, <2>2, <2>3, <2>4, <2>5, <2>6, <2>7 DEF Next
<1>2. UNCHANGED left => left' \in [old : Nat, writes : Nat, gets : Nat, faults : Nat, downs : Nat]
  BY DEF CallType
<1> QED
  BY <1>1, <1>2, SpendType

(***************************************************************************)
(* The steps, grouped by what they change.                                 *)
(***************************************************************************)
(* Every step is one of Steps. *)
LEMMA StepCases == [Next]_vars => Steps
<1> SUFFICES ASSUME [Next]_vars
             PROVE  Steps
  OBVIOUS
<1>1. CASE UNCHANGED vars
  BY <1>1 DEF vars, Steps, store
<1>2. ASSUME NEW t \in Thread, \/ \E sync, null \in BOOLEAN : Write(t, sync, null)
                               \/ WriteStep(t) \/ WriteFault(t)
      PROVE  \/ UNCHANGED store \/ RoomSwitched(t) \/ RoomFound(t) \/ LogStep(t)
             \/ Sync(t) \/ InsertInto(t) \/ Commit(t)
  BY <1>2 DEF Write, WriteStep, WriteFault, RoomRefused, RoomDelayed, RoomWoken, RoomWaits,
              RoomForced, RoomNoFile, SyncFails, Fault, store, LogStep
<1>3. CASE BackgroundStep
  BY <1>3 DEF BackgroundStep, Steps, Flush
<1>4. CASE BackgroundFault
  BY <1>4 DEF BackgroundFault, Steps
<1>5. CASE Close \/ Closed \/ CrashProcess \/ CrashMachine \/ OpenFails
  BY <1>5 DEF Closed, CrashProcess, OpenFails, Steps, Down
<1>6. CASE OpenStep
  BY <1>6 DEF OpenStep, OpenRefused, Steps, store, vars
<1>7. ASSUME NEW t \in Thread, \/ \E sync, null \in BOOLEAN : Write(t, sync, null)
                               \/ WriteStep(t) \/ WriteFault(t)
      PROVE  Steps
  BY <1>2, <1>7 DEF Steps
<1>8. CASE \E r \in Reader : Get(r) \/ GotValue(r)
  BY <1>8 DEF Steps
<1> QED
  BY <1>1, <1>3, <1>4, <1>5, <1>6, <1>7, <1>8 DEF Next

(* Who is in a call, works or reads does so in an open database. *)
LEMMA InUp ==
    ASSUME RestInv
    PROVE  /\ \A t \in Thread : \A pc : Front(t, pc) => Up /\ op[t].pc = pc
           /\ bg.pc # "off" \/ bg.job # "none" => Up
           /\ \A r \in Reader : reads[r].on => Up
           /\ imm # 0 \/ mem # 0 => Up
BY DEF RestInv, Front, NoBg, NoRead

LEMMA UpPhase ==
    ASSUME CallType
    PROVE  ~ Up <=> phase \in {"closed", "recovering"}
BY DEF CallType, Up

LEMMA StoredType == ASSUME DiskType, NEW files PROVE Stored(files) \subseteq Entry
<1>1. \A n \in files \cap DOMAIN tables : tables[n] \subseteq Entry
  BY DEF DiskType
<1> QED
  BY <1>1 DEF Stored

LEMMA VisibleType ==
    ASSUME MemoryType, DiskType, mem \in DOMAIN memtab, imm # 0 => imm \in DOMAIN memtab
    PROVE  Visible \subseteq Entry
<1>1. memtab[mem] \subseteq Entry /\ (imm # 0 => memtab[imm] \subseteq Entry)
  BY DEF MemoryType
<1>2. Stored(Files(version)) \subseteq Entry
  BY StoredType
<1>3. Visible \subseteq memtab[mem] \cup (IF imm = 0 THEN {} ELSE memtab[imm]) \cup Stored(Files(version))
  BY DEF Visible
<1> QED
  BY <1>1, <1>2, <1>3

LEMMA ForgottenTypes ==
    ASSUME Forgotten
    PROVE  /\ queue' \in Seq(Thread) /\ op' \in [Thread -> Ops]
           /\ group' \in [size : Nat, entries : SUBSET Entry]
           /\ reads' \in [Reader -> Reads]
           /\ recovery' \in [logs : SUBSET Nat, tables : SUBSET Nat, log : Nat]
           /\ MemoryType'
<1>1. NoGroup \in [size : Nat, entries : SUBSET Entry] /\ NoRead \in Reads /\ Idle \in Ops
        /\ NoRecovery \in [logs : SUBSET Nat, tables : SUBSET Nat, log : Nat]
        /\ NoFiles \in Levels /\ NoBg \in Background
  BY DEF NoGroup, NoRead, Reads, Idle, Ops, PCs, NoRecovery, NoFiles, Levels, NoBg, Background, Edit
<1>2. bgError' \in BOOLEAN
  BY DEF Forgotten
<1>3. DOMAIN memtab' \subseteq Nat /\ memtab' \in [DOMAIN memtab' -> SUBSET Entry]
  BY DEF Forgotten
<1>4. /\ lastSeq' \in Nat /\ mem' \in Nat /\ imm' \in Nat /\ nextFile' \in Nat /\ logNum' \in Nat
      /\ version' \in Levels /\ pending' \subseteq Nat /\ bg' \in Background
  BY <1>1 DEF Forgotten
<1>5. MemoryType'
  BY <1>2, <1>3, <1>4 DEF MemoryType
<1>6. <<>> \in Seq(Thread)
  OBVIOUS
<1> QED
  BY <1>1, <1>5, <1>6 DEF Forgotten

(* Calls, reads and the recovery keep their types. *)
LEMMA CallTypeKeeps ==
    ASSUME TypeOK, QueueInv, QueueInv', RestInv, NumberInv, EntryInv, RecoveryInv, GroupInv,
           [Next]_vars
    PROVE  CallType'
<1>0. queue' \in Seq(Thread) /\ op' \in [Thread -> Ops]
  BY DEF QueueInv
<1>1. left' \in [old : Nat, writes : Nat, gets : Nat, faults : Nat, downs : Nat]
  BY LeftType DEF TypeOK
<1> DEFINE OwnType == /\ phase \in {"closed", "recovering", "open", "closing"}
                      /\ group \in [size : Nat, entries : SUBSET Entry]
                      /\ reads \in [Reader -> Reads]
                      /\ recovery \in [logs : SUBSET Nat, tables : SUBSET Nat, log : Nat]
<1> SUFFICES OwnType'
  BY <1>0, <1>1 DEF CallType
<1>2. OwnType
  BY DEF TypeOK, CallType
<1>3. UNCHANGED <<phase, group, reads, recovery>> => OwnType'
  BY <1>2
<1>4. CASE UNCHANGED store
  BY <1>3, <1>4 DEF store
<1>5. ASSUME NEW t \in Thread, RoomFound(t)
      PROVE  OwnType'
  <2>1. op[t].pc = "room" /\ queue # <<>> /\ queue \in Seq(Thread)
    BY <1>5 DEF RoomFound, MayLoop, Front, QueueInv
  <2>2. GroupSize \in Nat
    <3>1. GroupSize \in 1..Len(queue) /\ Len(queue) \in Nat
      BY <2>1, GroupSizeProperties
    <3> QED
      BY <3>1
  <2>3. Batches(GroupSize) \in Nat
    BY <2>2, BatchesProperties
  <2>4. NewEntries(issued, lastSeq, Batches(GroupSize)) \subseteq Entry
    BY <2>3, NewEntriesProperties DEF TypeOK, MemoryType, DiskType
  <2> QED
    BY <1>2, <1>5, <2>2, <2>4 DEF RoomFound
<1>6. ASSUME NEW t \in Thread, Commit(t)
      PROVE  OwnType'
  <2>1. NoGroup \in [size : Nat, entries : SUBSET Entry]
    BY DEF NoGroup
  <2> QED
    BY <1>2, <1>6, <2>1 DEF Commit
<1>7. ASSUME NEW t \in Thread, RoomSwitched(t) \/ LogStep(t) \/ Sync(t) \/ InsertInto(t)
      PROVE  OwnType'
  BY <1>3, <1>7 DEF RoomSwitched, LogStep, AddRecord, AddRecordFails, Sync, InsertInto
<1>8. ASSUME NEW r \in Reader, Get(r)
      PROVE  OwnType'
  <2>0. Up
    BY <1>8 DEF Get, Up
  <2>1. Visible \subseteq Entry
    BY <2>0, VisibleType DEF TypeOK, NumberInv
  <2>2. Files(version) \subseteq Nat
    BY LevelTypes DEF TypeOK, MemoryType
  <2>3. [on |-> TRUE, snapshot |-> lastSeq, mem |-> mem, imm |-> imm,
         files |-> Files(version), sees |-> Visible] \in Reads
    BY <2>1, <2>2 DEF TypeOK, MemoryType, Reads
  <2> QED
    BY <1>2, <1>8, <2>3 DEF Get
<1>9. ASSUME NEW r \in Reader, GotValue(r)
      PROVE  OwnType'
  <2>1. NoRead \in Reads
    BY DEF NoRead, Reads
  <2> QED
    BY <1>2, <1>9, <2>1 DEF GotValue
<1>10. CASE BackgroundIdles \/ Flush \/ TableBuilt \/ PickCompaction
         \/ OpenCompactionOutputFile \/ FinishCompactionOutputFile \/ AppendEdit
         \/ MemTableInstalled \/ CompactionInstalled
         \/ TableFails \/ CompactionFails \/ EditNotLogged
  BY <1>3, <1>10
     DEF BackgroundIdles, Flush, CompactMemTable, CompactMemTableFirst, BuildTable, TableBuilt,
         PickCompaction, OpenCompactionOutputFile, FinishCompactionOutputFile, AppendEdit,
         MemTableInstalled, CompactionInstalled, TableFails, CompactionFails, EditNotLogged
<1>11. CASE Close
  BY <1>2, <1>11 DEF Close
<1>12. CASE Down \/ CrashMachine
  BY <1>2, <1>12, ForgottenTypes DEF Down, CrashMachine, Closed, CrashProcess, OpenFails
<1>13. CASE RecoverManifest
  <2>1. NeededLogs \subseteq Nat
    BY DEF NeededLogs, TypeOK, DiskType
  <2> QED
    BY <1>2, <1>13, <2>1 DEF RecoverManifest, NoRecovery
<1>14. CASE RecoverLogFile
  <2>0. PICK n \in recovery.logs, r \in Seq(Record), found \in SUBSET Entry : Replay(n, r, found)
    BY <1>14, ReplayFacts
  <2>1. recovery' = [recovery EXCEPT !.logs = recovery.logs \ {n},
                                !.tables = IF found = {} THEN recovery.tables
                                           ELSE recovery.tables \cup {nextFile}]
    BY <2>0 DEF Replay
  <2>2. nextFile \in Nat
    BY DEF TypeOK, MemoryType
  <2> QED
    BY <1>2, <1>14, <2>1, <2>2 DEF RecoverLogFile
<1>15. CASE OpenNewLog
  BY <1>2, <1>15 DEF OpenNewLog, TypeOK, MemoryType
<1>16. CASE OpenInstalls
  BY <1>2, <1>16 DEF OpenInstalls, NoRecovery
<1> QED
  BY <1>4, <1>5, <1>6, <1>7, <1>8, <1>9, <1>10, <1>11, <1>12, <1>13, <1>14, <1>15, <1>16,
     StepCases DEF Steps

LEMMA BackgroundTypes ==
    /\ NoBg \in Background
    /\ \A i, v, e : Schedule(i, v, e) \in {NoBg, [NoBg EXCEPT !.pc = "queued"]}
    /\ \A i, v, e : Schedule(i, v, e) \in Background
<1>1. NoBg \in Background /\ [NoBg EXCEPT !.pc = "queued"] \in Background
  BY DEF NoFiles, Levels, NoBg, Background, Edit
<1> QED
  BY <1>1 DEF Schedule

(* The end of a background call, or of the nested flush of a merge. *)
LEMMA DoneTypes ==
    ASSUME bg \in Background, NEW i, NEW v, NEW e,
           BackgroundDone(i, v, e) \/ MemTableDone(i, v, e)
    PROVE  bg' \in Background
<1>1. NoBg.edit \in Edit
  BY DEF NoFiles, Levels, NoBg, Edit
<1>2. [bg EXCEPT !.pc = "work", !.job = "merge", !.num = 0, !.edit = NoBg.edit] \in Background
  BY <1>1 DEF Background
<1> QED
  BY <1>2, BackgroundTypes DEF BackgroundDone, MemTableDone

LEMMA KeepMemtablesType ==
    ASSUME MemoryType, NEW D
    PROVE  /\ DOMAIN On(memtab, D \cap DOMAIN memtab) \subseteq Nat
           /\ On(memtab, D \cap DOMAIN memtab)
                    \in [DOMAIN On(memtab, D \cap DOMAIN memtab) -> SUBSET Entry]
BY DEF On, MemoryType

(* What is in memory keeps its type. *)
LEMMA MemoryTypeKeeps ==
    ASSUME TypeOK, QueueInv, RestInv, NumberInv, EntryInv, RecoveryInv, GroupInv, [Next]_vars
    PROVE  MemoryType'
<1>1. MemoryType /\ DiskType
  BY DEF TypeOK
<1> USE <1>1
<1>2. CASE UNCHANGED store
  BY <1>2 DEF store, memory, MemoryType
<1>3. ASSUME NEW t \in Thread, RoomSwitched(t)
      PROVE  MemoryType'
  <2>1. /\ DOMAIN Extend(memtab, nextFile, {}) \subseteq Nat
        /\ Extend(memtab, nextFile, {}) \in [DOMAIN Extend(memtab, nextFile, {}) -> SUBSET Entry]
    <3>1. DOMAIN memtab \subseteq Nat /\ memtab \in [DOMAIN memtab -> SUBSET Entry]
             /\ nextFile \in Nat /\ {} \in SUBSET Entry
      BY DEF MemoryType
    <3> QED
      BY <3>1, ExtendProperties, Zenon
  <2>2. bg' \in Background
    BY <1>3, BackgroundTypes DEF RoomSwitched, MemoryType
  <2> QED
    BY <1>3, <2>1, <2>2 DEF RoomSwitched, MemoryType
<1>4. ASSUME NEW t \in Thread, RoomFound(t) \/ LogStep(t) \/ Sync(t)
      PROVE  MemoryType'
  BY <1>4 DEF RoomFound, LogStep, AddRecord, AddRecordFails, Sync, memory, MemoryType
<1>5. ASSUME NEW t \in Thread, InsertInto(t)
      PROVE  MemoryType'
  <2>1. group.entries \subseteq Entry /\ mem \in DOMAIN memtab
    BY <1>5, InUp DEF TypeOK, CallType, InsertInto, NumberInv
  <2>2. memtab' = [memtab EXCEPT ![mem] = memtab[mem] \cup group.entries]
    BY <1>5 DEF InsertInto
  <2> QED
    BY <1>5, <2>1, <2>2 DEF InsertInto, MemoryType
<1>6. ASSUME NEW t \in Thread, Commit(t)
      PROVE  MemoryType'
  <2>1. Up /\ op[t].pc \in Serving
    BY <1>6, InUp DEF Commit, Serving
  <2>2. Cardinality(group.entries) \in Nat
    <3>1. group.size \in Nat /\ Batches(group.size) \in Nat
      BY BatchesProperties DEF TypeOK, CallType
    <3>2. issued - Batches(group.size) \in Nat
      BY <2>1, <3>1 DEF GroupInv, MemoryType, DiskType
    <3> QED
      BY <2>1, <3>1, <3>2, NewEntriesProperties DEF GroupInv, MemoryType
  <2>3. lastSeq' \in Nat
    <3>1. lastSeq' = lastSeq + Cardinality(group.entries)
      BY <1>6, Zenon DEF Commit
    <3> QED
      BY <2>2, <3>1 DEF MemoryType
  <2>4. bgError' \in BOOLEAN
    <3>1. bgError' = (bgError \/ op[t].status = "sync failed")
      BY <1>6, Zenon DEF Commit
    <3> QED
      BY <3>1, Zenon
  <2> QED
    BY <1>6, <2>3, <2>4 DEF Commit, MemoryType
<1>7. ASSUME NEW r \in Reader, Get(r)
      PROVE  MemoryType'
  BY <1>7 DEF Get, memory, MemoryType
<1>8. ASSUME NEW r \in Reader, GotValue(r)
      PROVE  MemoryType'
  BY <1>8, KeepMemtablesType DEF GotValue, MemoryType
<1>9. CASE BackgroundIdles
  BY <1>9, DoneTypes DEF BackgroundIdles, memory, MemoryType
<1>10. CASE Flush
  <2>1. PICK job \in {"mem", "nested"} : BuildTable(job)
    BY <1>10 DEF Flush, CompactMemTable, CompactMemTableFirst
  <2>2. nextFile \in Nat
    BY DEF MemoryType
  <2>3. bg' \in Background
    BY <2>1, <2>2 DEF BuildTable, MemoryType, Background
  <2> QED
    BY <2>1, <2>2, <2>3 DEF BuildTable, MemoryType
<1>11. CASE TableBuilt
  <2>1. PICK level \in MemLevels :
         bg' = [bg EXCEPT !.pc = "append",
                    !.edit = [log |-> mem, next |-> nextFile, last |-> lastSeq, del |-> NoFiles,
                              add |-> Placed(level, {bg.num} \cap DOMAIN tables)]]
    BY <1>11 DEF TableBuilt
  <2>2. Placed(level, {bg.num} \cap DOMAIN tables) \in Levels
    BY LevelTypes DEF DiskType
  <2>3. [log |-> mem, next |-> nextFile, last |-> lastSeq, del |-> NoFiles,
         add |-> Placed(level, {bg.num} \cap DOMAIN tables)] \in Edit
    BY <2>2, LevelTypes DEF Edit, MemoryType
  <2>4. bg' \in Background
    BY <2>1, <2>3 DEF MemoryType, Background
  <2> QED
    BY <1>11, <2>4 DEF TableBuilt, MemoryType
<1>12. CASE PickCompaction
  <2>1. [NoBg EXCEPT !.pc = "work", !.job = "merge", !.inputs = version] \in Background
    BY BackgroundTypes DEF MemoryType, Background
  <2> QED
    BY <1>12, <2>1 DEF PickCompaction, memory, MemoryType
<1>13. CASE OpenCompactionOutputFile
  <2>1. bg' \in Background
    BY <1>13 DEF OpenCompactionOutputFile, MemoryType, Background
  <2> QED
    BY <1>13, <2>1 DEF OpenCompactionOutputFile, MemoryType
<1>14. CASE FinishCompactionOutputFile
  <2>1. bg.out \in Nat /\ bg.inputs \in Levels
    BY DEF MemoryType, Background
  <2>2. [log |-> logNum, next |-> nextFile, last |-> lastSeq,
         del |-> bg.inputs, add |-> Placed(1, {bg.out})] \in Edit
    BY <2>1, LevelTypes DEF Edit, MemoryType
  <2>3. bg' \in Background
    BY <1>14, <2>2 DEF FinishCompactionOutputFile, MemoryType, Background
  <2> QED
    BY <1>14, <2>3 DEF FinishCompactionOutputFile, memory, MemoryType
<1>15. CASE AppendEdit
  <2>1. bg' \in Background
    BY <1>15 DEF AppendEdit, MemoryType, Background
  <2> QED
    BY <1>15, <2>1 DEF AppendEdit, memory, MemoryType
<1>16. CASE MemTableInstalled
  <2>1. version' \in Levels /\ logNum' \in Nat
    BY <1>16, EditTypes DEF MemTableInstalled, MemoryType, Edit
  <2>2. DOMAIN memtab' \subseteq Nat /\ memtab' \in [DOMAIN memtab' -> SUBSET Entry]
    BY <1>16, KeepMemtablesType DEF MemTableInstalled, KeepMemtables
  <2>3. bg' \in Background
    BY <1>16, DoneTypes DEF MemTableInstalled, MemoryType
  <2> QED
    BY <1>16, <2>1, <2>2, <2>3 DEF MemTableInstalled, MemoryType
<1>17. CASE CompactionInstalled
  <2>1. version' \in Levels /\ logNum' \in Nat
    BY <1>17, EditTypes DEF CompactionInstalled, MemoryType, Edit
  <2>2. bg' \in Background
    BY <1>17, DoneTypes DEF CompactionInstalled, MemoryType
  <2> QED
    BY <1>17, <2>1, <2>2 DEF CompactionInstalled, MemoryType
<1>18. CASE TableFails \/ CompactionFails \/ EditNotLogged
  <2>1. bg' \in Background
    BY <1>18, DoneTypes DEF TableFails, CompactionFails, EditNotLogged, MemoryType
  <2>2. bgError' = TRUE
    BY <1>18 DEF TableFails, CompactionFails, EditNotLogged
  <2>3. pending' \subseteq Nat
    BY <1>18 DEF TableFails, CompactionFails, EditNotLogged, MemoryType
  <2>4. UNCHANGED <<lastSeq, mem, imm, memtab, nextFile, logNum, version>>
    BY <1>18 DEF TableFails, CompactionFails, EditNotLogged
  <2>5. bgError' \in BOOLEAN
    BY <2>2
  <2> QED
    BY <2>1, <2>3, <2>4, <2>5 DEF MemoryType
<1>19. CASE Close
  BY <1>19 DEF Close, memory, MemoryType
<1>20. CASE Down \/ CrashMachine
  BY <1>20, ForgottenTypes DEF Down, CrashMachine, Closed, CrashProcess, OpenFails
<1>21. CASE RecoverManifest
  <2>1. Last(manifest) \in State
    BY LastManifest
  <2> QED
    BY <1>21, <2>1 DEF RecoverManifest, MemoryType, State, Higher
<1>22. CASE RecoverLogFile
  <2>1. PICK n \in recovery.logs, r \in Seq(Record), found \in SUBSET Entry : Replay(n, r, found)
    BY <1>22, ReplayFacts
  <2>2. nextFile' \in Nat /\ lastSeq' \in Nat
    BY <2>1 DEF Replay
  <2> QED
    BY <1>22, <2>2 DEF RecoverLogFile, MemoryType
<1>23. CASE OpenNewLog
  BY <1>23 DEF OpenNewLog, MemoryType
<1>24. CASE OpenInstalls
  <2>1. recovery.tables \subseteq Nat /\ recovery.log \in Nat
    BY DEF TypeOK, CallType
  <2>2. Merged(version, Placed(0, recovery.tables)) \in Levels
    BY <2>1, LevelTypes DEF MemoryType
  <2>3. version' \in Levels /\ logNum' \in Nat /\ mem' \in Nat
    BY <1>24, <2>1, <2>2 DEF OpenInstalls
  <2>4. DOMAIN memtab' \subseteq Nat /\ memtab' \in [DOMAIN memtab' -> SUBSET Entry]
    BY <1>24, <2>1 DEF OpenInstalls
  <2>5. bg' \in Background
    BY <1>24, BackgroundTypes DEF OpenInstalls
  <2> QED
    BY <1>24, <2>3, <2>4, <2>5 DEF OpenInstalls, MemoryType
<1> QED
  BY <1>2, <1>3, <1>4, <1>5, <1>6, <1>7, <1>8, <1>9, <1>10, <1>11, <1>12, <1>13, <1>14, <1>15,
     <1>16, <1>17, <1>18, <1>19, <1>20, <1>21, <1>22, <1>23, <1>24, StepCases DEF Steps

(***************************************************************************)
(* What a step of the log, of DeleteObsoleteFiles, of SyncManifest or of a *)
(* crash leaves on the disk.                                               *)
(***************************************************************************)
LEMMA LogStepFacts ==
    ASSUME TypeOK, RestInv, NumberInv, NEW t \in Thread, LogStep(t)
    PROVE  /\ Up /\ op[t].pc = "log" /\ mem \in DOMAIN logs /\ logs[mem] \in Seq(Record)
           /\ group.entries \subseteq Entry
           /\ DOMAIN logs' = DOMAIN logs
           /\ UNCHANGED <<phase, queue, group, memory, bgError, bg, reads, recovery, synced, tables,
                          manifest, promises>>
           /\ \/ logs' = logs /\ AddRecordFails(t)
              \/ \E ok \in BOOLEAN :
                    LET r == [entries |-> group.entries, ok |-> ok]
                    IN  /\ r \in Record
                        /\ logs' = [logs EXCEPT ![mem] = Append(logs[mem], r)]
                        /\ logs'[mem] = Append(logs[mem], r)
                        /\ \A n \in DOMAIN logs : n # mem => logs'[n] = logs[n]
                        /\ (AddRecord(t) /\ ok) \/ AddRecordFails(t)
<1>1. Up /\ op[t].pc = "log"
  BY InUp DEF LogStep, AddRecord, AddRecordFails
<1>2. mem \in DOMAIN logs /\ logs[mem] \in Seq(Record) /\ group.entries \subseteq Entry
  BY <1>1 DEF NumberInv, TypeOK, CallType, DiskType
<1>3. UNCHANGED <<phase, queue, group, memory, bgError, bg, reads, recovery, synced, tables,
                          manifest, promises>>
  BY DEF LogStep, AddRecord, AddRecordFails
<1>4. \/ logs' = logs /\ AddRecordFails(t)
      \/ \E ok \in BOOLEAN : LogTo(ok) /\ ((AddRecord(t) /\ ok) \/ AddRecordFails(t))
  BY DEF LogStep, AddRecord, AddRecordFails
<1>5. ASSUME NEW ok \in BOOLEAN, LogTo(ok), (AddRecord(t) /\ ok) \/ AddRecordFails(t)
      PROVE  LET r == [entries |-> group.entries, ok |-> ok]
             IN  /\ r \in Record
                 /\ DOMAIN logs' = DOMAIN logs
                 /\ logs' = [logs EXCEPT ![mem] = Append(logs[mem], r)]
                 /\ logs'[mem] = Append(logs[mem], r)
                 /\ \A n \in DOMAIN logs : n # mem => logs'[n] = logs[n]
                 /\ (AddRecord(t) /\ ok) \/ AddRecordFails(t)
  <2> DEFINE r == [entries |-> group.entries, ok |-> ok]
  <2>1. r \in Record
    BY <1>2 DEF Record
  <2>2. logs' = [logs EXCEPT ![mem] = Append(logs[mem], r)]
    BY <1>5 DEF LogTo
  <2>3. DOMAIN logs' = DOMAIN logs /\ logs'[mem] = Append(logs[mem], r)
           /\ \A n \in DOMAIN logs : n # mem => logs'[n] = logs[n]
    <3> HIDE DEF r
    <3> QED
      BY <2>2, <1>2
  <2> QED
    BY <1>5, <2>1, <2>2, <2>3
<1> QED
  BY <1>1, <1>2, <1>3, <1>4, <1>5

(* DeleteObsoleteFiles leaves the live tables and the logs from n on. *)
LEMMA DeleteFacts ==
    ASSUME DiskType, NEW v, NEW n, NEW outputs, NEW inputs,
           DeleteObsoleteFiles(v, n, outputs, inputs)
    PROVE  /\ DOMAIN logs' \subseteq DOMAIN logs /\ DOMAIN synced' = DOMAIN logs'
           /\ \A k \in DOMAIN logs' : logs'[k] = logs[k] /\ synced'[k] = synced[k]
           /\ \A k \in DOMAIN logs : k >= n => k \in DOMAIN logs'
           /\ DOMAIN tables' \subseteq DOMAIN tables
           /\ \A k \in DOMAIN tables' : tables'[k] = tables[k]
           /\ Live(v, outputs, inputs) \cap DOMAIN tables \subseteq DOMAIN tables'
           /\ ~ bgError => /\ DOMAIN logs' = {k \in DOMAIN logs : k >= n}
                           /\ DOMAIN tables' = Live(v, outputs, inputs) \cap DOMAIN tables
           /\ logs' \in [DOMAIN logs' -> Seq(Record)] /\ synced' \in [DOMAIN logs' -> Nat]
           /\ tables' \in [DOMAIN tables' -> SUBSET Entry]
<1>1. DOMAIN synced = DOMAIN logs /\ logs \in [DOMAIN logs -> Seq(Record)]
        /\ synced \in [DOMAIN logs -> Nat] /\ tables \in [DOMAIN tables -> SUBSET Entry]
  BY DEF DiskType
<1>2. CASE bgError
  BY <1>1, <1>2 DEF DeleteObsoleteFiles
<1>3. CASE ~ bgError
  <2>1. /\ logs' = On(logs, {k \in DOMAIN logs : k >= n})
        /\ synced' = On(synced, {k \in DOMAIN logs : k >= n})
        /\ tables' = On(tables, Live(v, outputs, inputs) \cap DOMAIN tables)
    BY <1>1, <1>3 DEF DeleteObsoleteFiles
  <2> QED
    BY <1>1, <1>3, <2>1 DEF On
<1> QED
  BY <1>2, <1>3

(* After a synced record, every state recovered is the last one. *)
LEMMA SyncManifestFacts ==
    ASSUME MemoryType, DiskType, SyncManifest
    PROVE  /\ manifest' \in Seq(State) /\ manifest' # <<>>
           /\ Len(manifest') \in {1, 2} /\ DOMAIN manifest' = 1..Len(manifest')
           /\ Last(manifest)' = Last(manifest)
           /\ \A i \in DOMAIN manifest' :
                /\ manifest'[i].log = Last(manifest).log /\ manifest'[i].next = Last(manifest).next
                /\ manifest'[i].last = Last(manifest).last /\ manifest'[i].files = Last(manifest).files
           /\ manifest'[1].log = Last(manifest).log
<1> DEFINE l == Last(manifest)
           b == [l EXCEPT !.ok = FALSE]
<1>1. l \in State
  BY LastManifest
<1> HIDE DEF l
<1>2. b \in State /\ b.log = l.log /\ b.next = l.next /\ b.last = l.last /\ b.files = l.files
  BY <1>1 DEF State
<1>3. manifest' = <<b, l>> \/ manifest' = <<l>>
  BY DEF SyncManifest, l
<1> HIDE DEF b
<1>4. CASE manifest' = <<b, l>>
  BY <1>1, <1>2, <1>4 DEF Last, l
<1>5. CASE manifest' = <<l>>
  BY <1>1, <1>5 DEF Last, l
<1> QED
  BY <1>3, <1>4, <1>5

(* CrashMachine leaves a prefix of each log and of the MANIFEST. *)
LEMMA CrashFacts ==
    ASSUME TypeOK, CrashMachine
    PROVE  \E upto \in [DOMAIN logs -> Nat], k \in 1..Len(manifest) :
             Keep(upto, k)
<1>1. PICK upto \in {f \in [DOMAIN logs -> 0..issued] : \A n \in DOMAIN logs : f[n] \in Kept(n)},
           k \in KeptOfManifest :
         /\ logs' = [n \in DOMAIN logs |-> SubSeq(logs[n], 1, upto[n])]
         /\ synced' = upto
         /\ manifest' = SubSeq(manifest, 1, k)
         /\ acked' = acked \cap Ids(Recovered(manifest[k], upto))
         /\ UNCHANGED promised
  BY DEF CrashMachine
<1>2. /\ logs \in [DOMAIN logs -> Seq(Record)] /\ synced \in [DOMAIN logs -> Nat] /\ issued \in Nat
      /\ manifest \in Seq(State)
  BY DEF TypeOK, DiskType
<1>3. upto \in [DOMAIN logs -> Nat] /\ \A n \in DOMAIN logs : upto[n] \in Kept(n)
  BY <1>1, <1>2
<1>4. \A n \in DOMAIN logs : synced[n] <= upto[n] /\ upto[n] <= Len(logs[n]) /\ upto[n] \in Nat
  <2> SUFFICES ASSUME NEW n \in DOMAIN logs
               PROVE  synced[n] <= upto[n] /\ upto[n] <= Len(logs[n]) /\ upto[n] \in Nat
    OBVIOUS
  <2>1. synced[n] \in Nat /\ Len(logs[n]) \in Nat /\ upto[n] \in synced[n]..Len(logs[n])
    BY <1>2, <1>3 DEF Kept
  <2> QED
    BY <2>1
<1>5. \A n \in DOMAIN logs : logs'[n] = SubSeq(logs[n], 1, upto[n]) /\ logs'[n] \in Seq(Record)
  BY <1>1, <1>2, <1>4, PrefixRecords
<1>6. DOMAIN logs' = DOMAIN logs /\ logs' \in [DOMAIN logs -> Seq(Record)]
  BY <1>1, <1>5
<1>7. k \in 1..Len(manifest)
  BY LastManifest DEF KeptOfManifest, TypeOK
<1>8. /\ manifest' \in Seq(State) /\ Len(manifest') = k
      /\ \A i \in 1..k : manifest'[i] = manifest[i]
  <2>1. k \in Nat /\ k >= 1 /\ k <= Len(manifest) /\ Len(manifest) \in Nat
    BY <1>7, LastManifest DEF TypeOK
  <2>2. 1 \in Int /\ k \in Int /\ \A i \in 1..k : manifest[i] \in State
    BY <2>1, <1>2
  <2>3. /\ SubSeq(manifest, 1, k) \in Seq(State)
        /\ Len(SubSeq(manifest, 1, k)) = IF 1 <= k THEN k - 1 + 1 ELSE 0
        /\ \A i \in 1..(k - 1 + 1) : SubSeq(manifest, 1, k)[i] = manifest[1 + i - 1]
    BY <2>2, SubSeqProperties
  <2> QED
    BY <1>1, <2>1, <2>3
<1>9. DOMAIN manifest' = 1..k /\ Last(manifest)' = manifest[k]
  BY <1>7, <1>8, LastManifest DEF Last, TypeOK
<1>10. UNCHANGED <<tables, issued>> /\ phase' = "closed" /\ Forgotten
  BY DEF CrashMachine
<1>11. synced' = upto /\ manifest' = SubSeq(manifest, 1, k) /\ UNCHANGED promised
           /\ acked' = acked \cap Ids(Recovered(manifest[k], upto))
  BY <1>1
<1> QED
  <2>1. Keep(upto, k)
    BY <1>4, <1>5, <1>6, <1>8, <1>9, <1>10, <1>11 DEF Keep
  <2> QED
    BY <2>1, <1>3, <1>7

(* The server's entries have the next numbers; at least one is a batch's. *)
LEMMA ServingFacts ==
    ASSUME TypeOK, GroupInv, RestInv, NEW t \in Thread, op[t].pc \in Serving
    PROVE  /\ Up /\ Batches(group.size) \in Nat /\ lastSeq \in Nat /\ issued \in Nat
           /\ lastSeq + Batches(group.size) <= issued
           /\ issued - Batches(group.size) \in Nat
           /\ Cardinality(group.entries) = Batches(group.size)
           /\ \A i \in Written : IdOf(i) \in Ids(group.entries) /\ IdOf(i) \in 1..issued
           /\ \A e \in group.entries : /\ e.seq \in Nat /\ lastSeq < e.seq
                                       /\ e.seq <= lastSeq + Batches(group.size)
<1>1. Up /\ op[t].pc # "idle"
  BY DEF RestInv, Serving, Idle
<1>2. group.size \in Nat /\ Batches(group.size) \in Nat /\ lastSeq \in Nat /\ issued \in Nat
  BY BatchesProperties DEF TypeOK, CallType, MemoryType, DiskType
<1>3. /\ lastSeq + Batches(group.size) <= issued
      /\ group.entries = NewEntries(issued - Batches(group.size), lastSeq, Batches(group.size))
  BY DEF GroupInv
<1>4. issued - Batches(group.size) \in Nat
  BY <1>2, <1>3
<1>5. /\ Cardinality(group.entries) = Batches(group.size)
      /\ \A e \in group.entries : e.seq \in (lastSeq + 1)..(lastSeq + Batches(group.size))
  BY <1>2, <1>3, <1>4, NewEntriesProperties
<1>6. \A e \in group.entries : /\ e.seq \in Nat /\ lastSeq < e.seq
                               /\ e.seq <= lastSeq + Batches(group.size)
  BY <1>2, <1>5
<1> QED
  BY <1>1, <1>2, <1>3, <1>4, <1>5, <1>6, IdOfIn

(* What is on the disk keeps its type: a log is no shorter than what is    *)
(* synced of it, and an answered entry was given out.                      *)
LEMMA DiskTypeKeeps ==
    ASSUME TypeOK, QueueInv, RestInv, NumberInv, EntryInv, RecoveryInv, GroupInv, FlushInv,
           [Next]_vars
    PROVE  DiskType'
<1>1. MemoryType /\ DiskType
  BY DEF TypeOK
<1> DEFINE LogsType == DOMAIN logs \subseteq Nat /\ logs \in [DOMAIN logs -> Seq(Record)]
           SyncedType == synced \in [DOMAIN logs -> Nat] /\ \A n \in DOMAIN logs : synced[n] <= Len(logs[n])
           TablesType == DOMAIN tables \subseteq Nat /\ tables \in [DOMAIN tables -> SUBSET Entry]
           ManifestType == manifest \in Seq(State) /\ manifest # <<>>
           CountType == issued \in Nat /\ acked \subseteq 1..issued /\ promised \subseteq 1..issued
           AllTypes == LogsType /\ SyncedType /\ TablesType /\ ManifestType /\ CountType
<1>2. AllTypes
  BY <1>1 DEF DiskType
<1>3. /\ UNCHANGED logs => LogsType'
      /\ UNCHANGED <<logs, synced>> => LogsType' /\ SyncedType'
      /\ UNCHANGED tables => TablesType'
      /\ UNCHANGED manifest => ManifestType'
      /\ UNCHANGED <<issued, acked, promised>> => CountType'
  BY <1>2
<1> SUFFICES AllTypes'
  BY DEF DiskType
<1> HIDE DEF LogsType, SyncedType, TablesType, ManifestType, CountType
<1>4. CASE UNCHANGED store
  BY <1>3, <1>4 DEF store, disk, promises
<1>5. ASSUME NEW n \in Nat, logs' = Extend(logs, n, <<>>), synced' = Extend(synced, n, 0)
      PROVE  LogsType' /\ SyncedType'
  <2>1. <<>> \in Seq(Record) /\ Len(<<>>) = 0 /\ DOMAIN synced = DOMAIN logs
    BY <1>2 DEF SyncedType
  <2>2. /\ DOMAIN logs' = DOMAIN logs \cup {n}
        /\ logs' \in [DOMAIN logs' -> Seq(Record)] /\ DOMAIN logs' \subseteq Nat
        /\ logs'[n] = <<>> /\ \A k \in DOMAIN logs : k # n => logs'[k] = logs[k]
    <3>1. DOMAIN logs \subseteq Nat /\ logs \in [DOMAIN logs -> Seq(Record)] /\ n \in Nat
      BY <1>2, <1>5 DEF LogsType
    <3>2. logs' = [k \in DOMAIN logs \cup {n} |-> IF k = n THEN <<>> ELSE logs[k]]
      BY <1>5 DEF Extend
    <3> QED
      BY <2>1, <3>1, <3>2
  <2>3. /\ synced' \in [DOMAIN logs' -> Nat] /\ synced'[n] = 0
        /\ \A k \in DOMAIN logs : k # n => synced'[k] = synced[k]
    BY <1>5, <1>2, <2>1, <2>2 DEF SyncedType, Extend
  <2> QED
    BY <1>2, <2>1, <2>2, <2>3 DEF LogsType, SyncedType
<1>6. ASSUME NEW t \in Thread, RoomSwitched(t)
      PROVE  AllTypes'
  <2>1. nextFile \in Nat
    BY <1>1 DEF MemoryType
  <2>2. LogsType' /\ SyncedType'
    BY <1>5, <1>6, <2>1 DEF RoomSwitched
  <2> QED
    BY <1>3, <1>6, <2>2 DEF RoomSwitched, promises
<1>7. ASSUME NEW t \in Thread, RoomFound(t)
      PROVE  AllTypes'
  <2>1. queue # <<>> /\ queue \in Seq(Thread)
    BY <1>7 DEF RoomFound, MayLoop, Front, QueueInv
  <2>2. GroupSize \in 1..Len(queue) /\ Len(queue) \in Nat
    BY <2>1, GroupSizeProperties
  <2>3. Batches(GroupSize) \in Nat
    BY <2>2, BatchesProperties
  <2>4. issued' = issued + Batches(GroupSize) /\ UNCHANGED <<acked, promised>>
    BY <1>7 DEF RoomFound
  <2>5. issued' \in Nat /\ 1..issued \subseteq 1..issued'
    BY <1>2, <2>3, <2>4 DEF CountType
  <2>6. CountType'
    BY <1>2, <2>4, <2>5 DEF CountType
  <2> QED
    BY <1>3, <1>7, <2>6 DEF RoomFound, disk
<1>8. ASSUME NEW t \in Thread, LogStep(t)
      PROVE  AllTypes'
  <2>1. UNCHANGED <<synced, tables, manifest, promises>> /\ mem \in DOMAIN logs
          /\ logs[mem] \in Seq(Record) /\ DOMAIN logs' = DOMAIN logs
    BY <1>8, LogStepFacts
  <2>2. CASE logs' = logs
    BY <1>3, <2>1, <2>2 DEF promises
  <2>3. ASSUME NEW r \in Record, logs' = [logs EXCEPT ![mem] = Append(logs[mem], r)]
        PROVE  LogsType' /\ SyncedType'
    <3>1. Append(logs[mem], r) \in Seq(Record) /\ Len(Append(logs[mem], r)) = Len(logs[mem]) + 1
             /\ Len(logs[mem]) \in Nat
      BY <2>1, AppendRecord
    <3>2. LogsType' /\ logs'[mem] = Append(logs[mem], r)
             /\ \A n \in DOMAIN logs : n # mem => logs'[n] = logs[n]
      BY <1>2, <2>1, <2>3, <3>1 DEF LogsType
    <3>3. \A n \in DOMAIN logs : synced'[n] <= Len(logs'[n])
      BY <1>2, <2>1, <3>1, <3>2 DEF SyncedType
    <3> QED
      BY <1>2, <2>1, <3>2, <3>3 DEF SyncedType
  <2> QED
    BY <1>3, <1>8, <2>1, <2>2, <2>3, LogStepFacts DEF promises
<1>9. ASSUME NEW t \in Thread, Sync(t)
      PROVE  AllTypes'
  <2>1. mem \in DOMAIN logs
    BY <1>9, InUp DEF Sync, NumberInv
  <2>2. Len(logs[mem]) \in Nat
    BY <1>2, <2>1 DEF LogsType
  <2>3. synced' = [synced EXCEPT ![mem] = Len(logs[mem])] /\ UNCHANGED logs
    BY <1>9 DEF Sync
  <2>4. SyncedType'
    BY <1>2, <2>1, <2>2, <2>3 DEF SyncedType
  <2> QED
    BY <1>3, <1>9, <2>4 DEF Sync, promises
<1>10. ASSUME NEW t \in Thread, InsertInto(t)
       PROVE  AllTypes'
  BY <1>3, <1>10 DEF InsertInto, disk, promises
<1>11. ASSUME NEW t \in Thread, Commit(t)
       PROVE  AllTypes'
  <2>1. op[t].pc \in Serving
    BY <1>11 DEF Commit, Front, Serving
  <2>2. \A i \in Written : IdOf(i) \in 1..issued
    BY <2>1, ServingFacts
  <2>3. /\ \/ UNCHANGED <<acked, promised>>
           \/ /\ acked' = acked \cup {IdOf(i) : i \in Written}
              /\ promised' = promised \cup {IdOf(i) : i \in {j \in Written : op[queue[j]].sync}}
        /\ UNCHANGED <<issued, disk>>
    BY <1>11, Zenon DEF Commit
  <2>4. CountType'
    BY <1>2, <2>2, <2>3 DEF CountType
  <2> QED
    BY <1>3, <2>3, <2>4 DEF disk
<1>12. ASSUME NEW r \in Reader, Get(r) \/ GotValue(r)
       PROVE  AllTypes'
  BY <1>3, <1>12 DEF Get, GotValue, disk, promises
<1>13. CASE BackgroundIdles \/ TableBuilt \/ PickCompaction \/ FinishCompactionOutputFile
              \/ CompactionFails \/ Close \/ Down \/ RecoverManifest
  BY <1>3, <1>13 DEF BackgroundIdles, TableBuilt, PickCompaction, FinishCompactionOutputFile,
                     CompactionFails, Close, Down, RecoverManifest, disk, promises
<1>14. CASE Flush
  <2>1. PICK job \in {"mem", "nested"} : BuildTable(job)
    BY <1>14 DEF Flush, CompactMemTable, CompactMemTableFirst
  <2>2. Up /\ imm # 0
    BY <1>14, InUp DEF Flush, CompactMemTable, CompactMemTableFirst
  <2>3. nextFile \in Nat /\ memtab[imm] \in SUBSET Entry
    BY <1>1, <2>2 DEF MemoryType, NumberInv
  <2>4. TablesType'
    <3>1. DOMAIN Extend(tables, nextFile, memtab[imm]) \subseteq Nat
            /\ Extend(tables, nextFile, memtab[imm])
                  \in [DOMAIN Extend(tables, nextFile, memtab[imm]) -> SUBSET Entry]
      BY <1>2, <2>3, ExtendProperties DEF TablesType
    <3> QED
      BY <1>2, <2>1, <3>1 DEF BuildTable, TablesType
  <2> QED
    BY <1>3, <2>1, <2>4 DEF BuildTable, promises
<1>15. CASE OpenCompactionOutputFile
  <2>1. nextFile \in Nat /\ Stored(Files(bg.inputs)) \in SUBSET Entry
    BY <1>1, StoredType DEF MemoryType
  <2>2. tables' = Extend(tables, nextFile, Stored(Files(bg.inputs)))
    BY <1>15 DEF OpenCompactionOutputFile
  <2>3. TablesType'
    BY <1>2, <2>1, <2>2, ExtendProperties DEF TablesType
  <2> QED
    BY <1>3, <1>15, <2>3 DEF OpenCompactionOutputFile, promises
<1>16. CASE TableFails
  <2>1. tables' = On(tables, DOMAIN tables \ {bg.num}) \/ UNCHANGED tables
    BY <1>16 DEF TableFails
  <2>2. TablesType'
    BY <1>2, <2>1 DEF TablesType, On
  <2> QED
    BY <1>3, <1>16, <2>2 DEF TableFails, promises
<1>17. CASE AppendEdit \/ EditNotLogged
  <2>1. ManifestType'
    <3>1. LoggedEdit \in Seq(State) /\ LoggedEdit # <<>>
      BY <1>1, EditTypes, LoggedEditProperties DEF LoggedEdit
    <3>2. Append(manifest, [Last(manifest) EXCEPT !.ok = FALSE]) \in Seq(State)
            /\ Append(manifest, [Last(manifest) EXCEPT !.ok = FALSE]) # <<>>
      BY <1>1, EditTypes, LoggedEditProperties
    <3>3. manifest' \in {manifest, LoggedEdit, Append(manifest, [Last(manifest) EXCEPT !.ok = FALSE])}
      BY <1>17 DEF AppendEdit, EditNotLogged
    <3> QED
      BY <1>2, <3>1, <3>2, <3>3 DEF ManifestType
  <2> QED
    BY <1>3, <1>17, <2>1 DEF AppendEdit, EditNotLogged, promises
<1>18. CASE MemTableInstalled \/ CompactionInstalled
  <2>1. SyncManifest /\ UNCHANGED promises
          /\ \E v, n, outputs, inputs : DeleteObsoleteFiles(v, n, outputs, inputs)
    BY <1>18 DEF MemTableInstalled, CompactionInstalled
  <2>2. ManifestType'
    BY <1>1, <2>1, SyncManifestFacts DEF ManifestType
  <2>3. LogsType' /\ SyncedType' /\ TablesType'
    BY <1>1, <1>2, <2>1, DeleteFacts DEF LogsType, SyncedType, TablesType
  <2> QED
    BY <1>3, <2>1, <2>2, <2>3 DEF promises
<1>19. CASE CrashMachine
  <2>0. PICK upto \in [DOMAIN logs -> Nat], k \in 1..Len(manifest) : Keep(upto, k)
    BY <1>19, CrashFacts
  <2>1. /\ \A n \in DOMAIN logs : synced[n] <= upto[n] /\ upto[n] <= Len(logs[n])
        /\ DOMAIN logs' = DOMAIN logs
        /\ \A n \in DOMAIN logs : logs'[n] = SubSeq(logs[n], 1, upto[n])
        /\ logs' \in [DOMAIN logs' -> Seq(Record)]
        /\ synced' = upto
        /\ manifest' \in Seq(State) /\ Len(manifest') = k
        /\ acked' = acked \cap Ids(Recovered(manifest[k], upto))
        /\ UNCHANGED <<promised, tables, issued>>
    BY <2>0 DEF Keep
  <2>2. \A n \in DOMAIN logs : Len(SubSeq(logs[n], 1, upto[n])) = upto[n]
    BY <1>2, <2>1, PrefixRecords DEF LogsType
  <2>3. LogsType' /\ SyncedType'
    BY <1>2, <2>1, <2>2 DEF LogsType, SyncedType
  <2>4. ManifestType'
    <3>1. k # 0 /\ Len(<<>>) = 0
      BY LastManifest, <1>1
    <3> QED
      BY <2>1, <3>1 DEF ManifestType
  <2>5. CountType'
    BY <1>2, <2>1 DEF CountType
  <2> QED
    BY <1>3, <2>1, <2>3, <2>4, <2>5
<1>20. CASE RecoverLogFile
  <2>0. PICK n \in recovery.logs, r \in Seq(Record), found \in SUBSET Entry : Replay(n, r, found)
    BY <1>20, ReplayFacts
  <2>1. /\ n \in DOMAIN logs
        /\ tables' = IF found = {} THEN tables ELSE Extend(tables, nextFile, found)
        /\ logs' = [logs EXCEPT ![n] = r]
        /\ synced' = [synced EXCEPT ![n] = Lower(synced[n], Len(r))]
        /\ acked' = acked \ (Ids(Logged(logs[n])) \ Ids(found))
        /\ promised' = promised \ (Ids(Logged(logs[n])) \ Ids(found))
    BY <2>0 DEF Replay
  <2>2. nextFile \in Nat
    BY <1>1 DEF MemoryType
  <2>3. TablesType'
    BY <1>2, <2>1, <2>2, ExtendProperties DEF TablesType
  <2>4. LogsType'
    BY <1>2, <2>1 DEF LogsType
  <2>5. SyncedType'
    <3>1. Len(r) \in Nat /\ synced[n] \in Nat
      BY <1>2, <2>1 DEF SyncedType
    <3>2. Lower(synced[n], Len(r)) \in Nat /\ Lower(synced[n], Len(r)) <= Len(r)
      BY <3>1 DEF Lower
    <3>3. DOMAIN logs' = DOMAIN logs /\ \A m \in DOMAIN logs : logs'[m] = IF m = n THEN r ELSE logs[m]
      BY <2>1
    <3>4. synced' \in [DOMAIN logs -> Nat]
             /\ \A m \in DOMAIN logs : synced'[m] = IF m = n THEN Lower(synced[n], Len(r)) ELSE synced[m]
      BY <1>2, <2>1, <3>2 DEF SyncedType
    <3> QED
      BY <1>2, <3>2, <3>3, <3>4 DEF SyncedType
  <2>6. CountType'
    BY <1>2, <1>20, <2>1 DEF CountType, RecoverLogFile
  <2> QED
    BY <1>3, <1>20, <2>3, <2>4, <2>5, <2>6 DEF RecoverLogFile
<1>21. CASE OpenNewLog
  <2>1. nextFile \in Nat
    BY <1>1 DEF MemoryType
  <2>2. LogsType' /\ SyncedType'
    BY <1>5, <1>21, <2>1 DEF OpenNewLog
  <2> QED
    BY <1>3, <1>21, <2>2 DEF OpenNewLog, promises
<1>22. CASE OpenInstalls
  <2> DEFINE v == Merged(version, Placed(0, recovery.tables))
             m == [log |-> recovery.log, next |-> nextFile, last |-> lastSeq, files |-> v, ok |-> TRUE]
  <2>1. manifest' = <<m>> /\ DeleteObsoleteFiles(v, recovery.log, {}, NoFiles) /\ UNCHANGED promises
    BY <1>22 DEF OpenInstalls
  <2>2. LogsType' /\ SyncedType' /\ TablesType'
    BY <1>1, <1>2, <2>1, DeleteFacts DEF LogsType, SyncedType, TablesType
  <2>3. v \in Levels
    BY <1>1, LevelTypes DEF TypeOK, CallType, MemoryType
  <2>4. m \in State
    BY <1>1, <2>3 DEF State, TypeOK, CallType, MemoryType
  <2>5. ManifestType'
    BY <2>1, <2>4 DEF ManifestType
  <2> QED
    BY <1>3, <2>1, <2>2, <2>5 DEF promises
<1> QED
  BY <1>4, <1>6, <1>7, <1>8, <1>9, <1>10, <1>11, <1>12, <1>13, <1>14, <1>15, <1>16, <1>17, <1>18,
     <1>19, <1>20, <1>21, <1>22, StepCases DEF Steps

(***************************************************************************)
(* Files that come and go, and the entries of a set of tables.             *)
(***************************************************************************)
LEMMA ExtendGrows ==
    ASSUME NEW f, NEW n, n \notin DOMAIN f, NEW v
    PROVE  Grown(f, Extend(f, n, v), n, v)
BY DEF Extend, Grown

LEMMA OnShrinks ==
    ASSUME NEW f, NEW D, D \subseteq DOMAIN f
    PROVE  Shrunk(f, On(f, D)) /\ DOMAIN On(f, D) = D
BY DEF On, Shrunk

(* The entries of a set of tables, when tables come or go. *)
LEMMA StoredIn ==
    ASSUME NEW F, NEW e
    PROVE  e \in Stored(F) <=> \E n \in F : n \in DOMAIN tables /\ e \in tables[n]
BY DEF Stored

LEMMA StoredUnion ==
    /\ \A F, G : Stored(F \cup G) = Stored(F) \cup Stored(G)
    /\ \A F, G : F \subseteq G => Stored(F) \subseteq Stored(G)
    /\ \A n : n \in DOMAIN tables => Stored({n}) = tables[n]
    /\ \A n : n \notin DOMAIN tables => Stored({n}) = {}
    /\ \A F : Stored(F \cap DOMAIN tables) = Stored(F)
    /\ Stored({}) = {}
<1>1. \A F, G : Stored(F \cup G) = Stored(F) \cup Stored(G)
  <2> TAKE F, G
  <2>1. \A e : e \in Stored(F \cup G) <=> e \in Stored(F) \/ e \in Stored(G)
    BY StoredIn
  <2> QED
    BY <2>1
<1>2. \A F, G : F \subseteq G => Stored(F) \subseteq Stored(G)
  BY StoredIn
<1>3. \A n : /\ n \in DOMAIN tables => Stored({n}) = tables[n]
             /\ n \notin DOMAIN tables => Stored({n}) = {}
  <2> TAKE n
  <2>1. \A e : e \in Stored({n}) <=> n \in DOMAIN tables /\ e \in tables[n]
    BY StoredIn
  <2> QED
    BY <2>1
<1>4. \A F : Stored(F \cap DOMAIN tables) = Stored(F)
  <2> TAKE F
  <2>1. \A e : e \in Stored(F \cap DOMAIN tables) <=> e \in Stored(F)
    BY StoredIn
  <2> QED
    BY <2>1
<1>5. Stored({}) = {}
  BY DEF Stored
<1> QED
  BY <1>1, <1>2, <1>3, <1>4, <1>5

LEMMA StoredSame ==
    ASSUME NEW F, \A n \in F : /\ n \in DOMAIN tables <=> n \in DOMAIN tables'
                               /\ n \in DOMAIN tables => tables'[n] = tables[n]
    PROVE  Stored(F)' = Stored(F)
<1>1. \A e : e \in UNION {tables'[n] : n \in F \cap DOMAIN tables'}
                <=> e \in UNION {tables[n] : n \in F \cap DOMAIN tables}
  OBVIOUS
<1> QED
  BY <1>1 DEF Stored

LEMMA StoredGrown ==
    ASSUME NEW n, NEW v, Grown(tables, tables', n, v)
    PROVE  /\ \A F : n \notin F => Stored(F)' = Stored(F)
           /\ \A F : Stored(F) \subseteq Stored(F)'
           /\ Stored({n})' = v
<1>1. \A F : n \notin F => Stored(F)' = Stored(F)
  BY StoredSame DEF Grown
<1>2. \A F : Stored(F) \subseteq Stored(F)'
  BY DEF Stored, Grown
<1>3. Stored({n})' = v
  BY DEF Stored, Grown
<1> QED
  BY <1>1, <1>2, <1>3

LEMMA StoredShrunk ==
    ASSUME Shrunk(tables, tables')
    PROVE  /\ \A F : F \cap DOMAIN tables \subseteq DOMAIN tables' => Stored(F)' = Stored(F)
           /\ \A F : Stored(F)' \subseteq Stored(F)
<1>1. \A F : F \cap DOMAIN tables \subseteq DOMAIN tables' => Stored(F)' = Stored(F)
  BY StoredSame DEF Shrunk
<1>2. \A F : Stored(F)' \subseteq Stored(F)
  BY DEF Stored, Shrunk
<1> QED
  BY <1>1, <1>2

LEMMA StoredUnchanged == UNCHANGED tables => \A F : Stored(F)' = Stored(F)
BY StoredSame

LEMMA FilesOf ==
    /\ Files(NoFiles) = {}
    /\ \A v, w : Files(Merged(v, w)) = Files(v) \cup Files(w)
    /\ \A v, w : Files(Without(v, w)) \cup Files(w) = Files(v) \cup Files(w)
    /\ \A v, w : Files(Without(v, w)) \subseteq Files(v)
    /\ \A v \in Levels : Without(v, NoFiles) = v
<1>1. \A v \in Levels : Without(v, NoFiles) = v
  BY DEF Levels, Without, NoFiles
<1> QED
  BY <1>1 DEF Files, NoFiles, Merged, Without

LEMMA EditedFiles ==
    /\ \A v : Files(Edited(v)) = Files(Without(v, bg.edit.del)) \cup Files(bg.edit.add)
    /\ \A v : bg.edit.del = NoFiles /\ v \in Levels
                => Files(Edited(v)) = Files(v) \cup Files(bg.edit.add)
BY FilesOf DEF Edited

(***************************************************************************)
(* The invariant used: what each kind of step does in a state that has it. *)
(***************************************************************************)
LEMMA Parts ==
    ASSUME StoreInv
    PROVE  /\ TypeOK /\ CallType /\ MemoryType /\ DiskType /\ QueueInv /\ RestInv /\ EntryInv /\ LogInv
           /\ ManifestInv /\ NumberInv /\ LoggedInv /\ SeqInv /\ VersionInv /\ FlushInv /\ MergeInv
           /\ EditInv /\ GroupInv /\ StageInv /\ ReadInv /\ RecoveryInv /\ AckInv
BY DEF StoreInv, TypeOK

(* The numbers of the files, and the types of what they name. *)
LEMMA Numbers ==
    ASSUME StoreInv
    PROVE  /\ nextFile \in Nat /\ logNum \in Nat /\ mem \in Nat /\ imm \in Nat /\ lastSeq \in Nat
           /\ issued \in Nat
           /\ DOMAIN tables \subseteq Nat /\ DOMAIN logs \subseteq Nat /\ DOMAIN memtab \subseteq Nat
           /\ Files(version) \subseteq Nat /\ DOMAIN synced = DOMAIN logs
           /\ \A n \in DOMAIN logs : logs[n] \in Seq(Record) /\ synced[n] \in Nat
                                     /\ synced[n] <= Len(logs[n]) /\ DOMAIN logs[n] = 1..Len(logs[n])
           /\ \A n \in DOMAIN tables : tables[n] \subseteq Entry
           /\ \A n \in DOMAIN memtab : memtab[n] \subseteq Entry
           /\ Up => mem < nextFile /\ mem \in DOMAIN memtab /\ mem \in DOMAIN logs
<1>1. Files(version) \subseteq Nat
  BY Parts, LevelTypes DEF MemoryType
<1>2. \A n \in DOMAIN logs : logs[n] \in Seq(Record) /\ synced[n] \in Nat
                                     /\ synced[n] <= Len(logs[n]) /\ DOMAIN logs[n] = 1..Len(logs[n])
  BY Parts DEF DiskType
<1> QED
  BY <1>1, <1>2, Parts DEF MemoryType, DiskType, NumberInv

(* Only the front writer serves a group. *)
LEMMA FrontAlone ==
    ASSUME QueueInv, NEW t \in Thread, op[t].pc \in Leading
    PROVE  /\ queue # <<>> /\ queue[1] = t
           /\ \A u \in Thread : u # t => op[u].pc \notin Leading /\ op[u].pc \notin Serving
BY DEF QueueInv, OneLogger, Serving, Leading

(* A writer that makes room has no group, nor has anybody else. *)
LEMMA NoServer ==
    ASSUME StoreInv, NEW t \in Thread, op[t].pc \in Leading \ Serving
    PROVE  group = NoGroup /\ \A u \in Thread : op[u].pc \notin Serving
<1>1. \A u \in Thread : op[u].pc \notin Serving
  BY Parts, FrontAlone
<1> QED
  BY <1>1, Parts DEF GroupInv

(* MakeRoomForWrite switches to a memtable and a log of a new number. *)
LEMMA SwitchFacts ==
    ASSUME StoreInv, NEW t \in Thread, RoomSwitched(t)
    PROVE  /\ Up /\ phase' = phase /\ ~ bgError /\ imm = 0 /\ imm' = mem /\ mem' = nextFile
           /\ nextFile' = nextFile + 1 /\ mem > 0
           /\ Grown(memtab, memtab', nextFile, {})
           /\ Grown(logs, logs', nextFile, <<>>) /\ Grown(synced, synced', nextFile, 0)
           /\ op[t].pc = "room" /\ op' = [op EXCEPT ![t].force = FALSE]
           /\ group = NoGroup /\ \A u \in Thread : op[u].pc \notin Serving
           /\ bg.job \notin {"mem", "nested"}
           /\ bg' = bg \/ (bg.pc = "off" /\ bg' \in {NoBg, [NoBg EXCEPT !.pc = "queued"]})
           /\ UNCHANGED <<phase, queue, group, lastSeq, logNum, version, pending, bgError, reads,
                          recovery, tables, manifest, promises>>
<1>1. Front(t, "room") /\ imm = 0 /\ ~ bgError
  BY DEF RoomSwitched, MaySwitch, MayLoop
<1>2. Up /\ op[t].pc = "room"
  BY <1>1, Parts, InUp
<1>3. group = NoGroup /\ \A u \in Thread : op[u].pc \notin Serving
  BY <1>2, NoServer DEF Leading, Serving
<1>4. nextFile \notin DOMAIN memtab /\ nextFile \notin DOMAIN logs /\ nextFile \notin DOMAIN synced
         /\ mem > 0
  BY <1>2, Parts, Numbers DEF NumberInv
<1>5. /\ Grown(memtab, memtab', nextFile, {})
      /\ Grown(logs, logs', nextFile, <<>>) /\ Grown(synced, synced', nextFile, 0)
  BY <1>4, ExtendGrows DEF RoomSwitched
<1>6. bg.job \notin {"mem", "nested"}
  BY <1>1, Parts DEF FlushInv
<1>7. bg' = bg \/ (bg.pc = "off" /\ bg' \in {NoBg, [NoBg EXCEPT !.pc = "queued"]})
  BY BackgroundTypes DEF RoomSwitched
<1> QED
  BY <1>1, <1>2, <1>3, <1>4, <1>5, <1>6, <1>7 DEF RoomSwitched

(* WriteLevel0Table writes the immutable memtable into a new table. *)
LEMMA FlushFacts ==
    ASSUME StoreInv, Flush
    PROVE  /\ Up /\ phase = "open" /\ imm # 0 /\ imm \in DOMAIN memtab /\ nextFile' = nextFile + 1
           /\ nextFile \notin DOMAIN tables /\ nextFile \notin Files(version)
           /\ \E job \in {"mem", "nested"} :
                /\ bg' = [bg EXCEPT !.pc = "build", !.job = job, !.num = nextFile]
                /\ job = "mem" => bg.pc = "queued"
                /\ job = "nested" => bg.pc = "work" /\ bg.job = "merge"
           /\ IF memtab[imm] = {} THEN tables' = tables ELSE Grown(tables, tables', nextFile, memtab[imm])
           /\ pending' = pending \cup {nextFile}
           /\ UNCHANGED <<phase, queue, op, group, lastSeq, mem, imm, memtab, logNum, version, bgError,
                          reads, recovery, logs, synced, manifest, promises>>
<1>1. PICK job \in {"mem", "nested"} :
          /\ BuildTable(job) /\ imm # 0
          /\ job = "mem" => bg.pc = "queued" /\ ~ NothingToDo
          /\ job = "nested" => bg.pc = "work" /\ bg.job = "merge" /\ phase = "open"
  BY DEF Flush, CompactMemTable, CompactMemTableFirst
<1>2. Up
  BY <1>1, Parts, InUp
<1>3. phase = "open"
  BY <1>1, <1>2 DEF NothingToDo, Up
<1>4. nextFile \notin DOMAIN tables /\ nextFile \notin Files(version) /\ imm \in DOMAIN memtab
  BY <1>1, <1>2, Parts, Numbers DEF NumberInv
<1>5. IF memtab[imm] = {} THEN tables' = tables ELSE Grown(tables, tables', nextFile, memtab[imm])
  BY <1>1, <1>4, ExtendGrows DEF BuildTable
<1> QED
  BY <1>1, <1>2, <1>3, <1>4, <1>5 DEF BuildTable

(* A merge writes the entries of its inputs into a new table. *)
LEMMA OutputFacts ==
    ASSUME StoreInv, OpenCompactionOutputFile
    PROVE  /\ Up /\ phase = "open" /\ bg.pc = "work" /\ bg.job = "merge" /\ bg.out = 0
           /\ nextFile \notin DOMAIN tables /\ nextFile \notin Files(version) /\ nextFile' = nextFile + 1
           /\ nextFile # 0
           /\ bg' = [bg EXCEPT !.out = nextFile] /\ pending' = pending \cup {nextFile}
           /\ Grown(tables, tables', nextFile, Stored(Files(bg.inputs)))
           /\ UNCHANGED <<phase, queue, op, group, lastSeq, mem, imm, memtab, logNum, version, bgError,
                          reads, recovery, logs, synced, manifest, promises>>
<1>1. bg.pc = "work" /\ bg.job = "merge"
  BY DEF OpenCompactionOutputFile, Working
<1>2. Up
  BY <1>1, Parts, InUp
<1>3. nextFile \notin DOMAIN tables /\ nextFile \notin Files(version) /\ nextFile # 0
  BY <1>2, Parts, Numbers DEF NumberInv
<1>4. Grown(tables, tables', nextFile, Stored(Files(bg.inputs)))
  BY <1>3, ExtendGrows DEF OpenCompactionOutputFile
<1> QED
  BY <1>1, <1>2, <1>3, <1>4 DEF OpenCompactionOutputFile

(* A read ends: only the memtables that nobody refers to go. *)
LEMMA GotFacts ==
    ASSUME StoreInv, NEW r \in Reader, GotValue(r)
    PROVE  /\ Up /\ reads[r].on /\ reads' = [reads EXCEPT ![r] = NoRead]
           /\ Shrunk(memtab, memtab')
           /\ mem \in DOMAIN memtab' /\ (imm # 0 => imm \in DOMAIN memtab')
           /\ \A q \in Reader \ {r} : \A n \in {reads[q].mem, reads[q].imm} :
                    n \in DOMAIN memtab => n \in DOMAIN memtab'
           /\ UNCHANGED <<phase, queue, op, group, lastSeq, mem, imm, nextFile, logNum, version,
                          pending, bgError, bg, recovery, disk, promises>>
<1>1. Up
  BY Parts, InUp DEF GotValue
<1> DEFINE D == ({mem, imm} \cup UNION {{reads[q].mem, reads[q].imm} : q \in Reader \ {r}})
                  \cap DOMAIN memtab
<1>2. Shrunk(memtab, memtab') /\ DOMAIN memtab' = D
  BY OnShrinks DEF GotValue
<1>3. mem \in D /\ (imm # 0 => imm \in D)
  BY <1>1, Parts DEF NumberInv
<1>4. \A q \in Reader \ {r} : \A n \in {reads[q].mem, reads[q].imm} : n \in DOMAIN memtab => n \in D
  OBVIOUS
<1> QED
  BY <1>1, <1>2, <1>3, <1>4 DEF GotValue

(* A table that could not be written is in no version. *)
LEMMA TableFailsFacts ==
    ASSUME StoreInv, TableFails
    PROVE  /\ Up /\ bg.pc = "build" /\ bg.job \in {"mem", "nested"} /\ bgError'
           /\ Shrunk(tables, tables') /\ DOMAIN tables \ {bg.num} \subseteq DOMAIN tables'
           /\ pending' = pending \ {bg.num} /\ MemTableDone(imm, version, TRUE)
           /\ UNCHANGED <<phase, queue, group, lastSeq, mem, imm, memtab, nextFile, logNum, version,
                          reads, recovery, logs, synced, manifest, promises>>
<1>1. bg.pc = "build" /\ bg.job \in {"mem", "nested"}
  BY Parts DEF TableFails, EditInv
<1>2. Up
  BY <1>1, Parts, InUp
<1>3. Shrunk(tables, tables') /\ DOMAIN tables \ {bg.num} \subseteq DOMAIN tables'
  <2>1. CASE tables' = On(tables, DOMAIN tables \ {bg.num})
    BY <2>1, OnShrinks
  <2>2. CASE tables' = tables
    BY <2>2 DEF Shrunk
  <2> QED
    BY <2>1, <2>2 DEF TableFails
<1>4. bgError'
  BY Zenon DEF TableFails
<1> QED
  BY <1>1, <1>2, <1>3, <1>4 DEF TableFails

(* CompactMemTable's end in the middle of a merge, or the end of a call. *)
LEMMA DoneFacts ==
    ASSUME NEW i, NEW v, NEW e, BackgroundDone(i, v, e) \/ MemTableDone(i, v, e)
    PROVE  /\ \/ bg.job = "nested" /\ bg' = [bg EXCEPT !.pc = "work", !.job = "merge", !.num = 0,
                                                      !.edit = NoBg.edit]
              \/ bg' \in {NoBg, [NoBg EXCEPT !.pc = "queued"]}
           /\ op' = Signal(op, i, e)
BY BackgroundTypes DEF BackgroundDone, MemTableDone

(* A version is installed: every table and log that it needs is kept. *)
LEMMA InstallFacts ==
    ASSUME StoreInv, Install
    PROVE  /\ Up /\ bg.pc = "sync" /\ bg.job \in {"mem", "nested", "merge"}
           /\ MemTableInstalled <=> bg.job \in {"mem", "nested"}
           /\ bg.job \in {"mem", "nested"} => /\ imm # 0 /\ imm' = 0 /\ memtab' = KeepMemtables(mem, 0)
                                              /\ pending' = pending
                                              /\ MemTableDone(0, Edited(version), bgError)
           /\ bg.job = "merge" => /\ imm' = imm /\ memtab' = memtab /\ pending' = pending \ {bg.out}
                                  /\ BackgroundDone(imm, Edited(version), bgError)
           /\ version' = Edited(version) /\ logNum' = bg.edit.log /\ logNum' = Last(manifest).log
           /\ manifest' \in Seq(State) /\ manifest' # <<>>
           /\ DOMAIN manifest' = 1..Len(manifest') /\ Len(manifest') \in {1, 2}
           /\ Last(manifest)' = Last(manifest)
           /\ \A i \in DOMAIN manifest' :
                /\ manifest'[i].log = Last(manifest).log /\ manifest'[i].next = Last(manifest).next
                /\ manifest'[i].last = Last(manifest).last /\ manifest'[i].files = Last(manifest).files
           /\ Shrunk(tables, tables') /\ Shrunk(logs, logs') /\ Shrunk(synced, synced')
           /\ DOMAIN synced' = DOMAIN logs'
           /\ \A k \in DOMAIN logs : k >= logNum' => k \in DOMAIN logs'
           /\ \A k \in Files(version') \cup Files(Last(manifest).files) : k \in DOMAIN tables => k \in DOMAIN tables'
           /\ bg.job = "nested" => \A k \in Files(bg.inputs) \cup pending :
                    k \in DOMAIN tables => k \in DOMAIN tables'
           /\ \A r \in Reader : \A k \in reads[r].files : k \in DOMAIN tables => k \in DOMAIN tables'
           /\ Shrunk(memtab, memtab') /\ mem \in DOMAIN memtab' /\ (imm' # 0 => imm' \in DOMAIN memtab')
           /\ \A q \in Reader : \A n \in {reads[q].mem, reads[q].imm} :
                    n \in DOMAIN memtab => n \in DOMAIN memtab'
           /\ UNCHANGED <<phase, queue, group, lastSeq, mem, nextFile, bgError, reads, recovery, promises>>
<1>1. bg.pc = "sync" /\ bg.job \in {"mem", "nested", "merge"}
  BY Parts DEF Install, MemTableInstalled, CompactionInstalled, EditInv, MemoryType, Background
<1>2. Up
  BY <1>1, Parts, InUp
<1>3. MemTableInstalled <=> bg.job \in {"mem", "nested"}
  BY <1>1 DEF Install, MemTableInstalled, CompactionInstalled
<1>4. /\ SyncManifest /\ version' = Edited(version) /\ logNum' = bg.edit.log
      /\ UNCHANGED <<phase, queue, group, lastSeq, mem, nextFile, bgError, reads, recovery, promises>>
  BY Zenon DEF Install, MemTableInstalled, CompactionInstalled
<1>5. logNum' = Last(manifest).log
  BY <1>1, <1>4, Parts DEF EditInv
<1>6. PICK outputs, inputs : /\ DeleteObsoleteFiles(Edited(version), bg.edit.log, outputs, inputs)
                             /\ bg.job = "nested" => outputs = pending /\ inputs = bg.inputs
  BY <1>1 DEF Install, MemTableInstalled, CompactionInstalled
<1>7. /\ DOMAIN logs' \subseteq DOMAIN logs /\ DOMAIN synced' = DOMAIN logs'
      /\ \A k \in DOMAIN logs' : logs'[k] = logs[k] /\ synced'[k] = synced[k]
      /\ \A k \in DOMAIN logs : k >= logNum' => k \in DOMAIN logs'
      /\ DOMAIN tables' \subseteq DOMAIN tables
      /\ \A k \in DOMAIN tables' : tables'[k] = tables[k]
      /\ Live(Edited(version), outputs, inputs) \cap DOMAIN tables \subseteq DOMAIN tables'
      /\ bgError => tables' = tables
  <2>1. bgError => tables' = tables
    BY <1>6 DEF DeleteObsoleteFiles
  <2> QED
    BY <1>4, <1>6, <2>1, DeleteFacts, Parts
<1>8. Shrunk(tables, tables') /\ Shrunk(logs, logs') /\ Shrunk(synced, synced')
  BY <1>7, Numbers DEF Shrunk
<1>9. \A k \in Files(version') \cup Files(Last(manifest).files) : k \in DOMAIN tables => k \in DOMAIN tables'
  <2>1. \A k \in Files(Edited(version)) : k \in DOMAIN tables => k \in DOMAIN tables'
    BY <1>7 DEF Live
  <2>2. ~ bgError => Last(manifest).files = Edited(version)
    BY <1>1, <1>2, Parts DEF VersionInv
  <2> QED
    BY <1>4, <1>7, <2>1, <2>2
<1>10. /\ bg.job = "nested" => \A k \in Files(bg.inputs) \cup pending :
                    k \in DOMAIN tables => k \in DOMAIN tables'
       /\ \A r \in Reader : \A k \in reads[r].files : k \in DOMAIN tables => k \in DOMAIN tables'
  BY <1>6, <1>7 DEF Live
<1>11. /\ bg.job \in {"mem", "nested"} => /\ imm # 0 /\ imm' = 0 /\ memtab' = KeepMemtables(mem, 0)
                                              /\ pending' = pending
                                              /\ MemTableDone(0, Edited(version), bgError)
       /\ bg.job = "merge" => /\ imm' = imm /\ memtab' = memtab /\ pending' = pending \ {bg.out}
                                  /\ BackgroundDone(imm, Edited(version), bgError)
  BY <1>3, Parts DEF Install, MemTableInstalled, CompactionInstalled, FlushInv
<1>12. /\ Shrunk(memtab, memtab') /\ mem \in DOMAIN memtab' /\ (imm' # 0 => imm' \in DOMAIN memtab')
       /\ \A q \in Reader : \A n \in {reads[q].mem, reads[q].imm} :
                    n \in DOMAIN memtab => n \in DOMAIN memtab'
  <2>1. CASE bg.job = "merge"
    BY <2>1, <1>2, <1>11, Parts DEF NumberInv, Shrunk
  <2>2. CASE bg.job \in {"mem", "nested"}
    <3>1. Shrunk(memtab, memtab') /\ DOMAIN memtab' = Referred(mem, 0) \cap DOMAIN memtab
      BY <2>2, <1>11, OnShrinks DEF KeepMemtables
    <3>2. \A q \in Reader : {reads[q].mem, reads[q].imm} \subseteq Referred(mem, 0)
      BY DEF Referred
    <3>3. mem \in Referred(mem, 0) /\ mem \in DOMAIN memtab
      BY <1>2, Parts DEF Referred, NumberInv
    <3> QED
      BY <2>2, <1>11, <3>1, <3>2, <3>3
  <2> QED
    BY <1>1, <2>1, <2>2
<1>13. /\ manifest' \in Seq(State) /\ manifest' # <<>>
       /\ DOMAIN manifest' = 1..Len(manifest') /\ Len(manifest') \in {1, 2}
       /\ Last(manifest)' = Last(manifest)
       /\ \A i \in DOMAIN manifest' :
                /\ manifest'[i].log = Last(manifest).log /\ manifest'[i].next = Last(manifest).next
                /\ manifest'[i].last = Last(manifest).last /\ manifest'[i].files = Last(manifest).files
  BY <1>4, Parts, SyncManifestFacts
<1> QED
  BY <1>1, <1>2, <1>3, <1>4, <1>5, <1>7, <1>8, <1>9, <1>10, <1>11, <1>12, <1>13

(* What the new version holds: the old tables, and a flushed memtable. *)
LEMMA InstalledHolds ==
    ASSUME StoreInv, bg.pc = "sync"
    PROVE  /\ bg.job = "merge" => Stored(Files(Edited(version))) = Stored(Files(version))
           /\ bg.job \in {"mem", "nested"} =>
                    /\ Stored(Files(Edited(version))) = Stored(Files(version)) \cup memtab[imm]
                    /\ Stored(Files(version)) \cup memtab[imm] \subseteq Stored(Files(Last(manifest).files))
<1>1. version \in Levels /\ bg.job \in {"mem", "nested", "merge"} /\ Up
  BY Parts, InUp DEF MemoryType, Background, EditInv
<1>2. CASE bg.job = "merge"
  <2>1. /\ bg.inputs.l0 \subseteq version.l0 /\ bg.inputs.l1 \subseteq version.l1
        /\ bg.out \in DOMAIN tables /\ tables[bg.out] = Stored(Files(bg.inputs))
        /\ bg.edit.del = bg.inputs /\ bg.edit.add = Placed(1, {bg.out})
    BY <1>2, Parts DEF MergeInv
  <2>2. Files(Edited(version)) = Files(Without(version, bg.inputs)) \cup {bg.out}
    BY <2>1, EditedFiles, LevelTypes DEF Placed, Files
  <2>3. Stored(Files(Edited(version))) = Stored(Files(Without(version, bg.inputs))) \cup Stored(Files(bg.inputs))
    <3>1. Stored({bg.out}) = Stored(Files(bg.inputs))
      BY <2>1, StoredUnion
    <3>2. Stored(Files(Without(version, bg.inputs)) \cup {bg.out})
            = Stored(Files(Without(version, bg.inputs))) \cup Stored({bg.out})
      BY StoredUnion
    <3> QED
      BY <2>2, <3>1, <3>2
  <2>4. Files(Without(version, bg.inputs)) \cup Files(bg.inputs) = Files(version)
    BY <2>1, FilesOf DEF Files
  <2> QED
    BY <1>2, <2>3, <2>4, StoredUnion
<1>3. CASE bg.job \in {"mem", "nested"}
  <2>1. /\ bg.edit.del = NoFiles /\ Files(bg.edit.add) = {bg.num} \cap DOMAIN tables
        /\ Stored({bg.num}) = memtab[imm]
    BY <1>3, Parts DEF FlushInv
  <2>2. Files(Edited(version)) = Files(version) \cup ({bg.num} \cap DOMAIN tables)
    BY <1>1, <2>1, EditedFiles
  <2>3. Stored({bg.num} \cap DOMAIN tables) = memtab[imm]
    BY <2>1, StoredUnion
  <2>4. Stored(Files(Edited(version))) = Stored(Files(version)) \cup memtab[imm]
    BY <2>2, <2>3, StoredUnion
  <2>5. Stored(Files(version)) \subseteq Stored(Files(Last(manifest).files))
    BY <1>1, Parts, LastManifest DEF VersionInv
  <2>6. Files(bg.edit.add) \subseteq Files(Last(manifest).files)
    BY Parts DEF EditInv
  <2>7. memtab[imm] \subseteq Stored(Files(Last(manifest).files))
    BY <2>1, <2>3, <2>6, StoredUnion
  <2> QED
    BY <1>3, <2>4, <2>5, <2>7
<1> QED
  BY <1>1, <1>2, <1>3

(* The states the MANIFEST may recover: their tables are there. *)
LEMMA ManifestFacts ==
    ASSUME StoreInv
    PROVE  /\ Len(manifest) \in Nat /\ Len(manifest) >= 1 /\ DOMAIN manifest = 1..Len(manifest)
           /\ Last(manifest) = manifest[Len(manifest)]
           /\ 1 \in DOMAIN manifest /\ Len(manifest) \in DOMAIN manifest
           /\ \A i \in DOMAIN manifest :
                /\ manifest[i].log \in Nat /\ manifest[i].next \in Nat /\ manifest[i].last \in Nat
                /\ manifest[i].files \in Levels /\ manifest[i].ok \in BOOLEAN
                /\ Files(manifest[i].files) \subseteq DOMAIN tables
                /\ Files(manifest[i].files) \subseteq Nat
                /\ \A e \in Stored(Files(manifest[i].files)) : e.seq <= manifest[i].last
                /\ manifest[i].last <= issued
                /\ \A j \in i..Len(manifest) : \A n \in Files(manifest[i].files) : n < manifest[j].next
<1>1. /\ Len(manifest) \in Nat /\ Len(manifest) >= 1 /\ DOMAIN manifest = 1..Len(manifest)
      /\ Last(manifest) = manifest[Len(manifest)]
      /\ 1 \in DOMAIN manifest /\ Len(manifest) \in DOMAIN manifest
      /\ \A i \in DOMAIN manifest : manifest[i] \in State
  BY Parts, LastManifest
<1>2. \A i \in DOMAIN manifest :
                /\ manifest[i].log \in Nat /\ manifest[i].next \in Nat /\ manifest[i].last \in Nat
                /\ manifest[i].files \in Levels /\ manifest[i].ok \in BOOLEAN
  BY <1>1 DEF State
<1>3. \A i \in DOMAIN manifest : Files(manifest[i].files) \subseteq Nat
  BY <1>2, LevelTypes
<1> QED
  BY <1>1, <1>2, <1>3, Parts DEF ManifestInv

(* The next number is none of a table that a state of the MANIFEST has. *)
LEMMA NextUnused ==
    ASSUME StoreInv, phase = "recovering"
    PROVE  /\ \A i \in DOMAIN manifest : \A n \in Files(manifest[i].files) : n < nextFile
           /\ \A n \in Files(version) \cup recovery.tables : n < nextFile
           /\ \A i \in DOMAIN manifest : nextFile \notin Files(manifest[i].files)
           /\ nextFile \notin Files(version) \cup recovery.tables
           /\ \A n \in NeededLogs : n \in recovery.logs \/ n < nextFile
           /\ version = Last(manifest).files /\ logNum = Last(manifest).log
<1>1. /\ version = Last(manifest).files /\ logNum = Last(manifest).log
      /\ Last(manifest).next <= nextFile /\ \A n \in recovery.tables : n < nextFile
      /\ recovery.tables \subseteq Nat
      /\ \A n \in NeededLogs : n \in recovery.logs \/ n < nextFile
  BY Parts DEF RecoveryInv, CallType
<1>2. \A i \in DOMAIN manifest : \A n \in Files(manifest[i].files) : n < nextFile /\ n \in Nat
  <2> SUFFICES ASSUME NEW i \in DOMAIN manifest, NEW n \in Files(manifest[i].files)
               PROVE  n < nextFile /\ n \in Nat
    OBVIOUS
  <2>1. Len(manifest) \in i..Len(manifest) /\ n \in Nat
    BY ManifestFacts
  <2>2. n < Last(manifest).next
    BY <2>1, ManifestFacts
  <2>3. Last(manifest).next \in Nat /\ nextFile \in Nat
    BY ManifestFacts, Numbers
  <2> QED
    BY <1>1, <2>1, <2>2, <2>3
<1>3. \A n \in Files(version) : n < nextFile /\ n \in Nat
  BY <1>1, <1>2, ManifestFacts
<1>4. nextFile \in Nat
  BY Numbers
<1> QED
  BY <1>1, <1>2, <1>3, <1>4

(* A step of RecoverLogFile makes a table that nothing has. *)
LEMMA ReplayHolds ==
    ASSUME StoreInv, RecoverLogFile, NEW n, NEW r, NEW found, Replay(n, r, found)
    PROVE  /\ \A F : nextFile \notin F => Stored(F)' = Stored(F)
           /\ found # {} => nextFile \in DOMAIN tables' /\ \A k : k = nextFile => Stored({k})' = found
           /\ Stored(recovery.tables)' = Stored(recovery.tables) \cup found
           /\ DOMAIN tables \subseteq DOMAIN tables'
           /\ recovery.tables \subseteq recovery'.tables
           /\ recovery'.logs = recovery.logs \ {n} /\ recovery'.log = recovery.log
<1>1. /\ tables' = IF found = {} THEN tables ELSE Extend(tables, nextFile, found)
      /\ recovery' = [recovery EXCEPT !.logs = recovery.logs \ {n},
                                !.tables = IF found = {} THEN recovery.tables
                                           ELSE recovery.tables \cup {nextFile}]
  BY DEF Replay
<1>2. phase = "recovering" /\ recovery \in [logs : SUBSET Nat, tables : SUBSET Nat, log : Nat]
  BY Parts DEF RecoverLogFile, CallType
<1>3. /\ DOMAIN tables \subseteq DOMAIN tables'
      /\ \A k \in DOMAIN tables : k # nextFile => tables'[k] = tables[k]
      /\ \A k \in DOMAIN tables' : k # nextFile => k \in DOMAIN tables
      /\ found # {} => nextFile \in DOMAIN tables' /\ tables'[nextFile] = found
  BY <1>1 DEF Extend
<1>4. \A F : nextFile \notin F => Stored(F)' = Stored(F)
  <2> TAKE F
  <2> HAVE nextFile \notin F
  <2>1. \A k \in F : /\ k \in DOMAIN tables <=> k \in DOMAIN tables'
                     /\ k \in DOMAIN tables => tables'[k] = tables[k]
    BY <1>3
  <2> QED
    BY <2>1, StoredSame
<1>5. found # {} => \A k : k = nextFile => Stored({k})' = found
  BY <1>3 DEF Stored
<1>6. recovery'.logs = recovery.logs \ {n} /\ recovery'.log = recovery.log
        /\ recovery'.tables = IF found = {} THEN recovery.tables ELSE recovery.tables \cup {nextFile}
  BY <1>1, <1>2
<1>7. nextFile \notin recovery.tables
  BY <1>2, NextUnused
<1>9. Stored(recovery.tables)' = Stored(recovery.tables) \cup found
  <2>1. \A e : e \in Stored(recovery.tables)' <=>
                    \E k \in recovery'.tables : k \in DOMAIN tables' /\ e \in tables'[k]
    BY DEF Stored
  <2>2. \A e : e \in Stored(recovery.tables) <=>
                    \E k \in recovery.tables : k \in DOMAIN tables /\ e \in tables[k]
    BY StoredIn
  <2>3. CASE found = {}
    BY <2>1, <2>2, <2>3, <1>3, <1>6, <1>7
  <2>4. CASE found # {}
    BY <2>1, <2>2, <2>4, <1>3, <1>6, <1>7
  <2> QED
    BY <2>3, <2>4
<1> QED
  BY <1>3, <1>4, <1>5, <1>6, <1>9

(* DB::Open makes its log with a number that no log has. *)
LEMMA NewLogFacts ==
    ASSUME StoreInv, OpenNewLog
    PROVE  /\ phase = "recovering" /\ recovery.logs = {} /\ recovery.log = 0 /\ nextFile > 0
           /\ recovery' = [recovery EXCEPT !.log = nextFile] /\ nextFile' = nextFile + 1
           /\ recovery'.logs = recovery.logs /\ recovery'.tables = recovery.tables
           /\ recovery'.log = nextFile
           /\ \A n \in DOMAIN logs : n < nextFile
           /\ Grown(logs, logs', nextFile, <<>>) /\ Grown(synced, synced', nextFile, 0)
           /\ UNCHANGED <<phase, queue, op, group, lastSeq, mem, imm, memtab, logNum, version, pending,
                          bgError, bg, reads, tables, manifest, promises>>
<1>1. /\ phase = "recovering" /\ recovery.logs = {} /\ recovery.log = 0
      /\ recovery' = [recovery EXCEPT !.log = nextFile] /\ nextFile' = nextFile + 1
      /\ logs' = Extend(logs, nextFile, <<>>) /\ synced' = Extend(synced, nextFile, 0)
      /\ UNCHANGED <<phase, queue, op, group, lastSeq, mem, imm, memtab, logNum, version, pending,
                     bgError, bg, reads, tables, manifest, promises>>
  BY DEF OpenNewLog
<1>2. \A n \in DOMAIN logs : n < nextFile
  <2> SUFFICES ASSUME NEW n \in DOMAIN logs
               PROVE  n < nextFile
    OBVIOUS
  <2>1. n \in Nat /\ nextFile \in Nat /\ logNum \in Nat
    BY Numbers
  <2>2. logNum = Last(manifest).log /\ logNum < nextFile
    BY <1>1, Parts DEF RecoveryInv
  <2>3. n \in NeededLogs \/ n < logNum
    BY <2>1, <2>2 DEF NeededLogs
  <2>4. n \in NeededLogs => n < nextFile
    BY <1>1, NextUnused
  <2> QED
    BY <2>1, <2>2, <2>3, <2>4
<1>3. nextFile \notin DOMAIN logs /\ nextFile \notin DOMAIN synced
  BY <1>2, Numbers
<1>4. Grown(logs, logs', nextFile, <<>>) /\ Grown(synced, synced', nextFile, 0)
  BY <1>1, <1>3, ExtendGrows
<1>5. recovery \in [logs : SUBSET Nat, tables : SUBSET Nat, log : Nat]
  BY Parts DEF CallType
<1>6. nextFile > 0
  BY <1>1, Parts, Numbers DEF RecoveryInv
<1>7. recovery'.logs = recovery.logs /\ recovery'.tables = recovery.tables /\ recovery'.log = nextFile
  BY <1>1, <1>5
<1> QED
  BY <1>1, <1>2, <1>4, <1>6, <1>7

(* A database opens: its version has the tables that replaced the logs. *)
LEMMA OpenFacts ==
    ASSUME StoreInv, OpenInstalls
    PROVE  /\ phase = "recovering" /\ phase' = "open" /\ recovery.log \in Nat \ {0}
           /\ recovery.log < nextFile /\ recovery' = NoRecovery
           /\ queue = <<>> /\ op = [t \in Thread |-> Idle] /\ group = NoGroup /\ imm = 0
           /\ pending = {} /\ bgError = FALSE /\ reads = [r \in Reader |-> NoRead]
           /\ mem' = recovery.log /\ memtab' = [n \in {recovery.log} |-> {}]
           /\ logNum' = recovery.log
           /\ version' \in Levels /\ Files(version') = Files(version) \cup recovery.tables
           /\ manifest' = <<[log |-> recovery.log, next |-> nextFile, last |-> lastSeq,
                             files |-> version', ok |-> TRUE]>>
           /\ Shrunk(tables, tables') /\ Shrunk(logs, logs') /\ Shrunk(synced, synced')
           /\ DOMAIN logs' = {recovery.log} /\ DOMAIN synced' = DOMAIN logs' /\ logs'[recovery.log] = <<>>
           /\ DOMAIN tables' = Files(version') /\ Files(version') \subseteq DOMAIN tables
           /\ \A n \in DOMAIN tables' : n < nextFile
           /\ \A e \in Stored(Files(version')) : e.seq <= lastSeq
           /\ bg' \in {NoBg, [NoBg EXCEPT !.pc = "queued"]}
           /\ UNCHANGED <<queue, op, group, lastSeq, imm, nextFile, pending, bgError, reads, promises>>
<1> DEFINE v == Merged(version, Placed(0, recovery.tables))
<1>1. /\ phase = "recovering" /\ recovery.log # 0 /\ phase' = "open"
      /\ manifest' = <<[log |-> recovery.log, next |-> nextFile, last |-> lastSeq, files |-> v,
                        ok |-> TRUE]>>
      /\ version' = v /\ logNum' = recovery.log
      /\ mem' = recovery.log /\ memtab' = [n \in {recovery.log} |-> {}]
      /\ recovery' = NoRecovery
      /\ DeleteObsoleteFiles(v, recovery.log, {}, NoFiles)
      /\ bg' = Schedule(0, v, FALSE)
      /\ UNCHANGED <<queue, op, group, lastSeq, imm, nextFile, pending, bgError, reads, promises>>
  BY DEF OpenInstalls
<1>2. recovery.tables \subseteq Nat /\ recovery.log \in Nat
  BY Parts DEF CallType
<1>3. v \in Levels /\ Files(v) = Files(version) \cup recovery.tables
  BY <1>2, LevelTypes, FilesOf, Parts DEF MemoryType
<1> HIDE DEF v
<1>4. /\ queue = <<>> /\ op = [t \in Thread |-> Idle] /\ group = NoGroup /\ imm = 0
      /\ pending = {} /\ bgError = FALSE /\ reads = [r \in Reader |-> NoRead]
  BY <1>1, Parts DEF RestInv, Up
<1>5. /\ recovery.log < nextFile /\ recovery.log \in DOMAIN logs /\ logs[recovery.log] = <<>>
      /\ \A n \in DOMAIN logs : n <= recovery.log
      /\ recovery.tables \subseteq DOMAIN tables
      /\ \A e \in Stored(Files(version) \cup recovery.tables) : e.seq <= lastSeq
  BY <1>1, Parts DEF RecoveryInv
<1>6. Files(v) \subseteq DOMAIN tables
  BY <1>1, <1>3, <1>5, NextUnused, ManifestFacts
<1>7. Live(v, {}, NoFiles) = Files(v)
  BY <1>4, FilesOf DEF Live, NoRead
<1>8. /\ DOMAIN logs' = {k \in DOMAIN logs : k >= recovery.log} /\ DOMAIN synced' = DOMAIN logs'
      /\ \A k \in DOMAIN logs' : logs'[k] = logs[k] /\ synced'[k] = synced[k]
      /\ DOMAIN tables' = Live(v, {}, NoFiles) \cap DOMAIN tables
      /\ \A k \in DOMAIN tables' : tables'[k] = tables[k]
  BY <1>1, <1>4, DeleteFacts, Parts
<1>9. DOMAIN logs' = {recovery.log}
  <2>1. \A k \in DOMAIN logs : k >= recovery.log <=> k = recovery.log
    BY <1>2, <1>5, Numbers
  <2> QED
    BY <2>1, <1>5, <1>8
<1>10. Shrunk(tables, tables') /\ Shrunk(logs, logs') /\ Shrunk(synced, synced')
  BY <1>8, Numbers DEF Shrunk
<1>11. \A n \in DOMAIN tables' : n < nextFile
  BY <1>1, <1>3, <1>7, <1>8, NextUnused
<1>12. bg' \in {NoBg, [NoBg EXCEPT !.pc = "queued"]}
  BY <1>1, BackgroundTypes
<1>13. DOMAIN tables' = Files(v) /\ logs'[recovery.log] = <<>>
  BY <1>5, <1>6, <1>7, <1>8, <1>9
<1>14. version' = v
  BY <1>1
<1> QED
  BY <1>1, <1>2, <1>3, <1>4, <1>5, <1>6, <1>8, <1>9, <1>10, <1>11, <1>12, <1>13, <1>14

(***************************************************************************)
(* Who is in a database that is not open; then the entries, wherever they  *)
(* are.                                                                    *)
(***************************************************************************)
(* Nobody calls a database that is not open. *)
LEMMA CallsInUp ==
    ASSUME RestInv, [Next]_vars, UNCHANGED store, ~ Up
    PROVE  UNCHANGED <<queue, op>>
<1>1. CASE UNCHANGED vars
  BY <1>1 DEF vars
<1>2. ASSUME NEW t \in Thread, \/ \E sync, null \in BOOLEAN : Write(t, sync, null)
                               \/ WriteStep(t) \/ WriteFault(t)
      PROVE  FALSE
  <2>1. \A pc : ~ Front(t, pc)
    BY InUp
  <2> QED
    BY <1>2, <2>1 DEF Up, Write, WriteStep, WriteFault, RoomRefused, RoomDelayed, RoomWoken, RoomWaits,
              RoomSwitched, RoomFound, AddRecord, Sync, InsertInto, Commit, AddRecordFails,
              RoomForced, RoomNoFile, SyncFails, MaySwitch, MayLoop
<1>3. ASSUME NEW r \in Reader, Get(r) \/ GotValue(r)
      PROVE  UNCHANGED <<queue, op>>
  BY <1>3 DEF Get, GotValue
<1>4. ~ BackgroundStep /\ ~ BackgroundFault
  <2>1. bg.pc = "off"
    BY InUp
  <2> QED
    BY <2>1 DEF BackgroundStep, BackgroundFault, BackgroundIdles, CompactMemTable, CompactMemTableFirst,
                TableBuilt, PickCompaction, OpenCompactionOutputFile, FinishCompactionOutputFile,
                AppendEdit, MemTableInstalled, CompactionInstalled, TableFails, CompactionFails,
                EditNotLogged, Working
<1>5. CASE Close \/ Closed \/ CrashProcess \/ CrashMachine \/ OpenFails
  <2>1. Close => UNCHANGED <<queue, op>>
    BY DEF Close
  <2>2. Forgotten => UNCHANGED <<queue, op>>
    BY DEF Forgotten, RestInv
  <2> QED
    BY <1>5, <2>1, <2>2 DEF Closed, CrashProcess, CrashMachine, OpenFails
<1>6. CASE OpenStep
  BY <1>6 DEF OpenStep, RecoverManifest, OpenRefused, RecoverLogFile, OpenNewLog, OpenInstalls, vars
<1> QED
  BY <1>1, <1>2, <1>3, <1>4, <1>5, <1>6 DEF Next

(* A database that is closed, or crashed, has nobody in it. *)
LEMMA RestKeeps ==
    ASSUME StoreInv, [Next]_vars
    PROVE  RestInv'
<1>1. RestInv /\ CallType
  BY Parts
<1> DEFINE quiet == <<queue, op, group, mem, imm, memtab, pending, bgError, bg, reads>>
<1>2. UNCHANGED <<phase, recovery>> /\ (~ Up => UNCHANGED quiet) => RestInv'
  BY <1>1 DEF RestInv, Up
<1>3. UNCHANGED recovery /\ Up /\ Up' => RestInv'
  BY <1>1 DEF RestInv, Up
<1>4. UNCHANGED recovery /\ UNCHANGED phase /\ Up => RestInv'
  BY <1>3 DEF Up
<1>5. CASE UNCHANGED store
  BY <1>2, <1>5, CallsInUp, <1>1 DEF store, memory
<1>6. ASSUME NEW t \in Thread, RoomSwitched(t) \/ RoomFound(t) \/ LogStep(t)
                         \/ Sync(t) \/ InsertInto(t) \/ Commit(t)
      PROVE  RestInv'
  <2>1. \A pc : Front(t, pc) => Up
    BY <1>1, InUp
  <2>2. Up
    BY <1>6, <2>1 DEF RoomSwitched, RoomFound, LogStep, AddRecord, AddRecordFails, Sync, InsertInto,
                 Commit, MaySwitch, MayLoop
  <2>3. UNCHANGED <<phase, recovery>>
    BY <1>6 DEF RoomSwitched, RoomFound, LogStep, AddRecord, AddRecordFails, Sync, InsertInto, Commit
  <2> QED
    BY <2>2, <2>3, <1>4
<1>7. ASSUME NEW r \in Reader, Get(r) \/ GotValue(r)
      PROVE  RestInv'
  BY <1>1, <1>4, <1>7, InUp DEF Get, GotValue, Up
<1>8. CASE BackgroundIdles \/ Flush \/ TableBuilt \/ PickCompaction \/ OpenCompactionOutputFile
             \/ FinishCompactionOutputFile \/ AppendEdit \/ MemTableInstalled \/ CompactionInstalled
             \/ TableFails \/ CompactionFails \/ EditNotLogged
  <2>1. bg.pc # "off"
    BY <1>8 DEF BackgroundIdles, Flush, CompactMemTable, CompactMemTableFirst,
                TableBuilt, PickCompaction, OpenCompactionOutputFile, FinishCompactionOutputFile,
                AppendEdit, MemTableInstalled, CompactionInstalled, TableFails, CompactionFails,
                EditNotLogged, Working
  <2>2. Up
    BY <1>1, <2>1, InUp
  <2>3. UNCHANGED <<phase, recovery>>
    BY <1>8 DEF BackgroundIdles, Flush, CompactMemTable, CompactMemTableFirst, BuildTable,
                TableBuilt, PickCompaction, OpenCompactionOutputFile, FinishCompactionOutputFile,
                AppendEdit, MemTableInstalled, CompactionInstalled, TableFails, CompactionFails,
                EditNotLogged, Working
  <2> QED
    BY <2>2, <2>3, <1>4
<1>9. CASE Close
  BY <1>3, <1>9 DEF Close, Up
<1>10. CASE Down \/ CrashMachine
  BY <1>10 DEF Down, Closed, CrashProcess, OpenFails, CrashMachine, Forgotten, RestInv, Up, NoRecovery
<1>11. CASE RecoverManifest
  BY <1>1, <1>11 DEF RecoverManifest, RestInv, Up
<1>12. CASE RecoverLogFile \/ OpenNewLog
  BY <1>1, <1>12 DEF RecoverLogFile, OpenNewLog, RestInv, Up
<1>13. CASE OpenInstalls
  BY <1>13, OpenFacts DEF RestInv, Up
<1> QED
  BY <1>5, <1>6, <1>7, <1>8, <1>9, <1>10, <1>11, <1>12, <1>13, StepCases DEF Steps

LEMMA KnownMember ==
    ASSUME NEW e
    PROVE  e \in Known <=> \/ \E n \in DOMAIN logs : e \in Logged(logs[n])
                           \/ \E n \in DOMAIN tables : e \in tables[n]
                           \/ \E n \in DOMAIN memtab : e \in memtab[n]
                           \/ e \in group.entries
<1> DEFINE L == UNION {Logged(logs[n]) : n \in DOMAIN logs}
           T == UNION {tables[n] : n \in DOMAIN tables}
           M == UNION {memtab[n] : n \in DOMAIN memtab}
<1>1. e \in L <=> \E n \in DOMAIN logs : e \in Logged(logs[n])
  OBVIOUS
<1>2. e \in T <=> \E n \in DOMAIN tables : e \in tables[n]
  OBVIOUS
<1>3. e \in M <=> \E n \in DOMAIN memtab : e \in memtab[n]
  OBVIOUS
<1>4. Known = L \cup T \cup M \cup group.entries
  BY DEF Known
<1> HIDE DEF L, T, M
<1> QED
  BY <1>1, <1>2, <1>3, <1>4

(* Where entries are. *)
LEMMA KnownIn ==
    /\ \A n \in DOMAIN logs : Logged(logs[n]) \subseteq Known
    /\ \A n \in DOMAIN tables : tables[n] \subseteq Known
    /\ \A n \in DOMAIN memtab : memtab[n] \subseteq Known
    /\ group.entries \subseteq Known
    /\ \A F : Stored(F) \subseteq Known
<1>1. /\ \A n \in DOMAIN logs : Logged(logs[n]) \subseteq Known
      /\ \A n \in DOMAIN memtab : memtab[n] \subseteq Known
      /\ group.entries \subseteq Known
      /\ \A n \in DOMAIN tables : tables[n] \subseteq Known
  BY KnownMember
<1>2. \A F : Stored(F) \subseteq Known
  BY <1>1, StoredIn
<1> QED
  BY <1>1, <1>2

LEMMA KnownBy ==
    ASSUME NEW K,
           \A n \in DOMAIN logs' : Logged(logs'[n]) \subseteq K,
           \A n \in DOMAIN tables' : tables'[n] \subseteq K,
           \A n \in DOMAIN memtab' : memtab'[n] \subseteq K,
           group'.entries \subseteq K
    PROVE  Known' \subseteq K
<1> DEFINE L == UNION {Logged(logs'[n]) : n \in DOMAIN logs'}
           T == UNION {tables'[n] : n \in DOMAIN tables'}
           M == UNION {memtab'[n] : n \in DOMAIN memtab'}
<1>1. L \subseteq K /\ T \subseteq K /\ M \subseteq K
  OBVIOUS
<1>2. Known' = L \cup T \cup M \cup group'.entries
  BY DEF Known
<1> HIDE DEF L, T, M
<1> QED
  BY <1>1, <1>2

LEMMA ForgottenKnown ==
    ASSUME Forgotten
    PROVE  group'.entries = {} /\ \A n \in DOMAIN memtab' : memtab'[n] = {}
BY DEF Forgotten, NoGroup

(* No step but the one that numbers a group makes entries. *)
LEMMA KnownKeeps ==
    ASSUME StoreInv, [Next]_vars
    PROVE  \/ Known' \subseteq Known /\ issued' = issued
           \/ \E t \in Thread : RoomFound(t)
<1>1. CASE UNCHANGED store
  <2>1. UNCHANGED <<logs, tables, memtab, group, issued>>
    BY <1>1 DEF store, memory, disk, promises
  <2> QED
    BY <2>1 DEF Known
<1> DEFINE L == \A n \in DOMAIN logs' : Logged(logs'[n]) \subseteq Known
           T == \A n \in DOMAIN tables' : tables'[n] \subseteq Known
           M == \A n \in DOMAIN memtab' : memtab'[n] \subseteq Known
           G == group'.entries \subseteq Known
<1>2. L /\ T /\ M /\ G => Known' \subseteq Known
  BY KnownBy
<1>3. /\ UNCHANGED logs \/ Shrunk(logs, logs') => L
      /\ UNCHANGED tables \/ Shrunk(tables, tables') => T
      /\ UNCHANGED memtab \/ Shrunk(memtab, memtab') => M
      /\ UNCHANGED group => G
  BY KnownIn DEF Shrunk
<1>4. \A n : Grown(logs, logs', n, <<>>) => L
  BY KnownIn, LoggedEmpty DEF Grown
<1>5. \A n, v : v \subseteq Known /\ Grown(tables, tables', n, v) => T
  BY KnownIn DEF Grown
<1>6. \A n : Grown(memtab, memtab', n, {}) => M
  BY KnownIn DEF Grown
<1> HIDE DEF L, T, M, G
<1>7. ASSUME NEW t \in Thread, RoomSwitched(t)
      PROVE  Known' \subseteq Known /\ issued' = issued
  BY <1>2, <1>3, <1>4, <1>6, <1>7, SwitchFacts DEF promises
<1>8. ASSUME NEW t \in Thread, LogStep(t)
      PROVE  Known' \subseteq Known /\ issued' = issued
  <2>1. UNCHANGED <<memory, tables, group, promises>> /\ mem \in DOMAIN logs
          /\ logs[mem] \in Seq(Record) /\ DOMAIN logs' = DOMAIN logs
    BY <1>8, LogStepFacts, Parts
  <2>2. CASE logs' = logs
    BY <2>1, <2>2, <1>2, <1>3 DEF memory, promises
  <2>3. ASSUME NEW r \in Record, r.entries = group.entries, logs'[mem] = Append(logs[mem], r),
               \A n \in DOMAIN logs : n # mem => logs'[n] = logs[n]
        PROVE  L
    <3>1. Logged(logs'[mem]) \subseteq Logged(logs[mem]) \cup group.entries
      BY <2>1, <2>3, AppendRecord
    <3>2. Logged(logs[mem]) \subseteq Known /\ group.entries \subseteq Known
      BY <2>1, KnownIn
    <3>3. \A n \in DOMAIN logs' : Logged(logs'[n]) \subseteq Known
      BY <2>1, <2>3, <3>1, <3>2, KnownIn
    <3> QED
      BY <3>3 DEF L
  <2>4. ASSUME NEW ok \in BOOLEAN, NEW r, r = [entries |-> group.entries, ok |-> ok],
               r \in Record, logs'[mem] = Append(logs[mem], r),
               \A n \in DOMAIN logs : n # mem => logs'[n] = logs[n]
        PROVE  L
    BY <2>3, <2>4
  <2>5. logs' = logs \/ L
    BY <1>8, LogStepFacts, Parts, <2>4
  <2> QED
    BY <2>1, <2>2, <2>5, <1>2, <1>3 DEF memory, promises
<1>9. ASSUME NEW t \in Thread, Sync(t)
      PROVE  Known' \subseteq Known /\ issued' = issued
  BY <1>9, <1>2, <1>3 DEF Sync, memory, promises
<1>10. ASSUME NEW t \in Thread, InsertInto(t)
       PROVE  Known' \subseteq Known /\ issued' = issued
  <2>1. memtab' = [memtab EXCEPT ![mem] = memtab[mem] \cup group.entries]
          /\ UNCHANGED <<logs, tables, group, issued>>
    BY <1>10 DEF InsertInto, disk, promises
  <2>2. \A n \in DOMAIN memtab' : memtab'[n] \subseteq memtab[n] \cup group.entries /\ n \in DOMAIN memtab
    BY <2>1
  <2>3. M
    BY <2>2, KnownIn DEF M
  <2> QED
    BY <2>1, <2>3, <1>2, <1>3
<1>11. ASSUME NEW t \in Thread, Commit(t)
       PROVE  Known' \subseteq Known /\ issued' = issued
  <2>1. UNCHANGED <<logs, tables, memtab, issued>> /\ group' = NoGroup
    BY <1>11 DEF Commit, disk, promises
  <2>2. G
    BY <2>1 DEF G, NoGroup
  <2> QED
    BY <2>1, <2>2, <1>2, <1>3
<1>12. ASSUME NEW r \in Reader, Get(r) \/ GotValue(r)
       PROVE  Known' \subseteq Known /\ issued' = issued
  <2>1. CASE Get(r)
    BY <2>1, <1>2, <1>3 DEF Get, memory, disk, promises
  <2>2. CASE GotValue(r)
    BY <2>2, <1>2, <1>3, GotFacts DEF disk, promises
  <2> QED
    BY <1>12, <2>1, <2>2
<1>13. CASE BackgroundIdles \/ TableBuilt \/ PickCompaction \/ FinishCompactionOutputFile
              \/ AppendEdit \/ CompactionFails \/ EditNotLogged \/ Close \/ RecoverManifest
  BY <1>13, <1>2, <1>3 DEF BackgroundIdles, TableBuilt, PickCompaction, FinishCompactionOutputFile,
     AppendEdit, CompactionFails, EditNotLogged, Close, RecoverManifest, memory, disk, promises
<1>14. CASE Flush
  <2>1. imm \in DOMAIN memtab /\ memtab[imm] \subseteq Known
    BY <1>14, FlushFacts, KnownIn
  <2>2. T
    BY <1>14, <2>1, FlushFacts, <1>3, <1>5
  <2> QED
    BY <1>14, <2>2, <1>2, <1>3, FlushFacts DEF promises
<1>15. CASE OpenCompactionOutputFile
  <2>1. T
    BY <1>15, OutputFacts, KnownIn, <1>5
  <2> QED
    BY <1>15, <2>1, <1>2, <1>3, OutputFacts DEF promises
<1>16. CASE MemTableInstalled \/ CompactionInstalled
  <2>1. /\ Shrunk(logs, logs') /\ Shrunk(tables, tables') /\ Shrunk(memtab, memtab')
        /\ UNCHANGED group /\ UNCHANGED issued
    <3>1. Install
      BY <1>16 DEF Install
    <3>2. UNCHANGED promises /\ UNCHANGED group
            /\ Shrunk(logs, logs') /\ Shrunk(tables, tables') /\ Shrunk(memtab, memtab')
      BY <3>1, InstallFacts
    <3> QED
      BY <3>2 DEF promises
  <2> QED
    BY <2>1, <1>2, <1>3
<1>17. CASE TableFails
  BY <1>17, <1>2, <1>3, TableFailsFacts DEF promises
<1>18. CASE Down
  <2>1. M /\ G
    BY <1>18, ForgottenKnown DEF M, G, Down, Closed, CrashProcess, OpenFails
  <2> QED
    BY <1>18, <2>1, <1>2, <1>3 DEF Down, disk, promises
<1>19. CASE CrashMachine
  <2>1. PICK upto \in [DOMAIN logs -> Nat], k \in 1..Len(manifest) : Keep(upto, k)
    BY <1>19, CrashFacts, Parts
  <2>2. /\ \A n \in DOMAIN logs : synced[n] <= upto[n] /\ upto[n] <= Len(logs[n])
        /\ DOMAIN logs' = DOMAIN logs
        /\ \A n \in DOMAIN logs : logs'[n] = SubSeq(logs[n], 1, upto[n])
        /\ UNCHANGED <<tables, issued>> /\ Forgotten
    BY <2>1 DEF Keep
  <2>3. \A n \in DOMAIN logs : Logged(logs'[n]) \subseteq Logged(logs[n])
    BY <2>2, PrefixRecords, Numbers
  <2>4. L
    BY <2>2, <2>3, KnownIn DEF L
  <2>5. M /\ G
    BY <2>2, ForgottenKnown DEF M, G
  <2> QED
    BY <2>2, <2>4, <2>5, <1>2, <1>3
<1>20. CASE RecoverLogFile
  <2>1. PICK n \in recovery.logs, r \in Seq(Record), found \in SUBSET Entry : Replay(n, r, found)
    BY <1>20, ReplayFacts, Parts
  <2>2. /\ n \in DOMAIN logs /\ found = Logged(r) /\ found \subseteq Logged(logs[n])
        /\ tables' = IF found = {} THEN tables ELSE Extend(tables, nextFile, found)
        /\ logs' = [logs EXCEPT ![n] = r]
    BY <2>1 DEF Replay
  <2>3. UNCHANGED <<memtab, group, issued>>
    BY <1>20 DEF RecoverLogFile
  <2>4. found \subseteq Known
    BY <2>2, KnownIn
  <2>5. L
    BY <2>2, <2>4, KnownIn DEF L
  <2>6. T
    BY <2>2, <2>4, KnownIn DEF T, Extend
  <2> QED
    BY <2>3, <2>5, <2>6, <1>2, <1>3
<1>21. CASE OpenNewLog
  BY <1>21, <1>2, <1>3, <1>4, NewLogFacts DEF promises
<1>22. CASE OpenInstalls
  <2>1. M
    BY <1>22, OpenFacts DEF M
  <2> QED
    BY <1>22, <2>1, <1>2, <1>3, OpenFacts DEF promises
<1> QED
  BY <1>1, <1>7, <1>8, <1>9, <1>10, <1>11, <1>12, <1>13, <1>14, <1>15, <1>16, <1>17, <1>18, <1>19,
     <1>20, <1>21, <1>22, StepCases DEF Steps

(* The front writer's new group has the next numbers. *)
LEMMA FoundFacts ==
    ASSUME StoreInv, NEW t \in Thread, RoomFound(t)
    PROVE  /\ Up /\ group = NoGroup /\ group.entries = {} /\ \A u \in Thread : op[u].pc \notin Serving
           /\ op[t].pc = "room" /\ queue # <<>> /\ queue[1] = t
           /\ GroupSize \in 1..Len(queue) /\ Batches(GroupSize) \in Nat /\ Batches(GroupSize) >= 1
           /\ group' = [size |-> GroupSize,
                        entries |-> NewEntries(issued, lastSeq, Batches(GroupSize))]
           /\ issued' = issued + Batches(GroupSize)
           /\ op' = [op EXCEPT ![t].pc = "log"]
           /\ UNCHANGED <<phase, queue, memory, bgError, bg, reads, recovery, disk, acked, promised, left>>
<1>1. Front(t, "room") /\ ~ op[t].null
  BY DEF RoomFound, MayLoop
<1>2. Up /\ op[t].pc = "room" /\ queue # <<>> /\ queue[1] = t
  BY <1>1, Parts, InUp DEF Front
<1>3. group = NoGroup /\ \A u \in Thread : op[u].pc \notin Serving
  BY <1>2, NoServer DEF Leading, Serving
<1>4. GroupSize \in 1..Len(queue) /\ Len(queue) \in Nat
  BY <1>2, Parts, GroupSizeProperties DEF CallType
<1>5. GroupSize \in Nat /\ 1 \in 1..GroupSize
  BY <1>4
<1>6. Batches(GroupSize) \in Nat /\ Batches(GroupSize) >= 1
  <2>1. /\ Batches(GroupSize) \in Nat
        /\ \A i \in 1..GroupSize : Batches(i) \in Nat /\ Batches(i) <= Batches(GroupSize)
        /\ \A i \in 1..GroupSize : ~ op[queue[i]].null => Batches(i) >= 1
    BY <1>5, BatchesProperties
  <2> QED
    BY <2>1, <1>1, <1>2, <1>5
<1> QED
  BY <1>2, <1>3, <1>4, <1>6 DEF RoomFound, NoGroup

(* Ids and sequence numbers are not given twice: a new group takes numbers *)
(* past those of all entries, and no other step makes entries.             *)
LEMMA EntryKeeps ==
    ASSUME StoreInv, [Next]_vars
    PROVE  EntryInv'
<1>0. issued \in Nat
  BY Numbers
<1>1. CASE Known' \subseteq Known /\ issued' = issued
  BY <1>1, Parts DEF EntryInv
<1>2. ASSUME NEW t \in Thread, RoomFound(t)
      PROVE  EntryInv'
  <2> DEFINE c == Batches(GroupSize)
             new == NewEntries(issued, lastSeq, c)
  <2>1. /\ Up /\ group = NoGroup /\ c \in Nat /\ group'.entries = new /\ issued' = issued + c
        /\ UNCHANGED <<logs, tables, memtab>>
    BY <1>2, FoundFacts DEF memory, disk
  <2>2. lastSeq \in Nat /\ lastSeq <= issued
    BY <2>1, Numbers, Parts DEF GroupInv
  <2> HIDE DEF c
  <2>3. /\ \A e \in new : e.id \in (issued + 1)..(issued + c) /\ e.seq \in (lastSeq + 1)..(lastSeq + c)
        /\ \A e \in new : \E k \in 1..c : e.id = issued + k /\ e.seq = lastSeq + k
        /\ \A e, f \in new : e.id = f.id \/ e.seq = f.seq => e = f
    BY <1>0, <2>1, <2>2, NewEntriesProperties
  <2> HIDE DEF new
  <2>4. Known' \subseteq Known \cup new
    <3>1. /\ \A n \in DOMAIN logs' : Logged(logs'[n]) \subseteq Known \cup new
          /\ \A n \in DOMAIN tables' : tables'[n] \subseteq Known \cup new
          /\ \A n \in DOMAIN memtab' : memtab'[n] \subseteq Known \cup new
          /\ group'.entries \subseteq Known \cup new
      BY <2>1, KnownIn
    <3> QED
      BY <3>1, KnownBy
  <2>5. \A e \in Known : e.id \in 1..issued /\ e.seq \in 1..e.id /\ e.seq <= lastSeq
    <3> SUFFICES ASSUME NEW e \in Known
                 PROVE  e.id \in 1..issued /\ e.seq \in 1..e.id /\ e.seq <= lastSeq
      OBVIOUS
    <3>1. e.id \in 1..issued /\ e.seq \in 1..e.id
      BY Parts DEF EntryInv
    <3>2. group.entries = {}
      BY <2>1 DEF NoGroup
    <3>3. e.seq <= lastSeq
      BY <2>1, <3>2, KnownMember, Parts DEF SeqInv
    <3> QED
      BY <3>1, <3>3
  <2>6. \A e, f \in Known : e.id = f.id \/ e.seq = f.seq => e = f
    BY Parts DEF EntryInv
  <2>7. \A e \in new : e.id \in 1..issued' /\ e.seq \in 1..e.id
    <3> SUFFICES ASSUME NEW e \in new
                 PROVE  e.id \in 1..issued' /\ e.seq \in 1..e.id
      OBVIOUS
    <3>1. PICK k \in 1..c : e.id = issued + k /\ e.seq = lastSeq + k
      BY <2>3
    <3> QED
      BY <3>1, <1>0, <2>1, <2>2
  <2>8. \A e \in Known : e.id \in 1..issued'
    BY <2>1, <2>5, <1>0
  <2>9. \A e \in Known, f \in new : e.id # f.id /\ e.seq # f.seq
    <3> SUFFICES ASSUME NEW e \in Known, NEW f \in new
                 PROVE  e.id # f.id /\ e.seq # f.seq
      OBVIOUS
    <3>1. e.id \in 1..issued /\ f.id \in (issued + 1)..(issued + c) /\ e.seq \in 1..e.id
             /\ e.seq <= lastSeq /\ f.seq \in (lastSeq + 1)..(lastSeq + c)
      BY <2>3, <2>5
    <3> QED
      BY <3>1, <1>0, <2>1, <2>2
  <2>10. \A e \in Known' : e.id \in 1..issued' /\ e.seq \in 1..e.id
    BY <2>4, <2>5, <2>7, <2>8
  <2>11. \A e, f \in Known' : e.id = f.id \/ e.seq = f.seq => e = f
    BY <2>3, <2>4, <2>6, <2>9
  <2> QED
    BY <2>10, <2>11 DEF EntryInv
<1> QED
  BY <1>1, <1>2, KnownKeeps

(* The logs keep no record twice when each record is one that was there. *)
LEMMA LogInvFrom ==
    ASSUME LogInv, NEW at,
           \A n \in DOMAIN logs' : n \in DOMAIN logs \/ logs'[n] = <<>>,
           \A n \in DOMAIN logs' : n \in DOMAIN logs => \A i \in DOMAIN logs'[n] :
               /\ at[n][i] \in DOMAIN logs[n] /\ logs'[n][i] = logs[n][at[n][i]]
               /\ \A j \in DOMAIN logs'[n] : at[n][i] = at[n][j] => i = j
    PROVE  LogInv'
<1>1. DOMAIN <<>> = {}
  OBVIOUS
<1> SUFFICES ASSUME NEW n \in DOMAIN logs', NEW k \in DOMAIN logs',
                    NEW i \in DOMAIN logs'[n], NEW j \in DOMAIN logs'[k],
                    logs'[n][i].ok, logs'[k][j].ok,
                    logs'[n][i].entries \cap logs'[k][j].entries # {}
             PROVE  n = k /\ i = j
  BY DEF LogInv
<1>2. n \in DOMAIN logs /\ k \in DOMAIN logs
  BY <1>1
<1>3. at[n][i] \in DOMAIN logs[n] /\ logs'[n][i] = logs[n][at[n][i]]
  BY <1>2
<1>4. at[k][j] \in DOMAIN logs[k] /\ logs'[k][j] = logs[k][at[k][j]]
  BY <1>2
<1>5. n = k /\ at[n][i] = at[k][j]
  BY <1>2, <1>3, <1>4 DEF LogInv
<1> QED
  BY <1>2, <1>5

(* No entry is logged twice: the group was in no log before. *)
LEMMA LogKeeps ==
    ASSUME StoreInv, [Next]_vars
    PROVE  LogInv'
<1>1. LogInv
  BY Parts
<1>2. CASE UNCHANGED logs
  BY <1>1, <1>2 DEF LogInv
<1> DEFINE id == [n \in DOMAIN logs |-> [i \in DOMAIN logs[n] |-> i]]
<1>3. CASE Shrunk(logs, logs')
  BY <1>1, <1>3 DEF LogInv, Shrunk
<1>4. ASSUME NEW n, Grown(logs, logs', n, <<>>)
      PROVE  LogInv'
  <2>1. DOMAIN <<>> = {}
    OBVIOUS
  <2> QED
    BY <1>1, <1>4, <2>1 DEF LogInv, Grown
<1>5. ASSUME NEW t \in Thread, LogStep(t)
      PROVE  LogInv'
  <2>1. op[t].pc = "log" /\ mem \in DOMAIN logs /\ logs[mem] \in Seq(Record) /\ DOMAIN logs' = DOMAIN logs
    BY <1>5, LogStepFacts, Parts
  <2>2. \A n \in DOMAIN logs : Logged(logs[n]) \cap group.entries = {}
    BY <2>1, Parts DEF StageInv
  <2>3. ASSUME NEW r \in Record, r.entries = group.entries, logs'[mem] = Append(logs[mem], r),
               \A n \in DOMAIN logs : n # mem => logs'[n] = logs[n]
        PROVE  LogInv'
    <3> DEFINE last == Len(logs[mem]) + 1
    <3>1. /\ DOMAIN logs'[mem] = DOMAIN logs[mem] \cup {last} /\ last \notin DOMAIN logs[mem]
          /\ logs'[mem][last] = r /\ \A i \in DOMAIN logs[mem] : logs'[mem][i] = logs[mem][i]
      BY <2>1, <2>3, AppendRecord
    <3> HIDE DEF last
    <3>2. \A n \in DOMAIN logs : \A i \in DOMAIN logs[n] :
                logs[n][i].ok => logs[n][i].entries \cap group.entries = {}
      BY <2>2, LoggedIn
    <3>3. \A n \in DOMAIN logs' : \A i \in DOMAIN logs'[n] :
             \/ i \in DOMAIN logs[n] /\ logs'[n][i] = logs[n][i]
             \/ n = mem /\ i = last /\ logs'[n][i] = r
      BY <2>1, <2>3, <3>1
    <3> QED
      BY <1>1, <2>1, <2>3, <3>2, <3>3 DEF LogInv
  <2>4. ASSUME NEW ok \in BOOLEAN, NEW r, r = [entries |-> group.entries, ok |-> ok],
               r \in Record, logs'[mem] = Append(logs[mem], r),
               \A n \in DOMAIN logs : n # mem => logs'[n] = logs[n]
        PROVE  LogInv'
    BY <2>3, <2>4
  <2>5. logs' = logs \/ LogInv'
    BY <1>5, LogStepFacts, Parts, <2>4
  <2> QED
    BY <2>5, <1>2
<1>6. CASE CrashMachine
  <2>1. PICK upto \in [DOMAIN logs -> Nat], k \in 1..Len(manifest) : Keep(upto, k)
    BY <1>6, CrashFacts, Parts
  <2>2. /\ \A n \in DOMAIN logs : synced[n] <= upto[n] /\ upto[n] <= Len(logs[n])
        /\ DOMAIN logs' = DOMAIN logs
        /\ \A n \in DOMAIN logs : logs'[n] = SubSeq(logs[n], 1, upto[n])
    BY <2>1 DEF Keep
  <2>3. \A n \in DOMAIN logs : \A i \in DOMAIN logs'[n] :
            i \in DOMAIN logs[n] /\ logs'[n][i] = logs[n][i]
    <3> SUFFICES ASSUME NEW n \in DOMAIN logs
                 PROVE  \A i \in DOMAIN logs'[n] : i \in DOMAIN logs[n] /\ logs'[n][i] = logs[n][i]
      OBVIOUS
    <3>1. logs[n] \in Seq(Record) /\ upto[n] \in Nat /\ upto[n] <= Len(logs[n])
             /\ DOMAIN logs[n] = 1..Len(logs[n]) /\ Len(logs[n]) \in Nat
      BY <2>2, Numbers
    <3>2. DOMAIN logs'[n] = 1..upto[n] /\ \A i \in 1..upto[n] : logs'[n][i] = logs[n][i]
      BY <2>2, <3>1, PrefixRecords
    <3> QED
      BY <3>1, <3>2
  <2> QED
    BY <1>1, <2>2, <2>3 DEF LogInv
<1>7. CASE RecoverLogFile
  <2>1. PICK m \in recovery.logs, r \in Seq(Record), found \in SUBSET Entry : Replay(m, r, found)
    BY <1>7, ReplayFacts, Parts
  <2>2. m \in DOMAIN logs /\ logs' = [logs EXCEPT ![m] = r]
    BY <2>1 DEF Replay
  <2>3. PICK f \in [DOMAIN r -> DOMAIN logs[m]] :
                    /\ \A i \in DOMAIN r : r[i] = logs[m][f[i]] /\ i <= f[i]
                    /\ \A i, j \in DOMAIN r : f[i] = f[j] => i = j
    BY <2>1 DEF Replay
  <2> DEFINE at == [n \in DOMAIN logs |-> IF n = m THEN f ELSE id[n]]
  <2>4. \A n \in DOMAIN logs' : n \in DOMAIN logs
    BY <2>2
  <2>5. \A n \in DOMAIN logs' : n \in DOMAIN logs => \A i \in DOMAIN logs'[n] :
               /\ at[n][i] \in DOMAIN logs[n] /\ logs'[n][i] = logs[n][at[n][i]]
               /\ \A j \in DOMAIN logs'[n] : at[n][i] = at[n][j] => i = j
    <3> SUFFICES ASSUME NEW n \in DOMAIN logs, NEW i \in DOMAIN logs'[n]
                 PROVE  /\ at[n][i] \in DOMAIN logs[n] /\ logs'[n][i] = logs[n][at[n][i]]
                        /\ \A j \in DOMAIN logs'[n] : at[n][i] = at[n][j] => i = j
      OBVIOUS
    <3>1. CASE n = m
      BY <3>1, <2>2, <2>3
    <3>2. CASE n # m
      BY <3>2, <2>2
    <3> QED
      BY <3>1, <3>2
  <2> HIDE DEF at
  <2> QED
    BY <1>1, <2>4, <2>5, LogInvFrom
<1>8. \/ UNCHANGED logs \/ CrashMachine \/ RecoverLogFile \/ OpenNewLog \/ OpenInstalls
      \/ Install \/ \E t \in Thread : RoomSwitched(t) \/ LogStep(t)
  BY StepCases DEF Steps, store, disk, RoomFound, Sync, InsertInto, Commit, Get, GotValue,
     BackgroundIdles, Flush, CompactMemTable, CompactMemTableFirst, BuildTable, TableBuilt,
     PickCompaction, OpenCompactionOutputFile, FinishCompactionOutputFile, AppendEdit, TableFails,
     CompactionFails, EditNotLogged, Close, Down, RecoverManifest, Install
<1> QED
  BY <1>2, <1>3, <1>4, <1>5, <1>6, <1>7, <1>8, SwitchFacts, InstallFacts, NewLogFacts, OpenFacts

(***************************************************************************)
(* The MANIFEST.                                                           *)
(***************************************************************************)
(* The record that LogAndApply writes: its tables are there, and hold all  *)
(* that those of the last state do, with the memtable that was flushed.    *)
LEMMA EditHolds ==
    ASSUME StoreInv, bg.pc \in {"append", "sync"}, NEW v \in Levels, Files(v) \subseteq DOMAIN tables
    PROVE  /\ Files(Edited(v)) \subseteq DOMAIN tables
           /\ Stored(Files(v)) \subseteq Stored(Files(Edited(v)))
           /\ bg.job \in {"mem", "nested"} => memtab[imm] \subseteq Stored(Files(Edited(v)))
<1>1. bg.job \in {"mem", "nested", "merge"}
  BY Parts DEF MemoryType, Background, EditInv
<1>2. CASE bg.job = "merge"
  <2>1. /\ bg.out \in DOMAIN tables /\ tables[bg.out] = Stored(Files(bg.inputs))
        /\ bg.edit.del = bg.inputs /\ bg.edit.add = Placed(1, {bg.out})
    BY <1>2, Parts DEF MergeInv
  <2>2. Files(Edited(v)) = Files(Without(v, bg.inputs)) \cup {bg.out}
    BY <2>1, EditedFiles, LevelTypes DEF Placed, Files
  <2>3. Stored({bg.out}) = Stored(Files(bg.inputs))
    BY <2>1, StoredUnion
  <2>4. Stored(Files(Edited(v))) = Stored(Files(Without(v, bg.inputs))) \cup Stored({bg.out})
    BY <2>2, StoredUnion
  <2>5. Stored(Files(Edited(v))) = Stored(Files(Without(v, bg.inputs)) \cup Files(bg.inputs))
    BY <2>3, <2>4, StoredUnion
  <2>6. Files(v) \subseteq Files(Without(v, bg.inputs)) \cup Files(bg.inputs)
    BY FilesOf
  <2>7. Stored(Files(v)) \subseteq Stored(Files(Edited(v)))
    BY <2>5, <2>6, StoredUnion
  <2>8. Files(Edited(v)) \subseteq DOMAIN tables
    BY <2>1, <2>2, FilesOf
  <2> QED
    BY <1>2, <2>7, <2>8
<1>3. CASE bg.job \in {"mem", "nested"}
  <2>1. /\ bg.edit.del = NoFiles /\ Files(bg.edit.add) = {bg.num} \cap DOMAIN tables
        /\ Stored({bg.num}) = memtab[imm]
    BY <1>3, Parts DEF FlushInv
  <2>2. Files(Edited(v)) = Files(v) \cup ({bg.num} \cap DOMAIN tables)
    BY <2>1, EditedFiles
  <2>3. Stored({bg.num} \cap DOMAIN tables) = memtab[imm]
    BY <2>1, StoredUnion
  <2>4. Stored(Files(Edited(v))) = Stored(Files(v)) \cup Stored({bg.num} \cap DOMAIN tables)
    BY <2>2, StoredUnion
  <2> QED
    BY <2>2, <2>3, <2>4
<1> QED
  BY <1>1, <1>2, <1>3

(* LogAndApply writes its record, or the record fails in one of three ways. *)
LEMMA EditLogged ==
    ASSUME StoreInv, AppendEdit \/ EditNotLogged
    PROVE  /\ Up /\ bg.pc \in {"append", "sync"} /\ bg.job \in {"mem", "nested", "merge"}
           /\ \/ manifest' = manifest
              \/ bg.pc = "append" /\ (Logs(EditRecord) \/ Logs(PartRecord))
           /\ AppendEdit => /\ bg.pc = "append" /\ Logs(EditRecord) /\ bg' = [bg EXCEPT !.pc = "sync"]
                            /\ UNCHANGED <<op, bgError, pending>>
           /\ EditNotLogged =>
                /\ bgError'
                /\ \/ bg.job = "merge" /\ pending' = pending \ {bg.out} /\ BackgroundDone(imm, version, TRUE)
                   \/ bg.job # "merge" /\ UNCHANGED pending /\ MemTableDone(imm, version, TRUE)
           /\ UNCHANGED <<phase, queue, group, lastSeq, mem, imm, memtab, nextFile, logNum, version,
                          reads, recovery, logs, synced, tables, promises>>
<1>1. bg.pc \in {"append", "sync"}
  BY DEF AppendEdit, EditNotLogged
<1>2. Up /\ bg.job \in {"mem", "nested", "merge"}
  BY <1>1, Parts, InUp DEF MemoryType, Background, EditInv
<1>3. AppendEdit => /\ bg.pc = "append" /\ Logs(EditRecord) /\ bg' = [bg EXCEPT !.pc = "sync"]
                    /\ UNCHANGED <<op, bgError, pending>>
  BY DEF AppendEdit, LoggedEdit, EditRecord, Logs, memory
<1>4. EditNotLogged =>
        \/ manifest' = manifest
        \/ bg.pc = "append" /\ (Logs(EditRecord) \/ Logs(PartRecord))
  BY <1>1 DEF EditNotLogged, LoggedEdit, EditRecord, PartRecord, Logs
<1>5. EditNotLogged => bgError'
  BY Zenon DEF EditNotLogged
<1>6. EditNotLogged =>
         \/ bg.job = "merge" /\ pending' = pending \ {bg.out} /\ BackgroundDone(imm, version, TRUE)
         \/ bg.job # "merge" /\ UNCHANGED pending /\ MemTableDone(imm, version, TRUE)
  BY DEF EditNotLogged
<1>7. UNCHANGED <<phase, queue, group, lastSeq, mem, imm, memtab, nextFile, logNum, version,
                  reads, recovery, logs, synced, tables, promises>>
  BY DEF AppendEdit, EditNotLogged, memory
<1> QED
  BY <1>1, <1>2, <1>3, <1>4, <1>5, <1>6, <1>7

(* What a record that LogAndApply appends has. *)
LEMMA RecordFacts ==
    ASSUME StoreInv, bg.pc = "append", NEW r, r \in {EditRecord, PartRecord}, Logs(r)
    PROVE  /\ manifest' \in Seq(State) /\ DOMAIN manifest' = 1..(Len(manifest) + 1)
           /\ Len(manifest') = Len(manifest) + 1
           /\ manifest'[Len(manifest) + 1] = r /\ Last(manifest)' = r
           /\ \A i \in DOMAIN manifest : manifest'[i] = manifest[i]
           /\ r \in State /\ Files(r.files) \subseteq DOMAIN tables
           /\ Stored(Files(Last(manifest).files)) \subseteq Stored(Files(r.files))
           /\ r = EditRecord => /\ r.log = bg.edit.log /\ r.files = Edited(Last(manifest).files)
                                /\ r.next = bg.edit.next /\ r.last = bg.edit.last /\ r.ok
           /\ r = PartRecord => /\ r.log = Last(manifest).log /\ r.files = Last(manifest).files
                                /\ r.next = Last(manifest).next /\ r.last = Last(manifest).last /\ ~ r.ok
<1>1. MemoryType /\ DiskType
  BY Parts
<1>2. Last(manifest) \in State
  BY <1>1, LastManifest
<1>3. EditRecord \in State /\ PartRecord \in State
  BY <1>1, EditTypes DEF EditRecord, PartRecord
<1>4. /\ manifest' \in Seq(State) /\ DOMAIN manifest' = 1..(Len(manifest) + 1)
      /\ Len(manifest') = Len(manifest) + 1
      /\ manifest'[Len(manifest) + 1] = r /\ Last(manifest') = r
      /\ \A i \in DOMAIN manifest : manifest'[i] = manifest[i]
  BY <1>1, <1>3, LoggedEditProperties DEF Logs
<1>5. r = PartRecord => /\ r.log = Last(manifest).log /\ r.files = Last(manifest).files
                        /\ r.next = Last(manifest).next /\ r.last = Last(manifest).last /\ ~ r.ok
  BY <1>2 DEF PartRecord, State
<1>6. r = EditRecord => /\ r.log = bg.edit.log /\ r.files = Edited(Last(manifest).files)
                        /\ r.next = bg.edit.next /\ r.last = bg.edit.last /\ r.ok
  BY DEF EditRecord
<1>7. Files(Last(manifest).files) \subseteq DOMAIN tables /\ Last(manifest).files \in Levels
  BY ManifestFacts
<1>8. /\ Files(Edited(Last(manifest).files)) \subseteq DOMAIN tables
      /\ Stored(Files(Last(manifest).files)) \subseteq Stored(Files(Edited(Last(manifest).files)))
  BY <1>7, EditHolds
<1>9. Files(r.files) \subseteq DOMAIN tables /\ Stored(Files(Last(manifest).files)) \subseteq Stored(Files(r.files))
  BY <1>5, <1>6, <1>7, <1>8
<1> QED
  BY <1>3, <1>4, <1>5, <1>6, <1>9

(* A step that leaves the MANIFEST and its tables alone. *)
LEMMA ManifestSame ==
    ASSUME StoreInv, UNCHANGED manifest, issued' \in Nat, issued <= issued',
           \A i \in DOMAIN manifest : \A n \in Files(manifest[i].files) :
                n \in DOMAIN tables' /\ tables'[n] = tables[n]
    PROVE  ManifestInv'
<1>1. \A i \in DOMAIN manifest : Stored(Files(manifest[i].files))' = Stored(Files(manifest[i].files))
  <2> SUFFICES ASSUME NEW i \in DOMAIN manifest
               PROVE  Stored(Files(manifest[i].files))' = Stored(Files(manifest[i].files))
    OBVIOUS
  <2>1. \A n \in Files(manifest[i].files) : /\ n \in DOMAIN tables <=> n \in DOMAIN tables'
                                            /\ n \in DOMAIN tables => tables'[n] = tables[n]
    BY ManifestFacts
  <2>2. \A F : F = Files(manifest[i].files) => Stored(F)' = Stored(F)
    BY <2>1, StoredSame
  <2> QED
    BY <2>2
<1>2. \A i \in DOMAIN manifest : manifest[i].last <= issued'
  <2> SUFFICES ASSUME NEW i \in DOMAIN manifest
               PROVE  manifest[i].last <= issued'
    OBVIOUS
  <2> QED
    BY ManifestFacts, Numbers
<1> QED
  BY <1>1, <1>2, ManifestFacts DEF ManifestInv

(* Every state the MANIFEST may recover keeps its tables: nothing deletes a *)
(* live one, and no new table takes the number of one.                     *)
LEMMA ManifestKeeps ==
    ASSUME StoreInv, [Next]_vars
    PROVE  ManifestInv'
<1>0. issued \in Nat
  BY Numbers
<1>1. CASE UNCHANGED <<manifest, tables, issued>>
  BY <1>1, <1>0, ManifestSame, ManifestFacts
<1>2. ASSUME NEW t \in Thread, RoomFound(t)
      PROVE  ManifestInv'
  <2>1. UNCHANGED <<manifest, tables>> /\ issued' \in Nat /\ issued <= issued'
    BY <1>0, <1>2, FoundFacts DEF disk
  <2> QED
    BY <2>1, ManifestSame, ManifestFacts
<1>3. CASE Flush
  <2>1. UNCHANGED <<manifest, issued>> /\ \A n \in DOMAIN tables : n \in DOMAIN tables' /\ tables'[n] = tables[n]
    BY <1>3, FlushFacts DEF Grown, promises
  <2> QED
    BY <2>1, <1>0, ManifestSame, ManifestFacts
<1>4. CASE OpenCompactionOutputFile
  <2>1. UNCHANGED <<manifest, issued>> /\ \A n \in DOMAIN tables : n \in DOMAIN tables' /\ tables'[n] = tables[n]
    BY <1>4, OutputFacts DEF Grown, promises
  <2> QED
    BY <2>1, <1>0, ManifestSame, ManifestFacts
<1>5. CASE TableFails
  <2>1. UNCHANGED <<manifest, issued>> /\ \A n \in DOMAIN tables \ {bg.num} : n \in DOMAIN tables' /\ tables'[n] = tables[n]
    BY <1>5, TableFailsFacts DEF Shrunk, promises
  <2>2. \A i \in DOMAIN manifest : bg.num \notin Files(manifest[i].files)
    BY <1>5, TableFailsFacts, Parts DEF FlushInv
  <2> QED
    BY <2>1, <2>2, <1>0, ManifestSame, ManifestFacts
<1>6. CASE RecoverLogFile
  <2>1. PICK n \in recovery.logs, r \in Seq(Record), found \in SUBSET Entry : Replay(n, r, found)
    BY <1>6, ReplayFacts, Parts
  <2>2. tables' = tables \/ tables' = Extend(tables, nextFile, found)
    BY <2>1 DEF Replay
  <2>3. \A k \in DOMAIN tables : k # nextFile => k \in DOMAIN tables' /\ tables'[k] = tables[k]
    BY <2>2 DEF Extend
  <2>4. UNCHANGED <<manifest, issued>> /\ phase = "recovering"
    BY <1>6 DEF RecoverLogFile
  <2>5. \A i \in DOMAIN manifest : nextFile \notin Files(manifest[i].files)
    BY <2>4, NextUnused
  <2> QED
    BY <2>3, <2>4, <2>5, <1>0, ManifestSame, ManifestFacts
<1>7. CASE AppendEdit \/ EditNotLogged
  <2>1. UNCHANGED <<tables, issued>> /\ (manifest' = manifest \/ (bg.pc = "append" /\ (Logs(EditRecord) \/ Logs(PartRecord))))
    BY <1>7, EditLogged DEF promises
  <2>2. CASE manifest' = manifest
    BY <1>1, <2>1, <2>2
  <2>3. ASSUME bg.pc = "append", NEW r, r \in {EditRecord, PartRecord}, Logs(r)
        PROVE  ManifestInv'
    <3> DEFINE last == Len(manifest) + 1
    <3>1. /\ DOMAIN manifest' = 1..last /\ Len(manifest') = last /\ last \in Nat
          /\ manifest'[last] = r /\ \A i \in 1..Len(manifest) : manifest'[i] = manifest[i]
          /\ DOMAIN manifest = 1..Len(manifest) /\ Len(manifest) \in Nat
          /\ Len(manifest) \in DOMAIN manifest
      BY <2>3, RecordFacts, ManifestFacts
    <3>2. /\ bg.edit.last <= issued
          /\ \A n \in DOMAIN tables : /\ n < bg.edit.next
                                      /\ \A e \in tables[n] : e.seq <= bg.edit.last
      BY <2>3, Parts DEF EditInv
    <3>3. CASE r = EditRecord
      <4>1. r.next = bg.edit.next /\ r.last = bg.edit.last /\ Files(r.files) \subseteq DOMAIN tables
        BY <2>3, <3>3, RecordFacts
      <4>2. \A e \in Stored(Files(r.files)) : e.seq <= r.last
        BY <3>2, <4>1, StoredIn
      <4>3. \A i \in DOMAIN manifest' : Files(manifest'[i].files) \subseteq DOMAIN tables
        BY <3>1, <4>1, ManifestFacts
      <4>4. \A i \in DOMAIN manifest' : \A n \in Files(manifest'[i].files) : n < manifest'[last].next
        BY <3>1, <3>2, <4>1, <4>3
      <4>5. \A i \in DOMAIN manifest' : i = last \/ i \in DOMAIN manifest
        BY <3>1
      <4>6. \A i \in DOMAIN manifest' : \A j \in i..Len(manifest') :
               \A n \in Files(manifest'[i].files) : n < manifest'[j].next
        <5> SUFFICES ASSUME NEW i \in DOMAIN manifest', NEW j \in i..Len(manifest'), j # last,
                            NEW n \in Files(manifest'[i].files)
                     PROVE  n < manifest'[j].next
          BY <4>4
        <5>1. i \in DOMAIN manifest /\ j \in i..Len(manifest) /\ j \in 1..Len(manifest)
          BY <3>1
        <5> QED
          BY <3>1, <5>1, ManifestFacts
      <4>7. \A i \in DOMAIN manifest' : /\ \A e \in Stored(Files(manifest'[i].files)) : e.seq <= manifest'[i].last
                                        /\ manifest'[i].last <= issued
        <5> TAKE i \in DOMAIN manifest'
        <5>1. CASE i = last
          BY <5>1, <3>1, <3>2, <4>1, <4>2
        <5>2. CASE i \in DOMAIN manifest
          BY <5>2, <3>1, ManifestFacts
        <5> QED
          BY <4>5, <5>1, <5>2
      <4>8. \A F : Stored(F)' = Stored(F)
        BY <2>1, StoredUnchanged
      <4> HIDE DEF last
      <4> QED
        BY <2>1, <4>3, <4>6, <4>7, <4>8 DEF ManifestInv
    <3>4. CASE r = PartRecord
      <4> DEFINE at(i) == IF i = last THEN Len(manifest) ELSE i
      <4>1. /\ r.next = Last(manifest).next /\ r.last = Last(manifest).last
            /\ r.files = Last(manifest).files /\ Last(manifest) = manifest[Len(manifest)]
        BY <2>3, <3>4, RecordFacts, ManifestFacts
      <4>2. \A i \in DOMAIN manifest' : /\ at(i) \in DOMAIN manifest
                                        /\ manifest'[i].next = manifest[at(i)].next
                                        /\ manifest'[i].last = manifest[at(i)].last
                                        /\ manifest'[i].files = manifest[at(i)].files
        BY <3>1, <4>1
      <4>3. \A i \in DOMAIN manifest' : \A j \in i..Len(manifest') :
                    j \in DOMAIN manifest' /\ at(j) \in at(i)..Len(manifest)
        BY <3>1
      <4> HIDE DEF at
      <4>4. \A i \in DOMAIN manifest' : \A j \in i..Len(manifest') :
               \A n \in Files(manifest'[i].files) : n < manifest'[j].next
        <5> SUFFICES ASSUME NEW i \in DOMAIN manifest', NEW j \in i..Len(manifest'),
                            NEW n \in Files(manifest'[i].files)
                     PROVE  n < manifest'[j].next
          OBVIOUS
        <5>1. /\ at(i) \in DOMAIN manifest /\ at(j) \in at(i)..Len(manifest)
              /\ manifest'[i].files = manifest[at(i)].files
              /\ manifest'[j].next = manifest[at(j)].next
          BY <4>2, <4>3
        <5> QED
          BY <5>1, ManifestFacts
      <4>5. \A i \in DOMAIN manifest' : /\ \A e \in Stored(Files(manifest'[i].files)) : e.seq <= manifest'[i].last
                                        /\ manifest'[i].last <= issued
                                        /\ Files(manifest'[i].files) \subseteq DOMAIN tables
        BY <4>2, ManifestFacts
      <4>6. \A F : Stored(F)' = Stored(F)
        BY <2>1, StoredUnchanged
      <4> QED
        BY <2>1, <4>4, <4>5, <4>6 DEF ManifestInv
    <3> QED
      BY <2>3, <3>3, <3>4
  <2> QED
    BY <2>1, <2>2, <2>3
<1>8. CASE Install
  <2>1. /\ issued' = issued /\ DOMAIN manifest' = 1..Len(manifest') /\ Len(manifest') \in Nat
        /\ \A i \in DOMAIN manifest' :
                /\ manifest'[i].log = Last(manifest).log /\ manifest'[i].next = Last(manifest).next
                /\ manifest'[i].last = Last(manifest).last /\ manifest'[i].files = Last(manifest).files
        /\ Shrunk(tables, tables')
        /\ \A k \in Files(Last(manifest).files) : k \in DOMAIN tables => k \in DOMAIN tables'
    BY <1>8, InstallFacts DEF promises
  <2>2. \A F : F = Files(Last(manifest).files) => Stored(F)' \subseteq Stored(F)
    BY <2>1, StoredShrunk
  <2>3. /\ Files(Last(manifest).files) \subseteq DOMAIN tables'
        /\ \A e \in Stored(Files(Last(manifest).files)) : e.seq <= Last(manifest).last
        /\ Last(manifest).last <= issued
        /\ \A n \in Files(Last(manifest).files) : n < Last(manifest).next
    <3>1. Len(manifest) \in Len(manifest)..Len(manifest) /\ Len(manifest) \in DOMAIN manifest
            /\ Last(manifest) = manifest[Len(manifest)]
      BY ManifestFacts
    <3> QED
      BY <2>1, <3>1, ManifestFacts
  <2>4. \A i \in DOMAIN manifest' : \A j \in i..Len(manifest') : j \in DOMAIN manifest'
    BY <2>1
  <2> QED
    BY <2>1, <2>2, <2>3, <2>4 DEF ManifestInv
<1>9. CASE CrashMachine
  <2>1. PICK upto \in [DOMAIN logs -> Nat], k \in 1..Len(manifest) : Keep(upto, k)
    BY <1>9, CrashFacts, Parts
  <2>2. /\ DOMAIN manifest' = 1..k /\ Len(manifest') = k /\ \A i \in 1..k : manifest'[i] = manifest[i]
        /\ UNCHANGED <<tables, issued>>
    BY <2>1 DEF Keep
  <2>3. \A F : Stored(F)' = Stored(F)
    BY <2>2, StoredUnchanged
  <2>4. \A i \in 1..k : i \in DOMAIN manifest /\ \A j \in i..k : j \in i..Len(manifest) /\ j \in 1..k
    BY ManifestFacts
  <2>5. \A i \in DOMAIN manifest' : \A j \in i..Len(manifest') :
               \A n \in Files(manifest'[i].files) : n < manifest'[j].next
    BY <2>2, <2>4, ManifestFacts
  <2>6. \A i \in DOMAIN manifest' : /\ \A e \in Stored(Files(manifest'[i].files)) : e.seq <= manifest'[i].last
                                    /\ manifest'[i].last <= issued
                                    /\ Files(manifest'[i].files) \subseteq DOMAIN tables
    BY <2>2, <2>4, ManifestFacts
  <2> QED
    BY <2>2, <2>3, <2>5, <2>6 DEF ManifestInv
<1>10. CASE OpenInstalls
  <2>1. /\ manifest' = <<[log |-> recovery.log, next |-> nextFile, last |-> lastSeq,
                             files |-> version', ok |-> TRUE]>>
        /\ Shrunk(tables, tables') /\ DOMAIN tables' = Files(version')
        /\ \A n \in DOMAIN tables' : n < nextFile
        /\ \A e \in Stored(Files(version')) : e.seq <= lastSeq
        /\ issued' = issued /\ phase = "recovering"
    BY <1>10, OpenFacts DEF promises
  <2>2. lastSeq <= issued
    BY <2>1, Parts DEF RecoveryInv
  <2>3. \A F : Stored(F)' \subseteq Stored(F)
    BY <2>1, StoredShrunk
  <2>4. /\ DOMAIN manifest' = {1} /\ Len(manifest') = 1 /\ manifest'[1].next = nextFile
        /\ manifest'[1].last = lastSeq /\ manifest'[1].files = version'
    BY <2>1
  <2>5. \A j \in 1..Len(manifest') : j = 1
    BY <2>4
  <2> QED
    BY <2>1, <2>2, <2>3, <2>4, <2>5 DEF ManifestInv
<1>11. \/ UNCHANGED <<manifest, tables, issued>> \/ CrashMachine \/ RecoverLogFile \/ OpenInstalls
       \/ Install \/ Flush \/ OpenCompactionOutputFile \/ TableFails \/ AppendEdit \/ EditNotLogged
       \/ \E t \in Thread : RoomFound(t)
  BY StepCases DEF Steps, store, disk, promises, RoomSwitched, LogStep, AddRecord, AddRecordFails,
     Sync, InsertInto, Commit, Get, GotValue,
     BackgroundIdles, TableBuilt, PickCompaction, FinishCompactionOutputFile,
     CompactionFails, Close, Down, RecoverManifest, OpenNewLog, Install
<1> QED
  BY <1>1, <1>2, <1>3, <1>4, <1>5, <1>6, <1>7, <1>8, <1>9, <1>10, <1>11

(***************************************************************************)
(* The numbers of the files, the logs of the memtables, the sequence       *)
(* numbers.                                                                *)
(***************************************************************************)
LEMMA InsertFacts ==
    ASSUME StoreInv, NEW t \in Thread, InsertInto(t)
    PROVE  /\ Up /\ op[t].pc = "insert" /\ op[t].status = "ok" /\ mem \in DOMAIN memtab
           /\ DOMAIN memtab' = DOMAIN memtab
           /\ memtab'[mem] = memtab[mem] \cup group.entries
           /\ \A n \in DOMAIN memtab : n # mem => memtab'[n] = memtab[n]
           /\ op' = [op EXCEPT ![t].pc = "commit"]
           /\ UNCHANGED <<phase, queue, group, lastSeq, mem, imm, nextFile, logNum, version, pending,
                          bgError, bg, reads, recovery, disk, promises, left>>
<1>1. Front(t, "insert")
  BY DEF InsertInto
<1>2. Up /\ op[t].pc = "insert"
  BY <1>1, Parts, InUp
<1>3. op[t].status = "ok" /\ mem \in DOMAIN memtab
  BY <1>2, Parts, Numbers DEF StageInv
<1> QED
  BY <1>2, <1>3 DEF InsertInto

(* File numbers grow: the memtable is in the newest log, the immutable one *)
(* in an older one that DeleteObsoleteFiles keeps.                         *)
LEMMA NumberKeeps ==
    ASSUME StoreInv, [Next]_vars
    PROVE  NumberInv'
<1>1. ASSUME UNCHANGED <<mem, imm, logNum, version, nextFile>>, Up' => Up,
             DOMAIN memtab' = DOMAIN memtab, DOMAIN logs' = DOMAIN logs,
             DOMAIN tables' = DOMAIN tables
      PROVE  NumberInv'
  BY <1>1, Parts DEF NumberInv
<1>2. CASE UNCHANGED <<mem, imm, logNum, version, nextFile, memtab, logs, tables>> /\ (Up' => Up)
  BY <1>1, <1>2
<1>3. CASE ~ Up'
  BY <1>3 DEF NumberInv
<1>4. ASSUME NEW t \in Thread, RoomSwitched(t)
      PROVE  NumberInv'
  <2>1. /\ Up /\ imm = 0 /\ imm' = mem /\ mem' = nextFile /\ nextFile' = nextFile + 1 /\ mem > 0
        /\ DOMAIN memtab' = DOMAIN memtab \cup {nextFile} /\ DOMAIN logs' = DOMAIN logs \cup {nextFile}
        /\ UNCHANGED <<logNum, version, tables>>
    BY <1>4, SwitchFacts DEF Grown
  <2>2. /\ mem \in DOMAIN memtab \cap DOMAIN logs /\ 0 < mem /\ mem < nextFile /\ logNum <= mem
        /\ \A n \in DOMAIN memtab \cup DOMAIN logs : n <= mem
        /\ \A n \in DOMAIN tables : n < nextFile
        /\ Files(version) \subseteq DOMAIN tables
    BY <2>1, Parts DEF NumberInv
  <2>3. \A n \in DOMAIN memtab' \cup DOMAIN logs' : n <= mem'
    BY <2>1, <2>2, Numbers
  <2>4. \A n \in DOMAIN tables : n < nextFile + 1
    BY <2>2, Numbers
  <2> QED
    BY <2>1, <2>2, <2>3, <2>4, Numbers DEF NumberInv
<1>5. ASSUME NEW t \in Thread, LogStep(t)
      PROVE  NumberInv'
  BY <1>5, <1>1, LogStepFacts, Parts DEF memory, Up
<1>6. ASSUME NEW t \in Thread, InsertInto(t)
      PROVE  NumberInv'
  BY <1>6, <1>1, InsertFacts DEF disk, Up
<1>7. ASSUME NEW r \in Reader, GotValue(r)
      PROVE  NumberInv'
  BY <1>7, GotFacts, Parts DEF disk, Up, NumberInv, Shrunk
<1>8. CASE Flush \/ OpenCompactionOutputFile
  <2>1. /\ Up /\ nextFile' = nextFile + 1 /\ DOMAIN tables' \subseteq DOMAIN tables \cup {nextFile}
        /\ DOMAIN tables \subseteq DOMAIN tables'
        /\ UNCHANGED <<mem, imm, memtab, logNum, version, logs>>
    BY <1>8, FlushFacts, OutputFacts DEF Grown
  <2>2. \A n \in DOMAIN tables' : n < nextFile'
    BY <2>1, Parts, Numbers DEF NumberInv
  <2> QED
    BY <2>1, <2>2, Parts, Numbers DEF NumberInv
<1>9. CASE Install
  <2>1. /\ Up /\ version' = Edited(version) /\ logNum' = bg.edit.log /\ logNum' = Last(manifest).log
        /\ bg.job \in {"mem", "nested"} => imm' = 0
        /\ bg.job = "merge" => imm' = imm /\ bg.pc = "sync"
        /\ bg.job \in {"mem", "nested", "merge"}
        /\ Shrunk(tables, tables') /\ Shrunk(logs, logs') /\ Shrunk(memtab, memtab')
        /\ \A k \in DOMAIN logs : k >= logNum' => k \in DOMAIN logs'
        /\ \A k \in Files(version') : k \in DOMAIN tables => k \in DOMAIN tables'
        /\ mem \in DOMAIN memtab' /\ (imm' # 0 => imm' \in DOMAIN memtab')
        /\ UNCHANGED <<mem, nextFile>>
    BY <1>9, InstallFacts
  <2>2. /\ mem \in DOMAIN memtab \cap DOMAIN logs /\ 0 < mem /\ mem < nextFile
        /\ imm # 0 => imm \in DOMAIN memtab \cap DOMAIN logs /\ logNum <= imm /\ imm < mem
        /\ \A n \in DOMAIN memtab \cup DOMAIN logs : n <= mem
        /\ \A n \in DOMAIN tables : n < nextFile
        /\ Files(version) \subseteq DOMAIN tables
    BY <2>1, Parts DEF NumberInv
  <2>3. logNum' <= mem
    BY <2>1, Parts, ManifestFacts DEF VersionInv
  <2>4. imm' # 0 => imm' = imm /\ logNum' = logNum
    BY <2>1, Parts DEF MergeInv
  <2>5. Files(version') \subseteq DOMAIN tables
    BY <2>1, <2>2, <1>9, EditHolds, InstallFacts, Parts DEF MemoryType
  <2>6. mem \in DOMAIN logs' /\ (imm' # 0 => imm' \in DOMAIN logs')
    BY <2>1, <2>2, <2>3, <2>4, Numbers
  <2> QED
    BY <2>1, <2>2, <2>3, <2>4, <2>5, <2>6 DEF NumberInv, Shrunk
<1>10. CASE TableFails
  <2>1. /\ Up /\ bg.pc = "build" /\ bg.job \in {"mem", "nested"} /\ DOMAIN tables' \subseteq DOMAIN tables
        /\ DOMAIN tables \ {bg.num} \subseteq DOMAIN tables'
        /\ UNCHANGED <<mem, imm, memtab, nextFile, logNum, version, logs>>
    BY <1>10, TableFailsFacts DEF Shrunk
  <2>2. bg.num \notin Files(version)
    BY <2>1, Parts DEF FlushInv
  <2> QED
    BY <2>1, <2>2, Parts DEF NumberInv
<1>11. CASE OpenInstalls
  <2>1. /\ recovery.log \in Nat \ {0} /\ recovery.log < nextFile /\ imm' = 0
        /\ mem' = recovery.log /\ DOMAIN memtab' = {recovery.log} /\ logNum' = recovery.log
        /\ DOMAIN logs' = {recovery.log} /\ DOMAIN tables' = Files(version') /\ nextFile' = nextFile
        /\ \A n \in DOMAIN tables' : n < nextFile
    BY <1>11, OpenFacts
  <2> QED
    BY <2>1 DEF NumberInv
<1>12. \/ UNCHANGED <<mem, imm, logNum, version, nextFile, memtab, logs, tables>> /\ (Up' => Up)
       \/ ~ Up' \/ OpenInstalls \/ Install \/ Flush \/ OpenCompactionOutputFile \/ TableFails
       \/ (\E t \in Thread : RoomSwitched(t) \/ LogStep(t) \/ InsertInto(t))
       \/ (\E r \in Reader : GotValue(r))
  BY ZenonT(60), StepCases DEF Steps, store, disk, memory, promises, RoomFound, Up,
     Sync, Commit, Get, BackgroundIdles, TableBuilt, PickCompaction, FinishCompactionOutputFile,
     AppendEdit, EditNotLogged, CompactionFails, Close, Down, Closed, CrashProcess, OpenFails,
     CrashMachine, RecoverManifest, RecoverLogFile, OpenNewLog, Install
<1> QED
  BY <1>2, <1>3, <1>4, <1>5, <1>6, <1>7, <1>8, <1>9, <1>10, <1>11, <1>12

(* What a record more does to the log of the memtable. *)
LEMMA LogAdds ==
    ASSUME StoreInv, NEW t \in Thread, LogStep(t)
    PROVE  /\ Up /\ op[t].pc = "log" /\ mem \in DOMAIN logs /\ DOMAIN logs' = DOMAIN logs
           /\ \A n \in DOMAIN logs : n # mem => logs'[n] = logs[n]
           /\ \A n \in DOMAIN logs :
                /\ Logged(logs[n]) \subseteq Logged(logs'[n])
                /\ logs'[n] \in Seq(Record) /\ Len(logs[n]) <= Len(logs'[n])
                /\ \A i \in 1..Len(logs[n]) : logs'[n][i] = logs[n][i]
           /\ Logged(logs'[mem]) \subseteq Logged(logs[mem]) \cup group.entries
           /\ AddRecord(t) => group.entries \subseteq Logged(logs'[mem])
           /\ UNCHANGED <<phase, queue, group, memory, bgError, bg, reads, recovery, synced, tables,
                          manifest, promises>>
<1>1. /\ Up /\ op[t].pc = "log" /\ mem \in DOMAIN logs /\ logs[mem] \in Seq(Record)
      /\ DOMAIN logs' = DOMAIN logs
      /\ UNCHANGED <<phase, queue, group, memory, bgError, bg, reads, recovery, synced, tables,
                     manifest, promises>>
  BY LogStepFacts, Parts
<1> DEFINE Done == /\ \A n \in DOMAIN logs : n # mem => logs'[n] = logs[n]
                   /\ Logged(logs[mem]) \subseteq Logged(logs'[mem])
                   /\ logs'[mem] \in Seq(Record) /\ Len(logs[mem]) <= Len(logs'[mem])
                   /\ \A i \in 1..Len(logs[mem]) : logs'[mem][i] = logs[mem][i]
                   /\ Logged(logs'[mem]) \subseteq Logged(logs[mem]) \cup group.entries
                   /\ AddRecord(t) => group.entries \subseteq Logged(logs'[mem])
<1>2. AddRecord(t) => op'[t].pc # "commit" /\ op'[t].status = op[t].status
  BY Parts DEF AddRecord, CallType
<1>3. AddRecordFails(t) => op'[t].pc = "commit"
  BY Parts DEF AddRecordFails, CallType
<1>4. CASE logs' = logs /\ AddRecordFails(t)
  <2>1. ~ AddRecord(t)
    BY <1>2, <1>3, <1>4
  <2>2. \A n \in DOMAIN logs : logs[n] \in Seq(Record) /\ Len(logs[n]) \in Nat
    BY Numbers
  <2> QED
    BY <1>1, <1>4, <2>1, <2>2
<1>5. ASSUME NEW ok \in BOOLEAN, NEW r \in Record, r.entries = group.entries, r.ok = ok,
             logs'[mem] = Append(logs[mem], r), \A n \in DOMAIN logs : n # mem => logs'[n] = logs[n],
             (AddRecord(t) /\ ok) \/ AddRecordFails(t)
      PROVE  Done
  <2>1. /\ Append(logs[mem], r) \in Seq(Record)
        /\ Len(Append(logs[mem], r)) = Len(logs[mem]) + 1 /\ Len(logs[mem]) \in Nat
        /\ \A i \in 1..Len(logs[mem]) : Append(logs[mem], r)[i] = logs[mem][i]
        /\ Logged(Append(logs[mem], r)) = IF r.ok THEN Logged(logs[mem]) \cup r.entries ELSE Logged(logs[mem])
    BY <1>1, AppendRecord
  <2> QED
    BY <1>2, <1>3, <1>5, <2>1
<1>6. ASSUME NEW ok \in BOOLEAN, NEW r, r = [entries |-> group.entries, ok |-> ok], r \in Record,
             logs'[mem] = Append(logs[mem], r), \A n \in DOMAIN logs : n # mem => logs'[n] = logs[n],
             (AddRecord(t) /\ ok) \/ AddRecordFails(t)
      PROVE  Done
  BY <1>5, <1>6
<1>7. Done \/ (logs' = logs /\ AddRecordFails(t))
  <2> HIDE DEF Done
  <2> QED
    BY <1>6, LogStepFacts, Parts
<1>8. \A n \in DOMAIN logs : n # mem => logs[n] \in Seq(Record) /\ Len(logs[n]) \in Nat
  BY Numbers
<1>9. CASE Done
  BY <1>1, <1>8, <1>9
<1> QED
  BY <1>4, <1>7, <1>9

(* What a memtable has is in its log. *)
LEMMA LoggedKeeps ==
    ASSUME StoreInv, [Next]_vars
    PROVE  LoggedInv'
<1>1. Up => /\ memtab[mem] \subseteq Logged(logs[mem])
            /\ imm # 0 => memtab[imm] \subseteq Logged(logs[imm])
            /\ mem \in DOMAIN memtab /\ mem \in DOMAIN logs
            /\ imm # 0 => imm \in DOMAIN memtab /\ imm \in DOMAIN logs
  BY Parts DEF LoggedInv, NumberInv
<1>2. CASE UNCHANGED <<mem, imm, memtab, logs>> /\ (Up' => Up)
  BY <1>1, <1>2 DEF LoggedInv
<1>3. CASE ~ Up'
  BY <1>3 DEF LoggedInv
<1>4. ASSUME NEW t \in Thread, RoomSwitched(t)
      PROVE  LoggedInv'
  BY <1>1, <1>4, SwitchFacts DEF LoggedInv, Grown
<1>5. ASSUME NEW t \in Thread, LogStep(t)
      PROVE  LoggedInv'
  BY <1>1, <1>5, LogAdds DEF LoggedInv, memory
<1>6. ASSUME NEW t \in Thread, InsertInto(t)
      PROVE  LoggedInv'
  <2>1. /\ Up /\ memtab'[mem] = memtab[mem] \cup group.entries
        /\ \A n \in DOMAIN memtab : n # mem => memtab'[n] = memtab[n]
        /\ op[t].pc = "insert" /\ UNCHANGED <<mem, imm, logs>>
    BY <1>6, InsertFacts DEF disk
  <2>2. group.entries \subseteq Logged(logs[mem])
    BY <2>1, Parts DEF StageInv
  <2>3. imm # mem
    BY <2>1, Parts, Numbers DEF NumberInv
  <2> QED
    BY <1>1, <2>1, <2>2, <2>3 DEF LoggedInv
<1>7. ASSUME NEW r \in Reader, GotValue(r)
      PROVE  LoggedInv'
  BY <1>1, <1>7, GotFacts DEF LoggedInv, disk, Shrunk
<1>8. CASE Install
  <2>1. NumberInv' /\ Up /\ Up'
    BY <1>8, NumberKeeps, InstallFacts DEF Up
  <2>2. /\ Shrunk(memtab, memtab') /\ Shrunk(logs, logs') /\ mem' = mem /\ (imm' # 0 => imm' = imm)
    BY <1>8, InstallFacts
  <2>3. /\ mem' \in DOMAIN memtab' /\ mem' \in DOMAIN logs'
        /\ imm' # 0 => imm' \in DOMAIN memtab' /\ imm' \in DOMAIN logs'
    BY <2>1 DEF NumberInv
  <2> QED
    BY <1>1, <2>1, <2>2, <2>3 DEF LoggedInv, Shrunk
<1>9. CASE OpenInstalls
  <2>1. mem' = recovery.log /\ memtab' = [n \in {recovery.log} |-> {}] /\ imm' = 0
    BY <1>9, OpenFacts
  <2> QED
    BY <2>1 DEF LoggedInv
<1>10. \/ UNCHANGED <<mem, imm, memtab, logs>> /\ (Up' => Up)
       \/ ~ Up' \/ OpenInstalls \/ Install
       \/ (\E t \in Thread : RoomSwitched(t) \/ LogStep(t) \/ InsertInto(t))
       \/ (\E r \in Reader : GotValue(r))
  BY StepCases DEF Steps, store, disk, memory, promises, RoomFound, Up,
     Sync, Commit, Get, BackgroundIdles, TableBuilt, PickCompaction, FinishCompactionOutputFile,
     Flush, CompactMemTable, CompactMemTableFirst, BuildTable, OpenCompactionOutputFile, TableFails,
     AppendEdit, EditNotLogged, CompactionFails, Close, Down, Closed, CrashProcess, OpenFails,
     CrashMachine, RecoverManifest, RecoverLogFile, OpenNewLog, Install
<1> QED
  BY <1>2, <1>3, <1>4, <1>5, <1>6, <1>7, <1>8, <1>9, <1>10

(* The end of a group: its entries become visible, its writers are answered. *)
LEMMA CommitFacts ==
    ASSUME StoreInv, NEW t \in Thread, Commit(t)
    PROVE  /\ Up /\ op[t].pc = "commit" /\ op[t].pc \in Serving
           /\ queue # <<>> /\ queue[1] = t /\ group.size \in 1..Len(queue)
           /\ lastSeq' = lastSeq + Batches(group.size) /\ Batches(group.size) \in Nat
           /\ lastSeq' <= issued
           /\ \A e \in group.entries : e.seq \in Nat /\ lastSeq < e.seq /\ e.seq <= lastSeq'
           /\ \A i \in Written : IdOf(i) \in Ids(group.entries)
           /\ group' = NoGroup
           /\ bgError => bgError'
           /\ op[t].status = "ok" =>
                /\ acked' = acked \cup {IdOf(i) : i \in Written}
                /\ promised' = promised \cup {IdOf(i) : i \in {j \in Written : op[queue[j]].sync}}
           /\ op[t].status # "ok" => UNCHANGED <<acked, promised>>
           /\ UNCHANGED <<phase, mem, imm, memtab, nextFile, logNum, version, pending, bg, reads,
                          recovery, disk, issued, left>>
<1>1. Front(t, "commit")
  BY DEF Commit
<1>2. Up /\ op[t].pc = "commit" /\ op[t].pc \in Serving /\ queue # <<>> /\ queue[1] = t
  BY <1>1, Parts, InUp DEF Front, Serving
<1>3. group.size \in 1..Len(queue)
  BY <1>2, Parts DEF QueueInv
<1>4. /\ Batches(group.size) \in Nat /\ lastSeq \in Nat /\ issued \in Nat
      /\ lastSeq + Batches(group.size) <= issued
      /\ Cardinality(group.entries) = Batches(group.size)
      /\ \A i \in Written : IdOf(i) \in Ids(group.entries)
      /\ \A e \in group.entries : e.seq \in Nat /\ lastSeq < e.seq /\ e.seq <= lastSeq + Batches(group.size)
  BY <1>2, Parts, ServingFacts
<1>5. lastSeq' = lastSeq + Cardinality(group.entries) /\ group' = NoGroup
        /\ UNCHANGED <<phase, mem, imm, memtab, nextFile, logNum, version, pending, bg, reads,
                       recovery, disk, issued, left>>
  BY Zenon DEF Commit
<1>6. bgError => bgError'
  BY Zenon DEF Commit
<1>7. op[t].status = "ok" =>
                /\ acked' = acked \cup {IdOf(i) : i \in Written}
                /\ promised' = promised \cup {IdOf(i) : i \in {j \in Written : op[queue[j]].sync}}
  BY Zenon DEF Commit
<1>8. op[t].status # "ok" => UNCHANGED <<acked, promised>>
  BY Zenon DEF Commit
<1> QED
  BY <1>2, <1>3, <1>4, <1>5, <1>6, <1>7, <1>8

(* No entry is past LastSequence but those of the group under way. *)
LEMMA SeqKeeps ==
    ASSUME StoreInv, [Next]_vars
    PROVE  SeqInv'
<1>0. lastSeq \in Nat /\ \A e \in Entry : e.seq \in Nat
  BY Numbers DEF Entry
<1> DEFINE T == \A n \in DOMAIN tables : \A e \in tables[n] : e.seq <= lastSeq
           M == \A n \in DOMAIN memtab : \A e \in memtab[n] : e.seq <= lastSeq \/ (n = mem /\ e \in group.entries)
           L == \A n \in DOMAIN logs :
                     \A e \in Logged(logs[n]) : e.seq <= lastSeq \/ (n = mem /\ e \in group.entries)
<1>1. (Up => T /\ M /\ L) /\ ((Up' => T' /\ M' /\ L') => SeqInv')
  BY Parts DEF SeqInv
<1>2. CASE UNCHANGED <<lastSeq, mem, group, tables, memtab, logs>> /\ (Up' => Up)
  BY <1>1, <1>2
<1>3. CASE ~ Up'
  BY <1>1, <1>3
<1>4. ASSUME NEW t \in Thread, RoomSwitched(t)
      PROVE  SeqInv'
  <2>1. Up /\ group.entries = {} /\ UNCHANGED <<lastSeq, group, tables>>
    BY <1>4, SwitchFacts DEF NoGroup
  <2>2. M'
    BY <1>1, <1>4, <2>1, SwitchFacts DEF Grown
  <2>3. L'
    BY <1>1, <1>4, <2>1, SwitchFacts, LoggedEmpty DEF Grown
  <2> QED
    BY <1>1, <2>1, <2>2, <2>3
<1>5. ASSUME NEW t \in Thread, RoomFound(t)
      PROVE  SeqInv'
  BY <1>1, <1>5, FoundFacts DEF memory, disk
<1>6. ASSUME NEW t \in Thread, LogStep(t)
      PROVE  SeqInv'
  <2>1. Up /\ UNCHANGED <<lastSeq, mem, memtab, group, tables>>
    BY <1>6, LogAdds DEF memory
  <2>2. L'
    BY <1>1, <1>6, <2>1, LogAdds
  <2> QED
    BY <1>1, <2>1, <2>2
<1>7. ASSUME NEW t \in Thread, InsertInto(t)
      PROVE  SeqInv'
  <2>1. Up /\ UNCHANGED <<lastSeq, mem, logs, group, tables>>
    BY <1>7, InsertFacts DEF disk
  <2>2. M'
    BY <1>1, <1>7, <2>1, InsertFacts
  <2> QED
    BY <1>1, <2>1, <2>2
<1>8. ASSUME NEW t \in Thread, Commit(t)
      PROVE  SeqInv'
  <2>1. /\ Up /\ lastSeq <= lastSeq' /\ lastSeq' \in Nat /\ \A e \in group.entries : e.seq <= lastSeq'
        /\ UNCHANGED <<mem, logs, tables, memtab>>
    BY <1>0, <1>8, CommitFacts DEF disk
  <2>2. \A e \in Entry : e.seq <= lastSeq => e.seq <= lastSeq'
    BY <1>0, <2>1
  <2>3. /\ \A n \in DOMAIN tables : tables[n] \subseteq Entry
        /\ \A n \in DOMAIN memtab : memtab[n] \subseteq Entry
        /\ \A n \in DOMAIN logs : Logged(logs[n]) \subseteq Entry
    BY Numbers, LoggedType
  <2>4. T'
    BY <1>1, <2>1, <2>2, <2>3
  <2>5. M'
    BY <1>1, <2>1, <2>2, <2>3
  <2>6. L'
    BY <1>1, <2>1, <2>2, <2>3
  <2> QED
    BY <1>1, <2>4, <2>5, <2>6
<1>9. ASSUME NEW r \in Reader, GotValue(r)
      PROVE  SeqInv'
  BY <1>1, <1>9, GotFacts DEF disk, Shrunk
<1>10. CASE Flush
  <2>1. /\ Up /\ imm # 0 /\ imm \in DOMAIN memtab /\ UNCHANGED <<lastSeq, mem, group, memtab, logs>>
        /\ \A n \in DOMAIN tables' : (n \in DOMAIN tables /\ tables'[n] = tables[n]) \/ tables'[n] = memtab[imm]
    BY <1>10, FlushFacts DEF Grown
  <2>2. imm # mem
    BY <2>1, Parts, Numbers DEF NumberInv
  <2>3. T'
    BY <1>1, <2>1, <2>2
  <2> QED
    BY <1>1, <2>1, <2>3
<1>11. CASE OpenCompactionOutputFile
  <2>1. /\ Up /\ UNCHANGED <<lastSeq, mem, group, memtab, logs>>
        /\ \A n \in DOMAIN tables' : \/ n \in DOMAIN tables /\ tables'[n] = tables[n]
                                     \/ tables'[n] = Stored(Files(bg.inputs))
    BY <1>11, OutputFacts DEF Grown
  <2>2. T'
    BY <1>1, <2>1, StoredIn
  <2> QED
    BY <1>1, <2>1, <2>2
<1>12. CASE Install
  <2>1. /\ Up /\ UNCHANGED <<lastSeq, mem, group>> /\ Shrunk(tables, tables')
        /\ Shrunk(memtab, memtab') /\ Shrunk(logs, logs')
    BY <1>12, InstallFacts
  <2> QED
    BY <1>1, <2>1 DEF Shrunk
<1>13. CASE TableFails
  BY <1>1, <1>13, TableFailsFacts DEF Shrunk
<1>14. CASE OpenInstalls
  <2>1. /\ memtab' = [n \in {recovery.log} |-> {}] /\ lastSeq' = lastSeq
        /\ DOMAIN logs' = {recovery.log} /\ logs'[recovery.log] = <<>>
        /\ Shrunk(tables, tables') /\ DOMAIN tables' = Files(version')
        /\ \A e \in Stored(Files(version')) : e.seq <= lastSeq
    BY <1>14, OpenFacts
  <2>2. T'
    BY <2>1, StoredIn DEF Shrunk
  <2>3. M' /\ L'
    BY <2>1, LoggedEmpty
  <2> QED
    BY <1>1, <2>2, <2>3
<1>15. \/ UNCHANGED <<lastSeq, mem, group, tables, memtab, logs>> /\ (Up' => Up)
       \/ ~ Up' \/ OpenInstalls \/ Install \/ Flush \/ OpenCompactionOutputFile \/ TableFails
       \/ (\E t \in Thread : RoomSwitched(t) \/ RoomFound(t) \/ LogStep(t) \/ InsertInto(t) \/ Commit(t))
       \/ (\E r \in Reader : GotValue(r))
  BY StepCases DEF Steps, store, disk, memory, promises, Up,
     Sync, Get, BackgroundIdles, TableBuilt, PickCompaction, FinishCompactionOutputFile,
     AppendEdit, EditNotLogged, CompactionFails, Close, Down, Closed, CrashProcess, OpenFails,
     CrashMachine, RecoverManifest, RecoverLogFile, OpenNewLog, Install
<1> QED
  BY <1>2, <1>3, <1>4, <1>5, <1>6, <1>7, <1>8, <1>9, <1>10, <1>11, <1>12, <1>13, <1>14, <1>15

(***************************************************************************)
(* The version and what the MANIFEST may recover.                          *)
(***************************************************************************)
(* The background steps that log nothing and write no table. *)
LEMMA QuietFacts ==
    ASSUME StoreInv, BackgroundIdles \/ TableBuilt \/ PickCompaction \/ FinishCompactionOutputFile
                        \/ CompactionFails
    PROVE  /\ Up /\ bg.pc # "sync" /\ bg'.pc # "sync" /\ (bgError => bgError')
           /\ UNCHANGED <<phase, queue, group, lastSeq, mem, imm, memtab, nextFile, logNum, version,
                          reads, recovery, disk, promises>>
<1>1. bg.pc \in {"queued", "build", "work"}
  BY DEF BackgroundIdles, TableBuilt, PickCompaction, FinishCompactionOutputFile, CompactionFails, Working
<1>2. Up
  BY <1>1, Parts, InUp
<1>3. bgError => bgError'
  BY Zenon DEF BackgroundIdles, TableBuilt, PickCompaction, FinishCompactionOutputFile, CompactionFails,
               memory
<1>4. bg \in Background
  BY Parts DEF MemoryType
<1>5. bg'.pc # "sync"
  <2>1. CASE BackgroundIdles \/ CompactionFails
    <3>1. bg' \in {NoBg, [NoBg EXCEPT !.pc = "queued"]} \/ bg'.pc = "work"
      BY <2>1, <1>4, DoneFacts DEF BackgroundIdles, CompactionFails, Background
    <3> QED
      BY <3>1 DEF NoBg
  <2>2. CASE TableBuilt \/ PickCompaction \/ FinishCompactionOutputFile
    BY <2>2, <1>4 DEF TableBuilt, PickCompaction, FinishCompactionOutputFile, Background, NoBg
  <2> QED
    BY <2>1, <2>2
<1>6. UNCHANGED <<phase, queue, group, lastSeq, mem, imm, memtab, nextFile, logNum, version,
                  reads, recovery, disk, promises>>
  BY DEF BackgroundIdles, TableBuilt, PickCompaction, FinishCompactionOutputFile, CompactionFails, memory
<1> QED
  BY <1>1, <1>2, <1>3, <1>5, <1>6

(* The version is in every state the MANIFEST may recover, before and after *)
(* a record, a failed one and an installed one.                            *)
LEMMA VersionKeeps ==
    ASSUME StoreInv, [Next]_vars
    PROVE  VersionInv'
<1>0. Up => /\ manifest[1].log = logNum
            /\ \A i \in DOMAIN manifest :
                 /\ logNum <= manifest[i].log /\ manifest[i].log <= mem
                 /\ Stored(Files(version)) \subseteq Stored(Files(manifest[i].files))
                 /\ imm # 0 /\ imm < manifest[i].log => memtab[imm] \subseteq Stored(Files(manifest[i].files))
            /\ ~ bgError => Last(manifest).files = IF bg.pc = "sync" THEN Edited(version) ELSE version
            /\ Files(version) \subseteq DOMAIN tables
            /\ mem \in DOMAIN memtab
            /\ imm # 0 => imm \in DOMAIN memtab /\ logNum <= imm /\ imm < mem
  BY Parts DEF VersionInv, NumberInv
<1>1. ASSUME UNCHANGED <<manifest, logNum, mem, version>>, Up' => Up,
             imm' # 0 => imm' = imm /\ memtab'[imm] = memtab[imm],
             \A k \in DOMAIN tables : \/ k \in DOMAIN tables' /\ tables'[k] = tables[k]
                                      \/ /\ k \notin Files(version)
                                         /\ \A i \in DOMAIN manifest : k \notin Files(manifest[i].files),
             bgError => bgError',
             bgError' \/ (bg.pc # "sync" /\ bg'.pc # "sync") \/ bg' = bg
      PROVE  VersionInv'
  <2> SUFFICES ASSUME Up'
               PROVE  /\ manifest[1].log = logNum
                      /\ \A i \in DOMAIN manifest :
                           /\ logNum <= manifest[i].log /\ manifest[i].log <= mem
                           /\ Stored(Files(version))' \subseteq Stored(Files(manifest[i].files))'
                           /\ imm' # 0 /\ imm' < manifest[i].log
                                => memtab'[imm'] \subseteq Stored(Files(manifest[i].files))'
                      /\ ~ bgError' => Last(manifest).files =
                              IF bg'.pc = "sync" THEN Edited(version)' ELSE version
    BY <1>1 DEF VersionInv, Last
  <2>1. Up
    BY <1>1
  <2>2. Stored(Files(version))' = Stored(Files(version))
    <3>1. \A F : F = Files(version) => Stored(F)' = Stored(F)
      BY <2>1, <1>0, <1>1, StoredSame
    <3> QED
      BY <3>1, <1>1
  <2>3. \A i \in DOMAIN manifest : Stored(Files(manifest[i].files))' = Stored(Files(manifest[i].files))
    <3> TAKE i \in DOMAIN manifest
    <3>1. \A F : F = Files(manifest[i].files) => Stored(F)' = Stored(F)
      <4>1. \A n \in Files(manifest[i].files) : n \in DOMAIN tables /\ n \in DOMAIN tables' /\ tables'[n] = tables[n]
        BY <1>1, ManifestFacts
      <4> QED
        BY <4>1, StoredSame
    <3> QED
      BY <3>1, <1>1
  <2>4. ~ bgError' => Last(manifest).files =
                              IF bg'.pc = "sync" THEN Edited(version)' ELSE version
    BY <1>0, <1>1, <2>1 DEF Edited, Merged, Without
  <2> QED
    BY <1>0, <1>1, <2>1, <2>2, <2>3, <2>4
<1>2. CASE UNCHANGED <<manifest, logNum, mem, imm, memtab, version, tables, bgError, bg>> /\ (Up' => Up)
  BY <1>1, <1>2
<1>3. CASE ~ Up'
  BY <1>3 DEF VersionInv
<1>4. ASSUME NEW t \in Thread, RoomSwitched(t)
      PROVE  VersionInv'
  <2>1. /\ Up /\ imm = 0 /\ imm' = mem /\ mem' = nextFile
        /\ UNCHANGED <<manifest, logNum, version, tables, bgError>>
        /\ (bg' = bg \/ (bg.pc = "off" /\ bg' \in {NoBg, [NoBg EXCEPT !.pc = "queued"]}))
    BY <1>4, SwitchFacts
  <2>2. \A F : Stored(F)' = Stored(F)
    BY <2>1, StoredUnchanged
  <2>3. bg'.pc # "sync" \/ bg' = bg
    BY <2>1 DEF NoBg
  <2>4. \A i \in DOMAIN manifest : manifest[i].log \in Nat /\ manifest[i].log <= mem
                                   /\ manifest[i].log <= mem' /\ ~ (imm' < manifest[i].log)
    <3> TAKE i \in DOMAIN manifest
    <3>1. manifest[i].log \in Nat /\ manifest[i].log <= mem /\ mem \in Nat /\ mem < nextFile /\ nextFile \in Nat
      BY <2>1, <1>0, ManifestFacts, Numbers
    <3> QED
      BY <2>1, <3>1
  <2>5. ~ bgError' => Last(manifest)'.files = IF bg'.pc = "sync" THEN Edited(version)' ELSE version'
    BY <1>0, <2>1, <2>3 DEF Edited, Merged, Without, Last, NoBg
  <2> QED
    BY <1>0, <2>1, <2>2, <2>4, <2>5 DEF VersionInv
<1>5. ASSUME NEW t \in Thread, InsertInto(t)
      PROVE  VersionInv'
  <2>1. /\ Up /\ UNCHANGED <<phase, manifest, logNum, mem, imm, version, tables, bgError, bg>>
        /\ \A n \in DOMAIN memtab : n # mem => memtab'[n] = memtab[n]
    BY <1>5, InsertFacts DEF disk
  <2>2. imm # 0 => imm # mem /\ imm \in DOMAIN memtab
    BY <2>1, <1>0, Numbers
  <2> QED
    BY <1>1, <2>1, <2>2 DEF Up
<1>6. ASSUME NEW t \in Thread, Commit(t)
      PROVE  VersionInv'
  <2>1. /\ Up /\ UNCHANGED <<phase, manifest, logNum, mem, imm, memtab, version, tables, bg>>
        /\ bgError => bgError'
    BY <1>6, CommitFacts DEF disk
  <2> QED
    BY <1>1, <2>1 DEF Up
<1>7. ASSUME NEW r \in Reader, GotValue(r)
      PROVE  VersionInv'
  <2>1. /\ Up /\ UNCHANGED <<phase, manifest, logNum, mem, imm, version, tables, bgError, bg>>
        /\ Shrunk(memtab, memtab') /\ (imm # 0 => imm \in DOMAIN memtab')
    BY <1>7, GotFacts DEF disk
  <2> QED
    BY <1>1, <2>1 DEF Up, Shrunk
<1>8. CASE BackgroundIdles \/ TableBuilt \/ PickCompaction \/ FinishCompactionOutputFile \/ CompactionFails
  BY <1>1, <1>8, QuietFacts DEF disk, Up
<1>9. CASE Flush
  <2>1. /\ Up /\ UNCHANGED <<phase, manifest, logNum, mem, imm, memtab, version, bgError>>
        /\ \A k \in DOMAIN tables : k \in DOMAIN tables' /\ tables'[k] = tables[k]
        /\ bg.pc # "sync"
    BY <1>9, FlushFacts DEF Grown
  <2>2. bg'.pc = "build"
    BY <1>9, FlushFacts, Parts DEF MemoryType, Background
  <2> QED
    BY <1>1, <2>1, <2>2 DEF Up
<1>10. CASE OpenCompactionOutputFile
  <2>1. /\ Up /\ UNCHANGED <<phase, manifest, logNum, mem, imm, memtab, version, bgError>>
        /\ \A k \in DOMAIN tables : k \in DOMAIN tables' /\ tables'[k] = tables[k]
        /\ bg.pc # "sync"
    BY <1>10, OutputFacts DEF Grown
  <2>2. bg'.pc = "work"
    BY <1>10, OutputFacts, Parts DEF MemoryType, Background
  <2> QED
    BY <1>1, <2>1, <2>2 DEF Up
<1>11. CASE TableFails
  <2>1. /\ Up /\ UNCHANGED <<phase, manifest, logNum, mem, imm, memtab, version>> /\ bgError'
        /\ bg.pc = "build" /\ bg.job \in {"mem", "nested"}
        /\ \A k \in DOMAIN tables : k # bg.num => k \in DOMAIN tables' /\ tables'[k] = tables[k]
    BY <1>11, TableFailsFacts DEF Shrunk
  <2>2. bg.num \notin Files(version) /\ \A i \in DOMAIN manifest : bg.num \notin Files(manifest[i].files)
    BY <2>1, Parts DEF FlushInv
  <2> QED
    BY <1>1, <2>1, <2>2 DEF Up
<1>12. CASE AppendEdit \/ EditNotLogged
  <2>1. /\ Up /\ UNCHANGED <<phase, logNum, mem, imm, memtab, version, tables>>
        /\ (manifest' = manifest /\ bgError')
               \/ (bg.pc = "append" /\ (Logs(EditRecord) \/ Logs(PartRecord)))
        /\ bgError' \/ (Logs(EditRecord) /\ bg.pc = "append" /\ bg' = [bg EXCEPT !.pc = "sync"] /\ UNCHANGED bgError)
    BY <1>12, EditLogged
  <2>2. CASE manifest' = manifest /\ bgError'
    BY <1>1, <2>1, <2>2 DEF Up
  <2>3. ASSUME bg.pc = "append", NEW r, r \in {EditRecord, PartRecord}, Logs(r)
        PROVE  VersionInv'
    <3> DEFINE last == Len(manifest) + 1
    <3>1. /\ DOMAIN manifest' = 1..last /\ Len(manifest') = last /\ last \in Nat
          /\ manifest'[last] = r /\ Last(manifest)' = r
          /\ \A i \in 1..Len(manifest) : manifest'[i] = manifest[i]
          /\ DOMAIN manifest = 1..Len(manifest) /\ Len(manifest) \in Nat
          /\ Len(manifest) \in DOMAIN manifest /\ 1 \in 1..Len(manifest)
          /\ Stored(Files(Last(manifest).files)) \subseteq Stored(Files(r.files))
          /\ Last(manifest) = manifest[Len(manifest)]
      BY <2>3, RecordFacts, ManifestFacts
    <3>2. Stored(Files(version)) \subseteq Stored(Files(r.files))
      BY <2>1, <1>0, <3>1
    <3>3. logNum <= r.log /\ r.log <= mem
             /\ (imm # 0 /\ imm < r.log => memtab[imm] \subseteq Stored(Files(r.files)))
      <4>1. CASE r = PartRecord
        <5>1. r.log = Last(manifest).log /\ r.files = Last(manifest).files
          BY <2>3, <4>1, RecordFacts
        <5> QED
          BY <2>1, <5>1, <3>1, <1>0
      <4>2. CASE r = EditRecord
        <5>1. r.log = bg.edit.log /\ r.files = Edited(Last(manifest).files)
          BY <2>3, <4>2, RecordFacts
        <5>2. bg.job \in {"mem", "nested", "merge"}
          BY <1>12, EditLogged
        <5>3. CASE bg.job = "merge"
          <6>1. bg.edit.log = logNum
            BY <2>3, <5>3, Parts DEF MergeInv
          <6>2. logNum \in Nat /\ mem \in Nat /\ logNum <= mem /\ imm \in Nat /\ (imm # 0 => logNum <= imm)
            BY <2>1, Numbers, Parts DEF NumberInv
          <6> QED
            BY <5>1, <6>1, <6>2
        <5>4. CASE bg.job \in {"mem", "nested"}
          <6>1. bg.edit.log = mem
            BY <2>3, <5>4, Parts DEF FlushInv
          <6>2. logNum \in Nat /\ mem \in Nat /\ logNum <= mem
            BY <2>1, Numbers, Parts DEF NumberInv
          <6>3. memtab[imm] \subseteq Stored(Files(Edited(Last(manifest).files)))
            BY <2>3, <5>4, EditHolds, ManifestFacts
          <6> QED
            BY <5>1, <6>1, <6>2, <6>3
        <5> QED
          BY <5>2, <5>3, <5>4
      <4> QED
        BY <2>3, <4>1, <4>2
    <3>4. \A F : Stored(F)' = Stored(F)
      BY <2>1, StoredUnchanged
    <3>5. ~ bgError' => Last(manifest)'.files = IF bg'.pc = "sync" THEN Edited(version)' ELSE version'
      <4> SUFFICES ASSUME ~ bgError'
                   PROVE  Last(manifest)'.files = IF bg'.pc = "sync" THEN Edited(version)' ELSE version'
        OBVIOUS
      <4>1. Logs(EditRecord) /\ bg' = [bg EXCEPT !.pc = "sync"] /\ ~ bgError
        BY <2>1
      <4>2. bg'.pc = "sync" /\ bg'.edit = bg.edit
        BY <4>1, Parts DEF MemoryType, Background
      <4>3. Last(manifest)'.files = Edited(Last(manifest).files)
        <5>1. EditRecord \in {EditRecord, PartRecord}
          OBVIOUS
        <5>2. Last(manifest)' = EditRecord
          BY <4>1, <5>1, <2>3, RecordFacts
        <5> QED
          BY <5>2 DEF EditRecord
      <4>4. Last(manifest).files = version
        BY <1>0, <2>1, <2>3, <4>1
      <4>5. Edited(version)' = Edited(version)
        BY <2>1, <4>2 DEF Edited
      <4> QED
        BY <4>2, <4>3, <4>4, <4>5
    <3>6. \A i \in DOMAIN manifest' : i = last \/ (i \in DOMAIN manifest /\ manifest'[i] = manifest[i])
      BY <3>1
    <3>7. manifest'[1].log = logNum'
      BY <2>1, <1>0, <3>1
    <3> HIDE DEF last
    <3>8. \A i \in DOMAIN manifest' :
                 /\ logNum <= manifest'[i].log /\ manifest'[i].log <= mem
                 /\ Stored(Files(version)) \subseteq Stored(Files(manifest'[i].files))
                 /\ imm # 0 /\ imm < manifest'[i].log => memtab[imm] \subseteq Stored(Files(manifest'[i].files))
      BY <2>1, <1>0, <3>1, <3>2, <3>3, <3>6
    <3> QED
      BY <2>1, <3>4, <3>5, <3>7, <3>8 DEF VersionInv
  <2> QED
    BY <2>1, <2>2, <2>3
<1>13. CASE Install
  <2>1. /\ Up /\ bg.pc = "sync" /\ bg.job \in {"mem", "nested", "merge"}
        /\ bg.job \in {"mem", "nested"} => imm' = 0
        /\ bg.job = "merge" => imm' = imm
        /\ version' = Edited(version) /\ logNum' = bg.edit.log /\ logNum' = Last(manifest).log
        /\ DOMAIN manifest' = 1..Len(manifest') /\ Len(manifest') \in {1, 2}
        /\ Last(manifest)' = Last(manifest)
        /\ \A i \in DOMAIN manifest' :
                /\ manifest'[i].log = Last(manifest).log /\ manifest'[i].files = Last(manifest).files
        /\ Shrunk(tables, tables')
        /\ \A k \in Files(version') \cup Files(Last(manifest).files) : k \in DOMAIN tables => k \in DOMAIN tables'
        /\ UNCHANGED <<mem, bgError>>
    BY <1>13, InstallFacts
  <2>2. Last(manifest) = manifest[Len(manifest)] /\ Len(manifest) \in DOMAIN manifest
    BY ManifestFacts
  <2>3. Stored(Files(Edited(version))) \subseteq Stored(Files(Last(manifest).files))
    BY <2>1, <2>2, <1>0, InstalledHolds
  <2>4. /\ Stored(Files(version))' = Stored(Files(Edited(version)))
        /\ \A F : F = Files(Last(manifest).files) => Stored(F)' = Stored(F)
    <3>1. \A F : F \in {Files(version'), Files(Last(manifest).files)} => Stored(F)' = Stored(F)
      BY <2>1, StoredShrunk
    <3> QED
      BY <2>1, <3>1
  <2>5. \A i \in DOMAIN manifest' : Stored(Files(version))' \subseteq Stored(Files(manifest[i].files))'
    <3> SUFFICES ASSUME NEW i \in DOMAIN manifest'
                 PROVE  Stored(Files(version))' \subseteq Stored(Files(manifest[i].files))'
      OBVIOUS
    <3>1. Files(manifest'[i].files) = Files(Last(manifest).files)
      BY <2>1
    <3> QED
      BY <2>3, <2>4, <3>1
  <2>6. imm' # 0 => ~ (imm' < Last(manifest).log)
    <3>1. bg.job = "merge" => logNum' = logNum
      BY <2>1, Parts DEF MergeInv
    <3> QED
      BY <2>1, <3>1, <1>0, Numbers
  <2>7. logNum' <= mem /\ logNum' <= Last(manifest).log
    BY <2>1, <2>2, <1>0, ManifestFacts
  <2>8. bg'.pc # "sync"
    <3>1. bg \in Background
      BY Parts DEF MemoryType
    <3>2. bg' \in {NoBg, [NoBg EXCEPT !.pc = "queued"]} \/ bg'.pc = "work"
      BY <1>13, <2>1, <3>1, InstallFacts, DoneFacts DEF Background
    <3> QED
      BY <3>2 DEF NoBg
  <2>9. ~ bgError' => Last(manifest)'.files = version'
    BY <2>1, <1>0
  <2>10. manifest'[1].log = logNum' /\ 1 \in DOMAIN manifest'
    BY <2>1
  <2>11. \A i \in DOMAIN manifest' : logNum' <= manifest'[i].log /\ manifest'[i].log <= mem'
                                      /\ ~ (imm' # 0 /\ imm' < manifest'[i].log)
    BY <2>1, <2>6, <2>7
  <2> QED
    BY <2>5, <2>8, <2>9, <2>10, <2>11 DEF VersionInv
<1>14. CASE OpenInstalls
  <2>1. /\ manifest' = <<[log |-> recovery.log, next |-> nextFile, last |-> lastSeq,
                          files |-> version', ok |-> TRUE]>>
        /\ mem' = recovery.log /\ logNum' = recovery.log /\ imm' = 0 /\ recovery.log \in Nat
        /\ bg' \in {NoBg, [NoBg EXCEPT !.pc = "queued"]}
    BY <1>14, OpenFacts
  <2>2. /\ DOMAIN manifest' = {1} /\ manifest'[1].log = recovery.log /\ manifest'[1].files = version'
        /\ Last(manifest') = manifest'[1]
    BY <2>1 DEF Last
  <2>3. bg'.pc # "sync"
    BY <2>1 DEF NoBg
  <2>4. \A i \in DOMAIN manifest' : Stored(Files(version))' \subseteq Stored(Files(manifest[i].files))'
    BY <2>2
  <2> QED
    BY <2>1, <2>2, <2>3, <2>4 DEF VersionInv
<1>15. \/ UNCHANGED <<manifest, logNum, mem, imm, memtab, version, tables, bgError, bg>> /\ (Up' => Up)
       \/ ~ Up' \/ OpenInstalls \/ Install \/ Flush \/ OpenCompactionOutputFile \/ TableFails
       \/ BackgroundIdles \/ TableBuilt \/ PickCompaction \/ FinishCompactionOutputFile \/ CompactionFails
       \/ AppendEdit \/ EditNotLogged
       \/ (\E t \in Thread : RoomSwitched(t) \/ InsertInto(t) \/ Commit(t))
       \/ (\E r \in Reader : GotValue(r))
  BY ZenonT(60), StepCases DEF Steps, store, disk, memory, promises, Up, LogStep, AddRecord, AddRecordFails,
     RoomFound, Sync, Get, Close, Down, Closed, CrashProcess, OpenFails,
     CrashMachine, RecoverManifest, RecoverLogFile, OpenNewLog, Install
<1> QED
  BY <1>2, <1>3, <1>4, <1>5, <1>6, <1>7, <1>8, <1>9, <1>10, <1>11, <1>12, <1>13, <1>14, <1>15

(***************************************************************************)
(* The background thread.                                                  *)
(***************************************************************************)
(* A background call that ends leaves no job, or goes back to the merge. *)
LEMMA EndFacts ==
    ASSUME StoreInv, Ends
    PROVE  /\ Up /\ bg'.job \in {"none", "merge"} /\ bg'.pc \in {"off", "queued", "work"}
           /\ bg'.pc \in {"off", "queued"} => bg' = [NoBg EXCEPT !.pc = bg'.pc]
           /\ bg'.pc = "work" => bg'.job = "merge"
           /\ bg'.job = "merge" => /\ bg.job = "nested" /\ bg'.inputs = bg.inputs /\ bg'.out = bg.out
                                   /\ bg'.pc = "work"
<1>1. bg \in Background
  BY Parts DEF MemoryType
<1>2. Up
  BY QuietFacts, TableFailsFacts, EditLogged, InstallFacts DEF Ends
<1>3. \E i, v, e : BackgroundDone(i, v, e) \/ MemTableDone(i, v, e)
  <2>1. CASE BackgroundIdles
    BY <2>1 DEF BackgroundIdles
  <2>2. CASE TableFails
    BY <2>2 DEF TableFails
  <2>3. CASE CompactionFails
    BY <2>3 DEF CompactionFails
  <2>4. CASE EditNotLogged
    BY <2>4, EditLogged
  <2>5. CASE Install
    BY <2>5, InstallFacts
  <2> QED
    BY <2>1, <2>2, <2>3, <2>4, <2>5 DEF Ends
<1>4. \/ bg.job = "nested" /\ bg' = [bg EXCEPT !.pc = "work", !.job = "merge", !.num = 0, !.edit = NoBg.edit]
      \/ bg' \in {NoBg, [NoBg EXCEPT !.pc = "queued"]}
  BY <1>3, DoneFacts
<1>5. CASE bg' \in {NoBg, [NoBg EXCEPT !.pc = "queued"]}
  <2>1. bg'.job = "none" /\ bg'.pc \in {"off", "queued"} /\ bg' = [NoBg EXCEPT !.pc = bg'.pc]
    BY <1>5 DEF NoBg
  <2> QED
    BY <2>1, <1>2
<1>6. CASE bg.job = "nested" /\ bg' = [bg EXCEPT !.pc = "work", !.job = "merge", !.num = 0, !.edit = NoBg.edit]
  <2>1. bg'.job = "merge" /\ bg'.pc = "work" /\ bg'.inputs = bg.inputs /\ bg'.out = bg.out
    BY <1>6, <1>1 DEF Background
  <2> QED
    BY <2>1, <1>2, <1>6
<1> QED
  BY <1>4, <1>5, <1>6

(* A background thread that is off or queued has no job. *)
LEMMA NoJob ==
    ASSUME StoreInv, bg.pc \in {"off", "queued"}
    PROVE  bg.job = "none" /\ bg.out = 0 /\ bg.inputs = NoFiles
<1>1. bg = [NoBg EXCEPT !.pc = bg.pc]
  BY Parts DEF EditInv
<1> QED
  BY <1>1 DEF NoBg

LEMMA SwitchedBg ==
    ASSUME StoreInv, NEW t \in Thread, RoomSwitched(t)
    PROVE  bg' = bg \/ (bg'.pc \in {"off", "queued"} /\ bg'.job = "none" /\ bg' = [NoBg EXCEPT !.pc = bg'.pc])
<1>1. bg' = bg \/ bg' \in {NoBg, [NoBg EXCEPT !.pc = "queued"]}
  BY SwitchFacts
<1> QED
  BY <1>1 DEF NoBg

LEMMA OpenedBg ==
    ASSUME StoreInv, OpenInstalls
    PROVE  bg'.pc \in {"off", "queued"} /\ bg'.job = "none" /\ bg' = [NoBg EXCEPT !.pc = bg'.pc]
<1>1. bg' \in {NoBg, [NoBg EXCEPT !.pc = "queued"]}
  BY OpenFacts
<1> QED
  BY <1>1 DEF NoBg

LEMMA DownBg ==
    ASSUME StoreInv, [Next]_vars, ~ Up'
    PROVE  bg'.pc = "off" /\ bg'.job = "none" /\ bg' = [NoBg EXCEPT !.pc = bg'.pc]
<1>1. bg' = NoBg
  BY RestKeeps DEF RestInv
<1> QED
  BY <1>1 DEF NoBg

LEMMA FlushBg ==
    ASSUME StoreInv, Flush
    PROVE  /\ bg'.pc = "build" /\ bg'.job \in {"mem", "nested"} /\ bg'.num = nextFile
           /\ bg'.inputs = bg.inputs /\ bg'.out = bg.out
           /\ bg'.job = "nested" => bg.job = "merge" /\ bg.pc = "work"
           /\ bg'.job = "mem" => bg.job = "none"
<1>1. bg \in Background
  BY Parts DEF MemoryType
<1>2. PICK job \in {"mem", "nested"} :
                /\ bg' = [bg EXCEPT !.pc = "build", !.job = job, !.num = nextFile]
                /\ job = "mem" => bg.pc = "queued"
                /\ job = "nested" => bg.pc = "work" /\ bg.job = "merge"
  BY FlushFacts
<1>3. bg'.pc = "build" /\ bg'.job = job /\ bg'.num = nextFile /\ bg'.inputs = bg.inputs /\ bg'.out = bg.out
  BY <1>1, <1>2 DEF Background
<1> QED
  BY <1>2, <1>3, NoJob

LEMMA BuiltBg ==
    ASSUME StoreInv, TableBuilt
    PROVE  /\ bg.pc = "build" /\ bg'.pc = "append" /\ bg'.job = bg.job /\ bg'.num = bg.num
           /\ bg'.inputs = bg.inputs /\ bg'.out = bg.out
           /\ bg'.edit.log = mem /\ bg'.edit.next = nextFile /\ bg'.edit.last = lastSeq
           /\ bg'.edit.del = NoFiles /\ Files(bg'.edit.add) = {bg.num} \cap DOMAIN tables
           /\ pending' = pending \ {bg.num} /\ bgError' = bgError
           /\ bg.job \in {"mem", "nested"} /\ op' = op
<1>1. bg \in Background
  BY Parts DEF MemoryType
<1>2. PICK level : bg' = [bg EXCEPT !.pc = "append",
                    !.edit = [log |-> mem, next |-> nextFile, last |-> lastSeq, del |-> NoFiles,
                              add |-> Placed(level, {bg.num} \cap DOMAIN tables)]]
  BY DEF TableBuilt
<1>3. /\ bg'.pc = "append" /\ bg'.job = bg.job /\ bg'.num = bg.num /\ bg'.inputs = bg.inputs /\ bg'.out = bg.out
      /\ bg'.edit.log = mem /\ bg'.edit.next = nextFile /\ bg'.edit.last = lastSeq
      /\ bg'.edit.del = NoFiles /\ bg'.edit.add = Placed(level, {bg.num} \cap DOMAIN tables)
  BY <1>1, <1>2 DEF Background
<1>4. Files(bg'.edit.add) = {bg.num} \cap DOMAIN tables
  BY <1>3, LevelTypes
<1>5. bg.job \in {"mem", "nested"}
  BY Parts DEF TableBuilt, EditInv
<1> QED
  BY <1>3, <1>4, <1>5 DEF TableBuilt

LEMMA MergeBg ==
    ASSUME StoreInv
    PROVE  /\ PickCompaction => /\ bg.pc = "queued" /\ bg'.pc = "work" /\ bg'.job = "merge"
                                /\ bg'.inputs = version /\ bg'.out = 0
                                /\ UNCHANGED <<bgError, op, pending>>
           /\ OpenCompactionOutputFile => /\ bg'.pc = "work" /\ bg'.job = "merge"
                                          /\ bg'.inputs = bg.inputs /\ bg'.out = nextFile
           /\ FinishCompactionOutputFile =>
                 /\ bg.pc = "work" /\ bg.job = "merge" /\ bg.out # 0
                 /\ bg'.pc = "append" /\ bg'.job = "merge" /\ bg'.inputs = bg.inputs /\ bg'.out = bg.out
                 /\ bg'.edit.log = logNum /\ bg'.edit.next = nextFile /\ bg'.edit.last = lastSeq
                 /\ bg'.edit.del = bg.inputs /\ bg'.edit.add = Placed(1, {bg.out})
                 /\ UNCHANGED <<bgError, op, pending>>
           /\ AppendEdit => /\ bg.pc = "append" /\ bg'.pc = "sync" /\ bg'.job = bg.job /\ bg'.num = bg.num
                            /\ bg'.inputs = bg.inputs /\ bg'.out = bg.out /\ bg'.edit = bg.edit
<1>1. bg \in Background
  BY Parts DEF MemoryType
<1>2. PickCompaction => /\ bg.pc = "queued" /\ bg'.pc = "work" /\ bg'.job = "merge"
                                /\ bg'.inputs = version /\ bg'.out = 0
                                /\ UNCHANGED <<bgError, op, pending>>
  BY DEF PickCompaction, NoBg, memory
<1>3. OpenCompactionOutputFile => /\ bg'.pc = "work" /\ bg'.job = "merge"
                                          /\ bg'.inputs = bg.inputs /\ bg'.out = nextFile
  BY <1>1 DEF OpenCompactionOutputFile, Working, Background
<1>4. FinishCompactionOutputFile =>
                 /\ bg.pc = "work" /\ bg.job = "merge" /\ bg.out # 0
                 /\ bg'.pc = "append" /\ bg'.job = "merge" /\ bg'.inputs = bg.inputs /\ bg'.out = bg.out
                 /\ bg'.edit.log = logNum /\ bg'.edit.next = nextFile /\ bg'.edit.last = lastSeq
                 /\ bg'.edit.del = bg.inputs /\ bg'.edit.add = Placed(1, {bg.out})
                 /\ UNCHANGED <<bgError, op, pending>>
  BY <1>1 DEF FinishCompactionOutputFile, Working, Background, memory
<1>5. AppendEdit => /\ bg.pc = "append" /\ bg'.pc = "sync" /\ bg'.job = bg.job /\ bg'.num = bg.num
                            /\ bg'.inputs = bg.inputs /\ bg'.out = bg.out /\ bg'.edit = bg.edit
  BY <1>1 DEF AppendEdit, Background
<1> QED
  BY <1>2, <1>3, <1>4, <1>5

(* The next number is of no table that anybody refers to. *)
LEMMA NextFree ==
    ASSUME StoreInv, Up
    PROVE  /\ nextFile \notin DOMAIN tables /\ nextFile \notin Files(version) /\ nextFile # 0
           /\ \A i \in DOMAIN manifest : nextFile \notin Files(manifest[i].files)
           /\ \A r \in Reader : nextFile \notin reads[r].files
           /\ bg.job \in {"merge", "nested"} => bg.out # nextFile
<1>1. nextFile \notin DOMAIN tables /\ nextFile # 0
  BY Parts, Numbers DEF NumberInv
<1>2. nextFile \notin Files(version)
  BY <1>1, Parts DEF NumberInv
<1>3. \A i \in DOMAIN manifest : nextFile \notin Files(manifest[i].files)
  BY <1>1, ManifestFacts
<1>4. \A r \in Reader : nextFile \notin reads[r].files
  BY <1>1, Parts DEF ReadInv, NoRead
<1>5. bg.job \in {"merge", "nested"} => bg.out # nextFile
  BY <1>1, Parts DEF MergeInv
<1> QED
  BY <1>1, <1>2, <1>3, <1>4, <1>5

(* A flush has the immutable memtable in its table until it is installed. *)
LEMMA FlushKeeps ==
    ASSUME StoreInv, [Next]_vars
    PROVE  FlushInv'
<1>0. bg.job \in {"mem", "nested"} =>
        /\ Up /\ imm # 0 /\ bg.num \in 1..(nextFile - 1)
        /\ imm \in DOMAIN memtab /\ imm # mem
        /\ bg.job = "nested" => bg.num # bg.out
        /\ Stored({bg.num}) = memtab[imm]
        /\ bg.pc = "build" => /\ bg.num \notin Files(version)
                              /\ \A r \in Reader : bg.num \notin reads[r].files
                              /\ \A i \in DOMAIN manifest : bg.num \notin Files(manifest[i].files)
        /\ bg.pc \in {"append", "sync"} =>
                /\ bg.edit.log = mem /\ bg.edit.del = NoFiles
                /\ Files(bg.edit.add) = {bg.num} \cap DOMAIN tables
  BY Parts, InUp, Numbers DEF FlushInv, NumberInv
<1>1. ASSUME bg'.job \in {"mem", "nested"} =>
                /\ bg' = bg /\ UNCHANGED <<imm, mem, tables, version, manifest>>
                /\ nextFile \in Nat /\ nextFile' \in Nat /\ nextFile <= nextFile'
                /\ memtab'[imm] = memtab[imm]
                /\ \A r \in Reader : reads'[r].files \subseteq reads[r].files \cup Files(version)
      PROVE  FlushInv'
  <2>1. CASE bg'.job \notin {"mem", "nested"}
    BY <2>1 DEF FlushInv
  <2>2. CASE bg'.job \in {"mem", "nested"}
    <3>1. \A F : Stored(F)' = Stored(F)
      BY <1>1, <2>2, StoredUnchanged
    <3>2. Stored({bg.num})' = Stored({bg.num})
      BY <1>1, <2>2, <3>1
    <3>3. bg.num \in 1..(nextFile' - 1)
      BY <1>0, <1>1, <2>2
    <3>4. \A r \in Reader : bg.pc = "build" => bg.num \notin reads'[r].files
      BY <1>0, <1>1, <2>2
    <3> QED
      BY <1>0, <1>1, <2>2, <3>2, <3>3, <3>4 DEF FlushInv
  <2> QED
    BY <2>1, <2>2
<1>2. CASE UNCHANGED <<bg, imm, mem, memtab, tables, version, manifest, nextFile, reads>>
  BY <1>1, <1>2, Numbers
<1>3. CASE ~ Up'
  BY <1>1, <1>3, DownBg
<1>4. ASSUME NEW t \in Thread, RoomSwitched(t)
      PROVE  FlushInv'
  BY <1>1, <1>4, SwitchFacts, SwitchedBg
<1>5. ASSUME NEW t \in Thread, InsertInto(t)
      PROVE  FlushInv'
  <2>1. bg.job \in {"mem", "nested"} => memtab'[imm] = memtab[imm]
    BY <1>0, <1>5, InsertFacts
  <2>2. UNCHANGED <<bg, imm, mem, tables, version, manifest, nextFile, reads>>
    BY <1>5, InsertFacts DEF disk
  <2> QED
    BY <1>1, <2>1, <2>2, Numbers
<1>6. ASSUME NEW r \in Reader, Get(r) \/ GotValue(r)
      PROVE  FlushInv'
  <2>1. \A q \in Reader : reads'[q].files \subseteq reads[q].files \cup Files(version)
    <3>1. reads \in [Reader -> Reads]
      BY Parts DEF CallType
    <3> QED
      BY <1>6, <3>1 DEF Get, GotValue, NoRead, Reads
  <2>2. UNCHANGED <<bg, imm, mem, tables, version, manifest, nextFile>>
    BY <1>6 DEF Get, GotValue, disk, memory
  <2>3. imm # 0 => memtab'[imm] = memtab[imm]
    BY <1>6, GotFacts DEF Get, memory, Shrunk
  <2> QED
    BY <1>0, <1>1, <2>1, <2>2, <2>3, Numbers
<1>7. CASE Ends
  BY <1>1, <1>7, EndFacts
<1>8. CASE TableBuilt
  <2>1. /\ bg.pc = "build" /\ bg'.pc = "append" /\ bg'.job = bg.job /\ bg'.num = bg.num /\ bg'.out = bg.out
        /\ bg'.edit.log = mem /\ bg'.edit.del = NoFiles
        /\ Files(bg'.edit.add) = {bg.num} \cap DOMAIN tables /\ bg.job \in {"mem", "nested"}
    BY <1>8, BuiltBg
  <2>2. UNCHANGED <<imm, mem, memtab, tables, nextFile>>
    BY <1>8, QuietFacts DEF disk
  <2>3. \A F : Stored(F)' = Stored(F)
    BY <2>2, StoredUnchanged
  <2>4. Stored({bg.num})' = memtab[imm]
    BY <1>0, <2>1, <2>3
  <2> QED
    BY <1>0, <2>1, <2>2, <2>4 DEF FlushInv
<1>9. CASE PickCompaction \/ OpenCompactionOutputFile \/ FinishCompactionOutputFile
  BY <1>1, <1>9, MergeBg
<1>10. CASE AppendEdit
  <2>1. /\ bg.pc = "append" /\ bg'.pc = "sync" /\ bg'.job = bg.job /\ bg'.num = bg.num
        /\ bg'.out = bg.out /\ bg'.edit = bg.edit
    BY <1>10, MergeBg
  <2>2. UNCHANGED <<imm, mem, memtab, tables, nextFile>>
    BY <1>10, EditLogged
  <2>3. \A F : Stored(F)' = Stored(F)
    BY <2>2, StoredUnchanged
  <2>4. bg.job \in {"mem", "nested"} => Stored({bg.num})' = memtab[imm]
    BY <1>0, <2>1, <2>3
  <2> QED
    BY <1>0, <2>1, <2>2, <2>4 DEF FlushInv
<1>11. CASE Flush
  <2>1. /\ bg'.pc = "build" /\ bg'.num = nextFile /\ bg'.job \in {"mem", "nested"} /\ bg'.out = bg.out
        /\ bg'.job = "nested" => bg.job = "merge"
    BY <1>11, FlushBg
  <2>2. /\ Up /\ imm # 0 /\ nextFile' = nextFile + 1
        /\ IF memtab[imm] = {} THEN tables' = tables ELSE Grown(tables, tables', nextFile, memtab[imm])
        /\ UNCHANGED <<mem, imm, memtab, version, manifest, reads>>
    BY <1>11, FlushFacts
  <2>3. /\ nextFile \notin DOMAIN tables /\ nextFile \notin Files(version) /\ nextFile # 0
        /\ \A i \in DOMAIN manifest : nextFile \notin Files(manifest[i].files)
        /\ \A r \in Reader : nextFile \notin reads[r].files
        /\ bg.job \in {"merge", "nested"} => bg.out # nextFile
    BY <2>2, NextFree
  <2>4. \A k : k = nextFile => Stored({k})' = memtab[imm]
    <3>1. CASE memtab[imm] = {}
      <4>1. \A F : Stored(F)' = Stored(F)
        BY <2>2, <3>1, StoredUnchanged
      <4>2. \A k : k = nextFile => Stored({k}) = {}
        BY <2>3, StoredUnion
      <4>3. \A k : Stored({k})' = Stored({k})
        BY <4>1
      <4> QED
        BY <3>1, <4>2, <4>3
    <3>2. CASE memtab[imm] # {}
      BY <2>2, <3>2, StoredGrown
    <3> QED
      BY <3>1, <3>2
  <2>5. Stored({bg.num})' = memtab[imm]
    BY <2>1, <2>4
  <2>6. bg'.num \in 1..(nextFile' - 1)
    BY <2>1, <2>2, <2>3, Numbers
  <2> QED
    BY <2>1, <2>2, <2>3, <2>5, <2>6 DEF FlushInv
<1>12. CASE OpenInstalls
  BY <1>1, <1>12, OpenedBg
<1>13. \/ UNCHANGED <<bg, imm, mem, memtab, tables, version, manifest, nextFile, reads>>
       \/ ~ Up' \/ Ends \/ TableBuilt \/ AppendEdit \/ Flush \/ OpenInstalls
       \/ PickCompaction \/ OpenCompactionOutputFile \/ FinishCompactionOutputFile
       \/ (\E t \in Thread : RoomSwitched(t) \/ InsertInto(t))
       \/ (\E r \in Reader : Get(r) \/ GotValue(r))
  BY ZenonT(60), StepCases DEF Steps, store, disk, memory, promises, Up, LogStep, AddRecord, AddRecordFails,
     RoomFound, Sync, Commit, Close, Down, Closed, CrashProcess, OpenFails, Ends, Forgotten, Install,
     CrashMachine, RecoverManifest, RecoverLogFile, OpenNewLog
<1> QED
  BY <1>2, <1>3, <1>4, <1>5, <1>6, <1>7, <1>8, <1>9, <1>10, <1>11, <1>12, <1>13

(* A merge whose inputs and output stay where they are. *)
LEMMA MergeSame ==
    ASSUME StoreInv,
           bg'.job \in {"merge", "nested"} =>
                /\ bg.job \in {"merge", "nested"} /\ bg'.inputs = bg.inputs /\ bg'.out = bg.out
                /\ version.l0 \subseteq version'.l0 /\ version.l1 \subseteq version'.l1
                /\ bg.out # 0 => /\ bg.out \in pending'
                                 /\ bg.out \in DOMAIN tables' /\ tables'[bg.out] = tables[bg.out]
                /\ \A n \in Files(bg.inputs) : n \in DOMAIN tables => n \in DOMAIN tables' /\ tables'[n] = tables[n],
           bg'.job = "merge" /\ bg'.pc \in {"append", "sync"} =>
                /\ bg.job = "merge" /\ bg.pc \in {"append", "sync"} /\ bg'.edit = bg.edit
                /\ logNum' = logNum
    PROVE  MergeInv'
<1>1. CASE bg'.job \notin {"merge", "nested"}
  BY <1>1 DEF MergeInv
<1>2. CASE bg'.job \in {"merge", "nested"}
  <2>1. /\ bg.inputs.l0 \subseteq version.l0 /\ bg.inputs.l1 \subseteq version.l1
        /\ bg.out # 0 => bg.out \in DOMAIN tables /\ tables[bg.out] = Stored(Files(bg.inputs))
        /\ bg.job = "merge" /\ bg.pc \in {"append", "sync"} =>
            /\ bg.out # 0 /\ bg.edit.log = logNum /\ bg.edit.del = bg.inputs
            /\ bg.edit.add = Placed(1, {bg.out})
    BY <1>2, Parts DEF MergeInv
  <2>2. bg.job \in {"merge", "nested"} /\ Up
    BY <1>2, Parts, InUp
  <2>3. \A n \in Files(bg.inputs) : n \in DOMAIN tables
    BY <2>1, <2>2, Parts DEF NumberInv, Files
  <2>4. \A F : F = Files(bg.inputs) => Stored(F)' = Stored(F)
    BY <1>2, <2>3, StoredSame
  <2>5. Stored(Files(bg.inputs))' = Stored(Files(bg.inputs))
    <3>1. Files(bg.inputs)' = Files(bg.inputs)
      BY <1>2 DEF Files
    <3> QED
      BY <2>4, <3>1
  <2> QED
    BY <1>2, <2>1, <2>5 DEF MergeInv, Placed
<1> QED
  BY <1>1, <1>2

(* A flush within a merge leaves the inputs and the output of the merge. *)
LEMMA NestedEnd ==
    ASSUME StoreInv, Ends, bg'.job = "merge"
    PROVE  /\ bg.job = "nested" /\ bg'.pc = "work"
           /\ version.l0 \subseteq version'.l0 /\ version.l1 \subseteq version'.l1
           /\ pending' \in {pending, pending \ {bg.num}}
           /\ \A n \in DOMAIN tables :
                n \in pending \ {bg.num} \/ n \in Files(version) => n \in DOMAIN tables' /\ tables'[n] = tables[n]
<1>1. bg.job = "nested" /\ bg'.pc = "work" /\ Up
  BY EndFacts
<1>2. CASE TableFails
  <2>1. bg.num \notin Files(version)
    BY <1>1, <1>2, Parts DEF TableFails, FlushInv
  <2> QED
    BY <1>1, <1>2, <2>1, TableFailsFacts DEF Shrunk
<1>3. CASE EditNotLogged
  BY <1>1, <1>3, EditLogged
<1>4. CASE Install
  <2>1. /\ bg.pc = "sync" /\ pending' = pending /\ version' = Edited(version) /\ Shrunk(tables, tables')
        /\ \A k \in Files(version') \cup Files(Last(manifest).files) : k \in DOMAIN tables => k \in DOMAIN tables'
        /\ \A k \in Files(bg.inputs) \cup pending : k \in DOMAIN tables => k \in DOMAIN tables'
    BY <1>1, <1>4, InstallFacts
  <2>2. bg.edit.del = NoFiles
    BY <1>1, <2>1, Parts DEF FlushInv
  <2>3. version.l0 \subseteq version'.l0 /\ version.l1 \subseteq version'.l1
    BY <2>1, <2>2 DEF Edited, Merged, Without, NoFiles
  <2>4. Files(version) \subseteq Files(version')
    BY <2>3 DEF Files
  <2> QED
    BY <1>1, <2>1, <2>3, <2>4 DEF Shrunk
<1>5. ~ BackgroundIdles /\ ~ CompactionFails
  BY <1>1, NoJob DEF BackgroundIdles, CompactionFails, Working
<1> QED
  BY <1>2, <1>3, <1>4, <1>5 DEF Ends

(* A merge has its inputs in the version, and their entries in its output. *)
LEMMA MergeKeeps ==
    ASSUME StoreInv, [Next]_vars
    PROVE  MergeInv'
<1>0. bg.job \in {"merge", "nested"} =>
        /\ bg.inputs.l0 \subseteq version.l0 /\ bg.inputs.l1 \subseteq version.l1
        /\ Files(bg.inputs) \subseteq Files(version) /\ Up
        /\ bg.out # 0 => /\ bg.out \in DOMAIN tables /\ bg.out \in pending
                         /\ tables[bg.out] = Stored(Files(bg.inputs))
        /\ bg.job = "nested" => bg.num # bg.out
  BY Parts, InUp DEF MergeInv, FlushInv, Files
<1>2. CASE UNCHANGED <<bg, version, logNum, tables, pending>>
  BY <1>0, <1>2, MergeSame
<1>3. CASE ~ Up'
  BY <1>3, DownBg, MergeSame
<1>4. ASSUME NEW t \in Thread, RoomSwitched(t)
      PROVE  MergeInv'
  BY <1>0, <1>4, SwitchFacts, SwitchedBg, MergeSame
<1>5. CASE Ends
  BY <1>0, <1>5, EndFacts, NestedEnd, MergeSame
<1>6. CASE Flush
  <2>1. /\ UNCHANGED <<version, logNum>> /\ pending \subseteq pending'
        /\ \A n \in DOMAIN tables : n \in DOMAIN tables' /\ tables'[n] = tables[n]
    BY <1>6, FlushFacts DEF Grown
  <2> QED
    BY <1>0, <1>6, <2>1, FlushBg, MergeSame
<1>7. CASE TableBuilt
  <2>1. UNCHANGED <<version, logNum, tables>>
    BY <1>7, QuietFacts DEF disk
  <2> QED
    BY <1>0, <1>7, <2>1, BuiltBg, MergeSame
<1>8. CASE PickCompaction
  <2>1. UNCHANGED version
    BY <1>8, QuietFacts
  <2> QED
    BY <1>8, <2>1, MergeBg DEF MergeInv
<1>9. CASE OpenCompactionOutputFile
  <2>1. /\ bg'.pc = "work" /\ bg'.job = "merge" /\ bg'.inputs = bg.inputs /\ bg'.out = nextFile
    BY <1>9, MergeBg
  <2>2. /\ pending' = pending \cup {nextFile} /\ UNCHANGED version /\ bg.job = "merge"
        /\ Grown(tables, tables', nextFile, Stored(Files(bg.inputs))) /\ nextFile \notin Files(version)
    BY <1>9, OutputFacts
  <2>3. \A F : nextFile \notin F => Stored(F)' = Stored(F)
    BY <2>2, StoredGrown
  <2>4. \A F : F = Files(bg.inputs) => Stored(F)' = Stored(F)
    BY <1>0, <2>2, <2>3
  <2>5. Stored(Files(bg.inputs))' = Stored(Files(bg.inputs))
    <3>1. Files(bg.inputs)' = Files(bg.inputs)
      BY <2>1 DEF Files
    <3> QED
      BY <2>4, <3>1
  <2>6. bg'.out \in DOMAIN tables' /\ tables'[bg'.out] = Stored(Files(bg.inputs))
    BY <2>1, <2>2 DEF Grown
  <2> QED
    BY <1>0, <2>1, <2>2, <2>5, <2>6 DEF MergeInv
<1>10. CASE FinishCompactionOutputFile
  <2>1. UNCHANGED <<version, logNum, tables>>
    BY <1>10, QuietFacts DEF disk
  <2>2. \A F : Stored(F)' = Stored(F)
    BY <2>1, StoredUnchanged
  <2>3. /\ bg.job = "merge" /\ bg.out # 0
                 /\ bg'.pc = "append" /\ bg'.job = "merge" /\ bg'.inputs = bg.inputs /\ bg'.out = bg.out
                 /\ bg'.edit.log = logNum
                 /\ bg'.edit.del = bg.inputs /\ bg'.edit.add = Placed(1, {bg.out})
                 /\ UNCHANGED pending
    BY <1>10, MergeBg
  <2>4. Stored(Files(bg.inputs))' = Stored(Files(bg.inputs))
    <3>1. Files(bg.inputs)' = Files(bg.inputs)
      BY <2>3 DEF Files
    <3> QED
      BY <2>2, <3>1
  <2> QED
    BY <1>0, <2>1, <2>3, <2>4 DEF MergeInv, Placed
<1>11. CASE AppendEdit
  <2>1. UNCHANGED <<version, logNum, tables, pending>>
    BY <1>11, EditLogged
  <2> QED
    BY <1>0, <1>11, <2>1, MergeBg, MergeSame
<1>12. CASE OpenInstalls
  BY <1>12, OpenedBg, MergeSame
<1>13. \/ UNCHANGED <<bg, version, logNum, tables, pending>>
       \/ ~ Up' \/ Ends \/ TableBuilt \/ AppendEdit \/ Flush \/ OpenInstalls
       \/ PickCompaction \/ OpenCompactionOutputFile \/ FinishCompactionOutputFile
       \/ (\E t \in Thread : RoomSwitched(t))
  BY ZenonT(60), StepCases DEF Steps, store, disk, memory, promises, Up, LogStep, AddRecord, AddRecordFails,
     RoomFound, Sync, InsertInto, Commit, Get, GotValue, Close, Down, Closed, CrashProcess, OpenFails, Ends,
     Forgotten, Install, CrashMachine, RecoverManifest, RecoverLogFile, OpenNewLog
<1> QED
  BY <1>2, <1>3, <1>4, <1>5, <1>6, <1>7, <1>8, <1>9, <1>10, <1>11, <1>12, <1>13

(* An edit is past the tables it is about; once appended it is the last. *)
LEMMA EditKeeps ==
    ASSUME StoreInv, [Next]_vars
    PROVE  EditInv'
<1>0. EditInv
  BY Parts
<1>2. CASE UNCHANGED <<bg, manifest, tables>> /\ issued' = issued
  BY <1>0, <1>2 DEF EditInv, Last
<1>3. CASE ~ Up'
  BY <1>3, DownBg DEF EditInv
<1>4. ASSUME NEW t \in Thread, RoomSwitched(t)
      PROVE  EditInv'
  <2>1. UNCHANGED <<manifest, tables, issued>>
    BY <1>4, SwitchFacts DEF promises
  <2>2. CASE bg' = bg
    BY <1>2, <2>1, <2>2
  <2>3. CASE bg'.pc \in {"off", "queued"} /\ bg' = [NoBg EXCEPT !.pc = bg'.pc]
    BY <2>3 DEF EditInv
  <2> QED
    BY <2>2, <2>3, <1>4, SwitchedBg
<1>5. ASSUME NEW t \in Thread, RoomFound(t)
      PROVE  EditInv'
  <2>1. UNCHANGED <<bg, manifest, tables>>
    BY <1>5, FoundFacts DEF disk
  <2>2. issued \in Nat /\ issued' \in Nat /\ issued <= issued'
    BY <1>5, FoundFacts, Numbers
  <2>3. bg.pc = "append" => bg.edit.last <= issued'
    <3>1. bg.edit.last \in Nat
      BY Parts DEF MemoryType, Background, Edit
    <3> QED
      BY <1>0, <2>2, <3>1 DEF EditInv
  <2> QED
    BY <1>0, <2>1, <2>3 DEF EditInv, Last
<1>6. CASE Ends
  BY <1>6, EndFacts DEF EditInv
<1>7. CASE Flush
  BY <1>7, FlushBg DEF EditInv
<1>8. CASE TableBuilt
  <2>1. bg'.pc = "append" /\ bg'.job # "none" /\ bg'.edit.next = nextFile /\ bg'.edit.last = lastSeq
    BY <1>8, BuiltBg
  <2>2. UNCHANGED <<tables, issued>> /\ Up
    BY <1>8, QuietFacts DEF disk, promises
  <2>3. lastSeq <= issued
    BY <2>2, Parts DEF GroupInv
  <2>4. \A n \in DOMAIN tables : n < nextFile /\ \A e \in tables[n] : e.seq <= lastSeq
    BY <2>2, Parts DEF NumberInv, SeqInv
  <2> QED
    BY <2>1, <2>2, <2>3, <2>4 DEF EditInv
<1>9. CASE PickCompaction \/ OpenCompactionOutputFile
  BY <1>9, MergeBg DEF EditInv
<1>10. CASE FinishCompactionOutputFile
  <2>1. bg'.pc = "append" /\ bg'.job # "none" /\ bg'.edit.next = nextFile /\ bg'.edit.last = lastSeq
    BY <1>10, MergeBg
  <2>2. UNCHANGED <<tables, issued>> /\ Up
    BY <1>10, QuietFacts DEF disk, promises
  <2>3. lastSeq <= issued
    BY <2>2, Parts DEF GroupInv
  <2>4. \A n \in DOMAIN tables : n < nextFile /\ \A e \in tables[n] : e.seq <= lastSeq
    BY <2>2, Parts DEF NumberInv, SeqInv
  <2> QED
    BY <2>1, <2>2, <2>3, <2>4 DEF EditInv
<1>11. CASE AppendEdit
  <2>1. bg.pc = "append" /\ bg'.pc = "sync" /\ bg'.job = bg.job /\ bg'.edit = bg.edit
    BY <1>11, MergeBg
  <2>2. Logs(EditRecord)
    BY <1>11, EditLogged
  <2>3. Last(manifest)' = EditRecord
    BY <2>1, <2>2, RecordFacts
  <2>4. EditRecord.log = bg.edit.log /\ EditRecord.files = Edited(Last(manifest).files)
    BY DEF EditRecord
  <2>5. Files(bg.edit.add) \subseteq Files(EditRecord.files)
    BY <2>4, EditedFiles
  <2> QED
    BY <1>0, <2>1, <2>3, <2>4, <2>5 DEF EditInv
<1>12. CASE OpenInstalls
  BY <1>12, OpenedBg DEF EditInv
<1>13. \/ UNCHANGED <<bg, manifest, tables>> /\ issued' = issued
       \/ ~ Up' \/ Ends \/ TableBuilt \/ AppendEdit \/ Flush \/ OpenInstalls
       \/ PickCompaction \/ OpenCompactionOutputFile \/ FinishCompactionOutputFile
       \/ (\E t \in Thread : RoomSwitched(t) \/ RoomFound(t))
  BY ZenonT(60), StepCases DEF Steps, store, disk, memory, promises, Up, LogStep, AddRecord, AddRecordFails,
     Sync, InsertInto, Commit, Get, GotValue, Close, Down, Closed, CrashProcess, OpenFails, Ends,
     Forgotten, Install, CrashMachine, RecoverManifest, RecoverLogFile, OpenNewLog
<1> QED
  BY <1>2, <1>3, <1>4, <1>5, <1>6, <1>7, <1>8, <1>9, <1>10, <1>11, <1>12, <1>13

(***************************************************************************)
(* Reads.                                                                  *)
(***************************************************************************)
(* A read that goes on: what it sees is still there, and no more. *)
LEMMA ReadSame ==
    ASSUME StoreInv, NEW r \in Reader, reads'[r] = reads[r],
           reads[r].on =>
                /\ lastSeq' \in Nat /\ lastSeq <= lastSeq'
                /\ \A n \in {reads[r].mem, reads[r].imm} : n \in DOMAIN memtab =>
                        /\ n \in DOMAIN memtab' /\ memtab[n] \subseteq memtab'[n]
                        /\ \A e \in memtab'[n] : e \in memtab[n] \/ ~ (e.seq <= lastSeq)
                        /\ \A e \in memtab'[n] : e.seq \in Nat
                /\ \A n \in reads[r].files : n \in DOMAIN tables => n \in DOMAIN tables' /\ tables'[n] = tables[n]
    PROVE  IF reads'[r].on
           THEN /\ reads'[r].mem \in DOMAIN memtab'
                /\ reads'[r].imm # 0 => reads'[r].imm \in DOMAIN memtab'
                /\ reads'[r].files \subseteq DOMAIN tables'
                /\ reads'[r].snapshot <= lastSeq'
                /\ Finds(r)' = reads'[r].sees
           ELSE reads'[r] = NoRead
<1>1. CASE ~ reads[r].on
  BY <1>1, Parts DEF ReadInv
<1>2. CASE reads[r].on
  <2>1. /\ reads[r].mem \in DOMAIN memtab
        /\ reads[r].imm # 0 => reads[r].imm \in DOMAIN memtab
        /\ reads[r].files \subseteq DOMAIN tables
        /\ reads[r].snapshot <= lastSeq /\ reads[r].snapshot \in Nat /\ lastSeq \in Nat
        /\ Finds(r) = reads[r].sees
    BY <1>2, Parts, Numbers DEF ReadInv, CallType, Reads
  <2>2. reads[r].snapshot <= lastSeq'
    BY <1>2, <2>1
  <2>3. Stored(reads[r].files)' = Stored(reads[r].files)
    <3>1. \A F : F = reads[r].files => Stored(F)' = Stored(F)
      BY <1>2, <2>1, StoredSame
    <3> QED
      BY <3>1
  <2>4. \A n \in {reads[r].mem, reads[r].imm} : n \in DOMAIN memtab =>
            \A e : (e \in memtab'[n] /\ e.seq <= reads[r].snapshot) <=> (e \in memtab[n] /\ e.seq <= reads[r].snapshot)
    BY <1>2, <2>1
  <2>5. \A e : e \in Finds(r)' <=> e \in Finds(r)
    <3> TAKE e
    <3>1. e \in Finds(r) <=> /\ e \in memtab[reads[r].mem]
                                   \/ (reads[r].imm # 0 /\ e \in memtab[reads[r].imm])
                                   \/ e \in Stored(reads[r].files)
                             /\ e.seq <= reads[r].snapshot
      BY DEF Finds
    <3>2. e \in Finds(r)' <=> /\ e \in memtab'[reads[r].mem]
                                    \/ (reads[r].imm # 0 /\ e \in memtab'[reads[r].imm])
                                    \/ e \in Stored(reads[r].files)'
                              /\ e.seq <= reads[r].snapshot
      BY DEF Finds
    <3> QED
      BY <2>1, <2>3, <2>4, <3>1, <3>2
  <2>6. Finds(r)' = Finds(r)
    BY <2>5 DEF Finds
  <2> QED
    BY <1>2, <2>1, <2>2, <2>6
<1> QED
  BY <1>1, <1>2

(* A read finds what it saw when it began, whatever is flushed, merged and *)
(* deleted meanwhile.                                                      *)
LEMMA ReadKeeps ==
    ASSUME StoreInv, [Next]_vars
    PROVE  ReadInv'
<1>0. \A r \in Reader : reads[r].on => Up
  BY Parts, InUp
<1>1. ASSUME \A r \in Reader : reads'[r] = reads[r],
             Up => /\ lastSeq' \in Nat /\ lastSeq <= lastSeq'
                   /\ Shrunk(memtab, memtab') \/ \A n \in DOMAIN memtab : n \in DOMAIN memtab' /\ memtab'[n] = memtab[n]
                   /\ \A r \in Reader : \A n \in {reads[r].mem, reads[r].imm} :
                            n \in DOMAIN memtab => n \in DOMAIN memtab'
                   /\ \A r \in Reader : \A n \in reads[r].files :
                        n \in DOMAIN tables => n \in DOMAIN tables' /\ tables'[n] = tables[n]
      PROVE  ReadInv'
  <2>1. \A n \in DOMAIN memtab : \A e \in memtab[n] : e.seq \in Nat
    BY Numbers DEF Entry
  <2>2. ASSUME NEW r \in Reader, reads[r].on, NEW n \in {reads[r].mem, reads[r].imm}, n \in DOMAIN memtab
        PROVE  n \in DOMAIN memtab' /\ memtab'[n] = memtab[n]
    BY <1>0, <1>1, <2>2 DEF Shrunk
  <2>3. ASSUME NEW r \in Reader, reads[r].on
        PROVE  /\ lastSeq' \in Nat /\ lastSeq <= lastSeq'
               /\ \A n \in {reads[r].mem, reads[r].imm} : n \in DOMAIN memtab =>
                        /\ n \in DOMAIN memtab' /\ memtab[n] \subseteq memtab'[n]
                        /\ \A e \in memtab'[n] : e \in memtab[n] \/ ~ (e.seq <= lastSeq)
                        /\ \A e \in memtab'[n] : e.seq \in Nat
               /\ \A n \in reads[r].files : n \in DOMAIN tables => n \in DOMAIN tables' /\ tables'[n] = tables[n]
    BY <1>0, <1>1, <2>1, <2>2, <2>3
  <2> QED
    BY <1>1, <2>3, ReadSame DEF ReadInv
<1>2. CASE UNCHANGED <<reads, lastSeq, memtab, tables>>
  BY <1>1, <1>2, Numbers
<1>3. CASE reads' = [r \in Reader |-> NoRead]
  BY <1>3 DEF ReadInv, NoRead
<1>4. ASSUME NEW t \in Thread, RoomSwitched(t)
      PROVE  ReadInv'
  <2>1. /\ UNCHANGED <<reads, lastSeq, tables>>
        /\ \A n \in DOMAIN memtab : n \in DOMAIN memtab' /\ memtab'[n] = memtab[n]
    BY <1>4, SwitchFacts DEF Grown
  <2> QED
    BY <1>1, <2>1, Numbers
<1>5. ASSUME NEW t \in Thread, InsertInto(t)
      PROVE  ReadInv'
  <2>1. /\ UNCHANGED <<reads, lastSeq, tables>> /\ DOMAIN memtab' = DOMAIN memtab /\ op[t].pc = "insert"
        /\ memtab'[mem] = memtab[mem] \cup group.entries
        /\ \A n \in DOMAIN memtab : n # mem => memtab'[n] = memtab[n]
    BY <1>5, InsertFacts DEF disk
  <2>2. \A e \in group.entries : e.seq \in Nat /\ lastSeq < e.seq
    BY <2>1, Parts, ServingFacts DEF Serving
  <2>3. \A n \in DOMAIN memtab : \A e \in memtab[n] : e.seq \in Nat
    BY Numbers DEF Entry
  <2>4. lastSeq \in Nat
    BY Numbers
  <2>5. ASSUME NEW n \in DOMAIN memtab
        PROVE  /\ n \in DOMAIN memtab' /\ memtab[n] \subseteq memtab'[n]
               /\ \A e \in memtab'[n] : e \in memtab[n] \/ ~ (e.seq <= lastSeq)
               /\ \A e \in memtab'[n] : e.seq \in Nat
    BY <2>1, <2>2, <2>3, <2>4
  <2> QED
    BY <2>1, <2>4, <2>5, ReadSame DEF ReadInv
<1>6. ASSUME NEW t \in Thread, Commit(t)
      PROVE  ReadInv'
  <2>1. UNCHANGED <<reads, memtab, tables>>
    BY <1>6, CommitFacts DEF disk
  <2>2. lastSeq' \in Nat /\ lastSeq <= lastSeq'
    BY <1>6, CommitFacts, Numbers
  <2> QED
    BY <1>1, <2>1, <2>2
<1>7. ASSUME NEW r \in Reader, GotValue(r)
      PROVE  ReadInv'
  <2>1. /\ reads' = [reads EXCEPT ![r] = NoRead] /\ Shrunk(memtab, memtab')
        /\ \A q \in Reader \ {r} : \A n \in {reads[q].mem, reads[q].imm} :
                    n \in DOMAIN memtab => n \in DOMAIN memtab'
        /\ UNCHANGED <<lastSeq, tables>>
    BY <1>7, GotFacts DEF disk
  <2>2. reads'[r] = NoRead /\ \A q \in Reader \ {r} : reads'[q] = reads[q]
    <3>1. reads \in [Reader -> Reads]
      BY Parts DEF CallType
    <3> QED
      BY <2>1, <3>1
  <2>3. \A n \in DOMAIN memtab : \A e \in memtab[n] : e.seq \in Nat
    BY Numbers DEF Entry
  <2>4. ASSUME NEW q \in Reader, q # r
        PROVE  IF reads'[q].on
               THEN /\ reads'[q].mem \in DOMAIN memtab'
                    /\ reads'[q].imm # 0 => reads'[q].imm \in DOMAIN memtab'
                    /\ reads'[q].files \subseteq DOMAIN tables'
                    /\ reads'[q].snapshot <= lastSeq'
                    /\ Finds(q)' = reads'[q].sees
               ELSE reads'[q] = NoRead
    <3>1. \A n \in {reads[q].mem, reads[q].imm} : n \in DOMAIN memtab =>
                        n \in DOMAIN memtab' /\ memtab'[n] = memtab[n]
      BY <2>1, <2>4 DEF Shrunk
    <3> QED
      BY <2>1, <2>2, <2>3, <2>4, <3>1, ReadSame, Numbers
  <2> QED
    BY <2>2, <2>4 DEF ReadInv, NoRead
<1>8. ASSUME NEW r \in Reader, Get(r)
      PROVE  ReadInv'
  <2>1. /\ reads' = [reads EXCEPT ![r] =
                    [on |-> TRUE, snapshot |-> lastSeq, mem |-> mem, imm |-> imm,
                     files |-> Files(version), sees |-> Visible]]
        /\ UNCHANGED <<lastSeq, memtab, tables>> /\ phase = "open"
    BY <1>8 DEF Get, memory, disk
  <2>2. /\ reads'[r].on /\ reads'[r].snapshot = lastSeq /\ reads'[r].mem = mem /\ reads'[r].imm = imm
        /\ reads'[r].files = Files(version) /\ reads'[r].sees = Visible
        /\ \A q \in Reader \ {r} : reads'[q] = reads[q]
    <3>1. reads \in [Reader -> Reads]
      BY Parts DEF CallType
    <3> QED
      BY <2>1, <3>1
  <2>3. \A n \in DOMAIN memtab : \A e \in memtab[n] : e.seq \in Nat
    BY Numbers DEF Entry
  <2>4. ASSUME NEW q \in Reader, q # r
        PROVE  IF reads'[q].on
               THEN /\ reads'[q].mem \in DOMAIN memtab'
                    /\ reads'[q].imm # 0 => reads'[q].imm \in DOMAIN memtab'
                    /\ reads'[q].files \subseteq DOMAIN tables'
                    /\ reads'[q].snapshot <= lastSeq'
                    /\ Finds(q)' = reads'[q].sees
               ELSE reads'[q] = NoRead
    BY <2>1, <2>2, <2>3, <2>4, ReadSame, Numbers
  <2>5. \A F : Stored(F)' = Stored(F)
    BY <2>1, StoredUnchanged
  <2>6. Stored(reads[r].files)' = Stored(Files(version))
    <3>1. \A F : F = Files(version) => Stored(F)' = Stored(F)
      BY <2>5
    <3> QED
      BY <2>2, <3>1
  <2>7. Finds(r)' = Visible
    <3>1. \A e : e \in Finds(r)' <=>
                    /\ e \in memtab'[reads'[r].mem]
                          \/ (reads'[r].imm # 0 /\ e \in memtab'[reads'[r].imm])
                          \/ e \in Stored(reads[r].files)'
                    /\ e.seq <= reads'[r].snapshot
      BY DEF Finds
    <3>2. \A e : e \in Visible <=>
                    /\ e \in memtab[mem] \/ (imm # 0 /\ e \in memtab[imm]) \/ e \in Stored(Files(version))
                    /\ e.seq <= lastSeq
      BY DEF Visible
    <3>3. \A e : e \in Finds(r)' <=> e \in Visible
      BY <2>1, <2>2, <2>6, <3>1, <3>2
    <3> QED
      BY <3>3 DEF Finds, Visible
  <2>8. /\ mem \in DOMAIN memtab /\ (imm # 0 => imm \in DOMAIN memtab) /\ Files(version) \subseteq DOMAIN tables
    BY <2>1, Parts DEF NumberInv, Up
  <2>9. lastSeq <= lastSeq
    BY Numbers
  <2> QED
    BY <2>1, <2>2, <2>4, <2>7, <2>8, <2>9 DEF ReadInv
<1>9. CASE Flush \/ OpenCompactionOutputFile
  <2>1. /\ UNCHANGED <<reads, lastSeq, memtab>>
        /\ \A n \in DOMAIN tables : n \in DOMAIN tables' /\ tables'[n] = tables[n]
    BY <1>9, FlushFacts, OutputFacts DEF Grown
  <2> QED
    BY <1>1, <2>1, Numbers
<1>10. CASE TableFails
  <2>1. /\ UNCHANGED <<reads, lastSeq, memtab>>
        /\ Shrunk(tables, tables') /\ DOMAIN tables \ {bg.num} \subseteq DOMAIN tables'
        /\ bg.pc = "build" /\ bg.job \in {"mem", "nested"}
    BY <1>10, TableFailsFacts
  <2>2. \A r \in Reader : bg.num \notin reads[r].files
    BY <2>1, Parts DEF FlushInv
  <2>3. \A r \in Reader : \A n \in reads[r].files : n \in DOMAIN tables => n \in DOMAIN tables' /\ tables'[n] = tables[n]
    BY <2>1, <2>2 DEF Shrunk
  <2> QED
    BY <1>1, <2>1, <2>3, Numbers
<1>11. CASE Install
  <2>1. /\ UNCHANGED <<reads, lastSeq>> /\ Shrunk(tables, tables') /\ Shrunk(memtab, memtab')
        /\ \A r \in Reader : \A k \in reads[r].files : k \in DOMAIN tables => k \in DOMAIN tables'
        /\ \A q \in Reader : \A n \in {reads[q].mem, reads[q].imm} :
                    n \in DOMAIN memtab => n \in DOMAIN memtab'
    BY <1>11, InstallFacts
  <2> QED
    BY <1>1, <2>1, Numbers DEF Shrunk
<1>12. CASE OpenInstalls
  <2>1. UNCHANGED reads /\ reads = [r \in Reader |-> NoRead]
    BY <1>12, OpenFacts
  <2> QED
    BY <1>3, <2>1
<1>13. CASE ~ Up'
  BY <1>3, <1>13, RestKeeps DEF RestInv
<1>14. \/ UNCHANGED <<reads, lastSeq, memtab, tables>>
       \/ ~ Up' \/ Install \/ TableFails \/ Flush \/ OpenCompactionOutputFile \/ OpenInstalls
       \/ (\E t \in Thread : RoomSwitched(t) \/ InsertInto(t) \/ Commit(t))
       \/ (\E r \in Reader : Get(r) \/ GotValue(r))
  BY ZenonT(60), StepCases DEF Steps, store, disk, memory, promises, Up, LogStep, AddRecord, AddRecordFails,
     RoomFound, Sync, Close, Down, Closed, CrashProcess, OpenFails,
     BackgroundIdles, TableBuilt, PickCompaction, FinishCompactionOutputFile, CompactionFails, AppendEdit,
     EditNotLogged, CrashMachine, RecoverManifest, RecoverLogFile, OpenNewLog, Install
<1> QED
  BY <1>2, <1>4, <1>5, <1>6, <1>7, <1>8, <1>9, <1>10, <1>11, <1>12, <1>13, <1>14

(***************************************************************************)
(* DB::Open.                                                               *)
(***************************************************************************)
LEMMA StoredNext ==
    /\ \A F, e : e \in Stored(F)' <=> \E n \in F : n \in DOMAIN tables' /\ e \in tables'[n]
    /\ \A F, G : Stored(F \cup G)' = Stored(F)' \cup Stored(G)'
<1>1. \A F, e : e \in Stored(F)' <=> \E n \in F : n \in DOMAIN tables' /\ e \in tables'[n]
  BY DEF Stored
<1>2. ASSUME NEW F, NEW G
      PROVE  Stored(F \cup G)' = Stored(F)' \cup Stored(G)'
  <2>1. \A e : e \in Stored(F \cup G)' <=> \E n \in F \cup G : n \in DOMAIN tables' /\ e \in tables'[n]
    BY <1>1
  <2>2. \A e : e \in Stored(F \cup G)' <=> e \in Stored(F)' \cup Stored(G)'
    BY <1>1, <2>1
  <2> QED
    BY <2>2
<1> QED
  BY <1>1, <1>2

LEMMA NeededIn ==
    ASSUME NEW n
    PROVE  n \in NeededLogs <=> n \in DOMAIN logs /\ n >= Last(manifest).log
BY DEF NeededLogs

(* VersionSet::Recover: no log is replayed yet. *)
LEMMA ManifestRead ==
    ASSUME StoreInv, RecoverManifest
    PROVE  RecoveryInv'
<1>1. /\ ~ Broken(manifest) /\ version' = Last(manifest).files /\ logNum' = Last(manifest).log
      /\ nextFile' = Higher(Last(manifest).next, Last(manifest).log) + 1
      /\ lastSeq' = Last(manifest).last
      /\ recovery' = [NoRecovery EXCEPT !.logs = NeededLogs]
      /\ UNCHANGED <<logs, synced, tables, manifest, issued>>
  BY DEF RecoverManifest, disk, promises
<1>2. recovery'.logs = NeededLogs /\ recovery'.tables = {} /\ recovery'.log = 0
  BY <1>1 DEF NoRecovery
<1>3. /\ Last(manifest) = manifest[Len(manifest)] /\ Len(manifest) \in DOMAIN manifest
      /\ Last(manifest).next \in Nat /\ Last(manifest).log \in Nat /\ Last(manifest).last \in Nat
      /\ Last(manifest).last <= issued
      /\ \A e \in Stored(Files(Last(manifest).files)) : e.seq <= Last(manifest).last
  BY ManifestFacts
<1>4. logNum' < nextFile' /\ Last(manifest).next <= nextFile'
  BY <1>1, <1>3 DEF Higher
<1>5. Last(manifest)' = Last(manifest) /\ Broken(manifest)' = Broken(manifest)
  BY <1>1 DEF Last, Broken
<1>6. NeededLogs' = NeededLogs
  BY <1>1, <1>5 DEF NeededLogs
<1>7. \A F : Stored(F)' = Stored(F)
  BY <1>1, StoredUnchanged
<1>8. Stored(Files(version) \cup recovery.tables)' = Stored(Files(Last(manifest).files))
  <2>1. Files(version') \cup recovery'.tables = Files(Last(manifest).files)
    BY <1>1, <1>2
  <2>2. \A F : F = Files(Last(manifest).files) => Stored(F)' = Stored(F)
    BY <1>7
  <2> QED
    BY <2>1, <2>2
<1>9. Stored(recovery.tables)' = {}
  BY <1>2 DEF Stored
<1> QED
  BY <1>1, <1>2, <1>3, <1>4, <1>5, <1>6, <1>8, <1>9 DEF RecoveryInv

(* RecoverLogFile: what was read of a log is in the table made of it. *)
LEMMA LogReplayed ==
    ASSUME StoreInv, RecoverLogFile
    PROVE  RecoveryInv'
<1>1. PICK n \in recovery.logs, r \in Seq(Record), found \in SUBSET Entry : Replay(n, r, found)
  BY ReplayFacts, Parts
<1>2. phase = "recovering" /\ UNCHANGED <<phase, version, logNum, manifest, issued>>
  BY DEF RecoverLogFile
<1>3. /\ ~ Broken(manifest) /\ version = Last(manifest).files /\ logNum = Last(manifest).log
      /\ logNum < nextFile /\ Last(manifest).next <= nextFile /\ lastSeq <= issued
      /\ recovery.logs \subseteq NeededLogs
      /\ recovery.tables \subseteq DOMAIN tables /\ \A k \in recovery.tables : k < nextFile
      /\ \A e \in Stored(Files(version) \cup recovery.tables) : e.seq <= lastSeq
      /\ \A k \in NeededLogs \ recovery.logs : k < nextFile /\ Logged(logs[k]) \subseteq Stored(recovery.tables)
      /\ Stored(recovery.tables) \subseteq UNION {Logged(logs[k]) : k \in NeededLogs \ recovery.logs}
      /\ recovery.log # 0 => recovery.logs = {}
  BY <1>2, Parts DEF RecoveryInv
<1>4. /\ \A F : nextFile \notin F => Stored(F)' = Stored(F)
      /\ found # {} => nextFile \in DOMAIN tables'
      /\ Stored(recovery.tables)' = Stored(recovery.tables) \cup found
      /\ DOMAIN tables \subseteq DOMAIN tables'
      /\ recovery'.logs = recovery.logs \ {n} /\ recovery'.log = recovery.log
  BY <1>1, ReplayHolds
<1>5. recovery'.tables = IF found = {} THEN recovery.tables ELSE recovery.tables \cup {nextFile}
  <2>1. recovery \in [logs : SUBSET Nat, tables : SUBSET Nat, log : Nat]
    BY Parts DEF CallType
  <2> QED
    BY <1>1, <2>1 DEF Replay
<1>6. /\ n \in DOMAIN logs /\ n \in Nat /\ found = Logged(r)
      /\ nextFile' \in Nat /\ nextFile' >= nextFile /\ nextFile' > n
      /\ found # {} => nextFile' > nextFile
      /\ lastSeq' \in Nat /\ lastSeq <= lastSeq' /\ lastSeq' <= issued
      /\ \A e \in found : e.seq <= lastSeq'
      /\ logs' = [logs EXCEPT ![n] = r]
  BY <1>1 DEF Replay
<1>7. DOMAIN logs' = DOMAIN logs /\ logs'[n] = r /\ \A k \in DOMAIN logs : k # n => logs'[k] = logs[k]
  BY <1>6
<1>8. Last(manifest)' = Last(manifest) /\ Broken(manifest)' = Broken(manifest) /\ NeededLogs' = NeededLogs
  BY <1>2, <1>7 DEF Last, Broken, NeededLogs
<1>9. logNum' < nextFile' /\ Last(manifest)'.next <= nextFile'
  <2>1. logNum \in Nat /\ nextFile \in Nat /\ Last(manifest).next \in Nat
    BY Numbers, ManifestFacts
  <2> QED
    BY <1>2, <1>3, <1>6, <1>8, <2>1
<1>10. recovery'.tables \subseteq DOMAIN tables' /\ \A k \in recovery'.tables : k < nextFile'
  BY <1>3, <1>4, <1>5, <1>6, Numbers
<1>11. \A e \in Stored(Files(version) \cup recovery.tables)' : e.seq <= lastSeq'
  <2>1. nextFile \notin Files(version)
    BY <1>2, NextUnused
  <2>2. Stored(Files(version))' = Stored(Files(version))
    <3>1. \A F : F = Files(version) => Stored(F)' = Stored(F)
      BY <2>1, <1>4
    <3> QED
      BY <3>1, <1>2
  <2>3. Stored(Files(version) \cup recovery.tables)' = Stored(Files(version))' \cup Stored(recovery.tables)'
    <3>1. \A F, G : F = Files(version') /\ G = recovery'.tables => Stored(F \cup G)' = Stored(F)' \cup Stored(G)'
      BY StoredNext
    <3> QED
      BY <3>1
  <2>4. Stored(Files(version) \cup recovery.tables) = Stored(Files(version)) \cup Stored(recovery.tables)
    BY StoredUnion
  <2>5. \A e \in Stored(Files(version)) \cup Stored(recovery.tables) : e.seq \in Nat /\ e.seq <= lastSeq
    <3>1. Stored(Files(version) \cup recovery.tables) \subseteq Entry
      BY StoredType, Parts
    <3>2. \A e \in Entry : e.seq \in Nat
      BY DEF Entry
    <3> QED
      BY <1>3, <2>4, <3>1, <3>2
  <2>6. ASSUME NEW e \in Stored(Files(version)) \cup Stored(recovery.tables)
        PROVE  e.seq <= lastSeq'
    <3>1. e.seq \in Nat /\ e.seq <= lastSeq /\ lastSeq \in Nat
      BY <2>5, Numbers
    <3> QED
      BY <1>6, <3>1
  <2>7. Stored(Files(version) \cup recovery.tables)' = Stored(Files(version)) \cup Stored(recovery.tables) \cup found
    BY <1>4, <2>2, <2>3
  <2> QED
    BY <1>6, <2>6, <2>7
<1>12. \A k \in NeededLogs \ recovery'.logs :
            k < nextFile' /\ Logged(logs'[k]) \subseteq Stored(recovery.tables)'
  <2> SUFFICES ASSUME NEW k \in NeededLogs \ recovery'.logs
               PROVE  k < nextFile' /\ Logged(logs'[k]) \subseteq Stored(recovery.tables)'
    OBVIOUS
  <2>1. CASE k = n
    BY <1>4, <1>6, <1>7, <2>1
  <2>2. CASE k # n
    <3>1. k \in NeededLogs \ recovery.logs /\ k \in DOMAIN logs /\ k \in Nat
      BY <2>2, <1>4, NeededIn, Numbers
    <3> QED
      BY <2>2, <3>1, <1>3, <1>4, <1>6, <1>7, Numbers
  <2> QED
    BY <2>1, <2>2
<1>13. Stored(recovery.tables)' \subseteq UNION {Logged(logs'[k]) : k \in NeededLogs \ recovery'.logs}
  <2> SUFFICES ASSUME NEW e \in Stored(recovery.tables)'
               PROVE  \E k \in NeededLogs \ recovery'.logs : e \in Logged(logs'[k])
    OBVIOUS
  <2>1. CASE e \in found
    BY <1>3, <1>4, <1>6, <1>7, <2>1
  <2>2. CASE e \in Stored(recovery.tables)
    <3>1. PICK k \in NeededLogs \ recovery.logs : e \in Logged(logs[k])
      BY <2>2, <1>3
    <3>2. k # n /\ k \in DOMAIN logs
      BY <3>1, NeededIn
    <3> QED
      BY <1>4, <1>7, <3>1, <3>2
  <2> QED
    BY <2>1, <2>2, <1>4
<1>14. recovery'.log = 0
  BY <1>3, <1>4
<1> QED
  BY <1>2, <1>3, <1>4, <1>6, <1>8, <1>9, <1>10, <1>11, <1>12, <1>13, <1>14 DEF RecoveryInv

(* The new log of DB::Open is the newest, and empty. *)
LEMMA LogMade ==
    ASSUME StoreInv, OpenNewLog
    PROVE  RecoveryInv'
<1>1. /\ phase = "recovering" /\ recovery.logs = {} /\ recovery.log = 0
      /\ nextFile' = nextFile + 1
      /\ recovery'.logs = recovery.logs /\ recovery'.tables = recovery.tables
      /\ recovery'.log = nextFile
      /\ \A n \in DOMAIN logs : n < nextFile
      /\ Grown(logs, logs', nextFile, <<>>)
      /\ UNCHANGED <<phase, lastSeq, logNum, version, tables, manifest, issued>>
  BY NewLogFacts DEF promises
<1>2. /\ ~ Broken(manifest) /\ version = Last(manifest).files /\ logNum = Last(manifest).log
      /\ logNum < nextFile /\ Last(manifest).next <= nextFile /\ lastSeq <= issued
      /\ recovery.logs \subseteq NeededLogs
      /\ recovery.tables \subseteq DOMAIN tables /\ \A k \in recovery.tables : k < nextFile
      /\ \A e \in Stored(Files(version) \cup recovery.tables) : e.seq <= lastSeq
      /\ \A k \in NeededLogs \ recovery.logs : k < nextFile /\ Logged(logs[k]) \subseteq Stored(recovery.tables)
      /\ Stored(recovery.tables) \subseteq UNION {Logged(logs[k]) : k \in NeededLogs \ recovery.logs}
  BY <1>1, Parts DEF RecoveryInv
<1>3. Last(manifest)' = Last(manifest) /\ Broken(manifest)' = Broken(manifest)
  BY <1>1 DEF Last, Broken
<1>4. /\ nextFile \in Nat /\ logNum \in Nat /\ Last(manifest).next \in Nat /\ DOMAIN logs \subseteq Nat
      /\ DOMAIN tables \subseteq Nat
  BY Numbers, ManifestFacts
<1>5. /\ nextFile \in DOMAIN logs' /\ logs'[nextFile] = <<>>
      /\ \A k : k \in DOMAIN logs' <=> k \in DOMAIN logs \/ k = nextFile
      /\ \A k \in DOMAIN logs : k # nextFile /\ logs'[k] = logs[k]
  BY <1>1 DEF Grown
<1>6. \A k : k \in NeededLogs' <=> k \in NeededLogs \/ k = nextFile
  BY <1>2, <1>3, <1>4, <1>5 DEF NeededLogs
<1>7. \A F : Stored(F)' = Stored(F)
  BY <1>1, StoredUnchanged
<1>8. /\ Stored(recovery.tables)' = Stored(recovery.tables)
      /\ Stored(Files(version) \cup recovery.tables)' = Stored(Files(version) \cup recovery.tables)
  <2>1. \A F : F \in {recovery.tables, Files(version) \cup recovery.tables} => Stored(F)' = Stored(F)
    BY <1>7
  <2> QED
    BY <1>1, <2>1
<1>9. \A k \in NeededLogs' \ recovery'.logs : k < nextFile' /\ Logged(logs'[k]) \subseteq Stored(recovery.tables)'
  <2> SUFFICES ASSUME NEW k \in NeededLogs' \ recovery'.logs
               PROVE  k < nextFile' /\ Logged(logs'[k]) \subseteq Stored(recovery.tables)'
    OBVIOUS
  <2>1. CASE k = nextFile
    BY <1>1, <1>4, <1>5, <2>1, LoggedEmpty
  <2>2. CASE k \in NeededLogs
    <3>1. k \in DOMAIN logs
      BY <2>2, NeededIn
    <3>2. k \in Nat /\ k < nextFile /\ Logged(logs[k]) \subseteq Stored(recovery.tables)
      BY <1>1, <1>2, <1>4, <2>2, <3>1
    <3> QED
      BY <1>1, <1>4, <1>5, <1>8, <3>1, <3>2
  <2> QED
    BY <2>1, <2>2, <1>6
<1>10. Stored(recovery.tables)' \subseteq UNION {Logged(logs'[k]) : k \in NeededLogs' \ recovery'.logs}
  <2> SUFFICES ASSUME NEW e \in Stored(recovery.tables)'
               PROVE  \E k \in NeededLogs' \ recovery'.logs : e \in Logged(logs'[k])
    OBVIOUS
  <2>1. PICK k \in NeededLogs \ recovery.logs : e \in Logged(logs[k])
    BY <1>2, <1>8
  <2>2. k \in DOMAIN logs
    BY <2>1, NeededIn
  <2> QED
    BY <1>1, <1>5, <1>6, <2>1, <2>2
<1>11. /\ logNum' < nextFile' /\ Last(manifest).next <= nextFile' /\ \A k \in recovery.tables : k < nextFile'
       /\ recovery'.log < nextFile' /\ \A k \in DOMAIN logs' : k <= recovery'.log
  BY <1>1, <1>2, <1>4, <1>5
<1>12. recovery'.logs \subseteq NeededLogs'
  BY <1>1
<1> QED
  BY <1>1, <1>2, <1>3, <1>5, <1>8, <1>9, <1>10, <1>11, <1>12 DEF RecoveryInv

(* Until DB::Open installs, the replayed logs are in the tables it made. *)
LEMMA RecoveryKeeps ==
    ASSUME StoreInv, [Next]_vars
    PROVE  RecoveryInv'
<1>1. CASE UNCHANGED <<phase, manifest, version, logNum, nextFile, lastSeq, issued, recovery, logs, tables>>
  <2>1. \A F : Stored(F)' = Stored(F)
    BY <1>1, StoredUnchanged
  <2>2. \A F : F \in {recovery.tables, Files(version) \cup recovery.tables} => Stored(F)' = Stored(F)
    BY <2>1
  <2>3. /\ Stored(recovery.tables)' = Stored(recovery.tables)
        /\ Stored(Files(version) \cup recovery.tables)' = Stored(Files(version) \cup recovery.tables)
    BY <1>1, <2>2
  <2>4. /\ Broken(manifest)' = Broken(manifest) /\ Last(manifest)' = Last(manifest)
        /\ NeededLogs' = NeededLogs
    BY <1>1 DEF Last, Broken, NeededLogs
  <2> QED
    BY <1>1, <2>3, <2>4, Parts DEF RecoveryInv
<1>2. CASE phase' # "recovering"
  BY <1>2 DEF RecoveryInv
<1>3. \/ UNCHANGED <<phase, manifest, version, logNum, nextFile, lastSeq, issued, recovery, logs, tables>>
      \/ phase' # "recovering" \/ RecoverManifest \/ RecoverLogFile \/ OpenNewLog
  <2>1. \A t \in Thread : RoomSwitched(t) \/ RoomFound(t) \/ LogStep(t) \/ Sync(t) \/ InsertInto(t) \/ Commit(t)
            => phase' = phase /\ Up
    BY Parts, InUp DEF RoomSwitched, MaySwitch, MayLoop, RoomFound, LogStep, AddRecord, AddRecordFails, Sync,
       InsertInto, Commit
  <2>2. \A r \in Reader : Get(r) \/ GotValue(r) => phase' = phase /\ Up
    BY Parts, InUp DEF Get, GotValue, Up
  <2>3. (\/ BackgroundIdles \/ Flush \/ TableBuilt \/ PickCompaction \/ Install
         \/ OpenCompactionOutputFile \/ FinishCompactionOutputFile \/ AppendEdit
         \/ TableFails \/ CompactionFails \/ EditNotLogged)
            => phase' = phase /\ Up
    BY QuietFacts, FlushFacts, OutputFacts, EditLogged, InstallFacts, TableFailsFacts
  <2>4. Close \/ Down \/ CrashMachine \/ OpenInstalls => phase' # "recovering"
    BY OpenFacts DEF Close, Down, Closed, CrashProcess, OpenFails, CrashMachine
  <2>5. UNCHANGED store => UNCHANGED <<phase, manifest, version, logNum, nextFile, lastSeq, issued, recovery, logs, tables>>
    BY DEF store, disk, memory, promises
  <2>6. Up => phase # "recovering"
    BY DEF Up
  <2> QED
    BY <2>1, <2>2, <2>3, <2>4, <2>5, <2>6, StepCases DEF Steps, Install
<1> QED
  BY <1>1, <1>2, <1>3, ManifestRead, LogReplayed, LogMade

(***************************************************************************)
(* The front writer and its group.                                         *)
(***************************************************************************)
(* The steps that change the queue or a call. *)
LEMMA CallCases ==
    ASSUME StoreInv, [Next]_vars
    PROVE  \/ UNCHANGED <<queue, op>>
           \/ ~ Up'
           \/ \E t \in Thread : \/ \E sync, null \in BOOLEAN : Write(t, sync, null)
                                \/ RoomStep(t) \/ RoomFound(t) \/ LogStep(t) \/ Sync(t) \/ SyncFails(t)
                                \/ InsertInto(t) \/ Commit(t)
           \/ Ends
<1>1. CASE UNCHANGED vars
  BY <1>1 DEF vars
<1>2. ASSUME NEW t \in Thread, \/ \E sync, null \in BOOLEAN : Write(t, sync, null)
                               \/ WriteStep(t) \/ WriteFault(t)
      PROVE  \/ \E sync, null \in BOOLEAN : Write(t, sync, null)
             \/ RoomStep(t) \/ RoomFound(t) \/ LogStep(t) \/ Sync(t) \/ SyncFails(t)
             \/ InsertInto(t) \/ Commit(t)
  BY <1>2 DEF WriteStep, WriteFault, RoomStep, LogStep
<1>3. CASE BackgroundStep
  <2>1. \/ BackgroundIdles \/ Flush \/ TableBuilt \/ PickCompaction \/ OpenCompactionOutputFile
        \/ FinishCompactionOutputFile \/ AppendEdit \/ Install
    BY <1>3 DEF BackgroundStep, Flush, Install
  <2>2. Flush \/ TableBuilt \/ PickCompaction \/ OpenCompactionOutputFile \/ FinishCompactionOutputFile
            \/ AppendEdit => UNCHANGED <<queue, op>>
    BY FlushFacts DEF TableBuilt, PickCompaction, OpenCompactionOutputFile, FinishCompactionOutputFile,
       AppendEdit
  <2> QED
    BY <2>1, <2>2 DEF Ends
<1>4. CASE BackgroundFault
  BY <1>4 DEF BackgroundFault, Ends
<1>5. CASE Closed \/ CrashProcess \/ CrashMachine \/ OpenFails
  BY <1>5 DEF Closed, CrashProcess, CrashMachine, OpenFails, Up
<1>6. CASE OpenStep \/ Close
  BY <1>6 DEF OpenStep, RecoverManifest, OpenRefused, RecoverLogFile, OpenNewLog, OpenInstalls, Close, vars
<1>7. CASE \E r \in Reader : Get(r) \/ GotValue(r)
  BY <1>7 DEF Get, GotValue
<1> QED
  BY <1>1, <1>2, <1>3, <1>4, <1>5, <1>6, <1>7 DEF Next

(* What an answer makes of a call. *)
LEMMA AnswerOps ==
    ASSUME QueueInv, NEW n \in 1..Len(queue), NEW o \in [Thread -> Ops], NEW after, Answer(n, o, after),
           NEW u \in Thread
    PROVE  IF \E i \in 1..n : queue[i] = u
           THEN op'[u] \in {after, Idle}
           ELSE op'[u] = o[u] \/ (op'[u] = [o[u] EXCEPT !.pc = "room"]
                                    /\ op'[u].pc = "room" /\ op'[u].status = o[u].status)
<1> DEFINE rest == SubSeq(queue, n + 1, Len(queue))
           gone == {queue[i] : i \in 1..n}
           woken(v) == [o[v] EXCEPT !.pc = "room"]
           end(v) == IF op[v].null THEN after ELSE Idle
<1>1. op' = [v \in Thread |-> CASE v \in gone -> end(v)
                               [] rest # <<>> /\ v = rest[1] -> woken(v)
                               [] OTHER -> o[v]]
  BY Zenon DEF Answer
<1>2. u \in gone <=> \E i \in 1..n : queue[i] = u
  OBVIOUS
<1>3. end(u) \in {after, Idle}
  OBVIOUS
<1>4. woken(u) = [o[u] EXCEPT !.pc = "room"] /\ woken(u).pc = "room" /\ woken(u).status = o[u].status
  BY DEF Ops
<1> HIDE DEF rest, gone, woken, end
<1>5. op'[u] = CASE u \in gone -> end(u)
                 [] rest # <<>> /\ u = rest[1] -> woken(u)
                 [] OTHER -> o[u]
  BY Zenon, <1>1
<1>6. u \notin gone => op'[u] = o[u] \/ op'[u] = woken(u)
  BY <1>5
<1>7. u \in gone => op'[u] = end(u)
  <2>1. /\ queue \in Seq(Thread) /\ Len(queue) \in Nat /\ DOMAIN queue = 1..Len(queue)
        /\ \A i, j \in 1..Len(queue) : queue[i] = queue[j] => i = j
    BY DEF QueueInv, OneLogger
  <2>2. n \in Nat /\ 1 <= n /\ n <= Len(queue)
    BY <2>1
  <2>3. /\ rest \in Seq(Thread) /\ Len(rest) = Len(queue) - n
        /\ \A i \in 1..(Len(queue) - n) : rest[i] = queue[n + i]
    BY <2>1, <2>2, RestProperties DEF rest
  <2>4. rest # <<>> => 1 \in 1..(Len(queue) - n)
    <3>1. rest # <<>> => Len(rest) # 0
      BY <2>3, EmptySeq
    <3>2. Len(queue) \in Nat /\ n \in Nat /\ n <= Len(queue) /\ Len(rest) = Len(queue) - n
      BY <2>1, <2>2, <2>3
    <3> QED
      BY ONLY <3>1, <3>2
  <2>5. rest # <<>> => rest[1] = queue[n + 1] /\ n + 1 \in 1..Len(queue)
    BY <2>1, <2>2, <2>3, <2>4
  <2>6. u \in gone => ~ (rest # <<>> /\ u = rest[1])
    <3> SUFFICES ASSUME u \in gone, rest # <<>>, u = rest[1]
                 PROVE  FALSE
      OBVIOUS
    <3>1. PICK i \in 1..n : queue[i] = u
      BY <1>2
    <3>2. i \in 1..Len(queue) /\ i # n + 1
      BY <2>1, <2>2
    <3> QED
      BY <2>1, <2>5, <3>1, <3>2
  <2> QED
    BY <1>5, <2>6
<1> QED
  BY <1>2, <1>3, <1>4, <1>6, <1>7

(* What a signal makes of a call. *)
LEMMA SignalOps ==
    ASSUME QueueInv, NEW i, NEW e, NEW u \in Thread
    PROVE  \/ Signal(op, i, e)[u] = op[u]
           \/ op[u].pc = "bgwait" /\ Signal(op, i, e)[u] = [op[u] EXCEPT !.pc = "room"]
                /\ Signal(op, i, e)[u].pc = "room" /\ Signal(op, i, e)[u].status = op[u].status
           \/ op[u].pc = "immwait" /\ Signal(op, i, e)[u] = Idle
<1>1. Signal(op, i, e)[u] = CASE op[u].pc = "bgwait" -> [op[u] EXCEPT !.pc = "room"]
                              [] op[u].pc = "immwait" /\ (i = 0 \/ e) -> Idle
                              [] OTHER -> op[u]
  BY Zenon DEF Signal
<1>2. CASE op[u].pc = "bgwait"
  BY <1>1, <1>2 DEF QueueInv, Ops
<1>3. CASE op[u].pc = "immwait"
  BY <1>1, <1>3
<1>4. CASE op[u].pc \notin {"bgwait", "immwait"}
  BY <1>1, <1>4
<1> QED
  BY <1>2, <1>3, <1>4

(* A writer that makes room keeps its place, or is answered. *)
LEMMA RoomFrame ==
    ASSUME StoreInv, NEW t \in Thread, RoomStep(t)
    PROVE  /\ Front(t, "room") \/ Front(t, "asleep")
           /\ \/ \E o \in Ops : o.pc \in {"room", "asleep", "bgwait"} /\ o.status = op[t].status
                                   /\ op' = [op EXCEPT ![t] = o]
              \/ \E after \in {Idle, [Idle EXCEPT !.pc = "immwait"]} : Answer(1, op, after)
           /\ UNCHANGED <<phase, group, lastSeq, promises>>
<1>1. op[t] \in Ops
  BY Parts DEF QueueInv
<1>2. CASE RoomRefused(t) \/ RoomNoFile(t)
  BY <1>2 DEF RoomRefused, RoomNoFile, MaySwitch, MayLoop, memory
<1>3. CASE RoomForced(t)
  BY <1>3 DEF RoomForced, MayLoop, AfterNull, memory
<1>4. CASE RoomDelayed(t)
  <2>1. [op[t] EXCEPT !.pc = "asleep"] \in Ops /\ [op[t] EXCEPT !.pc = "asleep"].pc = "asleep"
            /\ [op[t] EXCEPT !.pc = "asleep"].status = op[t].status
    BY <1>1 DEF Ops, PCs
  <2> QED
    BY <1>4, <2>1 DEF RoomDelayed, MayLoop, memory
<1>5. CASE RoomWaits(t)
  <2>1. [op[t] EXCEPT !.pc = "bgwait"] \in Ops /\ [op[t] EXCEPT !.pc = "bgwait"].pc = "bgwait"
            /\ [op[t] EXCEPT !.pc = "bgwait"].status = op[t].status
    BY <1>1 DEF Ops, PCs
  <2> QED
    BY <1>5, <2>1 DEF RoomWaits, MayLoop, memory
<1>6. CASE RoomWoken(t)
  <2>1. [op[t] EXCEPT !.pc = "room", !.delay = FALSE] \in Ops
            /\ [op[t] EXCEPT !.pc = "room", !.delay = FALSE].pc = "room"
            /\ [op[t] EXCEPT !.pc = "room", !.delay = FALSE].status = op[t].status
    BY <1>1 DEF Ops, PCs
  <2>2. op' = [op EXCEPT ![t] = [op[t] EXCEPT !.pc = "room", !.delay = FALSE]]
    BY <1>6 DEF RoomWoken
  <2> QED
    BY <1>6, <2>1, <2>2 DEF RoomWoken, memory
<1>7. CASE RoomSwitched(t)
  <2>1. op[t].pc = "room"
    BY <1>7, SwitchFacts
  <2>2. [op[t] EXCEPT !.force = FALSE] \in Ops /\ [op[t] EXCEPT !.force = FALSE].pc = "room"
            /\ [op[t] EXCEPT !.force = FALSE].status = op[t].status
    BY <1>1, <2>1 DEF Ops, PCs
  <2> QED
    BY <1>7, <2>2 DEF RoomSwitched, MaySwitch, MayLoop
<1> QED
  BY <1>2, <1>3, <1>4, <1>5, <1>6, <1>7 DEF RoomStep

(* A writer in that stage serves nobody, and nobody else does. *)
LEMMA RoomServes ==
    ASSUME StoreInv, NEW t \in Thread, RoomStep(t)
    PROVE  \A u \in Thread : op[u].pc \notin Serving /\ op'[u].pc \notin Serving
<1>1. op[t].pc \in {"room", "asleep"} /\ queue # <<>> /\ queue[1] = t
  BY RoomFrame DEF Front
<1>2. \A u \in Thread : op[u].pc \notin Serving
  BY <1>1, NoServer DEF Leading, Serving
<1>3. op \in [Thread -> Ops] /\ 1 \in 1..Len(queue)
  <2>1. queue \in Seq(Thread)
    BY Parts DEF QueueInv
  <2>2. Len(queue) \in Nat /\ Len(queue) # 0
    BY <1>1, <2>1, EmptySeq
  <2> QED
    BY <2>2, Parts DEF QueueInv
<1>4. CASE \E o \in Ops : o.pc \in {"room", "asleep", "bgwait"} /\ op' = [op EXCEPT ![t] = o]
  BY <1>2, <1>3, <1>4 DEF Serving
<1>5. ASSUME NEW after \in {Idle, [Idle EXCEPT !.pc = "immwait"]}, Answer(1, op, after)
      PROVE  \A u \in Thread : op'[u].pc \notin Serving
  <2>1. after.pc \notin Serving /\ Idle.pc \notin Serving
    BY <1>5 DEF Idle, Serving
  <2> SUFFICES ASSUME NEW u \in Thread
               PROVE  op'[u].pc \notin Serving
    OBVIOUS
  <2>2. op'[u] \in {after, Idle} \/ op'[u] = op[u] \/ op'[u].pc = "room"
    <3>1. QueueInv /\ op \in [Thread -> Ops] /\ 1 \in 1..Len(queue)
      BY <1>3, Parts
    <3>2. IF \E i \in 1..1 : queue[i] = u
          THEN op'[u] \in {after, Idle}
          ELSE op'[u] = op[u] \/ (op'[u] = [op[u] EXCEPT !.pc = "room"]
                                    /\ op'[u].pc = "room" /\ op'[u].status = op[u].status)
      BY <1>5, <3>1, AnswerOps
    <3> QED
      BY <3>2
  <2>3. "room" \notin Serving
    BY DEF Serving
  <2> QED
    BY <1>2, <2>1, <2>2, <2>3
<1> QED
  BY <1>2, <1>4, <1>5, RoomFrame

(* The end of a group: its writers leave, and nobody serves. *)
LEMMA CommitOps ==
    ASSUME StoreInv, NEW t \in Thread, Commit(t), NEW u \in Thread
    PROVE  /\ op'[u].pc \notin Serving
           /\ op'[u].pc # "commit"
           /\ op'[u].status = "ok"
<1> DEFINE error == bgError \/ op[t].status = "sync failed"
           o == IF error /\ ~ bgError THEN Signal(op, imm, error) ELSE op
           after == IF op[t].status = "ok" THEN AfterNull(error) ELSE Idle
<1>1. Answer(group.size, o, after)
  BY Zenon DEF Commit
<1>2. op[t].pc = "commit" /\ queue # <<>> /\ queue[1] = t /\ group.size \in 1..Len(queue)
  BY CommitFacts
<1>3. QueueInv /\ op \in [Thread -> Ops] /\ op[t].pc \in Leading
  BY <1>2, Parts DEF QueueInv, Leading
<1>4. after \in {Idle, [Idle EXCEPT !.pc = "immwait"]}
  BY DEF AfterNull
<1>5. o \in [Thread -> Ops] /\ (\/ o[u] = op[u] \/ (o[u].pc = "room" /\ o[u].status = op[u].status)
                                \/ o[u] = Idle)
  <2>1. CASE o = op
    BY <1>3, <2>1
  <2>2. CASE o = Signal(op, imm, error)
    <3> HIDE DEF error, o, after
    <3>1. \/ Signal(op, imm, error)[u] = op[u]
          \/ op[u].pc = "bgwait" /\ Signal(op, imm, error)[u] = [op[u] EXCEPT !.pc = "room"]
                /\ Signal(op, imm, error)[u].pc = "room" /\ Signal(op, imm, error)[u].status = op[u].status
          \/ op[u].pc = "immwait" /\ Signal(op, imm, error)[u] = Idle
      BY <1>3, SignalOps
    <3>2. Signal(op, imm, error) \in [Thread -> Ops]
      BY <1>3, SignalType
    <3> QED
      BY <2>2, <3>1, <3>2
  <2> QED
    BY <2>1, <2>2
<1> HIDE DEF error, o, after
<1>6. IF \E i \in 1..group.size : queue[i] = u
      THEN op'[u] \in {after, Idle}
      ELSE op'[u] = o[u] \/ (op'[u] = [o[u] EXCEPT !.pc = "room"]
                               /\ op'[u].pc = "room" /\ op'[u].status = o[u].status)
  BY <1>1, <1>2, <1>3, <1>5, AnswerOps
<1>7. CASE \E i \in 1..group.size : queue[i] = u
  BY <1>4, <1>6, <1>7 DEF Idle, Serving
<1>8. CASE ~ \E i \in 1..group.size : queue[i] = u
  <2>1. 1 \in 1..group.size
    BY <1>2, <1>3 DEF QueueInv
  <2>2. u # t
    BY <1>2, <1>8, <2>1
  <2>3. op[u].pc \notin Leading /\ op[u].pc \notin Serving
    BY <1>3, <2>2, FrontAlone
  <2>4. op[u].status = "ok"
    BY <2>3, Parts DEF StageInv, Leading
  <2>5. op[u].pc # "commit"
    BY <2>3 DEF Leading
  <2> QED
    BY <1>5, <1>6, <1>8, <2>3, <2>4, <2>5 DEF Idle, Serving
<1> QED
  BY <1>7, <1>8

(* Only what has failed on the way to the answer has another status. *)
LEMMA StatusKeeps ==
    ASSUME StoreInv, [Next]_vars, NEW u \in Thread, op'[u].pc # "commit"
    PROVE  op'[u].status = "ok"
<1>0. op \in [Thread -> Ops] /\ QueueInv
  BY Parts DEF QueueInv
<1>1. op[u].pc # "commit" => op[u].status = "ok"
  BY Parts DEF StageInv
<1>2. CASE UNCHANGED <<queue, op>>
  BY <1>1, <1>2
<1>3. CASE ~ Up'
  <2>1. op' = [v \in Thread |-> Idle]
    BY <1>3, RestKeeps DEF RestInv
  <2> QED
    BY <2>1 DEF Idle
<1>4. ASSUME NEW t \in Thread, NEW sync \in BOOLEAN, NEW null \in BOOLEAN, Write(t, sync, null)
      PROVE  op'[u].status = "ok"
  BY <1>0, <1>1, <1>4 DEF Write, Idle
<1>5. ASSUME NEW t \in Thread, RoomStep(t)
      PROVE  op'[u].status = "ok"
  <2>1. op[t].pc # "commit" /\ 1 \in 1..Len(queue) /\ op[u].pc # "commit"
    <3>1. op[t].pc \in {"room", "asleep"} /\ queue # <<>>
      BY <1>5, RoomFrame DEF Front
    <3>2. queue \in Seq(Thread)
      BY <1>0 DEF QueueInv
    <3>3. Len(queue) \in Nat /\ Len(queue) # 0
      BY <3>1, <3>2, EmptySeq
    <3>4. op[u].pc \notin Serving
      BY <1>5, RoomServes
    <3> QED
      BY <3>1, <3>3, <3>4 DEF Serving
  <2>2. CASE \E o \in Ops : o.pc \in {"room", "asleep", "bgwait"} /\ o.status = op[t].status
                                   /\ op' = [op EXCEPT ![t] = o]
    <3>1. op[t].status = "ok"
      BY <2>1, Parts DEF StageInv
    <3> QED
      BY <1>0, <1>1, <2>1, <2>2, <3>1
  <2>3. ASSUME NEW after \in {Idle, [Idle EXCEPT !.pc = "immwait"]}, Answer(1, op, after)
        PROVE  op'[u].status = "ok"
    <3>1. IF \E i \in 1..1 : queue[i] = u
          THEN op'[u] \in {after, Idle}
          ELSE op'[u] = op[u] \/ (op'[u] = [op[u] EXCEPT !.pc = "room"]
                                    /\ op'[u].pc = "room" /\ op'[u].status = op[u].status)
      BY <1>0, <2>1, <2>3, AnswerOps
    <3> QED
      BY <1>1, <2>1, <2>3, <3>1 DEF Idle
  <2> QED
    BY <1>5, <2>2, <2>3, RoomFrame
<1>6. ASSUME NEW t \in Thread, RoomFound(t) \/ AddRecord(t) \/ Sync(t)
      PROVE  op'[u].status = "ok"
  <2>1. op[t].status = "ok"
    BY <1>6, Parts DEF StageInv, RoomFound, MayLoop, AddRecord, Sync, Front
  <2>2. u # t => op'[u] = op[u] /\ op[u].pc # "commit"
    <3>1. u # t => op'[u] = op[u]
      BY <1>0, <1>6 DEF RoomFound, AddRecord, Sync
    <3> QED
      BY <3>1
  <2>3. op'[t].status = op[t].status
    <3>1. CASE RoomFound(t)
      BY <1>0, <3>1 DEF RoomFound, Ops
    <3>2. CASE AddRecord(t)
      BY <1>0, <3>2 DEF AddRecord, Ops
    <3>3. CASE Sync(t)
      BY <1>0, <3>3 DEF Sync, Ops
    <3> QED
      BY <1>6, <3>1, <3>2, <3>3
  <2> QED
    BY <1>1, <2>1, <2>2, <2>3
<1>7. ASSUME NEW t \in Thread, AddRecordFails(t) \/ SyncFails(t) \/ InsertInto(t)
      PROVE  op'[u].status = "ok"
  <2>1. u # t => op'[u] = op[u]
    BY <1>0, <1>7 DEF AddRecordFails, SyncFails, InsertInto
  <2>2. op'[t].pc = "commit"
    <3>1. CASE AddRecordFails(t)
      BY <1>0, <3>1 DEF AddRecordFails, Ops
    <3>2. CASE SyncFails(t)
      BY <1>0, <3>2 DEF SyncFails, Ops
    <3>3. CASE InsertInto(t)
      BY <1>0, <3>3 DEF InsertInto, Ops
    <3> QED
      BY <1>7, <3>1, <3>2, <3>3
  <2> QED
    BY <1>1, <2>1, <2>2
<1>8. ASSUME NEW t \in Thread, Commit(t)
      PROVE  op'[u].status = "ok"
  BY <1>8, CommitOps
<1>9. ASSUME NEW i, NEW e, op' = Signal(op, i, e)
      PROVE  op'[u].status = "ok"
  <2>1. \/ Signal(op, i, e)[u] = op[u]
        \/ op[u].pc = "bgwait" /\ Signal(op, i, e)[u] = [op[u] EXCEPT !.pc = "room"]
              /\ Signal(op, i, e)[u].pc = "room" /\ Signal(op, i, e)[u].status = op[u].status
        \/ op[u].pc = "immwait" /\ Signal(op, i, e)[u] = Idle
    BY <1>0, SignalOps
  <2> QED
    BY <1>1, <1>9, <2>1 DEF Idle
<1>10. Ends => \E i, e : op' = Signal(op, i, e)
  <2>1. BackgroundIdles => \E i, e : op' = Signal(op, i, e)
    BY DEF BackgroundIdles, BackgroundDone
  <2>2. CompactionFails => \E i, e : op' = Signal(op, i, e)
    BY DEF CompactionFails, BackgroundDone
  <2>3. TableFails => \E i, e : op' = Signal(op, i, e)
    BY DoneFacts DEF TableFails
  <2>4. EditNotLogged => \E i, e : op' = Signal(op, i, e)
    BY DoneFacts, EditLogged
  <2>5. Install => \E i, e : op' = Signal(op, i, e)
    BY DoneFacts, InstallFacts
  <2> QED
    BY <2>1, <2>2, <2>3, <2>4, <2>5 DEF Ends
<1> QED
  BY <1>2, <1>3, <1>4, <1>5, <1>6, <1>7, <1>8, <1>9, <1>10, CallCases DEF LogStep

(* The writers of a group wait behind its server. *)
LEMMA Members ==
    ASSUME StoreInv, NEW u \in Thread, op[u].pc \in Serving, NEW i \in 1..group.size
    PROVE  /\ i \in 1..Len(queue) /\ queue[i] \in Thread /\ (op[queue[i]].pc = "wait" \/ queue[i] = u)
           /\ queue # <<>> /\ queue[1] = u /\ group.size \in 1..Len(queue)
<1>1. queue \in Seq(Thread) /\ group.size \in 1..Len(queue) /\ Len(queue) \in Nat /\ DOMAIN queue = 1..Len(queue)
  BY Parts DEF QueueInv
<1>2. i \in 1..Len(queue) /\ queue[i] \in Thread
  BY <1>1
<1>3. queue # <<>> /\ queue[1] = u
  BY Parts, FrontAlone DEF Serving, Leading
<1>4. i > 1 => op[queue[i]].pc = "wait"
  BY <1>1, <1>2, Parts DEF QueueInv, OneLogger
<1> QED
  BY <1>1, <1>2, <1>3, <1>4

(* A signal or a new call changes no server. *)
LEMMA KeepsServers ==
    ASSUME StoreInv, \/ UNCHANGED <<queue, op>>
                     \/ \E i, e : op' = Signal(op, i, e) /\ UNCHANGED queue
                     \/ \E t \in Thread, sync \in BOOLEAN, null \in BOOLEAN : Write(t, sync, null)
    PROVE  ServersKept
<1>0. op \in [Thread -> Ops] /\ queue \in Seq(Thread) /\ QueueInv
  BY Parts DEF QueueInv
<1>1. CASE UNCHANGED <<queue, op>>
  BY <1>1 DEF ServersKept, MembersKept
<1>2. ASSUME NEW j, NEW e, op' = Signal(op, j, e), UNCHANGED queue
      PROVE  ServersKept
  <2>1. ASSUME NEW u \in Thread
        PROVE  /\ op'[u].pc \in Serving <=> op[u].pc \in Serving
               /\ op[u].pc \notin {"bgwait", "immwait"} => op'[u] = op[u]
    <3>1. \/ Signal(op, j, e)[u] = op[u]
          \/ op[u].pc = "bgwait" /\ Signal(op, j, e)[u] = [op[u] EXCEPT !.pc = "room"]
                /\ Signal(op, j, e)[u].pc = "room" /\ Signal(op, j, e)[u].status = op[u].status
          \/ op[u].pc = "immwait" /\ Signal(op, j, e)[u] = Idle
      BY <1>0, SignalOps
    <3> QED
      BY <1>2, <3>1 DEF Serving, Idle
  <2>2. \A u \in Thread : op[u].pc \in Serving => op'[u] = op[u]
    BY <2>1 DEF Serving
  <2>3. \A u \in Thread : op[u].pc \in Serving => \A i \in 1..group.size : op'[queue[i]] = op[queue[i]]
    BY <2>1, <2>2, Members
  <2> QED
    BY <1>2, <2>1, <2>2, <2>3 DEF ServersKept, MembersKept
<1>3. ASSUME NEW t \in Thread, NEW sync \in BOOLEAN, NEW null \in BOOLEAN, Write(t, sync, null)
      PROVE  ServersKept
  <2>1. op[t].pc = "idle" /\ queue' = Append(queue, t) /\ (op'[t].pc \in {"room", "wait"})
        /\ \A u \in Thread : u # t => op'[u] = op[u]
    BY <1>0, <1>3 DEF Write, Idle
  <2>2. \A u \in Thread : op'[u].pc \in Serving <=> op[u].pc \in Serving
    BY <2>1 DEF Serving
  <2>3. \A u \in Thread : op[u].pc \in Serving => op'[u] = op[u]
    BY <2>1 DEF Serving
  <2>4. ASSUME NEW u \in Thread, op[u].pc \in Serving, NEW i \in 1..group.size
        PROVE  queue'[i] = queue[i] /\ op'[queue[i]] = op[queue[i]]
    <3>1. i \in 1..Len(queue) /\ queue[i] \in Thread /\ queue[i] # t
      BY <2>1, <2>4, Members DEF Serving
    <3>2. Append(queue, t)[i] = queue[i]
      BY <1>0, <3>1
    <3> QED
      BY <2>1, <3>1, <3>2
  <2> QED
    BY <2>2, <2>3, <2>4 DEF ServersKept, MembersKept
<1> QED
  BY <1>1, <1>2, <1>3

(* A background call that ends only signals. *)
LEMMA EndsSignal ==
    ASSUME StoreInv, Ends
    PROVE  \E i, e : op' = Signal(op, i, e) /\ UNCHANGED queue
<1>1. BackgroundIdles => \E i, e : op' = Signal(op, i, e) /\ UNCHANGED queue
  BY DEF BackgroundIdles, BackgroundDone
<1>2. CompactionFails => \E i, e : op' = Signal(op, i, e) /\ UNCHANGED queue
  BY DEF CompactionFails, BackgroundDone
<1>3. TableFails => \E i, e : op' = Signal(op, i, e) /\ UNCHANGED queue
  BY DoneFacts DEF TableFails
<1>4. EditNotLogged => \E i, e : op' = Signal(op, i, e) /\ UNCHANGED queue
  BY DoneFacts, EditLogged
<1>5. Install => \E i, e : op' = Signal(op, i, e) /\ UNCHANGED queue
  BY DoneFacts, InstallFacts
<1> QED
  BY <1>1, <1>2, <1>3, <1>4, <1>5 DEF Ends

(* A step of the server that goes on. *)
LEMMA ServerGoesOn ==
    ASSUME StoreInv, NEW t \in Thread, op[t].pc \in Serving, NEW o \in Ops, o.pc \in Serving,
           o.sync = op[t].sync, o.null = op[t].null, op' = [op EXCEPT ![t] = o], UNCHANGED queue
    PROVE  MembersKept /\ \A u \in Thread : u # t => op'[u].pc \notin Serving /\ op[u].pc \notin Serving
<1>1. op \in [Thread -> Ops]
  BY Parts DEF QueueInv
<1>2. \A u \in Thread : u # t => op[u].pc \notin Serving
  BY Parts, FrontAlone DEF Serving, Leading
<1>3. op'[t] = o /\ \A u \in Thread : u # t => op'[u] = op[u]
  BY <1>1
<1>4. \A i \in 1..group.size : queue[i] \in Thread
  BY Members
<1> QED
  BY <1>2, <1>3, <1>4 DEF MembersKept

(* The server of a group goes from stage to stage. *)
LEMMA ServerSteps ==
    ASSUME StoreInv, NEW t \in Thread, LogStep(t) \/ Sync(t) \/ SyncFails(t) \/ InsertInto(t)
    PROVE  /\ Front(t, "log") \/ Front(t, "sync") \/ Front(t, "insert")
           /\ MembersKept /\ \A u \in Thread : u # t => op'[u].pc \notin Serving
           /\ op'[t].sync = op[t].sync
           /\ AddRecord(t) => op'[t].pc = IF op[t].sync THEN "sync" ELSE "insert"
           /\ Sync(t) => op'[t].pc = "insert"
           /\ InsertInto(t) => op'[t].pc = "commit" /\ op'[t].status = op[t].status
           /\ AddRecordFails(t) => op'[t].pc = "commit" /\ op'[t].status = "failed"
           /\ SyncFails(t) => op'[t].pc = "commit" /\ op'[t].status = "sync failed"
           /\ UNCHANGED <<phase, queue, group, lastSeq, mem, issued>>
<1>0. op \in [Thread -> Ops] /\ op[t] \in Ops
  BY Parts DEF QueueInv
<1>1. Front(t, "log") \/ Front(t, "sync") \/ Front(t, "insert")
  BY DEF LogStep, AddRecord, AddRecordFails, Sync, SyncFails, InsertInto
<1>2. op[t].pc \in Serving
  BY <1>1 DEF Front, Serving
<1>3. UNCHANGED <<phase, queue, group, lastSeq, mem, issued>>
  BY DEF LogStep, AddRecord, AddRecordFails, Sync, SyncFails, InsertInto, memory, promises
<1>4. CASE AddRecord(t)
  <2> DEFINE o == [op[t] EXCEPT !.pc = IF op[t].sync THEN "sync" ELSE "insert"]
  <2>1. /\ o \in Ops /\ o.pc = (IF op[t].sync THEN "sync" ELSE "insert") /\ o.sync = op[t].sync
        /\ o.null = op[t].null /\ o.pc \in Serving
    BY <1>0 DEF Ops, PCs, Serving
  <2>2. op' = [op EXCEPT ![t] = o] /\ op'[t] = o
    BY <1>0, <1>4 DEF AddRecord
  <2> HIDE DEF o
  <2>3. MembersKept /\ \A u \in Thread : u # t => op'[u].pc \notin Serving
    BY <1>2, <1>3, <2>1, <2>2, ServerGoesOn
  <2>4. ~ Sync(t) /\ ~ InsertInto(t) /\ ~ SyncFails(t)
    BY <1>4 DEF AddRecord, Sync, InsertInto, SyncFails, Front
  <2>5. ~ AddRecordFails(t)
    <3>1. AddRecordFails(t) => op'[t] = [op[t] EXCEPT !.pc = "commit", !.status = "failed"]
      BY <1>0 DEF AddRecordFails
    <3>2. [op[t] EXCEPT !.pc = "commit", !.status = "failed"].pc = "commit"
      BY <1>0 DEF Ops
    <3> QED
      BY <2>1, <2>2, <3>1, <3>2
  <2> QED
    BY <1>1, <1>3, <2>1, <2>2, <2>3, <2>4, <2>5
<1>5. CASE AddRecordFails(t)
  <2> DEFINE o == [op[t] EXCEPT !.pc = "commit", !.status = "failed"]
  <2>1. /\ o \in Ops /\ o.pc = "commit" /\ o.sync = op[t].sync /\ o.status = "failed"
        /\ o.null = op[t].null /\ o.pc \in Serving
    BY <1>0 DEF Ops, PCs, Serving
  <2>2. op' = [op EXCEPT ![t] = o] /\ op'[t] = o
    BY <1>0, <1>5 DEF AddRecordFails
  <2> HIDE DEF o
  <2>3. MembersKept /\ \A u \in Thread : u # t => op'[u].pc \notin Serving
    BY <1>2, <1>3, <2>1, <2>2, ServerGoesOn
  <2>4. ~ Sync(t) /\ ~ InsertInto(t) /\ ~ SyncFails(t)
    BY <1>5 DEF AddRecordFails, Sync, InsertInto, SyncFails, Front
  <2>5. ~ AddRecord(t)
    <3>1. AddRecord(t) => op'[t] = [op[t] EXCEPT !.pc = IF op[t].sync THEN "sync" ELSE "insert"]
      BY <1>0 DEF AddRecord
    <3>2. [op[t] EXCEPT !.pc = IF op[t].sync THEN "sync" ELSE "insert"].pc # "commit"
      BY <1>0 DEF Ops
    <3> QED
      BY <2>1, <2>2, <3>1, <3>2
  <2> QED
    BY <1>1, <1>3, <2>1, <2>2, <2>3, <2>4, <2>5
<1>6. CASE Sync(t)
  <2> DEFINE o == [op[t] EXCEPT !.pc = "insert"]
  <2>1. /\ o \in Ops /\ o.pc = "insert" /\ o.sync = op[t].sync
        /\ o.null = op[t].null /\ o.pc \in Serving
    BY <1>0 DEF Ops, PCs, Serving
  <2>2. op' = [op EXCEPT ![t] = o] /\ op'[t] = o
    BY <1>0, <1>6 DEF Sync
  <2> HIDE DEF o
  <2>3. MembersKept /\ \A u \in Thread : u # t => op'[u].pc \notin Serving
    BY <1>2, <1>3, <2>1, <2>2, ServerGoesOn
  <2>4. ~ AddRecord(t) /\ ~ AddRecordFails(t) /\ ~ InsertInto(t)
    BY <1>6 DEF Sync, AddRecord, AddRecordFails, InsertInto, Front
  <2>5. ~ SyncFails(t)
    BY <2>1, <2>2, <1>0 DEF SyncFails, Ops
  <2> QED
    BY <1>1, <1>3, <2>1, <2>2, <2>3, <2>4, <2>5
<1>7. CASE SyncFails(t)
  <2> DEFINE o == [op[t] EXCEPT !.pc = "commit", !.status = "sync failed"]
  <2>1. /\ o \in Ops /\ o.pc = "commit" /\ o.sync = op[t].sync /\ o.status = "sync failed"
        /\ o.null = op[t].null /\ o.pc \in Serving
    BY <1>0 DEF Ops, PCs, Serving
  <2>2. op' = [op EXCEPT ![t] = o] /\ op'[t] = o
    BY <1>0, <1>7 DEF SyncFails
  <2> HIDE DEF o
  <2>3. MembersKept /\ \A u \in Thread : u # t => op'[u].pc \notin Serving
    BY <1>2, <1>3, <2>1, <2>2, ServerGoesOn
  <2>4. ~ AddRecord(t) /\ ~ AddRecordFails(t) /\ ~ InsertInto(t)
    BY <1>7 DEF SyncFails, AddRecord, AddRecordFails, InsertInto, Front
  <2>5. ~ Sync(t)
    BY <2>1, <2>2, <1>0 DEF Sync, Ops
  <2> QED
    BY <1>1, <1>3, <2>1, <2>2, <2>3, <2>4, <2>5
<1>8. CASE InsertInto(t)
  <2> DEFINE o == [op[t] EXCEPT !.pc = "commit"]
  <2>1. /\ o \in Ops /\ o.pc = "commit" /\ o.sync = op[t].sync /\ o.status = op[t].status
        /\ o.null = op[t].null /\ o.pc \in Serving
    BY <1>0 DEF Ops, PCs, Serving
  <2>2. op' = [op EXCEPT ![t] = o] /\ op'[t] = o
    BY <1>0, <1>8 DEF InsertInto
  <2> HIDE DEF o
  <2>3. MembersKept /\ \A u \in Thread : u # t => op'[u].pc \notin Serving
    BY <1>2, <1>3, <2>1, <2>2, ServerGoesOn
  <2>4. ~ AddRecord(t) /\ ~ AddRecordFails(t) /\ ~ Sync(t) /\ ~ SyncFails(t)
    BY <1>8 DEF InsertInto, AddRecord, AddRecordFails, Sync, SyncFails, Front
  <2> QED
    BY <1>1, <1>3, <2>1, <2>2, <2>3, <2>4
<1> QED
  BY <1>4, <1>5, <1>6, <1>7, <1>8 DEF LogStep

LEMMA GroupSame ==
    ASSUME StoreInv, MembersKept, UNCHANGED <<group, lastSeq, issued>>, Up' => Up
    PROVE  GroupInv'
<1>1. lastSeq' <= issued' \/ ~ Up'
  BY Parts DEF GroupInv
<1>2. (\A t \in Thread : op'[t].pc \notin Serving) => group' = NoGroup
  BY Parts DEF GroupInv, MembersKept
<1>3. ASSUME NEW t \in Thread, op'[t].pc \in Serving
      PROVE  /\ lastSeq + Batches(group.size)' <= issued
             /\ group.entries = NewEntries(issued - Batches(group.size)', lastSeq, Batches(group.size)')
             /\ \A i \in 1..group.size : op'[queue'[i]].sync => op'[t].sync
  <2>1. op[t].pc \in Serving
    BY <1>3 DEF MembersKept
  <2>2. /\ op'[t].sync = op[t].sync
        /\ \A i \in 1..group.size : /\ queue'[i] = queue[i]
                                    /\ op'[queue[i]].sync = op[queue[i]].sync
                                    /\ op'[queue[i]].null = op[queue[i]].null
    BY <2>1 DEF MembersKept
  <2>3. group.size \in Nat
    BY Parts DEF CallType
  <2>4. \A n \in Nat : (\A i \in 1..n : op'[queue'[i]].null = op[queue[i]].null) => Batches(n)' = Batches(n)
    BY BatchesStable
  <2>5. Batches(group.size)' = Batches(group.size)
    <3>1. \A n \in Nat : n = group.size => Batches(n)' = Batches(n)
      BY <2>2, <2>4
    <3> QED
      BY <2>3, <3>1
  <2>6. /\ lastSeq + Batches(group.size) <= issued
        /\ group.entries = NewEntries(issued - Batches(group.size), lastSeq, Batches(group.size))
        /\ \A i \in 1..group.size : op[queue[i]].sync => op[t].sync
    BY <2>1, Parts DEF GroupInv
  <2> QED
    BY <2>2, <2>5, <2>6
<1> QED
  BY <1>1, <1>2, <1>3 DEF GroupInv, NewEntries

LEMMA GroupNone ==
    ASSUME \A t \in Thread : op'[t].pc \notin Serving, group' = NoGroup, lastSeq' <= issued' \/ ~ Up'
    PROVE  GroupInv'
BY DEF GroupInv

LEMMA GroupMade ==
    ASSUME StoreInv, NEW t \in Thread, RoomFound(t)
    PROVE  GroupInv'
<1>1. /\ Up /\ op[t].pc = "room" /\ queue # <<>> /\ queue[1] = t
      /\ GroupSize \in 1..Len(queue) /\ Batches(GroupSize) \in Nat
      /\ group' = [size |-> GroupSize, entries |-> NewEntries(issued, lastSeq, Batches(GroupSize))]
      /\ issued' = issued + Batches(GroupSize)
      /\ op' = [op EXCEPT ![t].pc = "log"]
      /\ UNCHANGED <<queue, lastSeq>>
      /\ \A u \in Thread : op[u].pc \notin Serving
  BY FoundFacts DEF memory
<1>2. op \in [Thread -> Ops] /\ queue \in Seq(Thread) /\ QueueInv
  BY Parts DEF QueueInv
<1>3. \A u \in Thread : op'[u].sync = op[u].sync /\ op'[u].null = op[u].null /\ (u # t => op'[u] = op[u])
  <2>1. op'[t] = [op[t] EXCEPT !.pc = "log"] /\ \A u \in Thread : u # t => op'[u] = op[u]
    BY <1>1, <1>2
  <2>2. op[t] \in Ops
    BY <1>2
  <2>3. op'[t].sync = op[t].sync /\ op'[t].null = op[t].null
    BY <2>1, <2>2 DEF Ops
  <2> QED
    BY <2>1, <2>3
<1>4. op'[t].pc = "log"
  <2>1. op'[t] = [op[t] EXCEPT !.pc = "log"]
    BY <1>1, <1>2
  <2>2. op[t] \in Ops
    BY <1>2
  <2> QED
    BY <2>1, <2>2 DEF Ops
<1>5. \A i \in 1..GroupSize : queue[i] \in Thread
  BY <1>1, <1>2
<1>6. \A n \in Nat : (\A i \in 1..n : op'[queue'[i]].null = op[queue[i]].null) => Batches(n)' = Batches(n)
  BY BatchesStable
<1>7. GroupSize \in Nat
  BY <1>1
<1>8. \A n \in Nat : n = GroupSize => Batches(n)' = Batches(n)
  BY <1>1, <1>3, <1>5, <1>6
<1>9. Batches(group.size)' = Batches(GroupSize)
  <2>1. \A n \in Nat : n = group'.size => Batches(n)' = Batches(n)
    BY <1>1, <1>8
  <2>2. group'.size = GroupSize
    BY <1>1
  <2> QED
    BY <1>7, <2>1, <2>2
<1>10. lastSeq \in Nat /\ issued \in Nat /\ lastSeq <= issued
  BY <1>1, Numbers, Parts DEF GroupInv
<1>11. issued' - Batches(GroupSize) = issued /\ lastSeq' + Batches(GroupSize) <= issued' /\ lastSeq' <= issued'
  BY <1>1, <1>10
<1>12. group'.entries = NewEntries(issued' - Batches(GroupSize), lastSeq', Batches(GroupSize))
  BY <1>1, <1>11
<1>13. \A i \in 1..group'.size : op'[queue'[i]].sync => op'[t].sync
  <2> SUFFICES ASSUME NEW i \in 1..GroupSize, op[queue[i]].sync
               PROVE  op[t].sync
    BY <1>1, <1>3, <1>5
  <2>1. CASE i = 1
    BY <1>1, <2>1
  <2>2. CASE i # 1
    <3>1. i \in 2..GroupSize
      BY <1>7, <2>2
    <3>2. Grouped(i)
      BY <1>1, <1>2, <3>1, GroupSizeProperties
    <3> QED
      BY <1>1, <3>2 DEF Grouped
  <2> QED
    BY <2>1, <2>2
<1>14. \A u \in Thread : op'[u].pc \in Serving => u = t
  BY <1>1, <1>3
<1>15. ~ (\A u \in Thread : op'[u].pc \notin Serving)
  BY <1>4 DEF Serving
<1> QED
  BY <1>9, <1>11, <1>12, <1>13, <1>14, <1>15 DEF GroupInv, NewEntries

(* The group under way has the next ids and sequence numbers. *)
LEMMA GroupKeeps ==
    ASSUME StoreInv, [Next]_vars
    PROVE  GroupInv'
<1>1. \/ UNCHANGED <<group, lastSeq, issued>> /\ (Up' => Up)
      \/ ~ Up' \/ OpenInstalls
      \/ \E t \in Thread : RoomFound(t) \/ Commit(t)
  BY ZenonT(60), StepCases DEF Steps, store, disk, memory, promises, Up, LogStep, AddRecord, AddRecordFails,
     RoomSwitched, Sync, InsertInto, Get, GotValue, Close, Down, Closed, CrashProcess, OpenFails,
     BackgroundIdles, TableBuilt, PickCompaction, FinishCompactionOutputFile, CompactionFails, AppendEdit,
     EditNotLogged, Flush, CompactMemTable, CompactMemTableFirst, BuildTable, OpenCompactionOutputFile,
     TableFails, MemTableInstalled, CompactionInstalled,
     CrashMachine, RecoverManifest, RecoverLogFile, OpenNewLog
<1>2. CASE ~ Up'
  <2>1. op' = [v \in Thread |-> Idle] /\ group' = NoGroup
    BY <1>2, RestKeeps DEF RestInv
  <2>2. \A u \in Thread : op'[u].pc \notin Serving
    BY <2>1 DEF Idle, Serving
  <2> QED
    BY <1>2, <2>1, <2>2, GroupNone
<1>3. CASE OpenInstalls
  <2>1. phase = "recovering" /\ op = [v \in Thread |-> Idle] /\ group = NoGroup
        /\ UNCHANGED <<op, group, lastSeq, issued>>
    BY <1>3, OpenFacts DEF promises
  <2>2. \A u \in Thread : op'[u].pc \notin Serving
    BY <2>1 DEF Idle, Serving
  <2>3. lastSeq <= issued
    BY <2>1, Parts DEF RecoveryInv
  <2> QED
    BY <2>1, <2>2, <2>3, GroupNone
<1>4. ASSUME NEW t \in Thread, Commit(t)
      PROVE  GroupInv'
  <2>1. lastSeq' <= issued' /\ group' = NoGroup
    BY <1>4, CommitFacts
  <2>2. \A u \in Thread : op'[u].pc \notin Serving
    BY <1>4, CommitOps
  <2> QED
    BY <2>1, <2>2, GroupNone
<1>5. CASE UNCHANGED <<group, lastSeq, issued>> /\ (Up' => Up)
  <2>1. CASE MembersKept
    BY <1>5, <2>1, GroupSame
  <2>2. ASSUME NEW t \in Thread, RoomStep(t)
        PROVE  GroupInv'
    <3>1. \A u \in Thread : op[u].pc \notin Serving /\ op'[u].pc \notin Serving
      BY <2>2, RoomServes
    <3>2. MembersKept
      BY <3>1 DEF MembersKept
    <3> QED
      BY <2>1, <3>2
  <2>3. ASSUME NEW t \in Thread, LogStep(t) \/ Sync(t) \/ SyncFails(t) \/ InsertInto(t)
        PROVE  GroupInv'
    BY <2>1, <2>3, ServerSteps
  <2>4. CASE UNCHANGED <<queue, op>> \/ \E t \in Thread, sync \in BOOLEAN, null \in BOOLEAN : Write(t, sync, null)
    BY <2>1, <2>4, KeepsServers DEF ServersKept
  <2>5. CASE Ends
    BY <2>1, <2>5, EndsSignal, KeepsServers DEF ServersKept
  <2>6. CASE ~ Up'
    BY <1>2, <2>6
  <2>7. ASSUME NEW t \in Thread, RoomFound(t) \/ Commit(t)
        PROVE  GroupInv'
    BY <2>7, <1>4, GroupMade
  <2> QED
    BY <2>2, <2>3, <2>4, <2>5, <2>6, <2>7, CallCases
<1> QED
  BY <1>1, <1>2, <1>3, <1>4, <1>5, GroupMade

LEMMA StageSame ==
    ASSUME StoreInv, [Next]_vars, ServersKept, UNCHANGED group,
           (\E t \in Thread : op[t].pc \in Serving) =>
                /\ mem' = mem /\ mem \in DOMAIN memtab /\ mem \in DOMAIN logs
                /\ Shrunk(memtab, memtab') /\ mem \in DOMAIN memtab'
                /\ Shrunk(logs, logs') /\ mem \in DOMAIN logs'
                /\ synced'[mem] = synced[mem]
    PROVE  StageInv'
<1> SUFFICES ASSUME NEW t \in Thread
             PROVE  /\ op'[t].pc # "commit" => op'[t].status = "ok"
                    /\ op'[t].pc \in {"log", "sync", "insert"} =>
                            \A n \in DOMAIN memtab' : memtab'[n] \cap group.entries = {}
                    /\ op'[t].pc = "log" => \A n \in DOMAIN logs' : Logged(logs'[n]) \cap group.entries = {}
                    /\ op'[t].pc = "sync" => op'[t].sync
                    /\ op'[t].pc \in {"sync", "insert"} => group.entries \subseteq Logged(logs'[mem'])
                    /\ op'[t].pc = "commit" /\ op'[t].status = "ok" => group.entries \subseteq memtab'[mem']
                    /\ op'[t].pc = "commit" /\ op'[t].status # "ok" =>
                            \A n \in DOMAIN memtab' : memtab'[n] \cap group.entries = {}
                    /\ op'[t].sync /\ (op'[t].pc = "insert" \/ (op'[t].pc = "commit" /\ op'[t].status = "ok")) =>
                            group.entries \subseteq Logged(SubSeq(logs'[mem'], 1, synced'[mem']))
  BY DEF StageInv
<1>1. op'[t].pc # "commit" => op'[t].status = "ok"
  BY StatusKeeps
<1>2. CASE op'[t].pc \notin Serving
  BY <1>1, <1>2 DEF Serving
<1>3. CASE op'[t].pc \in Serving
  <2>1. op[t].pc \in Serving /\ op'[t] = op[t]
    BY <1>3 DEF ServersKept, MembersKept
  <2>2. /\ mem' = mem
        /\ Shrunk(memtab, memtab') /\ mem \in DOMAIN memtab'
        /\ Shrunk(logs, logs') /\ mem \in DOMAIN logs'
        /\ synced'[mem] = synced[mem]
    BY <2>1
  <2>3. memtab'[mem] = memtab[mem] /\ logs'[mem] = logs[mem]
    BY <2>2 DEF Shrunk
  <2>4. /\ \A n \in DOMAIN memtab' : n \in DOMAIN memtab /\ memtab'[n] = memtab[n]
        /\ \A n \in DOMAIN logs' : n \in DOMAIN logs /\ logs'[n] = logs[n]
    BY <2>2 DEF Shrunk
  <2> QED
    BY <1>1, <2>1, <2>2, <2>3, <2>4, Parts DEF StageInv
<1> QED
  BY <1>2, <1>3

LEMMA StageNone ==
    ASSUME StoreInv, [Next]_vars, \A t \in Thread : op'[t].pc \notin Serving
    PROVE  StageInv'
<1>1. \A t \in Thread : op'[t].pc # "commit" => op'[t].status = "ok"
  BY StatusKeeps
<1> QED
  BY <1>1 DEF StageInv, Serving

(* Only t serves, at a later stage. *)
LEMMA StageOf ==
    ASSUME StoreInv, [Next]_vars, NEW t \in Thread,
           \A u \in Thread : u # t => op'[u].pc \notin Serving,
           op'[t].pc \in {"log", "sync", "insert"} \/ (op'[t].pc = "commit" /\ op'[t].status # "ok") =>
                \A n \in DOMAIN memtab' : memtab'[n] \cap group'.entries = {},
           op'[t].pc = "log" => \A n \in DOMAIN logs' : Logged(logs'[n]) \cap group'.entries = {},
           op'[t].pc = "sync" => op'[t].sync,
           op'[t].pc \in {"sync", "insert"} => group'.entries \subseteq Logged(logs'[mem']),
           op'[t].pc = "commit" /\ op'[t].status = "ok" => group'.entries \subseteq memtab'[mem'],
           op'[t].sync /\ (op'[t].pc = "insert" \/ (op'[t].pc = "commit" /\ op'[t].status = "ok")) =>
                group'.entries \subseteq Logged(SubSeq(logs'[mem'], 1, synced'[mem']))
    PROVE  StageInv'
<1>1. \A u \in Thread : op'[u].pc # "commit" => op'[u].status = "ok"
  BY StatusKeeps
<1> QED
  BY <1>1 DEF StageInv, Serving

LEMMA StageMade ==
    ASSUME StoreInv, [Next]_vars, NEW t \in Thread, RoomFound(t)
    PROVE  StageInv'
<1>1. /\ op' = [op EXCEPT ![t].pc = "log"] /\ \A u \in Thread : op[u].pc \notin Serving
      /\ group' = [size |-> GroupSize, entries |-> NewEntries(issued, lastSeq, Batches(GroupSize))]
      /\ Batches(GroupSize) \in Nat /\ UNCHANGED <<memtab, logs>>
  BY FoundFacts DEF memory, disk
<1>2. op \in [Thread -> Ops]
  BY Parts DEF QueueInv
<1>3. op'[t].pc = "log" /\ \A u \in Thread : u # t => op'[u].pc \notin Serving
  BY <1>1, <1>2 DEF Ops
<1>4. \A e \in group'.entries : e.id > issued /\ e.id \in Nat
  BY <1>1, Numbers, NewEntriesProperties
<1>5. \A e \in Known : ~ (e.id > issued)
  BY Parts, Numbers DEF EntryInv
<1>6. (\A n \in DOMAIN memtab : memtab[n] \cap group'.entries = {})
         /\ \A n \in DOMAIN logs : Logged(logs[n]) \cap group'.entries = {}
  BY <1>4, <1>5, KnownIn
<1> QED
  BY <1>1, <1>3, <1>6, StageOf

LEMMA StageMoves ==
    ASSUME StoreInv, [Next]_vars, NEW t \in Thread, LogStep(t) \/ Sync(t) \/ SyncFails(t) \/ InsertInto(t)
    PROVE  StageInv'
<1>1. /\ \A u \in Thread : u # t => op'[u].pc \notin Serving
      /\ op'[t].sync = op[t].sync /\ UNCHANGED <<group, mem>>
  BY ServerSteps
<1>2. CASE LogStep(t)
  <2>1. op[t].pc = "log" /\ UNCHANGED memtab
    BY <1>2, LogAdds DEF memory
  <2>2. \A n \in DOMAIN memtab : memtab[n] \cap group.entries = {}
    BY <2>1, Parts DEF StageInv
  <2>3. CASE AddRecord(t)
    <3>1. op'[t].pc = IF op[t].sync THEN "sync" ELSE "insert"
      BY <2>3, ServerSteps, <1>2
    <3>2. group.entries \subseteq Logged(logs'[mem])
      BY <1>2, <2>3, LogAdds
    <3> QED
      BY <1>1, <2>1, <2>2, <3>1, <3>2, StageOf
  <2>4. CASE AddRecordFails(t)
    <3>1. op'[t].pc = "commit" /\ op'[t].status = "failed"
      BY <2>4, ServerSteps, <1>2
    <3> QED
      BY <1>1, <2>1, <2>2, <3>1, StageOf
  <2> QED
    BY <1>2, <2>3, <2>4 DEF LogStep
<1>3. CASE Sync(t)
  <2>1. /\ op[t].pc = "sync" /\ UNCHANGED <<memtab, logs>> /\ op'[t].pc = "insert" /\ Up
        /\ synced' = [synced EXCEPT ![mem] = Len(logs[mem])]
    BY <1>3, ServerSteps, Parts, InUp DEF Sync, Front, memory
  <2>2. /\ \A n \in DOMAIN memtab : memtab[n] \cap group.entries = {}
        /\ group.entries \subseteq Logged(logs[mem])
    BY <2>1, Parts DEF StageInv
  <2>3. mem \in DOMAIN logs /\ logs[mem] \in Seq(Record) /\ DOMAIN synced = DOMAIN logs
    BY <2>1, Numbers
  <2>4. synced'[mem] = Len(logs[mem]) /\ Len(logs[mem]) \in Nat
    BY <2>1, <2>3
  <2>5. Logged(SubSeq(logs[mem], 1, synced'[mem])) = Logged(logs[mem])
    BY <2>3, <2>4, PrefixRecords
  <2> QED
    BY <1>1, <2>1, <2>2, <2>5, StageOf
<1>4. CASE SyncFails(t)
  <2>1. /\ op[t].pc = "sync" /\ UNCHANGED memtab
        /\ op'[t].pc = "commit" /\ op'[t].status = "sync failed"
    BY <1>4, ServerSteps DEF SyncFails, Front, memory
  <2>2. \A n \in DOMAIN memtab : memtab[n] \cap group.entries = {}
    BY <2>1, Parts DEF StageInv
  <2> QED
    BY <1>1, <2>1, <2>2, StageOf
<1>5. CASE InsertInto(t)
  <2>1. /\ op[t].pc = "insert" /\ op[t].status = "ok" /\ op'[t].pc = "commit" /\ op'[t].status = op[t].status
        /\ memtab'[mem] = memtab[mem] \cup group.entries /\ UNCHANGED <<logs, synced>>
    BY <1>5, ServerSteps, InsertFacts DEF disk
  <2>2. op[t].sync => group.entries \subseteq Logged(SubSeq(logs[mem], 1, synced[mem]))
    BY <2>1, Parts DEF StageInv
  <2> QED
    BY <1>1, <2>1, <2>2, StageOf
<1> QED
  BY <1>2, <1>3, <1>4, <1>5

(* The entries of a group are in the log once it is logged, in what is synced *)
(* of the log once it is synced, and in the memtable at the end.           *)
LEMMA StageKeeps ==
    ASSUME StoreInv, [Next]_vars
    PROVE  StageInv'
<1>0. \A t \in Thread : op[t].pc \in Serving => Up
  <2>1. ~ Up => op = [u \in Thread |-> Idle]
    BY Parts DEF RestInv
  <2> QED
    BY <2>1 DEF Idle, Serving
<1>1. \/ UNCHANGED <<group, mem, memtab, logs, synced>>
      \/ ~ Up' \/ OpenInstalls \/ Install \/ (\E r \in Reader : GotValue(r))
      \/ \E t \in Thread : RoomSwitched(t) \/ RoomFound(t) \/ LogStep(t) \/ Sync(t) \/ InsertInto(t) \/ Commit(t)
  BY StepCases DEF Steps, store, disk, memory, promises, Up,
     Get, Close, Down, Closed, CrashProcess, OpenFails,
     BackgroundIdles, TableBuilt, PickCompaction, FinishCompactionOutputFile, CompactionFails, AppendEdit,
     EditNotLogged, Flush, CompactMemTable, CompactMemTableFirst, BuildTable, OpenCompactionOutputFile,
     TableFails, Install, CrashMachine, RecoverManifest, RecoverLogFile, OpenNewLog
<1>2. CASE ~ Up'
  <2>1. op' = [v \in Thread |-> Idle]
    BY <1>2, RestKeeps DEF RestInv
  <2>2. \A u \in Thread : op'[u].pc \notin Serving
    BY <2>1 DEF Idle, Serving
  <2> QED
    BY <2>2, StageNone
<1>3. CASE OpenInstalls
  <2>1. op = [v \in Thread |-> Idle] /\ op' = op
    BY <1>3, OpenFacts
  <2>2. \A u \in Thread : op'[u].pc \notin Serving
    BY <2>1 DEF Idle, Serving
  <2> QED
    BY <2>2, StageNone
<1>4. CASE Install
  <2>1. ServersKept
    BY <1>4, EndsSignal, KeepsServers DEF Ends
  <2>2. /\ Up /\ UNCHANGED <<group, mem>> /\ Shrunk(memtab, memtab') /\ mem \in DOMAIN memtab'
        /\ Shrunk(logs, logs') /\ Shrunk(synced, synced') /\ DOMAIN synced' = DOMAIN logs'
        /\ \A k \in DOMAIN logs : k >= logNum' => k \in DOMAIN logs'
        /\ logNum' = Last(manifest).log
    BY <1>4, InstallFacts
  <2>3. mem \in DOMAIN logs /\ mem \in DOMAIN memtab
    BY <2>2, Numbers
  <2>4. mem >= logNum'
    <3>1. Last(manifest).log <= mem
      BY <2>2, ManifestFacts, Parts DEF VersionInv
    <3> QED
      BY <2>2, <3>1, Numbers, ManifestFacts
  <2>5. mem \in DOMAIN logs' /\ synced'[mem] = synced[mem]
    BY <2>2, <2>3, <2>4 DEF Shrunk
  <2> QED
    BY <2>1, <2>2, <2>3, <2>5, StageSame
<1>5. ASSUME NEW r \in Reader, GotValue(r)
      PROVE  StageInv'
  <2>1. /\ Up /\ Shrunk(memtab, memtab') /\ mem \in DOMAIN memtab'
        /\ UNCHANGED <<queue, op, group, mem, logs, synced>>
    BY <1>5, GotFacts DEF disk
  <2>2. ServersKept
    BY <2>1, KeepsServers
  <2> QED
    BY <2>1, <2>2, Numbers, StageSame DEF Shrunk
<1>6. ASSUME NEW t \in Thread, RoomStep(t) \/ Commit(t)
      PROVE  StageInv'
  BY <1>6, RoomServes, CommitOps, StageNone
<1>7. CASE UNCHANGED <<group, mem, memtab, logs, synced>>
  <2>1. CASE ServersKept
    BY <1>0, <1>7, <2>1, Numbers, StageSame DEF Shrunk
  <2>2. CASE UNCHANGED <<queue, op>> \/ \E t \in Thread, sync \in BOOLEAN, null \in BOOLEAN : Write(t, sync, null)
    BY <2>1, <2>2, KeepsServers
  <2>3. CASE Ends
    BY <2>1, <2>3, EndsSignal, KeepsServers
  <2> QED
    BY <1>2, <1>6, <2>2, <2>3, CallCases, StageMade, StageMoves
<1> QED
  BY <1>1, <1>2, <1>3, <1>4, <1>5, <1>6, <1>7, StageMade, StageMoves DEF RoomStep

(***************************************************************************)
(* What Write has promised: an entry stays in every state it must be in.  *)
(***************************************************************************)
(* All the records of a log are the log. *)
LEMMA WholeLog == \A s \in Seq(Record) : Logged(SubSeq(s, 1, Len(s))) = Logged(s)
<1> TAKE s \in Seq(Record)
<1>1. Len(s) \in Nat
  OBVIOUS
<1> QED
  BY <1>1, PrefixRecords

(* What is synced of a log is in the log. *)
LEMMA ReachIn ==
    ASSUME StoreInv, NEW n \in DOMAIN logs
    PROVE  /\ Reach(n, FALSE) \subseteq Reach(n, TRUE)
           /\ \A all : Reach(n, all) \subseteq Logged(logs[n])
<1>1. logs[n] \in Seq(Record) /\ synced[n] \in Nat /\ synced[n] <= Len(logs[n])
  BY Numbers
<1>2. Logged(SubSeq(logs[n], 1, synced[n])) \subseteq Logged(logs[n])
  BY <1>1, PrefixRecords
<1> QED
  BY <1>2 DEF Reach

(* Durable is what is in every state the MANIFEST may recover; said of a   *)
(* state and of the next one.                                              *)
LEMMA DurableNow ==
    ASSUME TypeOK, ManifestInv, NEW e
    PROVE  e \in Durable <=> \A i \in DOMAIN manifest : InState(i, FALSE, e)
<1>1. 1 \in DOMAIN manifest
  BY LastManifest DEF TypeOK
<1>2. \A i \in DOMAIN manifest : Files(manifest[i].files) \subseteq DOMAIN tables
  BY DEF ManifestInv
<1>3. \A i \in DOMAIN manifest : e \in Recovered(manifest[i], synced) <=> InState(i, FALSE, e)
  BY <1>2 DEF Recovered, InState, InLogs, Reach
<1> QED
  BY <1>1, <1>3 DEF Durable

LEMMA DurableNext ==
    ASSUME TypeOK', ManifestInv', NEW e
    PROVE  e \in Durable' <=> \A i \in DOMAIN manifest' : InState(i, FALSE, e)'
<1>1. 1 \in DOMAIN manifest'
  <2>1. manifest' \in Seq(State) /\ manifest' # <<>>
    BY DEF TypeOK, DiskType
  <2> QED
    BY <2>1
<1>2. \A i \in DOMAIN manifest' : Files(manifest'[i].files) \subseteq DOMAIN tables'
  BY DEF ManifestInv
<1>3. \A i \in DOMAIN manifest' : e \in Recovered(manifest[i], synced)' <=> InState(i, FALSE, e)'
  BY <1>2 DEF Recovered, InState, InLogs, Reach
<1> QED
  BY <1>1, <1>3 DEF Durable

(* A closed database has what its last MANIFEST state recovers. *)
LEMMA ClosedNow ==
    ASSUME TypeOK, ManifestInv, ~ Up, ~ Broken(manifest), NEW e
    PROVE  e \in Contents <=> InState(Len(manifest), TRUE, e)
<1> DEFINE whole == [n \in DOMAIN logs |-> Len(logs[n])]
<1>1. Contents = Recovered(Last(manifest), whole)
  BY DEF Contents, Up
<1>2. Len(manifest) \in DOMAIN manifest /\ Last(manifest) = manifest[Len(manifest)]
  BY LastManifest DEF TypeOK
<1>3. Files(manifest[Len(manifest)].files) \subseteq DOMAIN tables
  BY <1>2 DEF ManifestInv
<1>4. \A n \in DOMAIN logs : Logged(SubSeq(logs[n], 1, whole[n])) = Logged(logs[n])
  BY WholeLog DEF TypeOK, DiskType
<1>5. \A n \in DOMAIN logs : Reach(n, TRUE) = Logged(SubSeq(logs[n], 1, whole[n]))
  BY <1>4 DEF Reach
<1> HIDE DEF whole
<1> QED
  BY <1>1, <1>2, <1>3, <1>5 DEF Recovered, InState, InLogs

LEMMA ClosedNext ==
    ASSUME TypeOK', ManifestInv', ~ Up', ~ Broken(manifest'), NEW e
    PROVE  \A k : k = Len(manifest') => (e \in Contents' <=> InState(k, TRUE, e)')
<1> DEFINE whole == [n \in DOMAIN logs' |-> Len(logs'[n])]
<1>1. Contents' = Recovered(Last(manifest), [n \in DOMAIN logs |-> Len(logs[n])])'
  BY DEF Contents, Up
<1>2. Len(manifest') \in DOMAIN manifest' /\ Last(manifest)' = manifest'[Len(manifest')]
  <2>1. manifest' \in Seq(State) /\ manifest' # <<>>
    BY DEF TypeOK, DiskType
  <2> QED
    BY <2>1 DEF Last
<1>3. Files(manifest'[Len(manifest')].files) \subseteq DOMAIN tables'
  BY <1>2 DEF ManifestInv
<1>4. \A n \in DOMAIN logs' : Logged(SubSeq(logs'[n], 1, whole[n])) = Logged(logs'[n])
  BY WholeLog DEF TypeOK, DiskType
<1>5. \A n \in DOMAIN logs' : Reach(n, TRUE)' = Logged(SubSeq(logs'[n], 1, whole[n]))
  BY <1>4 DEF Reach
<1> SUFFICES ASSUME NEW k, k = Len(manifest')
             PROVE  e \in Contents' <=> InState(k, TRUE, e)'
  OBVIOUS
<1>6. Contents' = Recovered(manifest[k], [n \in DOMAIN logs |-> Len(logs[n])])'
  BY <1>1, <1>2 DEF Recovered
<1>7. Contents' = Stored(Files(manifest[k].files))'
            \cup UNION {Logged(SubSeq(logs'[n], 1, whole[n])) : n \in {l \in DOMAIN logs' : l >= manifest'[k].log}}
  BY <1>3, <1>6 DEF Recovered
<1> HIDE DEF whole
<1> QED
  BY <1>5, <1>7 DEF InState, InLogs

(* An open one has what its memtables and its version have. *)
LEMMA VisibleIn ==
    ASSUME NEW e
    PROVE  /\ e \in Visible <=> /\ e.seq <= lastSeq
                                /\ \/ e \in memtab[mem]
                                   \/ imm # 0 /\ e \in memtab[imm]
                                   \/ e \in Stored(Files(version))
           /\ e \in Visible' <=> /\ e.seq <= lastSeq'
                                 /\ \/ e \in memtab'[mem']
                                    \/ imm' # 0 /\ e \in memtab'[imm']
                                    \/ e \in Stored(Files(version))'
           /\ Up => Contents = Visible
           /\ Up' => Contents' = Visible'
<1>1. e \in Visible <=> /\ e.seq <= lastSeq
                        /\ \/ e \in memtab[mem]
                           \/ imm # 0 /\ e \in memtab[imm]
                           \/ e \in Stored(Files(version))
  BY DEF Visible
<1>2. e \in Visible' <=> /\ e.seq <= lastSeq'
                         /\ \/ e \in memtab'[mem']
                            \/ imm' # 0 /\ e \in memtab'[imm']
                            \/ e \in Stored(Files(version))'
  BY DEF Visible
<1>3. (Up => Contents = Visible) /\ (Up' => Contents' = Visible')
  BY DEF Contents, Up
<1> QED
  BY <1>1, <1>2, <1>3

(* An entry of a state stays in it when its tables and its log do. *)
LEMMA StateSame ==
    ASSUME StoreInv, NEW all \in BOOLEAN, NEW e, NEW i \in DOMAIN manifest, InState(i, all, e),
           manifest'[i].log = manifest[i].log, manifest'[i].files = manifest[i].files,
           \A n \in Files(manifest[i].files) : n \in DOMAIN tables' /\ tables'[n] = tables[n],
           \A n \in DOMAIN logs : n >= manifest[i].log => n \in DOMAIN logs' /\ Reach(n, all) \subseteq Reach(n, all)'
    PROVE  InState(i, all, e)'
<1>1. Files(manifest[i].files) \subseteq DOMAIN tables
  BY ManifestFacts
<1>2. CASE e \in Stored(Files(manifest[i].files))
  <2>1. PICK n \in Files(manifest[i].files) : n \in DOMAIN tables /\ e \in tables[n]
    BY <1>2, StoredIn
  <2>2. n \in DOMAIN tables' /\ e \in tables'[n] /\ n \in Files(manifest'[i].files)
    BY <2>1
  <2>3. e \in Stored(Files(manifest[i].files))'
    BY <2>2 DEF Stored
  <2> QED
    BY <2>3 DEF InState
<1>3. CASE InLogs(i, all, e)
  <2>1. PICK n \in DOMAIN logs : n >= manifest[i].log /\ e \in Reach(n, all)
    BY <1>3 DEF InLogs
  <2>2. n \in DOMAIN logs' /\ n >= manifest'[i].log /\ e \in Reach(n, all)'
    BY <2>1
  <2> QED
    BY <2>2 DEF InState, InLogs
<1> QED
  BY <1>2, <1>3 DEF InState

(* More records of a log, and more of them synced. *)
LEMMA ReachKept ==
    ASSUME StoreInv, NEW n \in DOMAIN logs, n \in DOMAIN logs', logs'[n] \in Seq(Record),
           Len(logs[n]) <= Len(logs'[n]), \A i \in 1..Len(logs[n]) : logs'[n][i] = logs[n][i],
           synced'[n] \in Nat, synced[n] <= synced'[n], synced'[n] <= Len(logs'[n])
    PROVE  \A all : Reach(n, all) \subseteq Reach(n, all)'
<1>1. /\ logs[n] \in Seq(Record) /\ synced[n] \in Nat /\ synced[n] <= Len(logs[n])
      /\ DOMAIN logs[n] = 1..Len(logs[n]) /\ DOMAIN logs'[n] = 1..Len(logs'[n])
      /\ Len(logs[n]) \in Nat /\ Len(logs'[n]) \in Nat
  BY Numbers
<1>2. Logged(logs[n]) \subseteq Logged(logs'[n])
  <2> SUFFICES ASSUME NEW e \in Logged(logs[n]) PROVE e \in Logged(logs'[n])
    OBVIOUS
  <2>1. PICK i \in DOMAIN logs[n] : logs[n][i].ok /\ e \in logs[n][i].entries
    BY LoggedIn
  <2>2. i \in DOMAIN logs'[n] /\ logs'[n][i] = logs[n][i]
    BY <1>1, <2>1
  <2> QED
    BY <2>1, <2>2, LoggedIn
<1>3. Logged(SubSeq(logs[n], 1, synced[n])) \subseteq Logged(SubSeq(logs'[n], 1, synced'[n]))
  <2> SUFFICES ASSUME NEW e \in Logged(SubSeq(logs[n], 1, synced[n]))
               PROVE  e \in Logged(SubSeq(logs'[n], 1, synced'[n]))
    OBVIOUS
  <2>1. PICK i \in 1..synced[n] : logs[n][i].ok /\ e \in logs[n][i].entries
    BY <1>1, PrefixRecords
  <2>2. i \in 1..synced'[n] /\ logs'[n][i] = logs[n][i]
    BY <1>1, <2>1
  <2> QED
    BY <1>1, <2>1, <2>2, PrefixRecords
<1> QED
  BY <1>2, <1>3 DEF Reach

LEMMA LogsSame ==
    ASSUME StoreInv, UNCHANGED <<logs, synced>>
    PROVE  \A n \in DOMAIN logs : n \in DOMAIN logs' /\ \A all : Reach(n, all) \subseteq Reach(n, all)'
BY DEF Reach

LEMMA TablesSame ==
    ASSUME StoreInv, UNCHANGED tables
    PROVE  \A i \in DOMAIN manifest : \A n \in Files(manifest[i].files) : n \in DOMAIN tables' /\ tables'[n] = tables[n]
BY ManifestFacts

LEMMA TablesGrow ==
    ASSUME StoreInv, NEW v, Grown(tables, tables', nextFile, v)
    PROVE  \A i \in DOMAIN manifest : \A n \in Files(manifest[i].files) : n \in DOMAIN tables' /\ tables'[n] = tables[n]
BY ManifestFacts DEF Grown

LEMMA LogGrows ==
    ASSUME StoreInv, NEW k, Grown(logs, logs', k, <<>>), Grown(synced, synced', k, 0)
    PROVE  \A n \in DOMAIN logs : n \in DOMAIN logs' /\ \A all : Reach(n, all) \subseteq Reach(n, all)'
BY Numbers DEF Grown, Reach

(* They do. *)
LEMMA PlainKeeps ==
    ASSUME StoreInv, Plain
    PROVE  DiskKept
<1>1. CASE \/ UNCHANGED <<manifest, logs, synced, tables>>
  BY <1>1, LogsSame, TablesSame DEF DiskKept
<1>2. ASSUME NEW t \in Thread, RoomSwitched(t)
      PROVE  DiskKept
  BY <1>2, SwitchFacts, LogGrows, TablesSame DEF DiskKept
<1>3. ASSUME NEW t \in Thread, LogStep(t)
      PROVE  DiskKept
  <2>1. DOMAIN logs' = DOMAIN logs /\ UNCHANGED <<synced, tables, manifest>>
    BY <1>3, LogAdds DEF disk
  <2>2. \A n \in DOMAIN logs : \A all : Reach(n, all) \subseteq Reach(n, all)'
    <3> SUFFICES ASSUME NEW n \in DOMAIN logs
                 PROVE  \A all : Reach(n, all) \subseteq Reach(n, all)'
      OBVIOUS
    <3>1. /\ logs'[n] \in Seq(Record) /\ Len(logs[n]) <= Len(logs'[n])
          /\ \A i \in 1..Len(logs[n]) : logs'[n][i] = logs[n][i]
      BY <1>3, LogAdds
    <3>2. synced'[n] = synced[n] /\ synced[n] \in Nat /\ synced[n] <= Len(logs[n])
          /\ Len(logs[n]) \in Nat /\ Len(logs'[n]) \in Nat
      BY <2>1, <3>1, Numbers
    <3> QED
      BY <2>1, <3>1, <3>2, ReachKept
  <2> QED
    BY <2>1, <2>2, TablesSame DEF DiskKept
<1>4. ASSUME NEW t \in Thread, Sync(t)
      PROVE  DiskKept
  <2>1. synced' = [synced EXCEPT ![mem] = Len(logs[mem])] /\ UNCHANGED <<logs, tables, manifest>>
    BY <1>4 DEF Sync
  <2>2. \A n \in DOMAIN logs : \A all : Reach(n, all) \subseteq Reach(n, all)'
    <3> SUFFICES ASSUME NEW n \in DOMAIN logs
                 PROVE  \A all : Reach(n, all) \subseteq Reach(n, all)'
      OBVIOUS
    <3>1. logs'[n] = logs[n] /\ logs[n] \in Seq(Record) /\ synced[n] \in Nat
          /\ synced[n] <= Len(logs[n]) /\ Len(logs[n]) \in Nat /\ DOMAIN synced = DOMAIN logs
      BY <2>1, Numbers
    <3>2. synced'[n] \in {synced[n], Len(logs[n])}
      BY <2>1, <3>1
    <3>3. synced'[n] \in Nat /\ synced[n] <= synced'[n] /\ synced'[n] <= Len(logs'[n])
      BY <3>1, <3>2
    <3> QED
      BY <2>1, <3>1, <3>3, ReachKept
  <2> QED
    BY <2>1, <2>2, TablesSame DEF DiskKept
<1>5. CASE Flush
  <2>1. UNCHANGED <<manifest, logs, synced>>
        /\ (tables' = tables \/ Grown(tables, tables', nextFile, memtab[imm]))
    BY <1>5, FlushFacts
  <2> QED
    BY <2>1, LogsSame, TablesSame, TablesGrow, <1>5, NextFree, FlushFacts DEF DiskKept
<1>6. CASE OpenCompactionOutputFile
  <2>1. UNCHANGED <<manifest, logs, synced>> /\ Grown(tables, tables', nextFile, Stored(Files(bg.inputs)))
    BY <1>6, OutputFacts
  <2> QED
    BY <2>1, LogsSame, TablesGrow DEF DiskKept
<1>7. CASE TableFails
  <2>1. /\ UNCHANGED <<manifest, logs, synced>> /\ bg.pc = "build" /\ bg.job \in {"mem", "nested"}
        /\ Shrunk(tables, tables') /\ DOMAIN tables \ {bg.num} \subseteq DOMAIN tables'
    BY <1>7, TableFailsFacts
  <2>2. \A i \in DOMAIN manifest : bg.num \notin Files(manifest[i].files)
    BY <2>1, Parts DEF FlushInv
  <2> QED
    BY <2>1, <2>2, LogsSame, ManifestFacts DEF DiskKept, Shrunk
<1>8. CASE OpenNewLog
  BY <1>8, NewLogFacts, LogGrows, TablesSame DEF DiskKept
<1> QED
  BY <1>1, <1>2, <1>3, <1>4, <1>5, <1>6, <1>7, <1>8
     DEF Plain, store, disk, RoomFound, InsertInto, Commit, Get, GotValue, BackgroundIdles, TableBuilt,
         PickCompaction, FinishCompactionOutputFile, CompactionFails, Close, Down, RecoverManifest

(* The types, and the tables of the MANIFEST, after a step. *)
LEMMA TypeKeeps ==
    ASSUME StoreInv, [Next]_vars
    PROVE  TypeOK' /\ ManifestInv' /\ QueueInv'
<1>1. QueueInv'
  BY Parts, NextQueue
<1> QED
  BY <1>1, Parts, CallTypeKeeps, MemoryTypeKeeps, DiskTypeKeeps, ManifestKeeps DEF TypeOK

(* What is in a state stays in it. *)
LEMMA PlaceKept ==
    ASSUME StoreInv, DiskKept, NEW all \in BOOLEAN, NEW e, NEW i \in DOMAIN manifest, InState(i, all, e)
    PROVE  InState(i, all, e)'
BY StateSame DEF DiskKept

(* The entries of a log that a state of the MANIFEST has dropped are in    *)
(* the tables of that state.                                               *)
LEMMA EditKeepsPlace ==
    ASSUME StoreInv, bg.pc = "append", Logs(EditRecord), NEW e, e \in Visible,
           NEW n \in DOMAIN logs, n >= Last(manifest).log, e \in Logged(logs[n])
    PROVE  e \in Stored(Files(EditRecord.files)) \/ n >= EditRecord.log
<1>0. /\ Up /\ bg.job \in {"mem", "nested", "merge"} /\ mem \in DOMAIN logs
      /\ EditRecord.log = bg.edit.log /\ EditRecord.files = Edited(Last(manifest).files)
      /\ Stored(Files(Last(manifest).files)) \subseteq Stored(Files(EditRecord.files))
      /\ n \in Nat /\ mem \in Nat /\ logNum \in Nat
  <2>1. Up
    BY Parts, InUp
  <2>2. bg.job \in {"none", "mem", "nested", "merge"} /\ bg.job # "none"
    BY Parts DEF EditInv, MemoryType, Background
  <2>3. EditRecord.log = bg.edit.log /\ EditRecord.files = Edited(Last(manifest).files)
    BY DEF EditRecord
  <2>4. Stored(Files(Last(manifest).files)) \subseteq Stored(Files(EditRecord.files))
    BY RecordFacts
  <2> QED
    BY <2>1, <2>2, <2>3, <2>4, Numbers
<1>1. logNum <= Last(manifest).log /\ Last(manifest).log \in Nat
      /\ Stored(Files(version)) \subseteq Stored(Files(Last(manifest).files))
  BY <1>0, ManifestFacts, Parts DEF VersionInv
<1>2. CASE bg.job = "merge"
  <2>1. bg.edit.log = logNum
    BY <1>2, Parts DEF MergeInv
  <2> QED
    BY <1>0, <1>1, <2>1
<1>3. CASE bg.job \in {"mem", "nested"}
  <2>1. bg.edit.log = mem
    BY <1>3, Parts DEF FlushInv
  <2>2. CASE e \in memtab[mem]
    <3>1. e \in Logged(logs[mem])
      BY <1>0, <2>2, Parts DEF LoggedInv
    <3>2. PICK i \in DOMAIN logs[mem] : logs[mem][i].ok /\ e \in logs[mem][i].entries
      BY <3>1, LoggedIn
    <3>3. PICK j \in DOMAIN logs[n] : logs[n][j].ok /\ e \in logs[n][j].entries
      BY LoggedIn
    <3>4. n = mem
      BY <1>0, <3>2, <3>3, Parts DEF LogInv
    <3> QED
      BY <1>0, <2>1, <3>4
  <2>3. CASE imm # 0 /\ e \in memtab[imm]
    <3>1. Last(manifest).files \in Levels /\ Files(Last(manifest).files) \subseteq DOMAIN tables
      BY ManifestFacts
    <3>2. memtab[imm] \subseteq Stored(Files(Edited(Last(manifest).files)))
      BY <1>3, <3>1, EditHolds
    <3> QED
      BY <1>0, <2>3, <3>2
  <2>4. CASE e \in Stored(Files(version))
    BY <1>0, <1>1, <2>4
  <2> QED
    BY <2>2, <2>3, <2>4, VisibleIn
<1> QED
  BY <1>0, <1>2, <1>3

(* What no crash can lose, and readers find, stays so. *)
LEMMA DurableKept ==
    ASSUME StoreInv, [Next]_vars, Plain \/ AppendEdit \/ EditNotLogged \/ Install \/ OpenInstalls,
           NEW e, e \in Durable, Up => e \in Visible
    PROVE  e \in Durable'
<1>1. \A i \in DOMAIN manifest : InState(i, FALSE, e)
  BY Parts, DurableNow
<1> SUFFICES ASSUME NEW i \in DOMAIN manifest'
             PROVE  InState(i, FALSE, e)'
  BY TypeKeeps, DurableNext
<1>2. CASE DiskKept
  BY <1>1, <1>2, PlaceKept DEF DiskKept
<1>3. CASE AppendEdit \/ EditNotLogged
  <2>1. UNCHANGED <<logs, synced, tables>> /\ Up
    BY <1>3, EditLogged
  <2>2. CASE manifest' = manifest
    BY <2>1, <2>2, <1>2, LogsSame, TablesSame DEF DiskKept
  <2>3. ASSUME bg.pc = "append", NEW r \in {EditRecord, PartRecord}, Logs(r)
        PROVE  InState(i, FALSE, e)'
    <3>1. /\ DOMAIN manifest' = 1..(Len(manifest) + 1) /\ manifest'[Len(manifest) + 1] = r
          /\ \A j \in DOMAIN manifest : manifest'[j] = manifest[j]
          /\ Stored(Files(Last(manifest).files)) \subseteq Stored(Files(r.files))
      BY <2>3, RecordFacts
    <3>2. /\ DOMAIN manifest = 1..Len(manifest) /\ Len(manifest) \in DOMAIN manifest
          /\ Last(manifest) = manifest[Len(manifest)] /\ Len(manifest) \in Nat
      BY ManifestFacts
    <3>3. CASE i \in DOMAIN manifest
      BY <1>1, <2>1, <3>1, <3>3, StateSame, LogsSame, TablesSame
    <3>4. CASE i = Len(manifest) + 1
      <4>1. InState(Len(manifest), FALSE, e)
        BY <1>1, <3>2
      <4>2. manifest'[i] = r
        BY <3>1, <3>4
      <4>3. \A F : Stored(F)' = Stored(F)
        BY <2>1, StoredUnchanged
      <4>4. CASE e \in Stored(Files(Last(manifest).files))
        <5>1. e \in Stored(Files(r.files))
          BY <3>1, <4>4
        <5>2. \A F : F = Files(r.files) => e \in Stored(F)'
          BY <4>3, <5>1
        <5>3. e \in Stored(Files(manifest[i].files))'
          BY <4>2, <5>2
        <5> QED
          BY <5>3 DEF InState
      <4>5. CASE e \notin Stored(Files(Last(manifest).files))
        <5>1. PICK n \in DOMAIN logs : n >= Last(manifest).log /\ e \in Reach(n, FALSE)
          BY <3>2, <4>1, <4>5 DEF InState, InLogs
        <5>2. e \in Logged(logs[n])
          BY <5>1, ReachIn
        <5>3. e \in Stored(Files(r.files)) \/ n >= r.log
          <6>1. CASE r = EditRecord
            BY <2>1, <2>3, <5>1, <5>2, <6>1, EditKeepsPlace
          <6>2. CASE r = PartRecord
            <7>1. r.log = Last(manifest).log
              BY <2>3, <6>2, RecordFacts
            <7> QED
              BY <5>1, <7>1
          <6> QED
            BY <6>1, <6>2
        <5>4. CASE e \in Stored(Files(r.files))
          <6>1. \A F : F = Files(r.files) => e \in Stored(F)'
            BY <4>3, <5>4
          <6>2. e \in Stored(Files(manifest[i].files))'
            BY <4>2, <6>1
          <6> QED
            BY <6>2 DEF InState
        <5>5. CASE n >= r.log
          <6>1. n \in DOMAIN logs' /\ n >= manifest'[i].log /\ e \in Reach(n, FALSE)'
            BY <2>1, <4>2, <5>1, <5>5, LogsSame
          <6> QED
            BY <6>1 DEF InState, InLogs
        <5> QED
          BY <5>3, <5>4, <5>5
      <4> QED
        BY <4>4, <4>5
    <3>5. i \in DOMAIN manifest \/ i = Len(manifest) + 1
      BY <3>1, <3>2
    <3> QED
      BY <3>3, <3>4, <3>5
  <2> QED
    BY <1>3, <2>2, <2>3, EditLogged
<1>4. CASE Install
  <2>1. /\ manifest'[i].log = Last(manifest).log /\ manifest'[i].files = Last(manifest).files
        /\ logNum' = Last(manifest).log
        /\ Shrunk(tables, tables') /\ Shrunk(logs, logs') /\ Shrunk(synced, synced')
        /\ DOMAIN synced' = DOMAIN logs'
        /\ \A k \in DOMAIN logs : k >= logNum' => k \in DOMAIN logs'
        /\ \A k \in Files(Last(manifest).files) : k \in DOMAIN tables => k \in DOMAIN tables'
    BY <1>4, InstallFacts
  <2>2. /\ Len(manifest) \in DOMAIN manifest /\ Last(manifest) = manifest[Len(manifest)]
        /\ Files(Last(manifest).files) \subseteq DOMAIN tables
    BY ManifestFacts
  <2>3. InState(Len(manifest), FALSE, e)
    BY <1>1, <2>2
  <2>4. CASE e \in Stored(Files(Last(manifest).files))
    <3>1. PICK k \in Files(Last(manifest).files) : k \in DOMAIN tables /\ e \in tables[k]
      BY <2>4, StoredIn
    <3>2. k \in DOMAIN tables' /\ tables'[k] = tables[k] /\ k \in Files(manifest'[i].files)
      BY <2>1, <3>1 DEF Shrunk
    <3>3. e \in Stored(Files(manifest[i].files))'
      BY <3>1, <3>2 DEF Stored
    <3> QED
      BY <3>3 DEF InState
  <2>5. CASE InLogs(Len(manifest), FALSE, e)
    <3>1. PICK n \in DOMAIN logs : n >= Last(manifest).log /\ e \in Reach(n, FALSE)
      BY <2>2, <2>5 DEF InLogs
    <3>2. n \in DOMAIN logs' /\ n \in DOMAIN synced' /\ logs'[n] = logs[n] /\ synced'[n] = synced[n]
      BY <2>1, <3>1 DEF Shrunk
    <3>3. n >= manifest'[i].log /\ e \in Reach(n, FALSE)'
      BY <2>1, <3>1, <3>2 DEF Reach
    <3> QED
      BY <3>2, <3>3 DEF InState, InLogs
  <2> QED
    BY <2>2, <2>3, <2>4, <2>5 DEF InState
<1>5. CASE OpenInstalls
  <2>1. /\ phase = "recovering" /\ recovery.log \in Nat \ {0}
        /\ Files(version') = Files(version) \cup recovery.tables
        /\ manifest' = <<[log |-> recovery.log, next |-> nextFile, last |-> lastSeq,
                          files |-> version', ok |-> TRUE]>>
        /\ Shrunk(tables, tables') /\ DOMAIN tables' = Files(version')
    BY <1>5, OpenFacts
  <2>2. i = 1 /\ manifest'[i].files = version'
    BY <2>1
  <2>3. e \in Stored(Files(version) \cup recovery.tables)
    <3>1. /\ version = Last(manifest).files /\ recovery.logs = {}
          /\ \A n \in NeededLogs \ recovery.logs : Logged(logs[n]) \subseteq Stored(recovery.tables)
      BY <2>1, Parts DEF RecoveryInv
    <3>2. Len(manifest) \in DOMAIN manifest /\ Last(manifest) = manifest[Len(manifest)]
      BY ManifestFacts
    <3>3. InState(Len(manifest), FALSE, e)
      BY <1>1, <3>2
    <3>4. CASE InLogs(Len(manifest), FALSE, e)
      <4>1. PICK n \in DOMAIN logs : n >= Last(manifest).log /\ e \in Reach(n, FALSE)
        BY <3>2, <3>4 DEF InLogs
      <4>2. n \in NeededLogs /\ e \in Logged(logs[n])
        BY <4>1, ReachIn, NeededIn
      <4> QED
        BY <3>1, <4>2, StoredUnion
    <3>5. CASE e \in Stored(Files(manifest[Len(manifest)].files))
      <4>1. Files(manifest[Len(manifest)].files) = Files(version)
        BY <3>1, <3>2
      <4>2. Stored(Files(version)) \subseteq Stored(Files(version) \cup recovery.tables)
        BY StoredUnion
      <4> QED
        BY <3>5, <4>1, <4>2
    <3> QED
      BY <3>3, <3>4, <3>5 DEF InState
  <2>4. PICK k \in Files(version') : k \in DOMAIN tables /\ e \in tables[k]
    BY <2>1, <2>3, StoredIn
  <2>5. k \in Files(manifest'[i].files) /\ k \in DOMAIN tables' /\ e \in tables'[k]
    BY <2>1, <2>2, <2>4 DEF Shrunk
  <2>6. e \in Stored(Files(manifest[i].files))'
    BY <2>5 DEF Stored
  <2> QED
    BY <2>6 DEF InState
<1> QED
  BY <1>2, <1>3, <1>4, <1>5, PlainKeeps

(* Every entry that is held is known. *)
LEMMA PlacesKnown ==
    ASSUME StoreInv
    PROVE  /\ \A i, all, e : InState(i, all, e) => e \in Known
           /\ Durable \subseteq Known /\ Contents \subseteq Known
           /\ Up => Visible \subseteq Known
<1>1. \A i, all, e : InState(i, all, e) => e \in Known
  BY ReachIn, KnownIn DEF InState, InLogs
<1>2. Durable \subseteq Known
  <2> SUFFICES ASSUME NEW e \in Durable
               PROVE  e \in Known
    OBVIOUS
  <2>1. InState(1, FALSE, e)
    BY Parts, DurableNow, ManifestFacts
  <2> QED
    BY <1>1, <2>1
<1>3. Up => Visible \subseteq Known
  <2> SUFFICES ASSUME Up, NEW e \in Visible
               PROVE  e \in Known
    OBVIOUS
  <2>1. mem \in DOMAIN memtab /\ (imm # 0 => imm \in DOMAIN memtab)
    BY Parts DEF NumberInv
  <2> QED
    BY <2>1, VisibleIn, KnownIn
<1>4. Contents \subseteq Known
  <2>1. CASE Up
    BY <1>3, <2>1, VisibleIn
  <2>2. CASE ~ Up /\ Broken(manifest)
    BY <2>2 DEF Contents, Up
  <2>3. CASE ~ Up /\ ~ Broken(manifest)
    BY <1>1, <2>3, Parts, ClosedNow
  <2> QED
    BY <2>1, <2>2, <2>3
<1> QED
  BY <1>1, <1>2, <1>3, <1>4

(* A replay keeps an entry that log::Reader finds where it was. *)
LEMMA ReplayKeepsPlace ==
    ASSUME StoreInv, RecoverLogFile, NEW k, NEW r, NEW found, Replay(k, r, found),
           r \in Seq(Record), NEW all \in BOOLEAN, NEW e, NEW i \in DOMAIN manifest, InState(i, all, e),
           e.id \notin Ids(Logged(logs[k])) \ Ids(found)
    PROVE  InState(i, all, e)' /\ manifest' = manifest
<1>1. /\ k \in DOMAIN logs /\ found = Logged(r) /\ found \subseteq Logged(logs[k])
      /\ logs' = [logs EXCEPT ![k] = r]
      /\ synced' = [synced EXCEPT ![k] = Lower(synced[k], Len(r))]
      /\ phase = "recovering" /\ manifest' = manifest
  BY DEF Replay, RecoverLogFile
<1>2. /\ Files(manifest[i].files) \subseteq DOMAIN tables /\ nextFile \notin Files(manifest[i].files)
      /\ \A F : nextFile \notin F => Stored(F)' = Stored(F)
  BY <1>1, ManifestFacts, NextUnused, ReplayHolds
<1>3. CASE e \in Stored(Files(manifest[i].files))
  <2>1. \A F : F = Files(manifest[i].files) => e \in Stored(F)'
    BY <1>2, <1>3
  <2>2. e \in Stored(Files(manifest[i].files))'
    BY <1>1, <2>1
  <2> QED
    BY <1>1, <2>2 DEF InState
<1>4. CASE InLogs(i, all, e)
  <2>1. PICK n \in DOMAIN logs : n >= manifest[i].log /\ e \in Reach(n, all)
    BY <1>4 DEF InLogs
  <2>2. n \in DOMAIN logs' /\ n >= manifest'[i].log /\ DOMAIN synced = DOMAIN logs
    BY <1>1, <2>1, Numbers
  <2>3. CASE n # k
    <3>1. logs'[n] = logs[n] /\ synced'[n] = synced[n]
      BY <1>1, <2>1, <2>2, <2>3
    <3>2. e \in Reach(n, all)'
      BY <2>1, <3>1 DEF Reach
    <3> QED
      BY <1>1, <2>2, <3>2 DEF InState, InLogs
  <2>4. CASE n = k
    <3>1. e \in Logged(logs[k])
      BY <2>1, <2>4, ReachIn
    <3>2. e \in found
      <4>1. e.id \in Ids(Logged(logs[k]))
        BY <3>1 DEF Ids
      <4>2. PICK f \in found : f.id = e.id
        BY <4>1 DEF Ids
      <4>3. e \in Known /\ f \in Known
        BY <1>1, <3>1, <4>2, KnownIn
      <4> QED
        BY <4>2, <4>3, Parts DEF EntryInv
    <3>3. logs'[k] = r /\ synced'[k] = Lower(synced[k], Len(r))
      BY <1>1, <2>1, <2>2, <2>4
    <3>4. CASE all
      <4>1. e \in Reach(n, all)'
        BY <1>1, <2>4, <3>2, <3>3, <3>4 DEF Reach
      <4> QED
        BY <1>1, <2>2, <4>1 DEF InState, InLogs
    <3>5. CASE ~ all
      <4>1. /\ logs[k] \in Seq(Record) /\ synced[k] \in Nat /\ synced[k] <= Len(logs[k])
            /\ DOMAIN logs[k] = 1..Len(logs[k]) /\ Len(logs[k]) \in Nat
            /\ DOMAIN r = 1..Len(r) /\ Len(r) \in Nat
        BY <1>1, Numbers
      <4>2. PICK j \in 1..synced[k] : logs[k][j].ok /\ e \in logs[k][j].entries
        BY <2>1, <2>4, <3>5, <4>1, PrefixRecords DEF Reach
      <4>3. PICK l \in DOMAIN r : r[l].ok /\ e \in r[l].entries
        BY <1>1, <3>2, LoggedIn
      <4>4. PICK at \in [DOMAIN r -> DOMAIN logs[k]] : \A m \in DOMAIN r : r[m] = logs[k][at[m]] /\ m <= at[m]
        BY DEF Replay
      <4>5. at[l] = j
        <5>1. at[l] \in DOMAIN logs[k] /\ j \in DOMAIN logs[k]
          BY <4>1, <4>2, <4>4
        <5>2. logs[k][at[l]].ok /\ e \in logs[k][at[l]].entries
          BY <4>3, <4>4
        <5> QED
          BY <1>1, <4>2, <5>1, <5>2, Parts DEF LogInv
      <4>6. l \in Nat /\ l >= 1 /\ l <= j /\ l <= Len(r) /\ j <= synced[k]
        BY <4>1, <4>2, <4>3, <4>4, <4>5
      <4>7. Lower(synced[k], Len(r)) \in Nat /\ l <= Lower(synced[k], Len(r)) /\ Lower(synced[k], Len(r)) <= Len(r)
        BY <4>1, <4>6 DEF Lower
      <4>8. e \in Logged(SubSeq(r, 1, Lower(synced[k], Len(r))))
        BY <4>3, <4>6, <4>7, PrefixRecords
      <4>9. e \in Reach(n, all)'
        BY <2>4, <3>3, <3>5, <4>8 DEF Reach
      <4> QED
        BY <1>1, <2>2, <4>9 DEF InState, InLogs
    <3> QED
      BY <3>4, <3>5
  <2> QED
    BY <2>3, <2>4
<1> QED
  BY <1>1, <1>3, <1>4 DEF InState

(* What the disk keeps of the files has what was synced. *)
LEMMA CrashKeepsPlace ==
    ASSUME StoreInv, NEW upto, NEW k \in 1..Len(manifest), Keep(upto, k), upto \in [DOMAIN logs -> Nat],
           NEW e, NEW i \in 1..k, InState(i, FALSE, e)
    PROVE  InState(i, FALSE, e)'
<1>1. /\ manifest'[i] = manifest[i] /\ i \in DOMAIN manifest /\ UNCHANGED tables /\ DOMAIN logs' = DOMAIN logs
      /\ synced' = upto
  BY ManifestFacts DEF Keep
<1>2. \A n \in Files(manifest[i].files) : n \in DOMAIN tables' /\ tables'[n] = tables[n]
  BY <1>1, TablesSame
<1>3. ASSUME NEW n \in DOMAIN logs
      PROVE  Reach(n, FALSE) \subseteq Reach(n, FALSE)'
  <2> SUFFICES ASSUME NEW f \in Logged(SubSeq(logs[n], 1, synced[n]))
               PROVE  f \in Logged(SubSeq(logs'[n], 1, synced'[n]))
    BY DEF Reach
  <2>1. /\ logs[n] \in Seq(Record) /\ synced[n] \in Nat /\ synced[n] <= Len(logs[n]) /\ Len(logs[n]) \in Nat
        /\ upto[n] \in Nat /\ synced[n] <= upto[n] /\ upto[n] <= Len(logs[n])
        /\ logs'[n] = SubSeq(logs[n], 1, upto[n]) /\ synced'[n] = upto[n]
    <3>1. /\ logs[n] \in Seq(Record) /\ synced[n] \in Nat /\ synced[n] <= Len(logs[n]) /\ Len(logs[n]) \in Nat
      BY Numbers
    <3>2. synced[n] <= upto[n] /\ upto[n] <= Len(logs[n]) /\ logs'[n] = SubSeq(logs[n], 1, upto[n])
      BY DEF Keep
    <3>3. upto[n] \in Nat
      OBVIOUS
    <3> QED
      BY <1>1, <3>1, <3>2, <3>3
  <2>2. PICK j \in 1..synced[n] : logs[n][j].ok /\ f \in logs[n][j].entries
    BY <2>1, PrefixRecords
  <2>3. /\ logs'[n] \in Seq(Record) /\ Len(logs'[n]) = upto[n] /\ j \in 1..upto[n] /\ logs'[n][j] = logs[n][j]
    BY <2>1, <2>2, PrefixRecords
  <2>4. \E l \in 1..upto[n] : logs'[n][l].ok /\ f \in logs'[n][l].entries
    BY <2>2, <2>3
  <2>5. upto[n] <= Len(logs'[n])
    BY <2>1, <2>3
  <2>6. f \in Logged(SubSeq(logs'[n], 1, upto[n]))
    BY <2>1, <2>3, <2>4, <2>5, PrefixRecords
  <2> QED
    BY <2>1, <2>6
<1> QED
  BY <1>1, <1>2, <1>3, StateSame

(* An answered entry is visible. *)
LEMMA AckedVisible ==
    ASSUME StoreInv, Up, NEW e \in Known, e.id \in acked
    PROVE  e \in Visible
<1>1. PICK f \in Visible : f.id = e.id
  BY Parts, VisibleIn DEF AckInv, Ids
<1>2. f \in Known
  BY PlacesKnown
<1> QED
  BY <1>1, <1>2, Parts DEF EntryInv

(* A group that ends well answers its own entries, with sync only if its   *)
(* front writer synced.                                                    *)
LEMMA CommitPromises ==
    ASSUME StoreInv, NEW t \in Thread, Commit(t)
    PROVE  /\ \A id \in acked' : id \in acked \/ (op[t].status = "ok" /\ id \in Ids(group.entries))
           /\ \A id \in promised' : id \in promised \/ (op[t].status = "ok" /\ op[t].sync /\ id \in Ids(group.entries))
           /\ acked \subseteq acked' /\ promised \subseteq acked' /\ promised' \subseteq acked'
<1>1. op[t].status # "ok" => UNCHANGED <<acked, promised>>
  BY CommitFacts
<1>2. op[t].status = "ok" =>
                /\ acked' = acked \cup {IdOf(i) : i \in Written}
                /\ promised' = promised \cup {IdOf(i) : i \in {j \in Written : op[queue[j]].sync}}
  BY CommitFacts
<1>3. \A i \in Written : IdOf(i) \in Ids(group.entries)
  BY CommitFacts
<1>4. \A i \in Written : op[queue[i]].sync => op[t].sync
  BY CommitFacts, Parts DEF Written, GroupInv
<1>5. promised \subseteq acked
  BY Parts DEF AckInv
<1> QED
  BY <1>1, <1>2, <1>3, <1>4, <1>5

(* A crash of the machine: what it recovers, and what was synced. *)
LEMMA CrashRecovers ==
    ASSUME StoreInv, NEW upto \in [DOMAIN logs -> Nat], NEW k \in 1..Len(manifest), Keep(upto, k), NEW e
    PROVE  /\ InState(k, FALSE, e) => e \in Recovered(manifest[k], upto)
           /\ e \in Recovered(manifest[k], upto) => InState(k, TRUE, e)'
<1>1. k \in DOMAIN manifest /\ Files(manifest[k].files) \subseteq DOMAIN tables /\ k \in 1..k
  BY ManifestFacts
<1>2. e \in Recovered(manifest[k], upto) <=>
        \/ e \in Stored(Files(manifest[k].files))
        \/ \E n \in DOMAIN logs : n >= manifest[k].log /\ e \in Logged(SubSeq(logs[n], 1, upto[n]))
  BY <1>1 DEF Recovered
<1>3. manifest'[k] = manifest[k] /\ UNCHANGED tables /\ DOMAIN logs' = DOMAIN logs
  BY <1>1 DEF Keep
<1>4. ASSUME NEW n \in DOMAIN logs
      PROVE  /\ e \in Reach(n, FALSE) => e \in Logged(SubSeq(logs[n], 1, upto[n]))
             /\ Reach(n, TRUE)' = Logged(SubSeq(logs[n], 1, upto[n]))
  <2>1. /\ logs[n] \in Seq(Record) /\ synced[n] \in Nat /\ synced[n] <= Len(logs[n]) /\ Len(logs[n]) \in Nat
    BY Numbers
  <2>2. synced[n] <= upto[n] /\ upto[n] <= Len(logs[n]) /\ logs'[n] = SubSeq(logs[n], 1, upto[n])
    BY DEF Keep
  <2>3. upto[n] \in Nat
    OBVIOUS
  <2>4. ASSUME e \in Reach(n, FALSE)
        PROVE  e \in Logged(SubSeq(logs[n], 1, upto[n]))
    <3>1. PICK j \in 1..synced[n] : logs[n][j].ok /\ e \in logs[n][j].entries
      BY <2>1, <2>4, PrefixRecords DEF Reach
    <3>2. j \in 1..upto[n]
      BY <2>1, <2>2, <2>3
    <3> QED
      BY <2>1, <2>2, <2>3, <3>1, <3>2, PrefixRecords
  <2> QED
    BY <2>2, <2>4 DEF Reach
<1>5. InState(k, FALSE, e) => e \in Recovered(manifest[k], upto)
  BY <1>2, <1>4 DEF InState, InLogs
<1>6. ASSUME e \in Recovered(manifest[k], upto)
      PROVE  InState(k, TRUE, e)'
  <2>1. CASE e \in Stored(Files(manifest[k].files))
    <3>1. \A F : Stored(F)' = Stored(F)
      BY <1>3, StoredUnchanged
    <3>2. \A F : F = Files(manifest[k].files) => e \in Stored(F)'
      BY <2>1, <3>1
    <3>3. e \in Stored(Files(manifest[k].files))'
      BY <1>3, <3>2
    <3> QED
      BY <3>3 DEF InState
  <2>2. ASSUME NEW n \in DOMAIN logs, n >= manifest[k].log, e \in Logged(SubSeq(logs[n], 1, upto[n]))
        PROVE  InState(k, TRUE, e)'
    BY <1>3, <1>4, <2>2 DEF InState, InLogs
  <2> QED
    BY <1>2, <1>6, <2>1, <2>2
<1> QED
  BY <1>5, <1>6

(* What was written with sync stays durable. *)
LEMMA PromisedKeeps ==
    ASSUME StoreInv, [Next]_vars
    PROVE  promised' \subseteq acked' /\ promised' \subseteq Ids(Durable')
<1>1. /\ promised \subseteq acked
      /\ \A id \in promised : \E e \in Durable : e.id = id
  BY Parts DEF AckInv, Ids
<1>2. CASE Plain \/ AppendEdit \/ EditNotLogged \/ Install \/ OpenInstalls
  <2>1. ASSUME NEW e \in Durable, e.id \in promised
        PROVE  e \in Durable'
    <3>1. e \in Known
      BY PlacesKnown
    <3>2. Up => e \in Visible
      BY <1>1, <2>1, <3>1, AckedVisible
    <3> QED
      BY <1>2, <3>2, DurableKept
  <2>2. \A id \in promised : id \in Ids(Durable')
    BY <1>1, <2>1 DEF Ids
  <2>3. CASE UNCHANGED <<acked, promised>>
    BY <1>1, <2>2, <2>3
  <2>4. ASSUME NEW t \in Thread, Commit(t)
        PROVE  promised' \subseteq acked' /\ promised' \subseteq Ids(Durable')
    <3>1. ASSUME op[t].status = "ok", op[t].sync, NEW e \in group.entries
          PROVE  e \in Durable'
      <4>1. /\ Up /\ op[t].pc = "commit" /\ UNCHANGED <<mem, memtab, logs, synced, tables, manifest>>
        BY <2>4, CommitFacts DEF disk
      <4>2. group.entries \subseteq Logged(SubSeq(logs[mem], 1, synced[mem]))
        BY <3>1, <4>1, Parts DEF StageInv
      <4>3. mem \in DOMAIN logs /\ \A i \in DOMAIN manifest : mem >= manifest[i].log
        BY <4>1, Numbers, ManifestFacts, Parts DEF VersionInv
      <4>4. e \in Reach(mem, FALSE)'
        BY <4>1, <4>2 DEF Reach
      <4>5. \A i \in DOMAIN manifest' : InState(i, FALSE, e)'
        BY <4>1, <4>3, <4>4 DEF InState, InLogs
      <4> QED
        BY <4>5, TypeKeeps, DurableNext
    <3>2. op[t].status = "ok" /\ op[t].sync => Ids(group.entries) \subseteq Ids(Durable')
      BY <3>1 DEF Ids
    <3> QED
      BY <2>2, <2>4, <3>2, CommitPromises
  <2> QED
    BY <1>2, <2>3, <2>4, InstallFacts, EditLogged, OpenFacts, FlushFacts, OutputFacts, LogAdds
       DEF Plain, store, promises, RoomSwitched, RoomFound, Sync, InsertInto, Get, GotValue, BackgroundIdles,
           TableBuilt, PickCompaction, FinishCompactionOutputFile, TableFails, CompactionFails, Close, Down,
           RecoverManifest, OpenNewLog
<1>3. CASE RecoverLogFile
  <2>1. PICK n \in recovery.logs, r \in Seq(Record), found \in SUBSET Entry : Replay(n, r, found)
    BY <1>3, Parts, ReplayFacts
  <2>2. /\ acked' = acked \ (Ids(Logged(logs[n])) \ Ids(found))
        /\ promised' = promised \ (Ids(Logged(logs[n])) \ Ids(found)) /\ manifest' = manifest
    BY <1>3, <2>1 DEF Replay, RecoverLogFile
  <2>3. ASSUME NEW e \in Durable, e.id \notin Ids(Logged(logs[n])) \ Ids(found)
        PROVE  e \in Durable'
    <3>1. \A i \in DOMAIN manifest' : InState(i, FALSE, e)'
      BY <1>3, <2>1, <2>2, <2>3, Parts, DurableNow, ReplayKeepsPlace
    <3> QED
      BY <3>1, TypeKeeps, DurableNext
  <2>4. \A id \in promised' : id \in Ids(Durable')
    BY <1>1, <2>2, <2>3 DEF Ids
  <2> QED
    BY <1>1, <2>2, <2>4
<1>4. CASE CrashMachine
  <2>1. PICK upto \in [DOMAIN logs -> Nat], k \in 1..Len(manifest) : Keep(upto, k)
    BY <1>4, Parts, CrashFacts
  <2>2. /\ acked' = acked \cap Ids(Recovered(manifest[k], upto)) /\ promised' = promised
        /\ DOMAIN manifest' = 1..k /\ k \in DOMAIN manifest /\ 1..k \subseteq DOMAIN manifest
    BY <2>1, ManifestFacts DEF Keep
  <2>3. ASSUME NEW e \in Durable
        PROVE  e \in Durable' /\ e \in Recovered(manifest[k], upto)
    <3>1. \A i \in DOMAIN manifest : InState(i, FALSE, e)
      BY Parts, DurableNow
    <3>2. \A i \in DOMAIN manifest' : InState(i, FALSE, e)'
      BY <2>1, <2>2, <3>1, CrashKeepsPlace
    <3> QED
      BY <2>1, <2>2, <3>1, <3>2, TypeKeeps, DurableNext, CrashRecovers
  <2> QED
    BY <1>1, <2>2, <2>3 DEF Ids
<1> QED
  BY <1>2, <1>3, <1>4, StepCases DEF Steps, Plain, Install

(* What a reader may find stays: the same memtables and tables, or more. *)
LEMMA VisibleSame ==
    ASSUME StoreInv, Up, NEW e \in Visible, UNCHANGED <<mem, imm, version>>,
           lastSeq' \in Nat, lastSeq <= lastSeq',
           memtab[mem] \subseteq memtab'[mem], imm # 0 => memtab[imm] \subseteq memtab'[imm],
           \A n \in Files(version) : n \in DOMAIN tables' /\ tables'[n] = tables[n]
    PROVE  e \in Visible'
<1>1. e \in Entry /\ e.seq \in Nat /\ lastSeq \in Nat
  <2>1. mem \in DOMAIN memtab /\ (imm # 0 => imm \in DOMAIN memtab)
    BY Parts DEF NumberInv
  <2> QED
    BY <2>1, Parts, VisibleType, Numbers DEF Entry
<1>2. e.seq <= lastSeq'
  BY <1>1, VisibleIn
<1>3. CASE e \in Stored(Files(version))
  <2>1. PICK n \in Files(version) : n \in DOMAIN tables /\ e \in tables[n]
    BY <1>3, StoredIn
  <2>2. n \in Files(version') /\ n \in DOMAIN tables' /\ e \in tables'[n]
    BY <2>1
  <2>3. e \in Stored(Files(version))'
    BY <2>2 DEF Stored
  <2> QED
    BY <1>2, <2>3, VisibleIn
<1>4. CASE e \in memtab[mem] \/ (imm # 0 /\ e \in memtab[imm])
  BY <1>2, <1>4, VisibleIn
<1> QED
  BY <1>3, <1>4, VisibleIn

(* The tables of the version stay when tables stay or one is added. *)
LEMMA VersionTables ==
    ASSUME StoreInv, Up
    PROVE  /\ Files(version) \subseteq DOMAIN tables
           /\ UNCHANGED tables => \A n \in Files(version) : n \in DOMAIN tables' /\ tables'[n] = tables[n]
           /\ \A v : Grown(tables, tables', nextFile, v) =>
                        \A n \in Files(version) : n \in DOMAIN tables' /\ tables'[n] = tables[n]
BY Parts, NextFree DEF NumberInv, Grown

(* A new version holds what the old one and the flushed memtable held. *)
LEMMA InstallVisible ==
    ASSUME StoreInv, Install, NEW e \in Visible
    PROVE  e \in Visible'
<1>1. /\ Up /\ bg.pc = "sync" /\ bg.job \in {"mem", "nested", "merge"} /\ version' = Edited(version)
      /\ bg.job = "merge" => imm' = imm /\ memtab' = memtab
      /\ bg.job \in {"mem", "nested"} => imm # 0 /\ imm' = 0
      /\ Shrunk(tables, tables') /\ Shrunk(memtab, memtab') /\ mem \in DOMAIN memtab'
      /\ \A k \in Files(version') : k \in DOMAIN tables => k \in DOMAIN tables'
      /\ UNCHANGED <<mem, lastSeq>>
  BY InstallFacts
<1>2. \A F : F \cap DOMAIN tables \subseteq DOMAIN tables' => Stored(F)' = Stored(F)
  BY <1>1, StoredShrunk
<1>3. \A F : F = Files(version') => Stored(F)' = Stored(F)
  BY <1>1, <1>2
<1>4. \A F : F = Files(version') => (e \in Stored(F) => e \in Stored(Files(version))')
  BY <1>3
<1>5. e \in Stored(Files(Edited(version))) => e \in Stored(Files(version))'
  BY <1>1, <1>4
<1>6. memtab'[mem'] = memtab[mem]
  BY <1>1 DEF Shrunk
<1>7. CASE bg.job = "merge"
  BY <1>1, <1>5, <1>6, <1>7, InstalledHolds, VisibleIn
<1>8. CASE bg.job \in {"mem", "nested"}
  BY <1>1, <1>5, <1>6, <1>8, InstalledHolds, VisibleIn
<1> QED
  BY <1>1, <1>7, <1>8

(* What a database that stays open can do to what its readers find. *)
LEMMA OpenSteps ==
    ASSUME StoreInv, [Next]_vars, Up, Up'
    PROVE  \/ UNCHANGED <<lastSeq, mem, imm, memtab, version, tables>>
           \/ \E t \in Thread : RoomSwitched(t) \/ InsertInto(t) \/ Commit(t)
           \/ (\E r \in Reader : GotValue(r)) \/ Flush \/ OpenCompactionOutputFile \/ TableFails \/ Install
<1>1. phase \notin {"closed", "recovering"} /\ phase' \notin {"closed", "recovering"}
  BY DEF Up
<1> QED
  BY <1>1, StepCases, EditLogged, LogAdds
     DEF Steps, Install, store, memory, disk, RoomFound, Sync, Get, BackgroundIdles, TableBuilt, PickCompaction,
         FinishCompactionOutputFile, CompactionFails, Close, Down, Closed, CrashProcess, OpenFails, CrashMachine,
         RecoverManifest, RecoverLogFile, OpenNewLog, OpenInstalls

(* An open database goes on showing what it shows. *)
LEMMA VisibleKept ==
    ASSUME StoreInv, [Next]_vars, Up, Up', NEW e \in Visible
    PROVE  e \in Visible'
<1>1. lastSeq \in Nat /\ mem \in DOMAIN memtab /\ (imm # 0 => imm \in DOMAIN memtab)
  BY Numbers, Parts DEF NumberInv
<1>2. CASE UNCHANGED <<lastSeq, mem, imm, memtab, version, tables>>
  BY <1>1, <1>2, VisibleSame, VersionTables
<1>3. ASSUME NEW t \in Thread, RoomSwitched(t)
      PROVE  e \in Visible'
  <2>1. /\ imm = 0 /\ imm' = mem /\ mem > 0 /\ Grown(memtab, memtab', nextFile, {})
        /\ UNCHANGED <<lastSeq, version, tables>>
    BY <1>3, SwitchFacts DEF disk
  <2>2. imm' # 0 /\ memtab'[imm'] = memtab[mem]
    BY <1>1, <2>1, Numbers DEF Grown
  <2>3. \A F : Stored(F)' = Stored(F)
    BY <2>1, StoredUnchanged
  <2>4. Stored(Files(version))' = Stored(Files(version))
    BY <2>1, <2>3
  <2> QED
    BY <2>1, <2>2, <2>4, VisibleIn
<1>4. ASSUME NEW t \in Thread, InsertInto(t)
      PROVE  e \in Visible'
  <2>1. /\ DOMAIN memtab' = DOMAIN memtab /\ UNCHANGED <<mem, imm, version, lastSeq, tables>>
        /\ memtab'[mem] = memtab[mem] \cup group.entries
        /\ \A n \in DOMAIN memtab : n # mem => memtab'[n] = memtab[n]
    BY <1>4, InsertFacts DEF disk
  <2>2. memtab[mem] \subseteq memtab'[mem] /\ (imm # 0 => memtab[imm] \subseteq memtab'[imm])
    BY <1>1, <2>1
  <2> QED
    BY <1>1, <2>1, <2>2, VisibleSame, VersionTables
<1>5. ASSUME NEW t \in Thread, Commit(t)
      PROVE  e \in Visible'
  <2>1. /\ UNCHANGED <<mem, imm, memtab, version, tables>>
        /\ lastSeq' = lastSeq + Batches(group.size) /\ Batches(group.size) \in Nat
    BY <1>5, CommitFacts DEF disk
  <2> QED
    BY <1>1, <2>1, VisibleSame, VersionTables
<1>6. ASSUME NEW r \in Reader, GotValue(r)
      PROVE  e \in Visible'
  <2>1. /\ Shrunk(memtab, memtab') /\ mem \in DOMAIN memtab' /\ (imm # 0 => imm \in DOMAIN memtab')
        /\ UNCHANGED <<mem, imm, version, lastSeq, tables>>
    BY <1>6, GotFacts DEF disk
  <2>2. memtab[mem] \subseteq memtab'[mem] /\ (imm # 0 => memtab[imm] \subseteq memtab'[imm])
    BY <2>1 DEF Shrunk
  <2> QED
    BY <1>1, <2>1, <2>2, VisibleSame, VersionTables
<1>7. CASE Flush \/ OpenCompactionOutputFile
  <2>1. /\ UNCHANGED <<mem, imm, memtab, version, lastSeq>>
        /\ tables' = tables \/ \E v : Grown(tables, tables', nextFile, v)
    BY <1>7, FlushFacts, OutputFacts
  <2> QED
    BY <1>1, <2>1, VisibleSame, VersionTables
<1>8. CASE TableFails
  <2>1. /\ bg.pc = "build" /\ bg.job \in {"mem", "nested"}
        /\ Shrunk(tables, tables') /\ DOMAIN tables \ {bg.num} \subseteq DOMAIN tables'
        /\ UNCHANGED <<lastSeq, mem, imm, memtab, version>>
    BY <1>8, TableFailsFacts
  <2>2. bg.num \notin Files(version)
    BY <2>1, Parts DEF FlushInv
  <2>3. \A n \in Files(version) : n \in DOMAIN tables' /\ tables'[n] = tables[n]
    BY <2>1, <2>2, VersionTables DEF Shrunk
  <2> QED
    BY <1>1, <2>1, <2>3, VisibleSame
<1>9. CASE Install
  BY <1>9, InstallVisible
<1> QED
  BY OpenSteps, <1>2, <1>3, <1>4, <1>5, <1>6, <1>7, <1>8, <1>9

(* What readers find is in every state that the MANIFEST may recover. *)
LEMMA VisibleSaved ==
    ASSUME StoreInv, Up, NEW e \in Visible, NEW i \in DOMAIN manifest
    PROVE  InState(i, TRUE, e)
<1>1. /\ mem \in DOMAIN logs /\ (imm # 0 => imm \in DOMAIN logs)
      /\ memtab[mem] \subseteq Logged(logs[mem]) /\ (imm # 0 => memtab[imm] \subseteq Logged(logs[imm]))
  BY Parts DEF NumberInv, LoggedInv
<1>2. /\ manifest[i].log <= mem /\ manifest[i].log \in Nat /\ imm \in Nat /\ mem \in Nat
      /\ Stored(Files(version)) \subseteq Stored(Files(manifest[i].files))
      /\ imm # 0 /\ imm < manifest[i].log => memtab[imm] \subseteq Stored(Files(manifest[i].files))
  BY Numbers, ManifestFacts, Parts DEF VersionInv
<1>3. CASE e \in memtab[mem]
  BY <1>1, <1>2, <1>3 DEF InState, InLogs, Reach
<1>4. CASE imm # 0 /\ e \in memtab[imm]
  <2>1. imm < manifest[i].log \/ imm >= manifest[i].log
    BY <1>2
  <2> QED
    BY <1>1, <1>2, <1>4, <2>1 DEF InState, InLogs, Reach
<1>5. CASE e \in Stored(Files(version))
  BY <1>2, <1>5 DEF InState
<1> QED
  BY <1>3, <1>4, <1>5, VisibleIn

(* Opening finds what the MANIFEST and the logs had. *)
LEMMA OpenFinds ==
    ASSUME StoreInv, OpenInstalls, NEW e
    PROVE  e \in Contents <=> e \in Contents'
<1>1. /\ phase = "recovering" /\ phase' = "open" /\ recovery.log # 0
      /\ Files(version') = Files(version) \cup recovery.tables
      /\ mem' = recovery.log /\ memtab' = [n \in {recovery.log} |-> {}] /\ imm = 0 /\ UNCHANGED <<imm, lastSeq>>
      /\ Shrunk(tables, tables') /\ DOMAIN tables' = Files(version') /\ Files(version') \subseteq DOMAIN tables
      /\ \A f \in Stored(Files(version')) : f.seq <= lastSeq
  BY OpenFacts
<1>2. /\ ~ Broken(manifest) /\ version = Last(manifest).files /\ recovery.logs = {}
      /\ \A n \in NeededLogs \ recovery.logs : Logged(logs[n]) \subseteq Stored(recovery.tables)
      /\ Stored(recovery.tables) \subseteq UNION {Logged(logs[n]) : n \in NeededLogs \ recovery.logs}
  BY <1>1, Parts DEF RecoveryInv
<1>3. e \in Contents <=> InState(Len(manifest), TRUE, e)
  BY <1>1, <1>2, Parts, ClosedNow DEF Up
<1>4. Last(manifest) = manifest[Len(manifest)]
  BY ManifestFacts
<1>5. e \in Contents <=> e \in Stored(Files(version)) \/ \E n \in NeededLogs : e \in Logged(logs[n])
  BY <1>2, <1>3, <1>4, NeededIn DEF InState, InLogs, Reach
<1>6. e \in Contents <=> e \in Stored(Files(version')) 
  BY <1>1, <1>2, <1>5, StoredUnion
<1>7. \A F : F = Files(version') => Stored(F)' = Stored(F)
  BY <1>1, StoredShrunk
<1>8. \A F : F = Files(version') => (e \in Stored(Files(version))' <=> e \in Stored(F))
  BY <1>7
<1>9. e \in Stored(Files(version))' <=> e \in Stored(Files(version'))
  BY <1>8
<1>10. memtab'[mem'] = {} /\ imm' = 0
  BY <1>1
<1>11. Up'
  BY <1>1 DEF Up
<1> QED
  BY <1>1, <1>6, <1>9, <1>10, <1>11, VisibleIn

(* What a database that is not open can do. *)
LEMMA ClosedSteps ==
    ASSUME StoreInv, [Next]_vars, ~ Up
    PROVE  \/ UNCHANGED store \/ Down \/ RecoverManifest \/ OpenNewLog
           \/ RecoverLogFile \/ CrashMachine \/ OpenInstalls
BY StepCases, EditLogged, LogAdds, InstallFacts, FlushFacts, OutputFacts, SwitchFacts, FoundFacts,
   InsertFacts, CommitFacts, GotFacts, TableFailsFacts, QuietFacts, ServerSteps, InUp, Parts
   DEF Steps, Install, Get, Close, Sync, Up

(* A database is opened, or ends, in no other step. *)
LEMMA UpSteps ==
    ASSUME StoreInv, [Next]_vars
    PROVE  Down \/ CrashMachine \/ OpenInstalls \/ (Up <=> Up')
<1>1. Down \/ CrashMachine \/ OpenInstalls \/ UNCHANGED phase \/ Close \/ RecoverManifest
  BY StepCases, EditLogged, LogAdds, InstallFacts, FlushFacts, OutputFacts, SwitchFacts, FoundFacts,
     InsertFacts, CommitFacts, GotFacts, TableFailsFacts, QuietFacts, NewLogFacts
     DEF Steps, Install, store, Get, Sync, RecoverLogFile
<1> QED
  BY <1>1 DEF Close, RecoverManifest, Up

(* What Write answered is still found: in memory while the database is open, *)
(* in the MANIFEST and the logs after a close or a crash, and in the tables *)
(* that DB::Open makes of the logs.                                        *)
LEMMA AckKeeps ==
    ASSUME StoreInv, [Next]_vars
    PROVE  AckInv'
<1>1. ASSUME Up' \/ ~ Broken(manifest'), NEW id \in acked'
      PROVE  \E e \in Contents' : e.id = id
  <2>1. id \in acked /\ (Up \/ ~ Broken(manifest)) => \E e \in Contents : e.id = id
    <3>1. Up \/ ~ Broken(manifest) => acked \subseteq Ids(Contents)
      BY Parts DEF AckInv
    <3> QED
      BY <3>1 DEF Ids
  <2>2. /\ Len(manifest) \in DOMAIN manifest /\ Last(manifest) = manifest[Len(manifest)]
        /\ Len(manifest) \in Nat /\ DOMAIN manifest = 1..Len(manifest)
    BY ManifestFacts
  <2>3. CASE Up /\ Up'
    <3>1. CASE id \in acked
      <4>1. PICK e \in Contents : e.id = id
        BY <2>1, <2>3, <3>1
      <4> QED
        BY <2>3, <4>1, VisibleIn, VisibleKept
    <3>2. ASSUME NEW t \in Thread, Commit(t), id \notin acked
          PROVE  \E e \in Contents' : e.id = id
      <4>1. op[t].status = "ok" /\ id \in Ids(group.entries)
        BY <1>1, <3>2, CommitPromises
      <4>2. PICK e \in group.entries : e.id = id
        BY <4>1 DEF Ids
      <4>3. /\ UNCHANGED <<mem, memtab>> /\ e.seq <= lastSeq' /\ op[t].pc = "commit"
        BY <3>2, <4>2, CommitFacts
      <4>4. e \in memtab[mem]
        BY <4>1, <4>2, <4>3, Parts DEF StageInv
      <4>5. e \in Contents'
        BY <2>3, <4>3, <4>4, VisibleIn
      <4> QED
        BY <4>2, <4>5
    <3>3. acked' \subseteq acked \/ \E t \in Thread : Commit(t)
      <4>1. phase \notin {"closed", "recovering"} /\ phase' \notin {"closed", "recovering"}
        BY <2>3 DEF Up
      <4> QED
        BY <4>1, StepCases, EditLogged, LogAdds, InstallFacts, FlushFacts, OutputFacts
           DEF Steps, Install, store, promises, RoomSwitched, RoomFound, Sync, InsertInto, Get, GotValue,
               BackgroundIdles, TableBuilt, PickCompaction, FinishCompactionOutputFile, TableFails, CompactionFails,
               Close, Down, Closed, CrashProcess, OpenFails, CrashMachine,
               RecoverManifest, RecoverLogFile, OpenNewLog, OpenInstalls
    <3> QED
      BY <1>1, <3>1, <3>2, <3>3
  <2>4. CASE ~ Up' /\ Plain /\ acked' \subseteq acked
    <3>1. manifest' = manifest /\ DiskKept
      BY <2>4, PlainKeeps DEF DiskKept
    <3>2. PICK e \in Contents : e.id = id
      BY <1>1, <2>1, <2>4, <3>1
    <3>3. InState(Len(manifest), TRUE, e)
      BY <1>1, <2>2, <2>4, <3>1, <3>2, Parts, ClosedNow, VisibleSaved, VisibleIn
    <3>4. \A k : k = Len(manifest') => InState(k, TRUE, e)'
      BY <2>2, <3>1, <3>3, PlaceKept
    <3>5. e \in Contents'
      BY <1>1, <2>4, <3>4, TypeKeeps, ClosedNext
    <3> QED
      BY <3>2, <3>5
  <2>5. CASE RecoverLogFile
    <3>1. PICK n \in recovery.logs, r \in Seq(Record), found \in SUBSET Entry : Replay(n, r, found)
      BY <2>5, Parts, ReplayFacts
    <3>2. /\ acked' = acked \ (Ids(Logged(logs[n])) \ Ids(found))
          /\ manifest' = manifest /\ phase = "recovering" /\ phase' = phase
      BY <2>5, <3>1 DEF Replay, RecoverLogFile
    <3>3. ~ Broken(manifest) /\ ~ Up /\ ~ Up'
      BY <3>2, Parts DEF RecoveryInv, Up
    <3>4. PICK e \in Contents : e.id = id
      BY <1>1, <2>1, <3>2, <3>3
    <3>5. InState(Len(manifest), TRUE, e)
      BY <3>3, Parts, ClosedNow
    <3>6. e.id \notin Ids(Logged(logs[n])) \ Ids(found)
      BY <1>1, <3>2, <3>4
    <3>7. InState(Len(manifest), TRUE, e)'
      BY <2>2, <2>5, <3>1, <3>5, <3>6, ReplayKeepsPlace
    <3>8. \A k : k = Len(manifest') => InState(k, TRUE, e)'
      <4>1. \A k : k = Len(manifest) => InState(k, TRUE, e)'
        BY <2>2, <2>5, <3>1, <3>5, <3>6, ReplayKeepsPlace
      <4> QED
        BY <3>2, <4>1
    <3>9. e \in Contents'
      BY <3>2, <3>3, <3>8, TypeKeeps, ClosedNext
    <3> QED
      BY <3>4, <3>9
  <2>6. CASE CrashMachine
    <3>1. PICK upto \in [DOMAIN logs -> Nat], k \in 1..Len(manifest) : Keep(upto, k)
      BY <2>6, Parts, CrashFacts
    <3>2. /\ acked' = acked \cap Ids(Recovered(manifest[k], upto)) /\ Len(manifest') = k /\ phase' = "closed"
      BY <3>1 DEF Keep
    <3>3. PICK e \in Recovered(manifest[k], upto) : e.id = id
      BY <1>1, <3>2 DEF Ids
    <3>4. \A l : l = Len(manifest') => InState(l, TRUE, e)'
      BY <3>1, <3>2, <3>3, CrashRecovers
    <3>5. e \in Contents'
      BY <1>1, <3>2, <3>4, TypeKeeps, ClosedNext DEF Up
    <3> QED
      BY <3>3, <3>5
  <2>7. CASE OpenInstalls
    <3>1. acked' = acked /\ ~ Broken(manifest)
      BY <2>7, OpenFacts, Parts DEF RecoveryInv, promises
    <3>2. PICK e \in Contents : e.id = id
      BY <1>1, <2>1, <3>1
    <3> QED
      BY <2>7, <3>2, OpenFinds
  <2>8. \/ (Up /\ Up') \/ RecoverLogFile \/ CrashMachine \/ OpenInstalls
        \/ ~ Up' /\ Plain /\ acked' \subseteq acked
    <3>1. CASE ~ Up /\ ~ Up'
      BY <3>1, ClosedSteps DEF Plain, store, promises, Down, RecoverManifest, OpenNewLog
    <3>2. CASE Down
      BY <3>2 DEF Plain, promises, Down, Closed, CrashProcess, OpenFails, Up
    <3> QED
      BY <3>1, <3>2, UpSteps
  <2> QED
    BY <2>3, <2>4, <2>5, <2>6, <2>7, <2>8
<1>2. promised' \subseteq acked' /\ promised' \subseteq Ids(Durable')
  BY PromisedKeeps
<1>3. Up' \/ ~ Broken(manifest') => acked' \subseteq Ids(Contents')
  BY <1>1 DEF Ids
<1> QED
  BY <1>2, <1>3 DEF AckInv

(***************************************************************************)
(* The theorems.                                                           *)
(***************************************************************************)
(* A database that an earlier DBImpl left: one table of each entry. *)
LEMMA InitDisk ==
    ASSUME Init
    PROVE  /\ ~ Up /\ phase = "closed" /\ logs = <<>> /\ DOMAIN logs = {} /\ synced = <<>> /\ left.old \in Nat
           /\ DOMAIN manifest = {1} /\ Len(manifest) = 1 /\ ~ Broken(manifest)
           /\ manifest[1].log = 0 /\ manifest[1].last = left.old /\ manifest[1].next = left.old + 2
           /\ Files(manifest[1].files) = 2..(left.old + 1) /\ Last(manifest) = manifest[1]
           /\ DOMAIN tables = 2..(left.old + 1)
           /\ \A n \in DOMAIN tables : tables[n] = {[id |-> n - 1, seq |-> n - 1]}
           /\ \A e \in Stored(2..(left.old + 1)) : e.seq \in 1..left.old /\ e.id = e.seq /\ e \in Entry
           /\ \A id \in 1..left.old : \E e \in Stored(2..(left.old + 1)) : e.id = id
           /\ issued = left.old /\ acked = 1..left.old /\ promised = 1..left.old
<1>1. left.old \in Nat
  BY ConstantsAssumption DEF Init
<1>2. /\ DOMAIN tables = 2..(left.old + 1)
      /\ \A n \in DOMAIN tables : tables[n] = {[id |-> n - 1, seq |-> n - 1]}
  BY DEF Init
<1>3. \A e \in Stored(2..(left.old + 1)) : e.seq \in 1..left.old /\ e.id = e.seq /\ e \in Entry
  <2> SUFFICES ASSUME NEW n \in 2..(left.old + 1), NEW e \in tables[n]
               PROVE  e.seq \in 1..left.old /\ e.id = e.seq /\ e \in Entry
    BY StoredIn
  <2>1. e = [id |-> n - 1, seq |-> n - 1] /\ n - 1 \in 1..left.old
    BY <1>1, <1>2
  <2> QED
    BY <2>1 DEF Entry
<1>4. ASSUME NEW id \in 1..left.old
      PROVE  \E e \in Stored(2..(left.old + 1)) : e.id = id
  <2>1. id + 1 \in 2..(left.old + 1) /\ (id + 1) - 1 = id
    BY <1>1
  <2>2. [id |-> id, seq |-> id] \in tables[id + 1]
    BY <1>2, <2>1
  <2>3. [id |-> id, seq |-> id] \in Stored(2..(left.old + 1))
    BY <1>2, <2>1, <2>2, StoredIn
  <2> QED
    BY <2>3
<1>5. /\ Len(manifest) = 1 /\ DOMAIN manifest = {1}
      /\ manifest[1] = [log |-> 0, next |-> left.old + 2, last |-> left.old, ok |-> TRUE,
                        files |-> [l0 |-> 2..(left.old + 1), l1 |-> {}]]
  BY DEF Init
<1>6. ~ Broken(manifest)
  BY <1>5 DEF Broken
<1>7. Files(manifest[1].files) = 2..(left.old + 1) /\ Last(manifest) = manifest[1]
  <2>1. manifest[1].files.l0 = 2..(left.old + 1) /\ manifest[1].files.l1 = {}
    BY <1>5
  <2>2. Files(manifest[1].files) = 2..(left.old + 1)
    BY <2>1 DEF Files
  <2>3. Last(manifest) = manifest[1]
    BY <1>5 DEF Last
  <2> QED
    BY <2>2, <2>3
<1>8. ~ Up /\ phase = "closed"
  BY DEF Init, Up
<1> QED
  BY <1>1, <1>2, <1>3, <1>4, <1>5, <1>6, <1>7, <1>8 DEF Init

(* The database of NewDB, or one that an earlier DBImpl left, has it all. *)
LEMMA InitStore == Init => StoreInv
<1> SUFFICES ASSUME Init
             PROVE  StoreInv
  OBVIOUS
<1>1. TypeOK /\ QueueInv
  BY InitType, InitQueue
<1>2. /\ ~ Up /\ phase = "closed" /\ DOMAIN logs = {} /\ DOMAIN manifest = {1} /\ Len(manifest) = 1
      /\ op = [t \in Thread |-> Idle] /\ bg = NoBg /\ group = NoGroup /\ reads = [r \in Reader |-> NoRead]
      /\ memtab = [n \in {0} |-> {}] /\ lastSeq = 0
  BY InitDisk DEF Init
<1>3. RestInv
  BY DEF Init, RestInv
<1>4. ManifestInv
  BY InitDisk, <1>2 DEF ManifestInv
<1>5. EntryInv
  <2>1. \A e \in Known : \E n \in DOMAIN tables : e \in tables[n]
    BY <1>2, KnownMember DEF NoGroup
  <2>2. \A e \in Known : e \in Stored(2..(left.old + 1))
    BY <2>1, InitDisk, StoredIn
  <2>3. \A e \in Known : e.seq \in 1..left.old /\ e.id = e.seq /\ e \in Entry /\ issued = left.old /\ left.old \in Nat
    BY <2>2, InitDisk
  <2>4. \A e \in Known : e.id \in 1..issued /\ e.seq \in 1..e.id
    BY <2>3
  <2>5. \A e, f \in Known : e.id = f.id \/ e.seq = f.seq => e = f
    BY <2>3 DEF Entry
  <2> QED
    BY <2>4, <2>5 DEF EntryInv
<1>6. LogInv /\ NumberInv /\ LoggedInv /\ SeqInv /\ VersionInv /\ RecoveryInv
  BY <1>2 DEF LogInv, NumberInv, LoggedInv, SeqInv, VersionInv, RecoveryInv
<1>7. FlushInv /\ MergeInv /\ EditInv
  BY <1>2 DEF FlushInv, MergeInv, EditInv, NoBg
<1>8. \A t \in Thread : op[t].pc = "idle" /\ op[t].status = "ok" /\ op[t].pc \notin Serving
  BY <1>2 DEF Idle, Serving
<1>9. GroupInv /\ StageInv
  BY <1>2, <1>8 DEF GroupInv, StageInv
<1>10. ReadInv
  BY <1>2 DEF ReadInv, NoRead
<1>11. AckInv
  <2>1. \A e \in Stored(2..(left.old + 1)) : e \in Durable /\ e \in Contents
    <3> SUFFICES ASSUME NEW e \in Stored(2..(left.old + 1))
                 PROVE  e \in Durable /\ e \in Contents
      OBVIOUS
    <3>1. InState(1, FALSE, e) /\ InState(1, TRUE, e)
      BY InitDisk DEF InState
    <3> QED
      BY <1>1, <1>2, <1>4, <3>1, InitDisk, DurableNow, ClosedNow
  <2>2. \A id \in 1..left.old : id \in Ids(Durable) /\ id \in Ids(Contents)
    BY <2>1, InitDisk DEF Ids
  <2>3. acked = 1..left.old /\ promised = 1..left.old
    BY InitDisk
  <2> QED
    BY <2>2, <2>3 DEF AckInv
<1> QED
  BY <1>1, <1>3, <1>4, <1>5, <1>6, <1>7, <1>9, <1>10, <1>11 DEF StoreInv

(* The invariant is inductive: each part is kept because of the others. *)
LEMMA StoreKeeps == StoreInv /\ [Next]_vars => StoreInv'
<1> SUFFICES ASSUME StoreInv, [Next]_vars
             PROVE  StoreInv'
  OBVIOUS
<1>1. TypeOK' /\ QueueInv' /\ RestInv' /\ EntryInv' /\ LogInv' /\ ManifestInv'
  BY TypeKeeps, RestKeeps, EntryKeeps, LogKeeps
<1>2. NumberInv' /\ LoggedInv' /\ SeqInv' /\ VersionInv'
  BY NumberKeeps, LoggedKeeps, SeqKeeps, VersionKeeps
<1>3. FlushInv' /\ MergeInv' /\ EditInv'
  BY FlushKeeps, MergeKeeps, EditKeeps
<1>4. GroupInv' /\ StageInv' /\ ReadInv' /\ RecoveryInv' /\ AckInv'
  BY GroupKeeps, StageKeeps, ReadKeeps, RecoveryKeeps, AckKeeps
<1> QED
  BY <1>1, <1>2, <1>3, <1>4 DEF StoreInv

(* At every moment the queue, the memtables, the logs, the tables, the     *)
(* MANIFEST and the background thread owe each other what StoreInv says:   *)
(* an immutable memtable whose log is obsolete is in every state that      *)
(* recovery may read, a live table is never deleted, the logs that DB::Open *)
(* has replayed are in its tables (LogAndApply, DeleteObsoleteFiles and    *)
(* RecoverLogFile of db_impl.cc and version_set.cc).                       *)
THEOREM StoreInvariant == Spec => []StoreInv
<1> QED
  BY InitStore, StoreKeeps, PTL DEF Spec

(* Every variable keeps its type. *)
THEOREM TypeCorrect == Spec => []TypeOK
<1>1. StoreInv => TypeOK
  BY DEF StoreInv
<1> QED
  BY <1>1, StoreInvariant, PTL

(* Get finds exactly the entries that the store held when it took its      *)
(* snapshot, whatever DBImpl switches, flushes, merges and deletes before it *)
(* ends (DBImpl::Get, which reads without mutex_).                         *)
THEOREM ReadsSeeTheirSnapshot == Spec => []SnapshotReadable
<1>1. StoreInv => SnapshotReadable
  BY DEF StoreInv, ReadInv, SnapshotReadable
<1> QED
  BY <1>1, StoreInvariant, PTL

(* Unless a file is damaged, an entry whose Write returned OK is found by  *)
(* readers and by the next DB::Open until the machine crashes, and one that *)
(* was written with WriteOptions::sync is on the disk after any crash.     *)
THEOREM NothingIsLost == Spec => []NothingLost
<1>1. StoreInv => NothingLost
  BY DEF StoreInv, AckInv, NothingLost, Damaged
<1> QED
  BY <1>1, StoreInvariant, PTL

(* No two entries of the store have one sequence number, over restarts:    *)
(* LastSequence is recovered from the MANIFEST and from the logs.          *)
THEOREM SequenceNumbersUnique == Spec => []SeqUnique
<1>1. StoreInv => SeqUnique
  <2> SUFFICES ASSUME StoreInv, NEW e \in Contents, NEW f \in Contents, e.seq = f.seq
               PROVE  e = f
    BY DEF SeqUnique
  <2>1. e \in Known /\ f \in Known
    BY PlacesKnown
  <2> QED
    BY <2>1, Parts DEF EntryInv
<1> QED
  BY <1>1, StoreInvariant, PTL

(* What an open may find besides the contents: an entry of any state of    *)
(* the MANIFEST, or of the group; said of a state and of the next one.     *)
LEMMA DoubtNow ==
    ASSUME TypeOK, ManifestInv, NEW e
    PROVE  e \in Doubtful <=> e \in group.entries \/ \E i \in DOMAIN manifest : InState(i, TRUE, e)
<1> DEFINE whole == [n \in DOMAIN logs |-> Len(logs[n])]
<1>1. \A i \in DOMAIN manifest : Files(manifest[i].files) \subseteq DOMAIN tables
  BY DEF ManifestInv
<1>2. \A n \in DOMAIN logs : Reach(n, TRUE) = Logged(SubSeq(logs[n], 1, whole[n]))
  BY WholeLog DEF TypeOK, DiskType, Reach
<1>3. Doubtful = (UNION {Recovered(manifest[i], whole) : i \in DOMAIN manifest}) \cup group.entries
  BY DEF Doubtful
<1> HIDE DEF whole
<1>4. \A i \in DOMAIN manifest : e \in Recovered(manifest[i], whole) <=> InState(i, TRUE, e)
  BY <1>1, <1>2 DEF Recovered, InState, InLogs
<1> QED
  BY <1>3, <1>4

LEMMA DoubtNext ==
    ASSUME TypeOK', ManifestInv', NEW e
    PROVE  e \in Doubtful' <=> e \in group'.entries \/ \E i \in DOMAIN manifest' : InState(i, TRUE, e)'
<1> DEFINE whole == [n \in DOMAIN logs' |-> Len(logs'[n])]
<1>1. \A i \in DOMAIN manifest' : Files(manifest'[i].files) \subseteq DOMAIN tables'
  BY DEF ManifestInv
<1>2. \A n \in DOMAIN logs' : Reach(n, TRUE)' = Logged(SubSeq(logs'[n], 1, whole[n]))
  BY WholeLog DEF TypeOK, DiskType, Reach
<1>3. Doubtful' = (UNION {Recovered(manifest[i], [n \in DOMAIN logs |-> Len(logs[n])])' : i \in DOMAIN manifest'})
                      \cup group'.entries
  BY DEF Doubtful
<1>4. \A i \in DOMAIN manifest' : e \in Recovered(manifest[i], [n \in DOMAIN logs |-> Len(logs[n])])'
                                    <=> InState(i, TRUE, e)'
  <2> TAKE i \in DOMAIN manifest'
  <2>1. Recovered(manifest[i], [n \in DOMAIN logs |-> Len(logs[n])])' = Stored(Files(manifest[i].files))'
            \cup UNION {Logged(SubSeq(logs'[n], 1, whole[n])) : n \in {l \in DOMAIN logs' : l >= manifest'[i].log}}
    BY <1>1 DEF Recovered
  <2> HIDE DEF whole
  <2> QED
    BY <1>2, <2>1 DEF InState, InLogs
<1> QED
  BY <1>3, <1>4

(* The tables that an edit adds hold entries that readers find.            *)
LEMMA AddedVisible ==
    ASSUME StoreInv, bg.pc \in {"append", "sync"}, NEW e \in Stored(Files(bg.edit.add))
    PROVE  e \in Visible
<1>1. /\ Up /\ bg.job \in {"mem", "nested", "merge"}
  BY Parts, InUp DEF EditInv, MemoryType, Background
<1>2. PICK n \in Files(bg.edit.add) : n \in DOMAIN tables /\ e \in tables[n]
  BY StoredIn
<1>3. e.seq <= lastSeq
  BY <1>1, <1>2, Parts DEF SeqInv
<1>4. CASE bg.job = "merge"
  <2>1. /\ n = bg.out /\ tables[n] = Stored(Files(bg.inputs)) /\ Files(bg.inputs) \subseteq Files(version)
    BY <1>2, <1>4, Parts, FilesOf DEF MergeInv, Files, Placed
  <2> QED
    BY <1>2, <1>3, <2>1, StoredUnion, VisibleIn
<1>5. CASE bg.job \in {"mem", "nested"}
  <2>1. imm # 0 /\ n = bg.num /\ Stored({bg.num}) = memtab[imm]
    BY <1>2, <1>5, Parts DEF FlushInv
  <2> QED
    BY <1>2, <1>3, <2>1, StoredUnion, VisibleIn
<1> QED
  BY <1>1, <1>4, <1>5

(* A log gets no entry but those of the group. *)
LEMMA LogsFrom ==
    ASSUME StoreInv, [Next]_vars, NEW n \in DOMAIN logs', NEW e \in Logged(logs'[n])
    PROVE  e \in group.entries \/ (n \in DOMAIN logs /\ e \in Logged(logs[n]))
<1>1. CASE UNCHANGED logs \/ Shrunk(logs, logs')
  BY <1>1 DEF Shrunk
<1>2. ASSUME Grown(logs, logs', nextFile, <<>>)
      PROVE  n \in DOMAIN logs /\ e \in Logged(logs[n])
  BY <1>2, LoggedEmpty DEF Grown
<1>3. ASSUME NEW t \in Thread, LogStep(t)
      PROVE  e \in group.entries \/ (n \in DOMAIN logs /\ e \in Logged(logs[n]))
  BY <1>3, LogAdds
<1>4. CASE RecoverLogFile
  <2>1. PICK k \in recovery.logs, r \in Seq(Record), found \in SUBSET Entry : Replay(k, r, found)
    BY <1>4, Parts, ReplayFacts
  <2>2. k \in DOMAIN logs /\ Logged(r) \subseteq Logged(logs[k]) /\ logs' = [logs EXCEPT ![k] = r]
    BY <1>4, <2>1 DEF Replay, RecoverLogFile
  <2> QED
    BY <2>2
<1>5. CASE CrashMachine
  <2>1. PICK upto \in [DOMAIN logs -> Nat], k \in 1..Len(manifest) : Keep(upto, k)
    BY <1>5, Parts, CrashFacts
  <2>2. n \in DOMAIN logs /\ logs'[n] = SubSeq(logs[n], 1, upto[n]) /\ upto[n] <= Len(logs[n]) /\ upto[n] \in Nat
    BY <2>1 DEF Keep
  <2> QED
    BY <2>2, Numbers, PrefixRecords
<1>6. \/ UNCHANGED logs \/ CrashMachine \/ RecoverLogFile \/ OpenNewLog \/ OpenInstalls \/ Install
      \/ \E t \in Thread : RoomSwitched(t) \/ LogStep(t)
  BY StepCases, FlushFacts, OutputFacts, EditLogged, TableFailsFacts
     DEF Steps, store, disk, RoomFound, Sync, InsertInto, Commit, Get, GotValue, BackgroundIdles, TableBuilt,
         PickCompaction, FinishCompactionOutputFile, CompactionFails, Close, Down, RecoverManifest, Install
<1> QED
  BY <1>1, <1>2, <1>3, <1>4, <1>5, <1>6, SwitchFacts, NewLogFacts, OpenFacts, InstallFacts

(* Nor does a table: one that is made has a number of its own.            *)
LEMMA TablesFrom ==
    ASSUME StoreInv, [Next]_vars, NEW F,
           (Up /\ F = Files(version)) \/ \E i \in DOMAIN manifest : F = Files(manifest[i].files)
    PROVE  Stored(F)' \subseteq Stored(F)
<1>1. CASE UNCHANGED tables \/ Shrunk(tables, tables')
  BY <1>1, StoredUnchanged, StoredShrunk
<1>2. CASE Flush \/ OpenCompactionOutputFile
  <2>1. Up /\ (tables' = tables \/ \E v : Grown(tables, tables', nextFile, v))
    BY <1>2, FlushFacts, OutputFacts
  <2> QED
    BY <1>1, <2>1, NextFree, StoredGrown
<1>3. CASE RecoverLogFile
  <2>1. PICK k \in recovery.logs, r \in Seq(Record), found \in SUBSET Entry : Replay(k, r, found)
    BY <1>3, Parts, ReplayFacts
  <2>2. nextFile \notin F
    BY <1>3, NextUnused DEF RecoverLogFile, Up
  <2> QED
    BY <1>3, <2>1, <2>2, ReplayHolds
<1>4. UNCHANGED tables \/ RecoverLogFile \/ OpenInstalls \/ Install \/ TableFails \/ Flush \/ OpenCompactionOutputFile
  BY StepCases, EditLogged, LogAdds, SwitchFacts, NewLogFacts
     DEF Steps, store, disk, RoomFound, Sync, InsertInto, Commit, Get, GotValue, BackgroundIdles, TableBuilt,
         PickCompaction, FinishCompactionOutputFile, CompactionFails, Close, Down, CrashMachine, RecoverManifest, Install
<1> QED
  BY <1>1, <1>2, <1>3, <1>4, OpenFacts, InstallFacts, TableFailsFacts

(* Hence nor does a state of the MANIFEST. *)
LEMMA StateFrom ==
    ASSUME StoreInv, [Next]_vars, NEW e, NEW i \in DOMAIN manifest', InState(i, TRUE, e)',
           NEW j \in DOMAIN manifest, manifest'[i].files = manifest[j].files, manifest'[i].log = manifest[j].log
    PROVE  e \in group.entries \/ InState(j, TRUE, e)
<1>1. CASE e \in Stored(Files(manifest[i].files))'
  <2>1. \A F : F = Files(manifest'[i].files) => e \in Stored(F)'
    BY <1>1
  <2> QED
    BY <2>1, TablesFrom DEF InState
<1>2. ASSUME NEW n \in DOMAIN logs', n >= manifest'[i].log, e \in Logged(logs'[n])
      PROVE  e \in group.entries \/ InState(j, TRUE, e)
  BY <1>2, LogsFrom DEF InState, InLogs, Reach
<1> QED
  BY <1>1, <1>2 DEF InState, InLogs, Reach

(* Nothing new comes into doubt but the next group and what readers find.  *)
LEMMA DoubtFrom ==
    ASSUME StoreInv, [Next]_vars, NEW e \in Doubtful', ~ OpenInstalls
    PROVE  e \in Doubtful \/ e \in group'.entries \/ (Up /\ e \in Visible)
<1>1. ASSUME NEW i \in DOMAIN manifest', InState(i, TRUE, e)'
      PROVE  e \in Doubtful \/ (Up /\ e \in Visible)
  <2>1. ASSUME NEW j \in DOMAIN manifest, manifest'[i].files = manifest[j].files, manifest'[i].log = manifest[j].log
        PROVE  e \in Doubtful
    BY <1>1, <2>1, StateFrom, Parts, DoubtNow
  <2>2. CASE UNCHANGED manifest
    BY <2>1, <2>2
  <2>3. CASE Install
    BY <2>1, <2>3, InstallFacts, ManifestFacts
  <2>4. CASE CrashMachine
    <3>1. PICK upto \in [DOMAIN logs -> Nat], k \in 1..Len(manifest) : Keep(upto, k)
      BY <2>4, Parts, CrashFacts
    <3> QED
      BY <2>1, <3>1, ManifestFacts DEF Keep
  <2>5. CASE AppendEdit \/ EditNotLogged
    <3>0. manifest' = manifest \/ (bg.pc = "append" /\ (Logs(EditRecord) \/ Logs(PartRecord)))
      BY <2>5, EditLogged
    <3>1. Up /\ bg.pc \in {"append", "sync"} /\ UNCHANGED <<logs, tables>>
      BY <2>5, EditLogged
    <3>2. CASE Logs(PartRecord) /\ bg.pc = "append"
      BY <2>1, <3>2, RecordFacts, ManifestFacts
    <3>3. CASE Logs(EditRecord) /\ bg.pc = "append"
      <4>1. /\ DOMAIN manifest' = 1..(Len(manifest) + 1) /\ \A j \in DOMAIN manifest : manifest'[j] = manifest[j]
            /\ manifest'[Len(manifest) + 1].log = bg.edit.log
            /\ manifest'[Len(manifest) + 1].files = Edited(Last(manifest).files)
        BY <3>3, RecordFacts
      <4>2. CASE i = Len(manifest) + 1
        <5>1. CASE InLogs(i, TRUE, e)'
          <6>1. bg.edit.log \in {mem, logNum} /\ manifest[1].log = logNum /\ logNum <= mem
            BY <3>1, Parts, EditLogged, <2>5 DEF FlushInv, MergeInv, VersionInv, NumberInv
          <6>2. PICK n \in DOMAIN logs : n >= bg.edit.log /\ e \in Logged(logs[n])
            BY <3>1, <4>1, <4>2, <5>1 DEF InLogs, Reach
          <6>3. n >= manifest[1].log
            BY <6>1, <6>2, Numbers
          <6>4. InState(1, TRUE, e)
            BY <6>2, <6>3 DEF InState, InLogs, Reach
          <6> QED
            BY <6>4, ManifestFacts, Parts, DoubtNow
        <5>2. CASE e \in Stored(Files(manifest[i].files))'
          <6>1. \A F : F = Files(manifest'[i].files) => e \in Stored(F)'
            BY <5>2
          <6>2. e \in Stored(Files(Edited(Last(manifest).files)))
            BY <3>1, <4>1, <4>2, <6>1, StoredUnchanged
          <6>3. e \in Stored(Files(Last(manifest).files)) \/ e \in Stored(Files(bg.edit.add))
            <7>1. \A v : Files(Edited(v)) \subseteq Files(v) \cup Files(bg.edit.add)
              BY EditedFiles, FilesOf
            <7> QED
              BY <6>2, <7>1, StoredIn
          <6>4. e \in Stored(Files(Last(manifest).files)) => InState(Len(manifest), TRUE, e)
            BY ManifestFacts DEF InState
          <6> QED
            BY <3>1, <6>3, <6>4, AddedVisible, ManifestFacts, Parts, DoubtNow
        <5> QED
          BY <1>1, <5>1, <5>2 DEF InState
      <4> QED
        BY <2>1, <4>1, <4>2, ManifestFacts
    <3> QED
      BY <2>2, <3>0, <3>2, <3>3
  <2>6. UNCHANGED manifest \/ Install \/ CrashMachine \/ AppendEdit \/ EditNotLogged
    BY StepCases, FlushFacts, OutputFacts, LogAdds, SwitchFacts, NewLogFacts, TableFailsFacts
       DEF Steps, store, disk, RoomFound, Sync, InsertInto, Commit, Get, GotValue, BackgroundIdles, TableBuilt,
           PickCompaction, FinishCompactionOutputFile, CompactionFails, Close, Down, RecoverManifest, RecoverLogFile, Install
  <2> QED
    BY <2>2, <2>3, <2>4, <2>5, <2>6
<1> QED
  BY <1>1, TypeKeeps, DoubtNext

(* An open database shows nothing new but a group that ends well. *)
LEMMA VisibleFrom ==
    ASSUME StoreInv, [Next]_vars, Up, Up', NEW e \in Visible'
    PROVE  e \in Visible \/ (e \in group.entries /\ \E t \in Thread : Commit(t) /\ op[t].status = "ok")
<1>1. /\ mem \in DOMAIN memtab /\ (imm # 0 => imm \in DOMAIN memtab /\ imm # mem)
      /\ lastSeq \in Nat /\ mem \in Nat /\ imm \in Nat
  BY Numbers, Parts DEF NumberInv
<1>2. /\ e.seq <= lastSeq'
      /\ e \in memtab'[mem'] \/ (imm' # 0 /\ e \in memtab'[imm']) \/ e \in Stored(Files(version))'
  BY VisibleIn
<1>3. UNCHANGED version /\ e \in Stored(Files(version))' => e \in Stored(Files(version))
  <2>1. \A F : F = Files(version') => (e \in Stored(Files(version))' => e \in Stored(F)')
    OBVIOUS
  <2> QED
    BY <2>1, TablesFrom
<1>4. CASE UNCHANGED <<lastSeq, mem, imm, memtab, version>>
  BY <1>2, <1>3, <1>4, VisibleIn
<1>5. ASSUME NEW t \in Thread, RoomSwitched(t)
      PROVE  e \in Visible
  <2>1. /\ imm' = mem /\ mem' = nextFile /\ Grown(memtab, memtab', nextFile, {}) /\ UNCHANGED <<lastSeq, version>>
    BY <1>5, SwitchFacts
  <2>2. memtab'[mem'] = {} /\ memtab'[imm'] = memtab[mem]
    BY <1>1, <2>1 DEF Grown
  <2> QED
    BY <1>2, <1>3, <2>1, <2>2, VisibleIn
<1>6. ASSUME NEW t \in Thread, InsertInto(t)
      PROVE  e \in Visible
  <2>1. /\ op[t].pc = "insert" /\ memtab'[mem] = memtab[mem] \cup group.entries
        /\ \A n \in DOMAIN memtab : n # mem => memtab'[n] = memtab[n]
        /\ UNCHANGED <<lastSeq, mem, imm, version>>
    BY <1>6, InsertFacts
  <2>2. e \notin group.entries
    BY <1>1, <1>2, <2>1, Parts, ServingFacts DEF Serving
  <2> QED
    BY <1>1, <1>2, <1>3, <2>1, <2>2, VisibleIn
<1>7. ASSUME NEW t \in Thread, Commit(t)
      PROVE  e \in Visible \/ (e \in group.entries /\ op[t].status = "ok")
  <2>1. op[t].pc = "commit" /\ UNCHANGED <<mem, imm, memtab, version>>
    BY <1>7, CommitFacts
  <2>2. CASE e \in memtab[mem]
    <3>1. e.seq <= lastSeq \/ e \in group.entries
      BY <1>1, <2>2, Parts DEF SeqInv
    <3>2. op[t].status # "ok" => memtab[mem] \cap group.entries = {}
      BY <1>1, <2>1, Parts DEF StageInv
    <3> QED
      BY <2>2, <3>1, <3>2, VisibleIn
  <2>3. CASE imm # 0 /\ e \in memtab[imm]
    BY <1>1, <2>3, Parts, VisibleIn DEF SeqInv
  <2>4. CASE e \in Stored(Files(version))
    BY <2>4, Parts, StoredIn, VisibleIn DEF SeqInv
  <2> QED
    BY <1>2, <1>3, <2>1, <2>2, <2>3, <2>4
<1>8. ASSUME NEW r \in Reader, GotValue(r)
      PROVE  e \in Visible
  BY <1>1, <1>2, <1>3, <1>8, GotFacts, VisibleIn DEF Shrunk
<1>9. CASE Install
  <2>1. /\ bg.pc = "sync" /\ bg.job \in {"mem", "nested", "merge"} /\ version' = Edited(version)
        /\ bg.job = "merge" => imm' = imm /\ memtab' = memtab
        /\ bg.job \in {"mem", "nested"} => imm # 0 /\ imm' = 0
        /\ Shrunk(tables, tables') /\ Shrunk(memtab, memtab') /\ mem \in DOMAIN memtab' /\ UNCHANGED <<mem, lastSeq>>
    BY <1>9, InstallFacts
  <2>2. \A F : F = Files(version') => (e \in Stored(Files(version))' => e \in Stored(F))
    BY <2>1, StoredShrunk
  <2>3. e \in Stored(Files(version))' => e \in Stored(Files(version)) \/ (imm # 0 /\ e \in memtab[imm])
    BY <2>1, <2>2, InstalledHolds
  <2> QED
    BY <1>2, <2>1, <2>3, VisibleIn DEF Shrunk
<1>10. \/ UNCHANGED <<lastSeq, mem, imm, memtab, version>> \/ Install
       \/ \E t \in Thread : RoomSwitched(t) \/ InsertInto(t) \/ Commit(t)
       \/ \E r \in Reader : GotValue(r)
  BY OpenSteps, FlushFacts, OutputFacts, TableFailsFacts
<1> QED
  BY <1>4, <1>5, <1>6, <1>7, <1>8, <1>9, <1>10

(* No damage: a replay finds the whole log, and loses nothing. *)
LEMMA ReplayFinds ==
    ASSUME StoreInv, RecoverLogFile, ~ Damaged, NEW all \in BOOLEAN, NEW e,
           NEW i \in DOMAIN manifest, InState(i, all, e)
    PROVE  InState(i, all, e)'
<1>1. PICK k \in recovery.logs, r \in Seq(Record), found \in SUBSET Entry : Replay(k, r, found)
  BY Parts, ReplayFacts
<1>2. r = logs[k] /\ found = Logged(logs[k])
  BY <1>1 DEF Replay, Damaged
<1> QED
  BY <1>1, <1>2, ReplayKeepsPlace

(* What no crash can lose stays so, if readers find it. *)
LEMMA DurableStays ==
    ASSUME StoreInv, [Next]_vars, ~ Damaged, NEW e \in Durable, e \in Contents
    PROVE  e \in Durable'
<1>1. \A i \in DOMAIN manifest : InState(i, FALSE, e)
  BY Parts, DurableNow
<1>2. CASE Plain \/ AppendEdit \/ EditNotLogged \/ Install \/ OpenInstalls
  BY <1>2, VisibleIn, DurableKept
<1>3. CASE RecoverLogFile
  BY <1>1, <1>3, ReplayFinds, TypeKeeps, DurableNext DEF RecoverLogFile
<1>4. CASE CrashMachine
  <2>1. PICK upto \in [DOMAIN logs -> Nat], k \in 1..Len(manifest) : Keep(upto, k)
    BY <1>4, Parts, CrashFacts
  <2>2. DOMAIN manifest' = 1..k /\ 1..k \subseteq DOMAIN manifest
    BY <2>1, ManifestFacts DEF Keep
  <2> QED
    BY <1>1, <2>1, <2>2, CrashKeepsPlace, TypeKeeps, DurableNext
<1> QED
  BY <1>2, <1>3, <1>4, StepCases DEF Steps, Plain, Install

(* The contents of a database that stays closed, or stays open and ends no *)
(* group well, stay as they are.                                           *)
LEMMA SameContents ==
    ASSUME StoreInv, [Next]_vars, ~ Damaged, ~ Damaged', Up <=> Up', ~ CrashMachine,
           ~ \E t \in Thread : Commit(t) /\ op[t].status = "ok"
    PROVE  Contents' = Contents
<1> SUFFICES ASSUME NEW e
             PROVE  e \in Contents' <=> e \in Contents
  OBVIOUS
<1>1. CASE Up
  BY <1>1, VisibleIn, VisibleKept, VisibleFrom
<1>2. CASE ~ Up
  <2>1. ~ Broken(manifest) /\ ~ Broken(manifest') /\ group.entries = {} /\ Len(manifest) \in DOMAIN manifest
    BY <1>2, Parts, ManifestFacts DEF Damaged, RestInv, NoGroup
  <2>2. Plain \/ RecoverLogFile
    BY <1>2, ClosedSteps, OpenFacts DEF Plain, Up
  <2>3. UNCHANGED manifest
    BY <2>2, PlainKeeps DEF DiskKept, RecoverLogFile
  <2>4. e \in Contents <=> InState(Len(manifest), TRUE, e)
    BY <1>2, <2>1, Parts, ClosedNow
  <2>5. \A k : k = Len(manifest) => (e \in Contents' <=> InState(k, TRUE, e)')
    BY <1>2, <2>1, <2>3, TypeKeeps, ClosedNext
  <2>6. InState(Len(manifest), TRUE, e) => \A k : k = Len(manifest) => InState(k, TRUE, e)'
    BY <2>1, <2>2, PlainKeeps, PlaceKept, ReplayFinds
  <2>7. ASSUME NEW k, k = Len(manifest), InState(k, TRUE, e)'
        PROVE  InState(Len(manifest), TRUE, e)
    BY <2>1, <2>3, <2>7, StateFrom
  <2> QED
    BY <2>4, <2>5, <2>6, <2>7
<1> QED
  BY <1>1, <1>2

(* An end leaves what no crash can lose, and nothing that was not there.   *)
LEMMA EndContents ==
    ASSUME StoreInv, [Next]_vars, ~ Damaged, ~ Damaged', Down \/ CrashMachine
    PROVE  /\ Durable \subseteq Contents' /\ Contents' \subseteq Doubtful \cup Contents
           /\ group' = NoGroup /\ ~ Up'
<1>1. group' = NoGroup /\ ~ Up'
  BY DEF Down, CrashMachine, Closed, CrashProcess, OpenFails, Forgotten, Up
<1>2. /\ Len(manifest) \in DOMAIN manifest /\ ~ Broken(manifest') /\ ~ OpenInstalls
  BY <1>1, ManifestFacts, OpenFacts DEF Damaged, Up
<1>3. \A e : \A k : k = Len(manifest') => (e \in Contents' <=> InState(k, TRUE, e)')
  BY <1>1, <1>2, TypeKeeps, ClosedNext
<1>4. Len(manifest') \in DOMAIN manifest'
  BY TypeKeeps DEF TypeOK, DiskType
<1>5. ASSUME NEW e \in Contents'
      PROVE  e \in Doubtful \cup Contents
  <2>1. \A k : k = Len(manifest') => InState(k, TRUE, e)'
    BY <1>3, <1>5
  <2>2. e \in Doubtful'
    BY <1>4, <2>1, TypeKeeps, DoubtNext
  <2> QED
    BY <1>1, <1>2, <2>2, DoubtFrom, VisibleIn DEF NoGroup
<1>6. ASSUME NEW e \in Durable
      PROVE  e \in Contents'
  <2>1. \A i \in DOMAIN manifest : InState(i, FALSE, e)
    BY Parts, DurableNow
  <2>2. CASE Down
    <3>1. InState(Len(manifest), TRUE, e) /\ UNCHANGED manifest
      BY <1>2, <2>1, <2>2, ReachIn DEF InState, InLogs, Down, disk
    <3>2. \A k : k = Len(manifest') => InState(k, TRUE, e)'
      BY <1>2, <2>2, <3>1, PlainKeeps, PlaceKept DEF Plain
    <3> QED
      BY <1>3, <3>2
  <2>3. CASE CrashMachine
    <3>1. PICK upto \in [DOMAIN logs -> Nat], k \in 1..Len(manifest) : Keep(upto, k)
      BY <2>3, Parts, CrashFacts
    <3>2. k \in DOMAIN manifest /\ Len(manifest') = k
      BY <3>1, ManifestFacts DEF Keep
    <3>3. \A l : l = Len(manifest') => InState(l, TRUE, e)'
      BY <2>1, <3>1, <3>2, CrashRecovers
    <3> QED
      BY <1>3, <3>3
  <2> QED
    BY <2>2, <2>3
<1> QED
  BY <1>1, <1>5, <1>6

(***************************************************************************)
(* The refinement of DurableStore.                                         *)
(***************************************************************************)
LEMMA ShownKnown == StoreInv => Shown
<1> SUFFICES ASSUME StoreInv, NEW e \in Doubtful
             PROVE  e \in Known
  BY PlacesKnown DEF Shown
<1> QED
  BY Parts, DoubtNow, PlacesKnown DEF Known

(* The entries an earlier DBImpl left are there, and durable. *)
LEMMA StoreInit == Init /\ StoreInv /\ Shown => Store!Init
<1> SUFFICES ASSUME Init, StoreInv, Shown
             PROVE  Store!Init
  OBVIOUS
<1>1. /\ phase = "closed" /\ ~ Up /\ issued = left.old /\ acked = 1..issued /\ promised = 1..issued
      /\ Len(manifest) = 1 /\ DOMAIN logs = {} /\ issued \in Nat
  BY Numbers DEF Init, Up
<1>2. ~ Damaged /\ ~ Broken(manifest)
  BY <1>1 DEF Damaged, Broken
<1>3. acked \subseteq Ids(Contents) /\ promised \subseteq Ids(Durable)
  BY <1>2, Parts DEF AckInv
<1>4. Ids(Contents) \subseteq 1..issued /\ Ids(Doubtful) \subseteq 1..issued
  BY Parts DEF Shown, EntryInv, Ids
<1>5. Damaged = FALSE
  BY <1>2 DEF Damaged
<1>6. Ids(Contents) = 1..issued /\ Ids(Durable) \cap Ids(Contents) = Ids(Contents)
  BY <1>1, <1>3, <1>4
<1> QED
  BY <1>1, <1>4, <1>5, <1>6 DEF Store!Init

(* Entry ids are never reused. *)
LEMMA IssuedGrows == ASSUME StoreInv, [Next]_vars PROVE issued' \in Nat /\ issued' >= issued
<1>1. UNCHANGED issued \/ \E t \in Thread : RoomFound(t)
  BY StepCases, EditLogged, LogAdds, InstallFacts, FlushFacts, OutputFacts, SwitchFacts, InsertFacts, CommitFacts,
     GotFacts, TableFailsFacts, QuietFacts, NewLogFacts, OpenFacts
     DEF Steps, Install, store, promises, Sync, Get, Close, Down, CrashMachine, RecoverManifest, RecoverLogFile
<1> QED
  BY <1>1, Numbers, FoundFacts

(* The ids, as the durable store has them, of a step that begins nothing,  *)
(* from what the step does to the entries.                                 *)
LEMMA IdsKept ==
    ASSUME StoreInv, Shown, [Next]_vars, ~ Damaged, Durable \cap Contents \subseteq Contents'
    PROVE  Ids(Durable) \cap Ids(Contents) \subseteq Ids(Durable') \cap Ids(Contents')
<1> SUFFICES ASSUME NEW d \in Durable, NEW c \in Contents, d.id = c.id
             PROVE  d \in Durable' /\ c \in Contents'
  BY DEF Ids
<1>1. d = c
  BY Parts DEF Shown, EntryInv
<1> QED
  BY <1>1, DurableStays

(* Steps of the background thread, of the deletion of files, of the        *)
(* recovery: only what is durable and what is in doubt may change.         *)
LEMMA StorePersists ==
    ASSUME StoreInv, Shown, [Next]_vars, ~ Damaged, ~ Damaged', Up <=> Up', ~ OpenInstalls, ~ CrashMachine,
           ~ \E t \in Thread : RoomFound(t) \/ (Commit(t) /\ op[t].status = "ok")
    PROVE  Store!Persist
<1>1. Contents' = Contents
  BY SameContents
<1>2. UNCHANGED issued /\ (group' = group \/ group' = NoGroup)
  BY StepCases, EditLogged, LogAdds, InstallFacts, FlushFacts, OutputFacts, SwitchFacts, InsertFacts, CommitFacts,
     GotFacts, TableFailsFacts, QuietFacts, NewLogFacts
     DEF Steps, Install, store, promises, Sync, Get, Close, Down, RecoverManifest, RecoverLogFile,
         Closed, CrashProcess, OpenFails, Forgotten
<1>3. Doubtful' \subseteq Doubtful \cup Contents
  <2> SUFFICES ASSUME NEW e \in Doubtful'
               PROVE  e \in Doubtful \cup Contents
    OBVIOUS
  <2>1. e \in group.entries => e \in Doubtful
    BY Parts, DoubtNow
  <2> QED
    BY <1>2, <2>1, DoubtFrom, VisibleIn DEF NoGroup
<1>4. Ids(Durable) \cap Ids(Contents) \subseteq Ids(Durable') \cap Ids(Contents')
  BY <1>1, IdsKept
<1>5. Ids(Contents') = Ids(Contents) /\ Ids(Doubtful') \ Ids(Contents') \subseteq Ids(Doubtful) \ Ids(Contents)
  BY <1>1, <1>3 DEF Ids
<1>6. (phase \in {"open", "closing"} <=> phase' \in {"open", "closing"}) /\ Damaged' = Damaged
  BY DEF Up, Damaged
<1> QED
  BY <1>2, <1>4, <1>5, <1>6 DEF Store!Persist

(* Steps that leave the files leave what is in doubt, but for the group.   *)
LEMMA DoubtStays ==
    ASSUME StoreInv, [Next]_vars, Plain, NEW e \in Doubtful
    PROVE  e \in Doubtful' \/ e \in group.entries
<1> SUFFICES ASSUME NEW i \in DOMAIN manifest, InState(i, TRUE, e)
             PROVE  e \in Doubtful'
  BY Parts, DoubtNow
<1>1. i \in DOMAIN manifest' /\ InState(i, TRUE, e)'
  BY PlainKeeps, PlaceKept DEF DiskKept
<1> QED
  BY <1>1, TypeKeeps, DoubtNext

(* A group is begun. *)
LEMMA StoreBegins ==
    ASSUME StoreInv, Shown, [Next]_vars, ~ Damaged, ~ Damaged', NEW t \in Thread, RoomFound(t)
    PROVE  Store!Begin
<1> DEFINE n == Batches(GroupSize)
<1>1. /\ Up /\ group.entries = {} /\ n \in Nat /\ n >= 1 /\ issued' = issued + n
      /\ group'.entries = NewEntries(issued, lastSeq, n) /\ UNCHANGED <<phase, disk>>
      /\ issued \in Nat /\ lastSeq \in Nat
  BY FoundFacts, Numbers
<1>2. ~ OpenInstalls /\ ~ CrashMachine /\ \A u \in Thread : ~ Commit(u)
  <2>1. issued' # issued
    BY <1>1
  <2>2. \A u \in Thread : ~ Commit(u)
    BY <2>1, CommitFacts
  <2> QED
    BY <2>1, <2>2, OpenFacts DEF CrashMachine, promises
<1>3. Contents' = Contents
  BY <1>1, <1>2, SameContents DEF Up
<1>4. Durable' = Durable
  BY <1>1 DEF Durable, Recovered, Stored, disk
<1> HIDE DEF n
<1>5. Ids(group'.entries) = (issued + 1)..issued'
  <2>1. \A e \in group'.entries : e.id \in (issued + 1)..issued'
    <3>1. \A e \in NewEntries(issued, lastSeq, n) : e.id \in (issued + 1)..(issued + n)
      BY <1>1, NewEntriesProperties
    <3> QED
      BY <1>1, <3>1
  <2>2. ASSUME NEW k \in (issued + 1)..issued'
        PROVE  \E e \in group'.entries : e.id = k
    <3>1. k - issued \in 1..n /\ issued + (k - issued) = k
      BY <1>1
    <3>2. [id |-> issued + (k - issued), seq |-> lastSeq + (k - issued)] \in group'.entries
      BY <1>1, <3>1 DEF NewEntries
    <3> QED
      BY <3>1, <3>2
  <2> QED
    BY <2>1, <2>2 DEF Ids
<1>6. Ids(Contents) \subseteq 1..issued
  BY Parts DEF Shown, EntryInv, Ids
<1>7. Doubtful' \cup Contents = Doubtful \cup group'.entries \cup Contents
  <2>1. \A e \in Doubtful' : e \in Doubtful \cup group'.entries \cup Contents
    BY <1>2, DoubtFrom, VisibleIn
  <2>2. \A e \in Doubtful : e \in Doubtful'
    BY <1>1, DoubtStays DEF Plain
  <2>3. \A e \in group'.entries : e \in Doubtful'
    BY TypeKeeps, DoubtNext
  <2> QED
    BY <2>1, <2>2, <2>3
<1>8. Ids(Doubtful') \cup Ids(Contents) = Ids(Doubtful) \cup Ids(group'.entries) \cup Ids(Contents)
  BY <1>7 DEF Ids
<1>9. Ids(Doubtful') \ Ids(Contents) = (Ids(Doubtful) \ Ids(Contents)) \cup (issued + 1)..issued'
  <2>1. \A k \in (issued + 1)..issued' : k \notin 1..issued
    BY <1>1
  <2> QED
    BY <1>5, <1>6, <1>8, <2>1
<1>10. phase \in {"open", "closing"} /\ Damaged' = Damaged /\ issued' > issued
  BY <1>1 DEF Up, Damaged
<1> QED
  BY <1>1, <1>3, <1>4, <1>9, <1>10 DEF Store!Begin

(* A group ends well. *)
LEMMA StoreCommits ==
    ASSUME StoreInv, Shown, [Next]_vars, ~ Damaged, ~ Damaged', NEW t \in Thread, Commit(t), op[t].status = "ok"
    PROVE  Store!Commit
<1>1. /\ Up /\ Up' /\ op[t].pc = "commit" /\ group' = NoGroup
      /\ \A e \in group.entries : e.seq <= lastSeq' 
      /\ UNCHANGED <<phase, issued, mem, memtab>>
  BY CommitFacts DEF Up
<1>2. /\ Contents \subseteq Contents' /\ Contents' \subseteq Contents \cup group.entries
  BY <1>1, VisibleIn, VisibleKept, VisibleFrom
<1>3. group.entries \subseteq Contents' /\ group.entries \subseteq Doubtful
  <2>1. group.entries \subseteq memtab[mem]
    BY <1>1, Parts DEF StageInv
  <2> QED
    BY <1>1, <2>1, VisibleIn, Parts, DoubtNow
<1>4. Doubtful' \cup Contents' = Doubtful \cup Contents'
  <2>1. ~ OpenInstalls
    BY <1>1, OpenFacts DEF Up
  <2>2. \A e \in Doubtful' : e \in Doubtful \cup Contents
    BY <1>1, <2>1, DoubtFrom, VisibleIn DEF NoGroup
  <2>3. \A e \in Doubtful : e \in Doubtful' \cup Contents'
    BY <1>3, DoubtStays DEF Plain
  <2> QED
    BY <1>2, <2>2, <2>3
<1>5. /\ Ids(Contents) \subseteq Ids(Contents') /\ Ids(Contents') \subseteq Ids(Contents) \cup Ids(Doubtful)
      /\ Ids(Doubtful') \cup Ids(Contents') = Ids(Doubtful) \cup Ids(Contents')
  BY <1>2, <1>3, <1>4 DEF Ids
<1>6. Ids(Durable) \cap Ids(Contents) \subseteq Ids(Durable') \cap Ids(Contents')
  BY <1>2, IdsKept
<1>7. phase \in {"open", "closing"} /\ Damaged' = Damaged
  BY <1>1 DEF Up, Damaged
<1> QED
  BY <1>1, <1>5, <1>6, <1>7 DEF Store!Commit

(* A close or a crash. *)
LEMMA StoreStops ==
    ASSUME StoreInv, Shown, [Next]_vars, ~ Damaged, ~ Damaged', Down \/ CrashMachine
    PROVE  Store!Stop
<1>1. /\ Durable \subseteq Contents' /\ Contents' \subseteq Doubtful \cup Contents
      /\ group' = NoGroup /\ ~ Up'
  BY EndContents
<1>2. Doubtful' \subseteq Doubtful \cup Contents
  BY <1>1, DoubtFrom, VisibleIn, OpenFacts DEF NoGroup, Up
<1>3. /\ Ids(Contents') \subseteq Ids(Doubtful) \cup Ids(Contents)
      /\ Ids(Doubtful') \subseteq Ids(Doubtful) \cup Ids(Contents)
  BY <1>1, <1>2 DEF Ids
<1>4. Ids(Durable) \cap Ids(Contents) \subseteq Ids(Durable') \cap Ids(Contents')
  BY <1>1, IdsKept
<1>5. ~ (phase' \in {"open", "closing"}) /\ Damaged' = Damaged /\ UNCHANGED issued
  BY <1>1 DEF Up, Damaged, Down, CrashMachine, promises
<1> QED
  BY <1>3, <1>4, <1>5 DEF Store!Stop

(* An open: what was in doubt is among the contents, or gone. *)
LEMMA StoreOpens ==
    ASSUME StoreInv, Shown, [Next]_vars, ~ Damaged, ~ Damaged', OpenInstalls
    PROVE  Store!Open
<1>1. /\ phase = "recovering" /\ phase' = "open" /\ Up' /\ group' = NoGroup /\ UNCHANGED <<lastSeq, issued>>
      /\ DOMAIN manifest' = {1} /\ manifest'[1].files = version' /\ Shrunk(tables, tables')
      /\ DOMAIN logs' = {recovery.log} /\ logs'[recovery.log] = <<>>
      /\ \A e \in Stored(Files(version')) : e.seq <= lastSeq
  BY OpenFacts, Parts DEF Up, RestInv, promises
<1>2. Contents' = Contents
  BY OpenFinds
<1>3. ASSUME NEW e \in Doubtful'
      PROVE  e \in Contents'
  <2>1. InState(1, TRUE, e)'
    BY <1>1, TypeKeeps, DoubtNext DEF NoGroup
  <2>2. e \in Stored(Files(version))'
    BY <1>1, <2>1, LoggedEmpty DEF InState, InLogs, Reach
  <2>3. \A F : F = Files(version') => e \in Stored(F)'
    BY <2>2
  <2>4. e \in Stored(Files(version'))
    BY <1>1, <2>3, StoredShrunk
  <2> QED
    BY <1>1, <2>2, <2>4, VisibleIn
<1>4. Ids(Durable) \cap Ids(Contents) \subseteq Ids(Durable') \cap Ids(Contents')
  BY <1>2, IdsKept
<1>5. Ids(Doubtful') \subseteq Ids(Contents')
  BY <1>3 DEF Ids
<1>6. ~ (phase \in {"open", "closing"}) /\ phase' \in {"open", "closing"} /\ Damaged' = Damaged
  BY <1>1 DEF Damaged
<1> QED
  BY <1>1, <1>2, <1>4, <1>5, <1>6 DEF Store!Open

(* Every step of DBImpl is a step of the durable store, or changes nothing *)
(* of it.                                                                  *)
LEMMA StoreSteps ==
    StoreInv /\ StoreInv' /\ Shown /\ Shown' /\ [Next]_vars => Store!Next
<1> SUFFICES ASSUME StoreInv, StoreInv', Shown, Shown', [Next]_vars
             PROVE  Store!Next
  OBVIOUS
<1>1. CASE Damaged \/ Damaged'
  <2>1. EntryInv' /\ Contents' \subseteq Known'
    BY DEF StoreInv, Shown
  <2>2. Ids(Contents') \subseteq 1..issued'
    BY <2>1 DEF EntryInv, Ids
  <2> QED
    BY <1>1, <2>2, IssuedGrows DEF Store!Next, Store!Damage
<1>2. CASE ~ Damaged /\ ~ Damaged'
  <2>1. CASE Down \/ CrashMachine
    BY <1>2, <2>1, StoreStops DEF Store!Next
  <2>2. CASE OpenInstalls
    BY <1>2, <2>2, StoreOpens DEF Store!Next
  <2>3. CASE \E t \in Thread : RoomFound(t) \/ (Commit(t) /\ op[t].status = "ok")
    BY <1>2, <2>3, StoreBegins, StoreCommits DEF Store!Next
  <2>4. Down \/ CrashMachine \/ OpenInstalls \/ (Up <=> Up')
    BY UpSteps
  <2> QED
    BY <1>2, <2>1, <2>2, <2>3, <2>4, StorePersists DEF Store!Next
<1> QED
  BY <1>1, <1>2

(* DBImpl is a durable store: whatever the background thread, the deletion *)
(* of files and the recovery do, its callers see entries that come in      *)
(* whole groups, stay while the database is open, survive a close, and     *)
(* survive a crash of the machine once they are durable.                   *)
THEOREM DatabaseIsDurableStore == Spec => ImplementsDurableStore
<1>1. Init => StoreInv
  BY InitStore
<1>2. StoreInv /\ [Next]_vars => StoreInv'
  BY StoreKeeps
<1>3. StoreInv => Shown
  BY ShownKnown
<1>4. Init /\ StoreInv /\ Shown => Store!Init
  BY StoreInit
<1>5. StoreInv /\ StoreInv' /\ Shown /\ Shown' /\ [Next]_vars => [Store!Next]_(Store!vars)
  BY StoreSteps
<1> QED
  BY <1>1, <1>2, <1>3, <1>4, <1>5, PTL DEF Spec, ImplementsDurableStore, Store!Spec
=============================================================================
