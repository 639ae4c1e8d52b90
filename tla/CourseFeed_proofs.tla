-------------------------- MODULE CourseFeed_proofs --------------------------
(***************************************************************************)
(* Proofs about CourseFeed, for every set of courses, any number of main   *)
(* screens and a queue of any length, and about the image views of its     *)
(* cells.                                                                  *)
(***************************************************************************)
EXTENDS CourseFeed, RemoteImage, SequenceTheorems, FiniteSetTheorems, TLAPS

\* The block an observer gets.
Event(v, S) == [kind |-> "value", view |-> v, snapshot |-> S]

LEMMA InitInv == Init => ScreenInv
<1> SUFFICES ASSUME Init PROVE ScreenInv
  OBVIOUS
<1>1. DOMAIN queue = {} /\ Len(cells) = 0 /\ Len(courses) = 0
  BY DEF Init
<1>2. TypeOK
  <2>1. queue \in Seq(Block) /\ courses \in Seq(Readable) /\ cells \in Seq(Readable \cup {NoCourse})
    BY DEF Init
  <2>2. views \in Nat /\ observing \in 0 .. views
    BY DEF Init
  <2>3. server \subseteq Courses /\ pending \subseteq Courses
    BY DEF Init
  <2>4. /\ laidOut \in BOOLEAN /\ detail \in Readable \cup {NoCourse}
        /\ stopped \in {"no", "cast", "index"} /\ takenBack \subseteq Courses
    BY DEF Init
  <2> QED BY <2>1, <2>2, <2>3, <2>4 DEF TypeOK
<1>3. Snapshot = {} /\ IsFiniteSet(Snapshot) /\ Cardinality(Snapshot) = 0
  BY FS_EmptySet DEF Init, Snapshot
<1>4. Finite /\ LastEvent /\ Growing
  BY <1>1, <1>3 DEF Finite, LastEvent, Growing
<1>5. FrontShowsFeed /\ StopsOnlyAfterTakeBack
  BY DEF Init, FrontShowsFeed, Catching, StopsOnlyAfterTakeBack
<1> QED BY <1>2, <1>4, <1>5 DEF ScreenInv

-----------------------------------------------------------------------------
\* A change puts an event for each observer behind the blocks that are queued.
LEMMA Raising ==
    ASSUME TypeOK, NEW S, S \subseteq Courses, Raise(S), NEW N, N = Len(queue)
    PROVE  /\ N \in Nat /\ observing \in Nat /\ DOMAIN queue = 1 .. N
           /\ queue' \in Seq(Block) /\ DOMAIN queue' = 1 .. N + observing
           /\ \A i \in DOMAIN queue : i \in DOMAIN queue' /\ queue'[i] = queue[i]
           /\ \A i \in DOMAIN queue' : i \notin DOMAIN queue =>
                 i - N \in 1 .. observing /\ queue'[i] = Event(i - N, S) /\ i > N
<1> DEFINE new == [v \in 1 .. observing |-> [kind |-> "value", view |-> v, snapshot |-> S]]
<1>1. queue \in Seq(Block) /\ N \in Nat /\ DOMAIN queue = 1 .. N /\ observing \in Nat
  BY DEF TypeOK
<1>2. new \in Seq(Block) /\ Len(new) = observing /\ \A v \in 1 .. observing : new[v] = Event(v, S)
  <2>1. \A v \in 1 .. observing : Event(v, S) \in Block
    BY <1>1 DEF Block, Event
  <2>2. new \in [1 .. observing -> Block]
    BY <2>1 DEF Event
  <2>3. new \in Seq(Block)
    BY <1>1, <2>2, SeqDef
  <2> QED BY <1>1, <2>2, <2>3 DEF Event
<1>3. queue' = queue \o new
  BY DEF Raise
<1> HIDE DEF new
<1>4. /\ queue' \in Seq(Block) /\ Len(queue') = N + observing
      /\ \A i \in 1 .. N + observing : queue'[i] = IF i <= N THEN queue[i] ELSE new[i - N]
  BY <1>1, <1>2, <1>3, ConcatProperties
<1>5. DOMAIN queue' = 1 .. N + observing
  BY <1>1, <1>4
<1>6. \A i \in DOMAIN queue : i \in DOMAIN queue' /\ queue'[i] = queue[i]
  BY <1>1, <1>4, <1>5
<1>7. \A i \in DOMAIN queue' : i \notin DOMAIN queue =>
          /\ i - N \in 1 .. observing /\ queue'[i] = Event(i - N, S)
          /\ i > N
  BY <1>1, <1>2, <1>4, <1>5
<1> QED BY <1>1, <1>4, <1>5, <1>6, <1>7

\* A change is the last event of every observer.
LEMMA Raised ==
    ASSUME ScreenInv, NEW S, S \subseteq Courses, IsFiniteSet(S), Raise(S), IsFiniteSet(Snapshot'),
           takenBack' # {} \/ (takenBack' = takenBack /\ Snapshot' = S /\ Snapshot \subseteq S),
           UNCHANGED <<courses, views, observing, cells>>
    PROVE  /\ queue' \in Seq(Block)
           /\ Finite' /\ LastEvent' /\ (takenBack' # {} \/ Growing')
           /\ Catching => Catching' \/ laidOut' # laidOut
<1> DEFINE N == Len(queue)
<1>1. /\ N \in Nat /\ DOMAIN queue = 1 .. N /\ observing \in Nat
      /\ queue' \in Seq(Block) /\ DOMAIN queue' = 1 .. N + observing
      /\ \A i \in DOMAIN queue : i \in DOMAIN queue' /\ queue'[i] = queue[i]
      /\ \A i \in DOMAIN queue' : i \notin DOMAIN queue =>
            i - N \in 1 .. observing /\ queue'[i] = Event(i - N, S) /\ i > N
  BY Raising DEF ScreenInv
<1> HIDE DEF N
<1>4. queue' \in Seq(Block)
  BY <1>1
<1>5. DOMAIN queue' = 1 .. N + observing
  BY <1>1
<1>6. \A i \in DOMAIN queue : i \in DOMAIN queue' /\ queue'[i] = queue[i]
  BY <1>1
<1>7. \A i \in DOMAIN queue' : i \notin DOMAIN queue =>
          i - N \in 1 .. observing /\ queue'[i] = Event(i - N, S) /\ i > N
  BY <1>1
<1>8. ASSUME NEW i \in DOMAIN queue', IsEvent(i)'
      PROVE  IsEvent(i) \/ queue'[i].snapshot = S
  BY <1>6, <1>7, <1>8 DEF IsEvent, Event
<1>9. Finite'
  BY <1>6, <1>8 DEF Finite, ScreenInv, IsEvent
<1>10. LastEvent'
  <2> SUFFICES ASSUME NEW i \in DOMAIN queue', IsEvent(i)'
               PROVE  \E j \in DOMAIN queue' : IsEvent(j)' /\ j >= i /\ queue'[j].view = observing
    BY DEF LastEvent
  <2>1. CASE observing = 0
    <3>1. i \in DOMAIN queue /\ IsEvent(i)
      BY <1>6, <1>7, <2>1 DEF IsEvent
    <3>2. PICK j \in DOMAIN queue : IsEvent(j) /\ j >= i /\ queue[j].view = observing
      BY <3>1 DEF ScreenInv, LastEvent
    <3> QED BY <1>6, <3>2 DEF IsEvent
  <2>2. CASE observing # 0
    <3>1. N + observing \in DOMAIN queue' /\ N + observing \notin DOMAIN queue
          /\ (N + observing) - N = observing /\ N + observing >= i
      BY <1>1, <1>5, <2>2
    <3>2. queue'[N + observing] = Event(observing, S)
      BY <1>7, <3>1
    <3> QED BY <3>1, <3>2 DEF IsEvent, Event
  <2> QED BY <2>1, <2>2
<1>11. takenBack' # {} \/ Growing'
  <2> SUFFICES ASSUME takenBack' = {} PROVE Growing'
    OBVIOUS
  <2>1. Growing /\ Snapshot \subseteq S /\ Snapshot' = S
    BY DEF ScreenInv
  <2>2. /\ Len(courses) \in Nat
        /\ Cardinality(S) \in Nat /\ Cardinality(Snapshot) \in Nat
        /\ Cardinality(Snapshot) <= Cardinality(S)
    BY <2>1, FS_Subset, FS_CardinalityType DEF ScreenInv, TypeOK, Finite
  <2>3. Len(courses) <= Cardinality(S)
    BY <2>1, <2>2 DEF Growing
  <2>4. ASSUME NEW i \in DOMAIN queue', IsEvent(i)'
        PROVE  /\ Len(courses) <= Cardinality(queue'[i].snapshot)
               /\ queue'[i].snapshot \subseteq S
               /\ \A j \in DOMAIN queue' : IsEvent(j)' /\ i < j =>
                     queue'[i].snapshot \subseteq queue'[j].snapshot
    <3>1. CASE i \in DOMAIN queue
      <4>1. IsEvent(i) /\ queue'[i] = queue[i]
        BY <1>6, <2>4, <3>1 DEF IsEvent
      <4>2. Len(courses) <= Cardinality(queue[i].snapshot) /\ queue[i].snapshot \subseteq S
        BY <2>1, <3>1, <4>1 DEF Growing
      <4>3. ASSUME NEW j \in DOMAIN queue', IsEvent(j)', i < j
            PROVE  queue'[i].snapshot \subseteq queue'[j].snapshot
        <5>1. CASE j \in DOMAIN queue
          <6>1. IsEvent(j) /\ queue'[j] = queue[j]
            BY <1>6, <4>3, <5>1 DEF IsEvent
          <6> QED BY <2>1, <3>1, <4>1, <4>3, <5>1, <6>1 DEF Growing
        <5>2. CASE j \notin DOMAIN queue
          <6>1. queue'[j].snapshot = S
            BY <1>7, <5>2 DEF Event
          <6> QED BY <4>1, <4>2, <6>1
        <5> QED BY <5>1, <5>2
      <4> QED BY <4>1, <4>2, <4>3
    <3>2. CASE i \notin DOMAIN queue
      <4>1. queue'[i].snapshot = S /\ i > N
        BY <1>7, <3>2 DEF Event
      <4>2. ASSUME NEW j \in DOMAIN queue', i < j
            PROVE  queue'[j].snapshot = S
        <5>1. j \notin DOMAIN queue
          BY <1>1, <1>5, <4>1, <4>2
        <5> QED BY <1>7, <5>1 DEF Event
      <4> QED BY <2>3, <4>1, <4>2
    <3> QED BY <3>1, <3>2
  <2> QED BY <2>1, <2>3, <2>4 DEF Growing
<1>12. Catching => Catching' \/ laidOut' # laidOut
  BY <1>6 DEF Catching
<1> QED BY <1>4, <1>9, <1>10, <1>11, <1>12

\* What a queue holds without its first block, then with one more.
LEMMA Shift ==
    ASSUME NEW q \in Seq(Block), q # <<>>, NEW r \in Block
    PROVE  /\ Len(q) \in Nat \ {0} /\ DOMAIN q = 1 .. Len(q)
           /\ Head(q) = q[1] /\ 1 \in DOMAIN q /\ q[1] \in Block
           /\ Tail(q) \in Seq(Block) /\ DOMAIN Tail(q) = 1 .. Len(q) - 1
           /\ \A i \in 1 .. Len(q) - 1 : Tail(q)[i] = q[i + 1]
           /\ Append(Tail(q), r) \in Seq(Block) /\ DOMAIN Append(Tail(q), r) = 1 .. Len(q)
           /\ \A i \in 1 .. Len(q) - 1 : Append(Tail(q), r)[i] = q[i + 1]
           /\ Append(Tail(q), r)[Len(q)] = r
<1>1. Len(q) \in Nat \ {0} /\ DOMAIN q = 1 .. Len(q)
  BY EmptySeq
<1>2. Head(q) = q[1] /\ 1 \in DOMAIN q /\ q[1] \in Block
  BY <1>1
<1> DEFINE T == Tail(q)
<1>3. /\ T \in Seq(Block) /\ Len(T) = Len(q) - 1
      /\ \A i \in 1 .. Len(q) - 1 : T[i] = q[i + 1]
  BY <1>1, HeadTailProperties
<1> HIDE DEF T
<1>4. DOMAIN T = 1 .. Len(q) - 1
  BY <1>1, <1>3
<1> DEFINE A == Append(T, r)
<1>5. /\ A \in Seq(Block) /\ Len(A) = Len(T) + 1
      /\ \A i \in 1 .. Len(T) : A[i] = T[i]
      /\ A[Len(T) + 1] = r
  BY <1>3
<1> HIDE DEF A
<1>6. Len(A) = Len(q) /\ Len(T) + 1 = Len(q) /\ DOMAIN A = 1 .. Len(A)
  BY <1>1, <1>3, <1>5
<1>7. A \in Seq(Block) /\ DOMAIN A = 1 .. Len(q) /\ A[Len(q)] = r
  BY <1>5, <1>6
<1>8. \A i \in 1 .. Len(q) - 1 : A[i] = q[i + 1]
  BY <1>3, <1>5
<1> QED BY <1>1, <1>2, <1>3, <1>4, <1>7, <1>8 DEF T, A

LEMMA LastOf ==
    ASSUME NEW n \in Nat \ {0}
    PROVE  /\ \A i \in 1 .. n : i \in 1 .. n - 1 \/ i = n
           /\ \A i \in 1 .. n - 1 : i \in 1 .. n
OBVIOUS

\* The main queue takes its first block, and may get the reload of a view.
LEMMA Taken ==
    ASSUME TypeOK, queue # <<>>,
           \/ queue' = Tail(queue)
           \/ \E r \in Block : r.kind = "reload" /\ queue' = Append(Tail(queue), r)
    PROVE  /\ Len(queue) \in Nat \ {0} /\ DOMAIN queue = 1 .. Len(queue)
           /\ Head(queue) = queue[1] /\ 1 \in DOMAIN queue /\ Head(queue) \in Block
           /\ queue' \in Seq(Block)
           /\ \A i \in 1 .. Len(queue) - 1 : i \in DOMAIN queue' /\ queue'[i] = queue[i + 1]
           /\ \A i \in DOMAIN queue' : IsEvent(i)' => i \in 1 .. Len(queue) - 1
<1>1. queue \in Seq(Block)
  BY DEF TypeOK
<1>2. [kind |-> "reload", view |-> 0] \in Block
  BY DEF Block
<1>3. /\ Len(queue) \in Nat \ {0} /\ DOMAIN queue = 1 .. Len(queue)
      /\ Head(queue) = queue[1] /\ 1 \in DOMAIN queue /\ queue[1] \in Block
  BY <1>1, <1>2, Shift
<1>4. CASE queue' = Tail(queue)
  <2>1. /\ queue' \in Seq(Block) /\ DOMAIN queue' = 1 .. Len(queue) - 1
        /\ \A i \in 1 .. Len(queue) - 1 : queue'[i] = queue[i + 1]
    BY <1>1, <1>2, <1>4, Shift
  <2> QED BY <1>3, <2>1
<1>5. ASSUME NEW r \in Block, r.kind = "reload", queue' = Append(Tail(queue), r)
      PROVE  /\ queue' \in Seq(Block)
             /\ \A i \in 1 .. Len(queue) - 1 : i \in DOMAIN queue' /\ queue'[i] = queue[i + 1]
             /\ \A i \in DOMAIN queue' : IsEvent(i)' => i \in 1 .. Len(queue) - 1
  <2>1. /\ queue' \in Seq(Block) /\ DOMAIN queue' = 1 .. Len(queue)
        /\ \A i \in 1 .. Len(queue) - 1 : queue'[i] = queue[i + 1]
        /\ queue'[Len(queue)] = r
    BY <1>1, <1>5, Shift
  <2>2. /\ \A i \in 1 .. Len(queue) : i \in 1 .. Len(queue) - 1 \/ i = Len(queue)
        /\ \A i \in 1 .. Len(queue) - 1 : i \in 1 .. Len(queue)
    BY <1>3, LastOf, Zenon
  <2> QED BY <1>5, <2>1, <2>2 DEF IsEvent
<1> QED BY <1>3, <1>4, <1>5

\* What is left are later events.
LEMMA Left ==
    ASSUME ScreenInv, NEW N \in Nat \ {0}, DOMAIN queue = 1 .. N,
           \A i \in 1 .. N - 1 : i \in DOMAIN queue' /\ queue'[i] = queue[i + 1],
           \A i \in DOMAIN queue' : IsEvent(i)' => i \in 1 .. N - 1,
           UNCHANGED <<server, pending, observing, takenBack>>,
           Growing => Len(cells') <= Len(courses'),
           Len(courses') <= Len(courses) \/
               (IsEvent(1) /\ Len(courses') <= Cardinality(queue[1].snapshot)),
           Len(courses') \in Nat
    PROVE  Finite' /\ LastEvent' /\ (takenBack' # {} \/ Growing')
<1>1. TypeOK /\ Finite /\ LastEvent
  BY DEF ScreenInv
<1>2. \A i \in 1 .. N - 1 : i + 1 \in DOMAIN queue /\ i + 1 > 1
  OBVIOUS
<1>3. ASSUME NEW i \in DOMAIN queue', IsEvent(i)'
      PROVE  /\ i \in 1 .. N - 1 /\ i + 1 \in DOMAIN queue /\ i + 1 > 1
             /\ queue'[i] = queue[i + 1] /\ IsEvent(i + 1)
  <2>1. i \in 1 .. N - 1 /\ queue'[i] = queue[i + 1]
    BY <1>3
  <2>2. i + 1 \in DOMAIN queue /\ i + 1 > 1
    BY <1>2, <2>1
  <2> QED BY <1>3, <2>1, <2>2 DEF IsEvent
<1>4. Snapshot' = Snapshot
  BY DEF Snapshot
<1>5. Finite'
  BY <1>1, <1>3, <1>4 DEF Finite
<1>6. LastEvent'
  <2> SUFFICES ASSUME NEW i \in DOMAIN queue', IsEvent(i)'
               PROVE  \E j \in DOMAIN queue' : IsEvent(j)' /\ j >= i /\ queue'[j].view = observing
    BY DEF LastEvent
  <2>1. PICK j \in DOMAIN queue : IsEvent(j) /\ j >= i + 1 /\ queue[j].view = observing
    BY <1>1, <1>3 DEF LastEvent
  <2>2. j - 1 \in 1 .. N - 1 /\ (j - 1) + 1 = j /\ j - 1 >= i
    BY <1>2, <1>3, <2>1
  <2>3. j - 1 \in DOMAIN queue' /\ queue'[j - 1] = queue[j]
    BY <1>2, <2>2
  <2> QED BY <2>1, <2>2, <2>3 DEF IsEvent
<1>7. takenBack' # {} \/ Growing'
  <2> SUFFICES ASSUME Growing PROVE Growing'
    BY DEF ScreenInv
  <2>1. Cardinality(Snapshot) \in Nat
    BY <1>1, FS_CardinalityType DEF Finite
  <2>2. Len(courses) \in Nat
    BY <1>1 DEF TypeOK
  <2>3. ASSUME NEW S, IsFiniteSet(S), Len(courses) <= Cardinality(S),
               IsEvent(1) => queue[1].snapshot \subseteq S
        PROVE  Len(courses') <= Cardinality(S)
    <3>1. Cardinality(S) \in Nat
      BY <2>3, FS_CardinalityType
    <3>2. CASE Len(courses') <= Len(courses)
      BY <2>2, <2>3, <3>1, <3>2
    <3>3. CASE IsEvent(1) /\ Len(courses') <= Cardinality(queue[1].snapshot)
      <4>1. /\ Cardinality(queue[1].snapshot) <= Cardinality(S)
            /\ Cardinality(queue[1].snapshot) \in Nat
        BY <2>3, <3>3, FS_Subset, FS_CardinalityType
      <4> QED BY <3>1, <3>3, <4>1
    <3> QED BY <3>2, <3>3
  <2>4. Len(courses') <= Cardinality(Snapshot)
    BY <1>1, <1>2, <2>3 DEF Growing, Finite, IsEvent
  <2>5. ASSUME NEW i \in DOMAIN queue', IsEvent(i)'
        PROVE  /\ Len(courses') <= Cardinality(queue'[i].snapshot)
               /\ queue'[i].snapshot \subseteq Snapshot
               /\ \A j \in DOMAIN queue' : IsEvent(j)' /\ i < j =>
                     queue'[i].snapshot \subseteq queue'[j].snapshot
    <3>1. /\ i \in 1 .. N - 1 /\ i + 1 \in DOMAIN queue /\ i + 1 > 1
          /\ queue'[i] = queue[i + 1] /\ IsEvent(i + 1)
      BY <1>3, <2>5
    <3>2. /\ Len(courses) <= Cardinality(queue[i + 1].snapshot)
          /\ queue[i + 1].snapshot \subseteq Snapshot
          /\ IsFiniteSet(queue[i + 1].snapshot)
      BY <1>1, <3>1 DEF Growing, Finite
    <3>3. IsEvent(1) => queue[1].snapshot \subseteq queue[i + 1].snapshot
      BY <3>1 DEF Growing, IsEvent
    <3>4. ASSUME NEW j \in DOMAIN queue', IsEvent(j)', i < j
          PROVE  queue'[i].snapshot \subseteq queue'[j].snapshot
      <4>1. /\ j \in 1 .. N - 1 /\ j + 1 \in DOMAIN queue
            /\ queue'[j] = queue[j + 1] /\ IsEvent(j + 1)
        BY <1>3, <3>4
      <4>2. i + 1 < j + 1
        BY <3>1, <3>4, <4>1
      <4> QED BY <3>1, <4>1, <4>2 DEF Growing
    <3> QED BY <2>3, <3>1, <3>2, <3>3, <3>4
  <2> QED BY <1>4, <2>4, <2>5 DEF Growing
<1> QED BY <1>5, <1>6, <1>7

\* Any order of a finite set of courses is a sequence of all of them.
LEMMA OrderOf ==
    ASSUME NEW S, IsFiniteSet(S), NEW s \in Orders(S)
    PROVE  s \in Seq(S) /\ Len(s) = Cardinality(S) /\ Cardinality(S) \in Nat
<1>1. Cardinality(S) \in Nat
  BY FS_CardinalityType
<1>2. s \in [1 .. Cardinality(S) -> S]
  BY DEF Orders
<1>3. s \in Seq(S)
  BY <1>1, <1>2, SeqDef
<1> QED BY <1>1, <1>2, <1>3

\* An order of a set has all of it.
LEMMA OrderShowsAll ==
    ASSUME NEW S, IsFiniteSet(S), NEW s \in Orders(S)
    PROVE  S \subseteq {s[i] : i \in DOMAIN s}
<1> DEFINE n == Cardinality(S)
           D == 1 .. n
<1>1. n \in Nat
  BY FS_CardinalityType
<1>2. s \in [D -> S] /\ \A i, j \in DOMAIN s : s[i] = s[j] => i = j
  BY DEF Orders
<1>3. s \in Injection(D, S)
  BY <1>2 DEF Injection, IsInjective
<1>4. Cardinality(D) = n
  BY <1>1, FS_Interval
<1> HIDE DEF D
<1>5. s \in Surjection(D, S)
  BY <1>3, <1>4, FS_Injection
<1> QED BY <1>2, <1>5 DEF Surjection

-----------------------------------------------------------------------------
\* A change of the Database, by others or by this app.
LEMMA ChangeInv ==
    ASSUME ScreenInv, NEW S, S \subseteq Courses, IsFiniteSet(S), Raise(S), IsFiniteSet(Snapshot'),
           server' \subseteq Courses, pending' \subseteq Courses, takenBack' \subseteq Courses,
           takenBack' # {} \/ (takenBack' = takenBack /\ Snapshot' = S /\ Snapshot \subseteq S),
           UNCHANGED <<courses, views, observing, screen, stopped>>
    PROVE  ScreenInv'
<1>1. UNCHANGED <<courses, views, observing, laidOut, cells, detail, stopped>>
  BY DEF screen
<1>2. /\ queue' \in Seq(Block)
      /\ Finite' /\ LastEvent' /\ (takenBack' # {} \/ Growing')
      /\ Catching => Catching'
  BY <1>1, Raised
<1>3. TypeOK'
  BY <1>1, <1>2 DEF ScreenInv, TypeOK
<1>4. FrontShowsFeed'
  BY <1>1, <1>2 DEF ScreenInv, FrontShowsFeed, Running
<1>5. StopsOnlyAfterTakeBack'
  BY <1>1 DEF ScreenInv, StopsOnlyAfterTakeBack
<1> QED BY <1>2, <1>3, <1>4, <1>5 DEF ScreenInv

LEMMA OthersAddInv == ASSUME ScreenInv, NEW c \in Courses, OthersAdd(c) PROVE ScreenInv'
<1> DEFINE S == Snapshot \cup {c}
<1>1. Snapshot \subseteq Courses /\ IsFiniteSet(Snapshot) /\ takenBack \subseteq Courses
  BY DEF ScreenInv, TypeOK, Finite, Snapshot
<1>2. S \subseteq Courses /\ IsFiniteSet(S) /\ Snapshot \subseteq S
  BY <1>1, FS_AddElement
<1>3. Raise(S) /\ Snapshot' = S
  BY DEF OthersAdd, Snapshot
<1>4. /\ server' \subseteq Courses /\ pending' \subseteq Courses /\ takenBack' = takenBack
      /\ UNCHANGED <<courses, views, observing, screen, stopped>>
  BY DEF OthersAdd, ScreenInv, TypeOK
<1> HIDE DEF S
<1> QED BY <1>1, <1>2, <1>3, <1>4, ChangeInv

LEMMA WriteInv == ASSUME ScreenInv, NEW c \in Courses, Write(c) PROVE ScreenInv'
<1> DEFINE S == Snapshot \cup {c}
<1>1. Snapshot \subseteq Courses /\ IsFiniteSet(Snapshot) /\ takenBack \subseteq Courses
  BY DEF ScreenInv, TypeOK, Finite, Snapshot
<1>2. S \subseteq Courses /\ IsFiniteSet(S) /\ Snapshot \subseteq S
  BY <1>1, FS_AddElement
<1>3. Raise(S) /\ Snapshot' = S
  BY DEF Write, Snapshot
<1>4. /\ server' \subseteq Courses /\ pending' \subseteq Courses /\ takenBack' = takenBack
      /\ UNCHANGED <<courses, views, observing, screen, stopped>>
  BY DEF Write, ScreenInv, TypeOK
<1> HIDE DEF S
<1> QED BY <1>1, <1>2, <1>3, <1>4, ChangeInv

LEMMA WriteRefusedInv == ASSUME ScreenInv, NEW c \in Courses, WriteRefused(c) PROVE ScreenInv'
<1>1. Snapshot \subseteq Courses /\ IsFiniteSet(Snapshot)
  BY DEF ScreenInv, TypeOK, Finite, Snapshot
<1>2. IsFiniteSet(Snapshot \ {c}) /\ IsFiniteSet(Snapshot')
  <2>1. Snapshot' \in SUBSET Snapshot /\ Snapshot \ {c} \in SUBSET Snapshot
    BY DEF WriteRefused, Snapshot
  <2> QED BY <1>1, <2>1, FS_Subset
<1>3. /\ Raise(Snapshot \ {c}) /\ Snapshot \ {c} \subseteq Courses
      /\ server' \subseteq Courses /\ pending' \subseteq Courses /\ takenBack' = takenBack \cup {c}
      /\ UNCHANGED <<courses, views, observing, screen, stopped>>
  BY <1>1 DEF WriteRefused, ScreenInv, TypeOK
<1>4. takenBack' \subseteq Courses /\ takenBack' # {}
  BY <1>3 DEF ScreenInv, TypeOK
<1> QED BY <1>2, <1>3, <1>4, ChangeInv

LEMMA WriteAppliedInv == ASSUME ScreenInv, NEW c \in Courses, WriteApplied(c) PROVE ScreenInv'
<1>1. /\ Snapshot' = Snapshot /\ server' \subseteq Courses /\ pending' \subseteq Courses
      /\ UNCHANGED <<courses, views, observing, queue, laidOut, cells, detail, stopped, takenBack>>
  BY DEF WriteApplied, Snapshot, ScreenInv, TypeOK, screen
<1>2. TypeOK'
  BY <1>1 DEF ScreenInv, TypeOK
<1>3. Finite' /\ LastEvent' /\ (takenBack' # {} \/ Growing')
  BY <1>1 DEF ScreenInv, Finite, LastEvent, Growing, IsEvent
<1>4. FrontShowsFeed' /\ StopsOnlyAfterTakeBack'
  BY <1>1 DEF ScreenInv, FrontShowsFeed, Catching, Running, StopsOnlyAfterTakeBack
<1> QED BY <1>2, <1>3, <1>4 DEF ScreenInv

-----------------------------------------------------------------------------
LEMMA NewViewInv == ASSUME ScreenInv, NewView PROVE ScreenInv'
<1>1. /\ views' = views + 1 /\ laidOut' = FALSE /\ cells' = <<>> /\ detail' = NoCourse
      /\ UNCHANGED <<server, pending, courses, observing, queue, stopped, takenBack>>
  BY DEF NewView, database
<1>2. cells' \in Seq(Readable \cup {NoCourse}) /\ Len(cells') = 0
  BY <1>1
<1>3. TypeOK'
  <2>1. views \in Nat /\ observing \in 0 .. views
    BY DEF ScreenInv, TypeOK
  <2>2. views' \in Nat /\ observing' \in 0 .. views'
    BY <1>1, <2>1
  <2> QED BY <1>1, <1>2, <2>2 DEF ScreenInv, TypeOK
<1>4. Snapshot' = Snapshot
  BY <1>1 DEF Snapshot
<1>5. Finite' /\ LastEvent'
  BY <1>1, <1>4 DEF ScreenInv, Finite, LastEvent, IsEvent
<1>6. takenBack' # {} \/ Growing'
  <2>1. Len(courses) \in Nat
    BY DEF ScreenInv, TypeOK
  <2> QED BY <1>1, <1>2, <1>4, <2>1 DEF ScreenInv, Growing, IsEvent
<1>7. FrontShowsFeed' /\ StopsOnlyAfterTakeBack'
  BY <1>1 DEF ScreenInv, FrontShowsFeed, Catching, StopsOnlyAfterTakeBack
<1> QED BY <1>3, <1>5, <1>6, <1>7 DEF ScreenInv

\* A new observer's first event is the last event of all.
LEMMA ObserveInv == ASSUME ScreenInv, Observe PROVE ScreenInv'
<1> DEFINE e == Event(observing + 1, Snapshot)
<1>1. /\ observing' = observing + 1 /\ observing < views /\ queue' = Append(queue, e)
      /\ UNCHANGED <<server, pending, courses, views, laidOut, cells, detail, stopped, takenBack>>
  BY DEF Observe, database, screen, Event
<1>2. queue \in Seq(Block) /\ observing \in Nat /\ views \in Nat /\ Snapshot \subseteq Courses
  BY DEF ScreenInv, TypeOK, Snapshot
<1>3. /\ e \in Block /\ e.kind = "value" /\ e.view = observing + 1 /\ e.snapshot = Snapshot
  BY <1>2 DEF Event, Block
<1> HIDE DEF e
<1>0. PICK N \in Nat : N = Len(queue)
  BY <1>2
<1>4. /\ DOMAIN queue = 1 .. N
      /\ queue' \in Seq(Block) /\ DOMAIN queue' = 1 .. N + 1
      /\ \A i \in 1 .. N : queue'[i] = queue[i]
      /\ queue'[N + 1] = e
  <2>1. DOMAIN queue = 1 .. N
    BY <1>0, <1>2
  <2>2. /\ queue' \in Seq(Block) /\ Len(queue') = N + 1
        /\ \A i \in 1 .. N : queue'[i] = queue[i]
        /\ queue'[N + 1] = e
    BY <1>0, <1>1, <1>2, <1>3
  <2> QED BY <2>1, <2>2
<1>5. /\ \A i \in DOMAIN queue : i \in DOMAIN queue' /\ queue'[i] = queue[i]
      /\ \A i \in DOMAIN queue' : i \notin DOMAIN queue => i = N + 1
      /\ \A i \in DOMAIN queue' : i <= N + 1
      /\ N + 1 \in DOMAIN queue' /\ N + 1 \notin DOMAIN queue
  BY <1>4
<1>6. IsEvent(N + 1)' /\ queue'[N + 1].snapshot = Snapshot /\ queue'[N + 1].view = observing'
  <2>1. queue'[N + 1] = e /\ N + 1 \in DOMAIN queue'
    BY <1>4, <1>5
  <2> QED BY <1>1, <1>3, <2>1 DEF IsEvent
<1>7. TypeOK'
  <2>1. observing' \in 0 .. views
    BY <1>1, <1>2
  <2> QED BY <1>1, <1>4, <2>1 DEF ScreenInv, TypeOK
<1>8. Snapshot' = Snapshot
  BY <1>1 DEF Snapshot
<1>9. \A i \in DOMAIN queue : IsEvent(i)' => IsEvent(i)
  BY <1>5 DEF IsEvent
<1>10. Finite'
  BY <1>5, <1>6, <1>8, <1>9 DEF ScreenInv, Finite
<1>11. LastEvent'
  <2>1. \A i \in DOMAIN queue' : N + 1 >= i
    BY <1>4
  <2> QED BY <1>5, <1>6, <2>1 DEF LastEvent
<1>12. takenBack' # {} \/ Growing'
  <2> SUFFICES ASSUME Growing PROVE Growing'
    BY <1>1 DEF ScreenInv
  <2>1. ASSUME NEW i \in DOMAIN queue', IsEvent(i)'
        PROVE  /\ Len(courses) <= Cardinality(queue'[i].snapshot)
               /\ queue'[i].snapshot \subseteq Snapshot
               /\ \A j \in DOMAIN queue' : IsEvent(j)' /\ i < j =>
                     queue'[i].snapshot \subseteq queue'[j].snapshot
    <3>1. CASE i \in DOMAIN queue
      <4>1. IsEvent(i) /\ queue'[i] = queue[i]
        BY <1>5, <1>9, <2>1, <3>1
      <4>2. Len(courses) <= Cardinality(queue[i].snapshot) /\ queue[i].snapshot \subseteq Snapshot
        BY <3>1, <4>1 DEF Growing
      <4>3. ASSUME NEW j \in DOMAIN queue', IsEvent(j)', i < j
            PROVE  queue'[i].snapshot \subseteq queue'[j].snapshot
        <5>1. CASE j \in DOMAIN queue
          <6>1. IsEvent(j) /\ queue'[j] = queue[j]
            BY <1>5, <1>9, <4>3, <5>1
          <6> QED BY <3>1, <4>1, <4>3, <5>1, <6>1 DEF Growing
        <5>2. CASE j \notin DOMAIN queue
          BY <1>5, <1>6, <4>1, <4>2, <5>2
        <5> QED BY <5>1, <5>2
      <4> QED BY <4>1, <4>2, <4>3
    <3>2. CASE i \notin DOMAIN queue
      <4>1. i = N + 1
        BY <1>5, <3>2
      <4>2. \A j \in DOMAIN queue' : ~ (i < j)
        BY <1>4, <4>1
      <4> QED BY <1>6, <4>1, <4>2 DEF Growing
    <3> QED BY <3>1, <3>2
  <2> QED BY <1>1, <1>8, <2>1 DEF Growing
<1>13. FrontShowsFeed'
  <2>1. Catching'
    <3>1. CASE observing' < views
      BY <1>1, <3>1 DEF Catching
    <3>2. CASE observing' = views
      BY <1>1, <1>5, <1>6, <3>2 DEF Catching
    <3> QED BY <1>1, <1>2, <3>1, <3>2
  <2> QED BY <2>1 DEF FrontShowsFeed
<1>14. StopsOnlyAfterTakeBack'
  BY <1>1 DEF ScreenInv, StopsOnlyAfterTakeBack
<1> QED BY <1>7, <1>10, <1>11, <1>12, <1>13, <1>14 DEF ScreenInv

\* The shared array changes: the front view has an event or a reload to come.
LEMMA RunValueInv == ASSUME ScreenInv, RunValue PROVE ScreenInv'
<1> DEFINE b == Head(queue)
           r == [kind |-> "reload", view |-> b.view]
<1>1. /\ TypeOK /\ Finite /\ LastEvent
      /\ queue # <<>> /\ b.kind = "value"
      /\ UNCHANGED <<server, pending, views, observing, laidOut, cells, detail, takenBack>>
  BY DEF ScreenInv, RunValue, database, screen
<1>2. /\ queue # <<>> => b \in Block
      /\ \/ /\ stopped' = "cast" /\ queue' = Tail(queue) /\ courses' = courses
         \/ /\ b.snapshot \cap Imageless = {} /\ courses' \in Orders(b.snapshot)
            /\ queue' = Append(Tail(queue), r) /\ stopped' = stopped
  <2>1. queue # <<>> => b \in Block
    BY <1>1, HeadTailProperties DEF TypeOK
  <2> QED BY <2>1 DEF RunValue
<1> HIDE DEF b
<1>3. r \in Block /\ r.kind = "reload" /\ r.view = b.view
  BY <1>1, <1>2 DEF Block
<1> HIDE DEF r
<1>4. PICK N \in Nat \ {0} :
        /\ DOMAIN queue = 1 .. N
        /\ b = queue[1] /\ 1 \in DOMAIN queue
        /\ queue' \in Seq(Block)
        /\ \A i \in 1 .. N - 1 : i \in DOMAIN queue' /\ queue'[i] = queue[i + 1]
        /\ \A i \in DOMAIN queue' : IsEvent(i)' => i \in 1 .. N - 1
  <2>1. \/ queue' = Tail(queue)
        \/ \E x \in Block : x.kind = "reload" /\ queue' = Append(Tail(queue), x)
    BY <1>2, <1>3
  <2> QED BY <1>1, <2>1, Taken DEF b
<1>5. IsEvent(1) /\ IsFiniteSet(b.snapshot) /\ b.snapshot \subseteq Courses
  <2>1. IsEvent(1) /\ IsFiniteSet(b.snapshot)
    BY <1>1, <1>4 DEF IsEvent, Finite
  <2>2. b.snapshot \subseteq Courses
    BY <1>1, <1>2 DEF Block
  <2> QED BY <2>1, <2>2
<1>6. /\ courses' \in Seq(Readable)
      /\ \/ courses' = courses
         \/ Len(courses') = Cardinality(b.snapshot) /\ Cardinality(b.snapshot) \in Nat
  <2>1. CASE courses' = courses
    BY <1>1, <2>1 DEF TypeOK
  <2>2. CASE b.snapshot \cap Imageless = {} /\ courses' \in Orders(b.snapshot)
    <3>1. /\ courses' \in Seq(b.snapshot) /\ Len(courses') = Cardinality(b.snapshot)
          /\ Cardinality(b.snapshot) \in Nat
      BY <1>5, <2>2, OrderOf
    <3>2. b.snapshot \subseteq Readable
      BY <1>5, <2>2 DEF Readable
    <3> QED BY <3>1, <3>2, SeqMonotonic
  <2> QED BY <1>2, <2>1, <2>2
<1>7. /\ Len(courses') \in Nat
      /\ Len(courses') <= Len(courses) \/
            (IsEvent(1) /\ Len(courses') <= Cardinality(queue[1].snapshot))
      /\ Growing => Len(cells') <= Len(courses')
  <2>1. Len(courses) \in Nat /\ Len(cells) \in Nat
    BY <1>1 DEF TypeOK
  <2>2. CASE courses' = courses
    BY <1>1, <2>1, <2>2 DEF Growing
  <2>3. CASE Len(courses') = Cardinality(b.snapshot) /\ Cardinality(b.snapshot) \in Nat
    <3>1. Growing => Len(cells) <= Len(courses) /\ Len(courses) <= Cardinality(b.snapshot)
      BY <1>4, <1>5 DEF Growing
    <3>2. Growing => Len(cells') <= Cardinality(b.snapshot)
      BY <1>1, <2>1, <2>3, <3>1
    <3> QED BY <1>4, <1>5, <2>3, <3>2
  <2> QED BY <1>6, <2>2, <2>3
<1>8. Finite' /\ LastEvent' /\ (takenBack' # {} \/ Growing')
  BY <1>1, <1>4, <1>7, Left
<1>9. TypeOK'
  BY <1>1, <1>2, <1>4, <1>6 DEF TypeOK
<1>10. FrontShowsFeed'
  <2> SUFFICES ASSUME Running', ~ Catching' PROVE FALSE
    BY DEF FrontShowsFeed
  <2>1. queue' = Append(Tail(queue), r) /\ observing = views
    <3>1. queue' = Append(Tail(queue), r)
      BY <1>2 DEF Running
    <3> QED BY <1>1, <3>1 DEF TypeOK, Catching
  <2>2. PICK j \in DOMAIN queue : IsEvent(j) /\ j >= 1 /\ queue[j].view = observing
    BY <1>1, <1>4, <1>5 DEF LastEvent
  <2>3. CASE j = 1
    <3>1. r.view = views
      BY <1>3, <1>4, <2>1, <2>2, <2>3
    <3>2. Len(queue) \in DOMAIN queue' /\ queue'[Len(queue)] = r
      <4>1. queue \in Seq(Block) /\ queue # <<>>
        BY <1>1 DEF TypeOK
      <4>2. /\ Len(queue) \in Nat \ {0}
            /\ DOMAIN Append(Tail(queue), r) = 1 .. Len(queue)
            /\ Append(Tail(queue), r)[Len(queue)] = r
        BY <1>3, <4>1, Shift
      <4> QED BY <2>1, <4>2
    <3> QED BY <1>1, <3>1, <3>2 DEF Catching
  <2>4. CASE j # 1
    <3>1. j - 1 \in 1 .. N - 1 /\ (j - 1) + 1 = j
      BY <1>4, <2>2, <2>4
    <3>2. j - 1 \in DOMAIN queue' /\ queue'[j - 1] = queue[j]
      BY <1>4, <3>1
    <3> QED BY <1>1, <2>1, <2>2, <3>2 DEF Catching
  <2> QED BY <2>3, <2>4
<1>11. StopsOnlyAfterTakeBack'
  BY <1>1, <1>2 DEF ScreenInv, StopsOnlyAfterTakeBack
<1> QED BY <1>8, <1>9, <1>10, <1>11 DEF ScreenInv

LEMMA RunReloadInv == ASSUME ScreenInv, RunReload PROVE ScreenInv'
<1> DEFINE b == Head(queue)
<1>1. /\ TypeOK /\ queue # <<>> /\ b.kind = "reload" /\ queue' = Tail(queue)
      /\ laidOut' = (laidOut /\ b.view # views)
      /\ UNCHANGED <<server, pending, courses, views, observing, cells, detail, stopped, takenBack>>
  BY DEF ScreenInv, RunReload, database
<1> HIDE DEF b
<1>2. PICK N \in Nat \ {0} :
        /\ DOMAIN queue = 1 .. N
        /\ b = queue[1] /\ 1 \in DOMAIN queue
        /\ queue' \in Seq(Block)
        /\ \A i \in 1 .. N - 1 : i \in DOMAIN queue' /\ queue'[i] = queue[i + 1]
        /\ \A i \in DOMAIN queue' : IsEvent(i)' => i \in 1 .. N - 1
  BY <1>1, Taken DEF b
<1>3. Finite' /\ LastEvent' /\ (takenBack' # {} \/ Growing')
  <2>1. Len(courses') \in Nat /\ Len(courses') <= Len(courses)
    BY <1>1 DEF TypeOK
  <2>2. Growing => Len(cells') <= Len(courses')
    BY <1>1 DEF Growing
  <2> QED BY <1>1, <1>2, <2>1, <2>2, Left
<1>4. TypeOK'
  <2>1. laidOut' \in BOOLEAN
    BY <1>1 DEF TypeOK
  <2> QED BY <1>1, <1>2, <2>1 DEF TypeOK
<1>5. FrontShowsFeed'
  <2> SUFFICES ASSUME ~ Catching' PROVE ~ Catching
    BY <1>1 DEF ScreenInv, FrontShowsFeed, Running
  <2>1. laidOut /\ b.view # views /\ ~ (observing < views)
    BY <1>1 DEF Catching
  <2>2. ASSUME NEW i \in DOMAIN queue, queue[i].view = views PROVE FALSE
    <3>1. i # 1
      BY <1>2, <2>1, <2>2
    <3>2. i - 1 \in 1 .. N - 1 /\ (i - 1) + 1 = i
      BY <1>2, <3>1
    <3>3. i - 1 \in DOMAIN queue' /\ queue'[i - 1] = queue[i]
      BY <1>2, <3>2
    <3> QED BY <1>1, <2>2, <3>3 DEF Catching
  <2> QED BY <2>1, <2>2 DEF Catching
<1>6. StopsOnlyAfterTakeBack'
  BY <1>1 DEF ScreenInv, StopsOnlyAfterTakeBack
<1> QED BY <1>3, <1>4, <1>5, <1>6 DEF ScreenInv

-----------------------------------------------------------------------------
\* What the front view does leaves the events alone.
LEMMA ViewInv ==
    ASSUME ScreenInv, UNCHANGED <<server, pending, courses, views, observing, queue, takenBack>>,
           cells' \in Seq(Readable \cup {NoCourse}), Len(cells') <= Len(courses) \/ takenBack # {}
    PROVE  Finite' /\ LastEvent' /\ (takenBack' # {} \/ Growing')
<1>1. Snapshot' = Snapshot
  BY DEF Snapshot
<1> QED BY <1>1 DEF ScreenInv, Finite, LastEvent, Growing, IsEvent

LEMMA LayoutInv == ASSUME ScreenInv, Layout PROVE ScreenInv'
<1>1. /\ laidOut' = TRUE
      /\ UNCHANGED <<server, pending, courses, views, observing, queue, detail, stopped, takenBack>>
  BY DEF Layout, database
<1>2. PICK k \in 0 .. Len(courses) :
         cells' = [i \in 1 .. Len(courses) |-> IF i <= k THEN courses[i] ELSE NoCourse]
  BY DEF Layout
<1>3. courses \in Seq(Readable) /\ Len(courses) \in Nat /\ DOMAIN courses = 1 .. Len(courses)
  BY DEF ScreenInv, TypeOK
<1>4. /\ cells' \in [1 .. Len(courses) -> Readable \cup {NoCourse}]
      /\ \A i \in 1 .. Len(courses) : cells'[i] \in {NoCourse, courses[i]}
  <2>1. \A i \in 1 .. Len(courses) : courses[i] \in Readable
    BY <1>3
  <2> QED BY <1>2, <2>1
<1>5. /\ cells' \in Seq(Readable \cup {NoCourse}) /\ Len(cells') = Len(courses)
      /\ DOMAIN cells' = 1 .. Len(courses)
  <2>1. cells' \in Seq(Readable \cup {NoCourse})
    BY <1>3, <1>4, SeqDef
  <2> QED BY <1>3, <1>4, <2>1
<1>6. Finite' /\ LastEvent' /\ (takenBack' # {} \/ Growing')
  BY <1>1, <1>3, <1>5, ViewInv
<1>7. TypeOK'
  BY <1>1, <1>5 DEF ScreenInv, TypeOK
<1>8. FrontShowsFeed' /\ StopsOnlyAfterTakeBack'
  BY <1>1, <1>4, <1>5 DEF ScreenInv, FrontShowsFeed, StopsOnlyAfterTakeBack
<1> QED BY <1>6, <1>7, <1>8 DEF ScreenInv

\* An index is out of the array's range only if the array lost a course.
LEMMA ScrollInv == ASSUME ScreenInv, NEW i \in DOMAIN cells, Scroll(i) PROVE ScreenInv'
<1>1. /\ UNCHANGED <<server, pending, courses, views, observing, queue, laidOut, detail, takenBack>>
      /\ \/ i <= Len(courses) /\ cells' = [cells EXCEPT ![i] = courses[i]] /\ stopped' = stopped
         \/ ~ (i <= Len(courses)) /\ stopped' = "index" /\ cells' = cells
  BY DEF Scroll, database
<1>2. /\ courses \in Seq(Readable) /\ Len(courses) \in Nat /\ DOMAIN courses = 1 .. Len(courses)
      /\ cells \in Seq(Readable \cup {NoCourse}) /\ Len(cells) \in Nat
      /\ DOMAIN cells = 1 .. Len(cells) /\ i \in 1 .. Len(cells)
  BY DEF ScreenInv, TypeOK
<1>3. takenBack # {} \/ (Len(cells) <= Len(courses) /\ i <= Len(courses))
  BY <1>2 DEF ScreenInv, Growing
<1>4. /\ cells' \in Seq(Readable \cup {NoCourse}) /\ Len(cells') = Len(cells)
      /\ DOMAIN cells' = DOMAIN cells
      /\ \A j \in DOMAIN cells : cells'[j] = cells[j] \/ cells'[j] = courses[j]
  <2>1. CASE i <= Len(courses) /\ cells' = [cells EXCEPT ![i] = courses[i]]
    <3>1. courses[i] \in Readable \cup {NoCourse}
      BY <1>2, <2>1
    <3> QED BY <1>2, <2>1, <3>1, ExceptSeq
  <2> QED BY <1>1, <1>2, <2>1
<1>5. Finite' /\ LastEvent' /\ (takenBack' # {} \/ Growing')
  BY <1>1, <1>3, <1>4, ViewInv
<1>6. TypeOK'
  BY <1>1, <1>4 DEF ScreenInv, TypeOK
<1>7. FrontShowsFeed'
  <2>1. Running' => Running
    BY DEF Scroll
  <2>2. Catching' = Catching
    BY <1>1 DEF Catching
  <2> QED BY <1>1, <1>4, <2>1, <2>2 DEF ScreenInv, FrontShowsFeed
<1>8. StopsOnlyAfterTakeBack'
  BY <1>1, <1>3 DEF ScreenInv, StopsOnlyAfterTakeBack
<1> QED BY <1>5, <1>6, <1>7, <1>8 DEF ScreenInv

LEMMA SelectInv == ASSUME ScreenInv, NEW i \in DOMAIN cells, Select(i) PROVE ScreenInv'
<1>1. /\ UNCHANGED <<server, pending, courses, views, observing, queue, laidOut, cells, takenBack>>
      /\ \/ i <= Len(courses) /\ detail' = courses[i] /\ stopped' = stopped
         \/ ~ (i <= Len(courses)) /\ stopped' = "index" /\ detail' = detail
  BY DEF Select, database
<1>2. /\ courses \in Seq(Readable) /\ Len(courses) \in Nat /\ DOMAIN courses = 1 .. Len(courses)
      /\ cells \in Seq(Readable \cup {NoCourse}) /\ Len(cells) \in Nat
      /\ DOMAIN cells = 1 .. Len(cells) /\ i \in 1 .. Len(cells)
  BY DEF ScreenInv, TypeOK
<1>3. takenBack # {} \/ (Len(cells) <= Len(courses) /\ i <= Len(courses))
  BY <1>2 DEF ScreenInv, Growing
<1>4. Finite' /\ LastEvent' /\ (takenBack' # {} \/ Growing')
  BY <1>1, <1>2, <1>3, ViewInv
<1>5. TypeOK'
  <2>1. detail' \in Readable \cup {NoCourse}
    <3>1. i <= Len(courses) => courses[i] \in Readable
      BY <1>2
    <3> QED BY <1>1, <3>1 DEF ScreenInv, TypeOK
  <2> QED BY <1>1, <2>1 DEF ScreenInv, TypeOK
<1>6. FrontShowsFeed'
  <2>1. Running' => Running
    BY DEF Select
  <2>2. Catching' = Catching
    BY <1>1 DEF Catching
  <2> QED BY <1>1, <2>1, <2>2 DEF ScreenInv, FrontShowsFeed
<1>7. StopsOnlyAfterTakeBack'
  BY <1>1, <1>3 DEF ScreenInv, StopsOnlyAfterTakeBack
<1> QED BY <1>4, <1>5, <1>6, <1>7 DEF ScreenInv

LEMMA CloseDetailInv == ASSUME ScreenInv, CloseDetail PROVE ScreenInv'
<1>1. /\ detail' = NoCourse
      /\ UNCHANGED <<server, pending, courses, views, observing, queue, laidOut, cells, stopped,
                     takenBack>>
  BY DEF CloseDetail, database
<1>2. Snapshot' = Snapshot
  BY <1>1 DEF Snapshot
<1>3. Finite' /\ LastEvent' /\ (takenBack' # {} \/ Growing')
  BY <1>1, <1>2 DEF ScreenInv, Finite, LastEvent, Growing, IsEvent
<1>4. TypeOK'
  BY <1>1 DEF ScreenInv, TypeOK
<1>5. FrontShowsFeed' /\ StopsOnlyAfterTakeBack'
  BY <1>1 DEF ScreenInv, FrontShowsFeed, Catching, Running, StopsOnlyAfterTakeBack
<1> QED BY <1>3, <1>4, <1>5 DEF ScreenInv

LEMMA RelaunchInv == ASSUME ScreenInv, Relaunch PROVE ScreenInv'
<1>1. /\ pending' = {} /\ courses' = <<>> /\ views' = 1 /\ observing' = 0 /\ queue' = <<>>
      /\ laidOut' = FALSE /\ cells' = <<>> /\ detail' = NoCourse /\ stopped' = "no"
      /\ takenBack' = {} /\ server' = server
  BY DEF Relaunch
<1>2. /\ DOMAIN queue' = {} /\ Len(cells') = 0 /\ Len(courses') = 0
      /\ queue' \in Seq(Block) /\ courses' \in Seq(Readable)
      /\ cells' \in Seq(Readable \cup {NoCourse})
  BY <1>1
<1>3. observing' \in 0 .. views' /\ views' \in Nat
  BY <1>1
<1>4. TypeOK'
  BY <1>1, <1>2, <1>3 DEF ScreenInv, TypeOK
<1>5. IsFiniteSet(Snapshot') /\ Cardinality(Snapshot') \in Nat
  <2>1. Snapshot' \in SUBSET Snapshot
    BY <1>1 DEF Snapshot
  <2> QED BY <2>1, FS_Subset, FS_CardinalityType DEF ScreenInv, Finite
<1>6. Finite' /\ LastEvent' /\ Growing'
  BY <1>2, <1>5 DEF Finite, LastEvent, Growing
<1>7. FrontShowsFeed' /\ StopsOnlyAfterTakeBack'
  BY <1>1 DEF FrontShowsFeed, Catching, StopsOnlyAfterTakeBack
<1> QED BY <1>4, <1>6, <1>7 DEF ScreenInv

LEMMA NextInv == ScreenInv /\ [Next]_vars => ScreenInv'
<1> SUFFICES ASSUME ScreenInv, [Next]_vars PROVE ScreenInv'
  OBVIOUS
<1>1. ASSUME NEW c \in Courses, OthersAdd(c) \/ Write(c) PROVE ScreenInv'
  BY <1>1, OthersAddInv, WriteInv
<1>2. ASSUME NEW c \in Courses, WriteApplied(c) \/ WriteRefused(c) PROVE ScreenInv'
  BY <1>2, WriteAppliedInv, WriteRefusedInv
<1>3. CASE NewView \/ Observe
  BY <1>3, NewViewInv, ObserveInv
<1>4. CASE RunBlock
  BY <1>4, RunValueInv, RunReloadInv DEF RunBlock
<1>5. CASE Layout
  BY <1>5, LayoutInv
<1>6. ASSUME NEW i \in DOMAIN cells, Scroll(i) \/ Select(i) PROVE ScreenInv'
  BY <1>6, ScrollInv, SelectInv
<1>7. CASE CloseDetail \/ Relaunch
  BY <1>7, CloseDetailInv, RelaunchInv
<1>8. CASE UNCHANGED vars
  BY <1>8 DEF vars, database, screen, ScreenInv, TypeOK, Finite, LastEvent, Growing, IsEvent,
     Snapshot, FrontShowsFeed, Catching, Running, StopsOnlyAfterTakeBack
<1> QED BY <1>1, <1>2, <1>3, <1>4, <1>5, <1>6, <1>7, <1>8 DEF Next

-----------------------------------------------------------------------------
\* What is refused may go from the events to come; nothing else does.
LEMMA InitKept == Init => Kept
<1> SUFFICES ASSUME Init PROVE Kept
  OBVIOUS
<1>1. DOMAIN queue = {} /\ DOMAIN courses = {}
  BY DEF Init
<1> QED BY <1>1 DEF Kept, Listed

\* Events of all that is in the Database now come behind the others.
LEMMA SentKept ==
    ASSUME Kept, courses' = courses, takenBack \subseteq takenBack',
           NEW S, Snapshot \ takenBack' \subseteq S, S \subseteq Snapshot',
           \A i \in DOMAIN queue : queue'[i] = queue[i],
           \A i \in DOMAIN queue' : i \notin DOMAIN queue => queue'[i].snapshot = S,
           \A i, j \in DOMAIN queue' : i < j /\ j \in DOMAIN queue => i \in DOMAIN queue
    PROVE  Kept'
<1>1. Listed' = Listed
  BY DEF Listed
<1>2. Listed \ takenBack' \subseteq S
  BY DEF Kept
<1>3. ASSUME NEW i \in DOMAIN queue', IsEvent(i)', i \in DOMAIN queue
      PROVE  /\ IsEvent(i) /\ queue'[i] = queue[i]
             /\ Listed \ takenBack' \subseteq queue'[i].snapshot
             /\ queue'[i].snapshot \ takenBack' \subseteq S
  <2>1. IsEvent(i) /\ queue'[i] = queue[i]
    BY <1>3 DEF IsEvent
  <2>2. Listed \ takenBack \subseteq queue[i].snapshot /\ queue[i].snapshot \ takenBack \subseteq Snapshot
    BY <1>3, <2>1 DEF Kept
  <2> QED BY <2>1, <2>2
<1>4. ASSUME NEW i \in DOMAIN queue', IsEvent(i)'
      PROVE  /\ Listed \ takenBack' \subseteq queue'[i].snapshot
             /\ queue'[i].snapshot \ takenBack' \subseteq S
  BY <1>2, <1>3, <1>4
<1>5. ASSUME NEW i \in DOMAIN queue', IsEvent(i)', NEW j \in DOMAIN queue', IsEvent(j)', i < j
      PROVE  queue'[i].snapshot \ takenBack' \subseteq queue'[j].snapshot
  <2>1. CASE j \in DOMAIN queue
    <3>1. i \in DOMAIN queue
      BY <1>5, <2>1
    <3>2. /\ IsEvent(i) /\ queue'[i] = queue[i]
          /\ IsEvent(j) /\ queue'[j] = queue[j]
      BY <1>3, <1>5, <2>1, <3>1
    <3>3. queue[i].snapshot \ takenBack \subseteq queue[j].snapshot
      BY <1>5, <2>1, <3>1, <3>2 DEF Kept
    <3> QED BY <3>2, <3>3
  <2>2. CASE j \notin DOMAIN queue
    BY <1>4, <1>5, <2>2
  <2> QED BY <2>1, <2>2
<1>6. \A i \in DOMAIN queue' : IsEvent(i)' => queue'[i].snapshot \ takenBack' \subseteq Snapshot'
  BY <1>4
<1>7. Listed \ takenBack' \subseteq Snapshot'
  BY <1>2
<1> QED BY <1>1, <1>4, <1>5, <1>6, <1>7 DEF Kept

LEMMA RaisedKept ==
    ASSUME TypeOK, Kept, NEW S, S \subseteq Courses, Raise(S), S \subseteq Snapshot', courses' = courses,
           takenBack \subseteq takenBack', Snapshot \ takenBack' \subseteq S
    PROVE  Kept'
<1> DEFINE N == Len(queue)
<1>1. /\ N \in Nat /\ DOMAIN queue = 1 .. N /\ observing \in Nat /\ DOMAIN queue' = 1 .. N + observing
      /\ \A i \in DOMAIN queue : i \in DOMAIN queue' /\ queue'[i] = queue[i]
      /\ \A i \in DOMAIN queue' : i \notin DOMAIN queue =>
            i - N \in 1 .. observing /\ queue'[i] = Event(i - N, S) /\ i > N
  BY Raising
<1> HIDE DEF N
<1>2. \A i, j \in DOMAIN queue' : i < j /\ j \in DOMAIN queue => i \in DOMAIN queue
  BY <1>1
<1>3. \A i \in DOMAIN queue' : i \notin DOMAIN queue => queue'[i].snapshot = S
  BY <1>1 DEF Event
<1> QED BY <1>1, <1>2, <1>3, SentKept

LEMMA ChangeKept ==
    ASSUME FeedInv, NEW c \in Courses, OthersAdd(c) \/ Write(c) \/ WriteRefused(c)
    PROVE  Kept'
<1>1. TypeOK /\ Kept /\ Snapshot \subseteq Courses
  BY DEF FeedInv, ScreenInv, TypeOK, Snapshot
<1>2. CASE OthersAdd(c) \/ Write(c)
  <2>1. /\ Raise(Snapshot \cup {c}) /\ Snapshot' = Snapshot \cup {c}
        /\ courses' = courses /\ takenBack' = takenBack
    BY <1>2 DEF OthersAdd, Write, Snapshot
  <2>2. Snapshot \cup {c} \subseteq Courses
    BY <1>1
  <2> QED BY <1>1, <2>1, <2>2, RaisedKept
<1>3. CASE WriteRefused(c)
  <2>1. /\ Raise(Snapshot \ {c}) /\ courses' = courses /\ takenBack' = takenBack \cup {c}
        /\ server' = server /\ pending' = pending \ {c}
    BY <1>3 DEF WriteRefused
  <2>2. Snapshot \ {c} \subseteq Snapshot'
    BY <2>1 DEF Snapshot
  <2>3. Snapshot \ {c} \subseteq Courses /\ Snapshot \ takenBack' \subseteq Snapshot \ {c}
    BY <1>1, <2>1
  <2> QED BY <1>1, <2>1, <2>2, <2>3, RaisedKept
<1> QED BY <1>2, <1>3

\* The first event of an observer has all that is in the Database.
LEMMA ObserveKept == ASSUME FeedInv, Observe PROVE Kept'
<1> DEFINE e == Event(observing + 1, Snapshot)
           N == Len(queue)
<1>1. /\ queue' = Append(queue, e) /\ courses' = courses /\ takenBack' = takenBack
      /\ server' = server /\ pending' = pending
  BY DEF Observe, database, Event
<1>2. queue \in Seq(Block) /\ observing \in Nat /\ Snapshot \subseteq Courses /\ Kept
  BY DEF FeedInv, ScreenInv, TypeOK, Snapshot
<1>3. e \in Block /\ e.snapshot = Snapshot
  BY <1>2 DEF Event, Block
<1> HIDE DEF e
<1>4. N \in Nat /\ DOMAIN queue = 1 .. N
  BY <1>2
<1>5. Len(queue') = N + 1 /\ DOMAIN queue' = 1 .. N + 1
      /\ (\A i \in 1 .. N : queue'[i] = queue[i]) /\ queue'[N + 1] = e
  BY <1>1, <1>2, <1>3
<1> HIDE DEF N
<1>6. \A i \in DOMAIN queue : queue'[i] = queue[i]
  BY <1>4, <1>5
<1>7. \A i \in DOMAIN queue' : i \notin DOMAIN queue => i = N + 1
  BY <1>4, <1>5
<1>8. \A i \in DOMAIN queue' : i \notin DOMAIN queue => queue'[i].snapshot = Snapshot
  BY <1>3, <1>5, <1>7
<1>9. \A i, j \in DOMAIN queue' : i < j /\ j \in DOMAIN queue => i \in DOMAIN queue
  BY <1>4, <1>5
<1>10. Snapshot' = Snapshot
  BY <1>1 DEF Snapshot
<1> QED BY <1>1, <1>2, <1>6, <1>8, <1>9, <1>10, SentKept

\* The main queue takes its first block, and the array is what it was or the
\* courses of that block.
LEMMA TakenKept ==
    ASSUME TypeOK, Kept, queue # <<>>,
           \/ queue' = Tail(queue)
           \/ \E r \in Block : r.kind = "reload" /\ queue' = Append(Tail(queue), r),
           Listed' = Listed \/ (IsEvent(1) /\ Listed' \subseteq queue[1].snapshot),
           Snapshot' = Snapshot, takenBack' = takenBack
    PROVE  Kept'
<1>1. PICK N \in Nat \ {0} :
        /\ DOMAIN queue = 1 .. N /\ 1 \in DOMAIN queue
        /\ \A i \in 1 .. N - 1 : i \in DOMAIN queue' /\ queue'[i] = queue[i + 1]
        /\ \A i \in DOMAIN queue' : IsEvent(i)' => i \in 1 .. N - 1
  BY Taken
<1>2. ASSUME NEW i \in DOMAIN queue', IsEvent(i)'
      PROVE  /\ i \in 1 .. N - 1 /\ i + 1 \in DOMAIN queue /\ 1 < i + 1
             /\ queue'[i] = queue[i + 1] /\ IsEvent(i + 1)
  <2>1. i \in 1 .. N - 1 /\ queue'[i] = queue[i + 1]
    BY <1>1, <1>2
  <2>2. i + 1 \in DOMAIN queue /\ 1 < i + 1
    BY <1>1, <2>1
  <2> QED BY <1>2, <2>1, <2>2 DEF IsEvent
<1>3. Listed' \ takenBack \subseteq Snapshot
  BY <1>1 DEF Kept
<1>4. ASSUME NEW i \in DOMAIN queue', IsEvent(i)'
      PROVE  /\ Listed' \ takenBack \subseteq queue'[i].snapshot
             /\ queue'[i].snapshot \ takenBack \subseteq Snapshot
  <2>1. /\ i + 1 \in DOMAIN queue /\ 1 < i + 1
        /\ queue'[i] = queue[i + 1] /\ IsEvent(i + 1)
    BY <1>2, <1>4
  <2>2. /\ Listed \ takenBack \subseteq queue[i + 1].snapshot
        /\ queue[i + 1].snapshot \ takenBack \subseteq Snapshot
    BY <2>1 DEF Kept
  <2>3. IsEvent(1) => queue[1].snapshot \ takenBack \subseteq queue[i + 1].snapshot
    BY <1>1, <2>1 DEF Kept
  <2> QED BY <2>1, <2>2, <2>3
<1>5. ASSUME NEW i \in DOMAIN queue', IsEvent(i)', NEW j \in DOMAIN queue', IsEvent(j)', i < j
      PROVE  queue'[i].snapshot \ takenBack \subseteq queue'[j].snapshot
  <2>1. /\ i + 1 \in DOMAIN queue /\ queue'[i] = queue[i + 1] /\ IsEvent(i + 1)
        /\ j + 1 \in DOMAIN queue /\ queue'[j] = queue[j + 1] /\ IsEvent(j + 1)
    BY <1>2, <1>5
  <2>2. i + 1 < j + 1
    <3>1. i \in Nat /\ j \in Nat
      BY <1>2, <1>5
    <3> QED BY <1>5, <3>1
  <2> QED BY <2>1, <2>2 DEF Kept
<1> QED BY <1>3, <1>4, <1>5 DEF Kept

LEMMA RunBlockKept == ASSUME FeedInv, RunBlock PROVE Kept'
<1> DEFINE b == Head(queue)
<1>1. /\ TypeOK /\ Kept /\ queue # <<>>
      /\ Snapshot' = Snapshot /\ takenBack' = takenBack
  BY DEF FeedInv, ScreenInv, RunBlock, RunValue, RunReload, database, Snapshot
<1>2. b \in Block
  BY <1>1, HeadTailProperties DEF TypeOK
<1>3. CASE RunReload
  <2>1. queue' = Tail(queue) /\ Listed' = Listed
    BY <1>3 DEF RunReload, Listed
  <2> QED BY <1>1, <2>1, TakenKept
<1>4. CASE RunValue
  <2>1. /\ b.kind = "value"
        /\ \/ queue' = Tail(queue) /\ courses' = courses
           \/ /\ courses' \in Orders(b.snapshot)
              /\ queue' = Append(Tail(queue), [kind |-> "reload", view |-> b.view])
    BY <1>4 DEF RunValue
  <2>2. IsEvent(1) /\ b = queue[1]
    <3>1. 1 \in DOMAIN queue /\ b = queue[1]
      <4>1. queue \in Seq(Block)
        BY <1>1 DEF TypeOK
      <4> QED BY <1>1, <1>2, <4>1, Shift
    <3> QED BY <2>1, <3>1 DEF IsEvent
  <2>3. CASE queue' = Tail(queue) /\ courses' = courses
    <3>1. Listed' = Listed
      BY <2>3 DEF Listed
    <3> QED BY <1>1, <2>3, <3>1, TakenKept
  <2>4. CASE /\ courses' \in Orders(b.snapshot)
             /\ queue' = Append(Tail(queue), [kind |-> "reload", view |-> b.view])
    <3> DEFINE r == [kind |-> "reload", view |-> b.view]
    <3>1. r \in Block /\ r.kind = "reload"
      BY <1>2, <2>1 DEF Block
    <3>2. Listed' \subseteq queue[1].snapshot
      BY <2>2, <2>4 DEF Listed, Orders
    <3>3. queue' = Append(Tail(queue), r)
      BY <2>4
    <3> HIDE DEF r
    <3> QED BY <1>1, <2>2, <3>1, <3>2, <3>3, TakenKept
  <2> QED BY <2>1, <2>3, <2>4
<1> QED BY <1>3, <1>4 DEF RunBlock

LEMMA StillKept ==
    ASSUME Kept, Snapshot' = Snapshot, UNCHANGED <<courses, queue, takenBack>>
    PROVE  Kept'
BY DEF Kept, Listed, IsEvent

LEMMA NextKept == FeedInv /\ [Next]_vars => Kept'
<1> SUFFICES ASSUME FeedInv, [Next]_vars PROVE Kept'
  OBVIOUS
<1>1. Kept
  BY DEF FeedInv, ScreenInv
<1>2. ASSUME NEW c \in Courses, OthersAdd(c) \/ Write(c) \/ WriteRefused(c) PROVE Kept'
  BY <1>2, ChangeKept
<1>3. ASSUME NEW c \in Courses, WriteApplied(c) PROVE Kept'
  <2>1. Snapshot' = Snapshot /\ UNCHANGED <<courses, queue, takenBack>>
    BY <1>3 DEF WriteApplied, Snapshot
  <2> QED BY <1>1, <2>1, StillKept
<1>4. CASE Observe
  BY <1>4, ObserveKept
<1>5. CASE RunBlock
  BY <1>5, RunBlockKept
<1>6. CASE NewView \/ Layout \/ CloseDetail \/ (\E i \in DOMAIN cells : Scroll(i) \/ Select(i)) \/ UNCHANGED vars
  <2>1. Snapshot' = Snapshot /\ UNCHANGED <<courses, queue, takenBack>>
    BY <1>6 DEF NewView, Layout, CloseDetail, Scroll, Select, vars, database, Snapshot
  <2> QED BY <1>1, <2>1, StillKept
<1>7. CASE Relaunch
  <2>1. DOMAIN queue' = {} /\ Listed' = {}
    <3>1. queue' = <<>> /\ courses' = <<>>
      BY <1>7 DEF Relaunch
    <3> QED BY <3>1 DEF Listed
  <2> QED BY <2>1 DEF Kept
<1> QED BY <1>2, <1>3, <1>4, <1>5, <1>6, <1>7 DEF Next

\* The inductive invariant of the feed.
THEOREM FeedInvariant == Spec => []FeedInv
<1>1. Init => FeedInv
  BY InitInv, InitKept DEF FeedInv
<1>2. FeedInv /\ [Next]_vars => FeedInv'
  BY NextInv, NextKept DEF FeedInv
<1> QED BY <1>1, <1>2, PTL DEF Spec

\* Every variable keeps its type; no course without images gets into the array.
THEOREM TypeCorrect == Spec => []TypeOK
<1>1. FeedInv => TypeOK
  BY DEF FeedInv, ScreenInv
<1> QED BY <1>1, FeedInvariant, PTL

\* The front view shows the shared array as it is, as soon as nothing is under
\* way for it, however many observers replace that array.
THEOREM FrontCatchesUp == Spec => []FrontShowsFeed
<1>1. FeedInv => FrontShowsFeed
  BY DEF FeedInv, ScreenInv
<1> QED BY <1>1, FeedInvariant, PTL

\* While no write is taken back, no cell's index is out of the array's range.
THEOREM IndexInRange == Spec => []StopsOnlyAfterTakeBack
<1>1. FeedInv => StopsOnlyAfterTakeBack
  BY DEF FeedInv, ScreenInv
<1> QED BY <1>1, FeedInvariant, PTL

\* No course leaves the feed but one whose write was refused, unless the
\* process starts again: the array is only replaced by the courses of the
\* first event of the queue, which has all others of it (getInitialCourses).
THEOREM FeedOnlyGrows == Spec => CoursesStay
<1>1. FeedInv /\ [Next]_vars => [Relaunch \/ Listed \ Listed' \subseteq takenBack]_vars
  <2> SUFFICES ASSUME FeedInv, [Next]_vars, ~ Relaunch PROVE Listed \ Listed' \subseteq takenBack
    OBVIOUS
  <2>1. TypeOK /\ Kept
    BY DEF FeedInv, ScreenInv
  <2>2. ASSUME courses' = courses PROVE Listed \ Listed' \subseteq takenBack
    BY <2>2 DEF Listed
  <2>3. CASE RunValue
    <3> DEFINE b == Head(queue)
    <3>1. /\ queue # <<>> /\ b.kind = "value"
          /\ courses' = courses \/ courses' \in Orders(b.snapshot)
      BY <2>3 DEF RunValue
    <3>2. 1 \in DOMAIN queue /\ b = queue[1]
      <4>1. queue \in Seq(Block) /\ [kind |-> "reload", view |-> 0] \in Block
        BY <2>1 DEF TypeOK, Block
      <4> QED BY <3>1, <4>1, Shift
    <3>3. Listed \ takenBack \subseteq b.snapshot
      BY <2>1, <3>1, <3>2 DEF Kept, IsEvent
    <3> HIDE DEF b
    <3>4. CASE courses' \in Orders(b.snapshot)
      <4>1. /\ b.snapshot \subseteq Courses /\ IsFiniteSet(b.snapshot)
        <5>1. IsEvent(1)
          BY <3>1, <3>2 DEF IsEvent
        <5>2. queue[1] \in Block
          BY <2>1, <3>2 DEF TypeOK
        <5> QED BY <3>2, <5>1, <5>2 DEF FeedInv, ScreenInv, Finite, IsEvent, Block
      <4>2. b.snapshot \subseteq Listed'
        BY <3>4, <4>1, OrderShowsAll DEF Listed
      <4> QED BY <3>3, <4>2
    <3> QED BY <2>2, <3>1, <3>4
  <2>4. CASE ~ RunValue
    <3>1. courses' = courses
      BY <2>4 DEF Next, vars, OthersAdd, Write, WriteApplied, WriteRefused, NewView, Observe, RunBlock,
         RunReload, Layout, Scroll, Select, CloseDetail
    <3> QED BY <2>2, <3>1
  <2> QED BY <2>3, <2>4
<1> QED BY <1>1, FeedInvariant, PTL DEF Spec, CoursesStay

-----------------------------------------------------------------------------
(***************************************************************************)
(* The image view of a cell (RemoteImage), for every set of URLs and every *)
(* number of downloads.  Its three invariants together are inductive: a    *)
(* blank view is for a URL whose download is under way, whose block is     *)
(* queued, or whose download failed.                                       *)
(***************************************************************************)
ImageInv == ImageTypeOK /\ OwnImage /\ ShowsOrWaits

LEMMA ImageInitInv == ImageInit => ImageInv
<1> SUFFICES ASSUME ImageInit PROVE ImageInv
  OBVIOUS
<1>1. ImageTypeOK
  <2>1. <<>> \in Seq(Answer)
    OBVIOUS
  <2>2. [u \in Urls |-> 0] \in [Urls -> Nat]
    OBVIOUS
  <2> QED BY <2>1, <2>2 DEF ImageInit, ImageTypeOK
<1>2. OwnImage /\ ShowsOrWaits
  BY DEF ImageInit, OwnImage, ShowsOrWaits
<1> QED BY <1>1, <1>2 DEF ImageInv

\* A load sets the image, or starts the download that the blank view awaits.
LEMMA LoadInv ==
    ASSUME ImageInv, NEW u \in Urls, Load(u)
    PROVE  ImageInv'
<1>1. CASE u \in imageCache
  <2>1. image' = u /\ imageUrlString' = u /\ u # NoUrl /\ UNCHANGED downloads
    BY <1>1, ImageAssumption DEF Load
  <2>2. ImageTypeOK'
    BY <2>1 DEF Load, ImageInv, ImageTypeOK
  <2> QED BY <2>1, <2>2 DEF ImageInv, OwnImage, ShowsOrWaits
<1>2. CASE u \notin imageCache
  <2>1. /\ image' = NoUrl /\ imageUrlString' = u
        /\ downloads' = [downloads EXCEPT ![u] = @ + 1]
    BY <1>2 DEF Load
  <2>2. downloads \in [Urls -> Nat]
    BY DEF ImageInv, ImageTypeOK
  <2>3. downloads' \in [Urls -> Nat] /\ downloads'[u] > 0
    BY <2>1, <2>2
  <2>4. ImageTypeOK'
    BY <2>1, <2>3 DEF Load, ImageInv, ImageTypeOK
  <2>5. Awaited'
    BY <2>1, <2>3 DEF Awaited
  <2> QED BY <2>1, <2>4, <2>5 DEF ImageInv, OwnImage, ShowsOrWaits
<1> QED BY <1>1, <1>2

\* A download that ends with data leaves its block for the view to await.
LEMMA DownloadedInv ==
    ASSUME ImageInv, NEW u \in Urls, Downloaded(u)
    PROVE  ImageInv'
<1>1. PICK r \in BOOLEAN : answers' = Append(answers, [url |-> u, readable |-> r])
  BY DEF Downloaded
<1> DEFINE new == [url |-> u, readable |-> r]
<1>2. new \in Answer /\ new.url = u
  BY DEF Answer
<1>3. answers \in Seq(Answer) /\ downloads \in [Urls -> Nat]
  BY DEF ImageInv, ImageTypeOK
<1>4. /\ downloads' \in [Urls -> Nat]
      /\ \A w \in Urls : w # u => downloads'[w] = downloads[w]
  BY <1>3 DEF Downloaded
<1> HIDE DEF new
<1>5. /\ answers' \in Seq(Answer)
      /\ Len(answers') = Len(answers) + 1
      /\ \A i \in 1 .. Len(answers) : answers'[i] = answers[i]
      /\ answers'[Len(answers) + 1] = new
  BY <1>1, <1>2, <1>3 DEF new
<1>6. ImageTypeOK'
  BY <1>4, <1>5 DEF Downloaded, ImageInv, ImageTypeOK
<1>7. Len(answers) \in Nat
      /\ DOMAIN answers = 1 .. Len(answers)
      /\ DOMAIN answers' = 1 .. Len(answers')
  BY <1>3, <1>5
<1>8. ASSUME imageUrlString \in Urls, Awaited
      PROVE  Awaited'
  <2>1. UNCHANGED imageUrlString
    BY DEF Downloaded
  <2>2. CASE imageUrlString = u
    BY <2>1, <2>2, <1>2, <1>5, <1>7 DEF Awaited
  <2>3. CASE imageUrlString # u /\ downloads[imageUrlString] > 0
    BY <2>1, <2>3, <1>4, <1>8 DEF Awaited
  <2>4. CASE \E i \in DOMAIN answers : answers[i].url = imageUrlString
    BY <2>1, <2>4, <1>5, <1>7 DEF Awaited
  <2> QED BY <1>8, <2>2, <2>3, <2>4 DEF Awaited
<1>9. ShowsOrWaits'
  BY <1>8 DEF Downloaded, ImageInv, ImageTypeOK, ShowsOrWaits
<1> QED BY <1>6, <1>9 DEF Downloaded, ImageInv, OwnImage

\* A download that fails was for another URL, or the view knows.
LEMMA DownloadFailsInv ==
    ASSUME ImageInv, NEW u \in Urls, DownloadFails(u)
    PROVE  ImageInv'
<1>1. downloads \in [Urls -> Nat]
  BY DEF ImageInv, ImageTypeOK
<1>2. /\ downloads' \in [Urls -> Nat]
      /\ \A w \in Urls : w # u => downloads'[w] = downloads[w]
  BY <1>1 DEF DownloadFails
<1>3. ImageTypeOK'
  BY <1>2 DEF DownloadFails, ImageInv, ImageTypeOK
<1>4. ShowsOrWaits'
  BY <1>2 DEF DownloadFails, ImageInv, ImageTypeOK, ShowsOrWaits, Awaited
<1> QED BY <1>3, <1>4 DEF DownloadFails, ImageInv, OwnImage

\* The first block is for this URL and shows the image, or for another and
\* leaves the blocks that are awaited.
LEMMA RunAnswerInv ==
    ASSUME ImageInv, RunAnswer
    PROVE  ImageInv'
<1> DEFINE a == Head(answers)
<1>1. answers \in Seq(Answer) /\ answers # <<>>
  BY DEF ImageInv, ImageTypeOK, RunAnswer
<1>2. a \in Answer /\ a = answers[1]
  BY <1>1
<1>3. a.url \in Urls /\ a.readable \in BOOLEAN
  BY <1>2 DEF Answer
<1>4. /\ answers' \in Seq(Answer)
      /\ Len(answers) \in Nat /\ Len(answers') = Len(answers) - 1
      /\ \A i \in 1 .. Len(answers') : answers'[i] = answers[i + 1]
  BY <1>1 DEF RunAnswer
<1>5. /\ image' = IF imageUrlString # a.url THEN image
                  ELSE IF a.readable THEN a.url ELSE NoUrl
      /\ IF a.readable
           THEN imageCache' = imageCache \cup {a.url} /\ UNCHANGED imageStopped
           ELSE imageStopped' = TRUE /\ UNCHANGED imageCache
      /\ UNCHANGED <<imageUrlString, downloads, lost>>
  BY DEF RunAnswer
<1> HIDE DEF a
<1>6. ImageTypeOK'
  BY <1>3, <1>4, <1>5 DEF ImageInv, ImageTypeOK
<1>7. OwnImage'
  BY <1>5 DEF ImageInv, OwnImage
<1>8. ASSUME imageUrlString # a.url, Awaited
      PROVE  Awaited'
  <2>1. CASE downloads[imageUrlString] > 0
    BY <1>5, <2>1 DEF Awaited
  <2>2. CASE \E i \in DOMAIN answers : answers[i].url = imageUrlString
    <3>1. PICK i \in 1 .. Len(answers) : answers[i].url = imageUrlString
      BY <2>2, <1>1
    <3>2. i # 1
      BY <3>1, <1>2, <1>8
    <3>3. i - 1 \in 1 .. Len(answers') /\ answers'[i - 1] = answers[i]
      BY <3>1, <3>2, <1>4
    <3>4. i - 1 \in DOMAIN answers'
      BY <3>3, <1>4
    <3> QED BY <3>1, <3>3, <3>4, <1>5 DEF Awaited
  <2> QED BY <1>8, <2>1, <2>2 DEF Awaited
<1>9. ShowsOrWaits'
  <2>1. CASE imageUrlString = a.url
    BY <2>1, <1>3, <1>5, ImageAssumption DEF ShowsOrWaits
  <2>2. CASE imageUrlString # a.url
    BY <2>2, <1>5, <1>8 DEF ImageInv, ImageTypeOK, ShowsOrWaits, RunAnswer
  <2> QED BY <2>1, <2>2
<1> QED BY <1>6, <1>7, <1>9 DEF ImageInv

LEMMA ImageNextInv == ImageInv /\ [ImageNext]_imageVars => ImageInv'
<1> SUFFICES ASSUME ImageInv, [ImageNext]_imageVars PROVE ImageInv'
  OBVIOUS
<1>1. ASSUME NEW u \in Urls, Load(u) PROVE ImageInv'
  BY <1>1, LoadInv
<1>2. ASSUME NEW u \in Urls, DownloadEnds(u) PROVE ImageInv'
  BY <1>2, DownloadedInv, DownloadFailsInv DEF DownloadEnds
<1>3. ASSUME NEW u \in Urls, Evict(u) PROVE ImageInv'
  BY <1>3 DEF Evict, ImageInv, ImageTypeOK, OwnImage, ShowsOrWaits, Awaited
<1>4. CASE RunAnswer
  BY <1>4, RunAnswerInv
<1>5. CASE UNCHANGED imageVars
  BY <1>5 DEF imageVars, ImageInv, ImageTypeOK, OwnImage, ShowsOrWaits, Awaited
<1> QED BY <1>1, <1>2, <1>3, <1>4, <1>5 DEF ImageNext

\* The inductive invariant of an image view.
THEOREM ImageInvariant == ImageSpec => []ImageInv
  BY ImageInitInv, ImageNextInv, PTL DEF ImageSpec

\* Every variable keeps its type.
THEOREM ImageTypeCorrect == ImageSpec => []ImageTypeOK
<1>1. ImageInv => ImageTypeOK
  BY DEF ImageInv
<1> QED BY <1>1, ImageInvariant, PTL

\* A view never shows the image of a URL it is no longer for.
THEOREM NoForeignImage == ImageSpec => []OwnImage
<1>1. ImageInv => OwnImage
  BY DEF ImageInv
<1> QED BY <1>1, ImageInvariant, PTL

\* No order of loads, answers and evictions leaves a view blank that waits
\* for nothing.
THEOREM BlankViewWaits == ImageSpec => []ShowsOrWaits
<1>1. ImageInv => ShowsOrWaits
  BY DEF ImageInv
<1> QED BY <1>1, ImageInvariant, PTL

=============================================================================
