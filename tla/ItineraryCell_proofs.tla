----------------------- MODULE ItineraryCell_proofs -----------------------
(***************************************************************************)
(* Proofs about ItineraryCell, for every set of cells and places and every *)
(* number of locations and requests.                                       *)
(***************************************************************************)
EXTENDS ItineraryCell, SequenceTheorems, TLAPS

\* A request, taken from its sequence.
LEMMA RequestAt ==
    ASSUME TypeOK, NEW r \in Requests
    PROVE  /\ requests[r] \in Request
           /\ requests[r].cell \in Cells
           /\ requests[r].place \in Places
           /\ requests[r].index \in 1 .. Len(locations)
           /\ requests[r].state \in State
           /\ Requests = 1 .. Len(requests)
           /\ Len(requests) \in Nat /\ Len(locations) \in Nat
<1>1. requests \in Seq(Request) /\ locations \in Seq(Location)
  BY DEF TypeOK
<1>2. Requests = 1 .. Len(requests) /\ Len(requests) \in Nat /\ Len(locations) \in Nat
  BY <1>1 DEF Requests
<1>3. requests[r] \in Request
  BY <1>1, <1>2
<1> QED BY <1>2, <1>3 DEF TypeOK, Request

\* A request that moves on changes nothing but its own state.
LEMMA Moved ==
    ASSUME TypeOK, NEW r \in Requests, NEW s \in State, MoveTo(r, s)
    PROVE  /\ requests' \in Seq(Request)
           /\ Requests' = Requests
           /\ \A q \in Requests :
                 /\ requests'[q].cell = requests[q].cell
                 /\ requests'[q].place = requests[q].place
                 /\ requests'[q].index = requests[q].index
                 /\ requests'[q].state = IF q = r THEN s ELSE requests[q].state
<1>1. requests \in Seq(Request) /\ Requests = 1 .. Len(requests)
  BY RequestAt DEF TypeOK
<1>2. \A q \in Requests : requests[q] \in Request
  BY <1>1
<1> DEFINE new == [requests[r] EXCEPT !.state = s]
<1>3. /\ new \in Request
      /\ new.cell = requests[r].cell /\ new.place = requests[r].place
      /\ new.index = requests[r].index /\ new.state = s
  BY <1>2 DEF Request
<1>4. requests' = [requests EXCEPT ![r] = new]
  BY DEF MoveTo
<1> HIDE DEF new
<1>5. /\ requests' \in Seq(Request)
      /\ DOMAIN requests' = DOMAIN requests
      /\ \A q \in Requests : requests'[q] = IF q = r THEN new ELSE requests[q]
  BY <1>1, <1>3, <1>4 DEF Requests
<1> QED BY <1>3, <1>5 DEF Requests

\* Steps that leave the requests and what the cells are configured for and
\* show alone.
LEMMA QuietStep ==
    ASSUME CellInv, TypeOK',
           UNCHANGED <<placeID, image, requests>>,
           Len(locations') >= Len(locations),
           \A i \in 1 .. Len(locations) : locations'[i].place = locations[i].place
    PROVE  CellInv'
<1>1. LatestIsCurrent' /\ QueueIsSuffix' /\ ImageSettles'
  BY DEF CellInv, LatestIsCurrent, QueueIsSuffix, ImageSettles, Latest,
         RequestsOf, Requests
<1>2. RequestsMatch'
  <2>1. ASSUME NEW r \in Requests
        PROVE  requests[r].place = locations'[requests[r].index].place
    BY RequestAt DEF CellInv, RequestsMatch
  <2> QED BY <2>1 DEF RequestsMatch, Requests
<1> QED BY <1>1, <1>2 DEF CellInv

LEMMA AddLocationInv ==
    ASSUME CellInv, NEW p \in Places, AddLocation(p)
    PROVE  CellInv'
<1> DEFINE new == [place |-> p, photo |-> NoPlace]
<1>1. new \in Location
  BY DEF Location, MaybePlace
<1>2. locations \in Seq(Location) /\ locations' = Append(locations, new)
  BY DEF CellInv, TypeOK, AddLocation
<1> HIDE DEF new
<1>3. /\ locations' \in Seq(Location)
      /\ Len(locations) \in Nat
      /\ Len(locations') = Len(locations) + 1
      /\ \A i \in 1 .. Len(locations) : locations'[i] = locations[i]
  BY <1>1, <1>2
<1>4. TypeOK'
  <2>1. row \in [Cells -> 0 .. Len(locations')]
    BY <1>3 DEF CellInv, TypeOK
  <2>2. \A r \in Requests : requests[r].index \in 1 .. Len(locations')
    BY <1>3 DEF CellInv, TypeOK
  <2> QED BY <1>3, <2>1, <2>2 DEF CellInv, TypeOK, AddLocation, Requests
<1> QED BY <1>3, <1>4, QuietStep DEF AddLocation

LEMMA ScreenInv ==
    ASSUME CellInv, NEW c \in Cells,
           Leave(c) \/ \E p \in Places : Evict(c, p)
    PROVE  CellInv'
<1>1. TypeOK'
  <2>1. Len(locations) \in Nat
    BY DEF CellInv, TypeOK
  <2>2. row' \in [Cells -> 0 .. Len(locations)]
    <3>1. CASE Leave(c)
      BY <2>1, <3>1 DEF CellInv, TypeOK, Leave
    <3>2. CASE \E p \in Places : Evict(c, p)
      BY <3>2 DEF CellInv, TypeOK, Evict
    <3> QED BY <3>1, <3>2
  <2>3. cache' \in [Cells -> SUBSET Places]
    <3>1. CASE Leave(c)
      BY <3>1 DEF CellInv, TypeOK, Leave
    <3>2. CASE \E p \in Places : Evict(c, p)
      BY <3>2 DEF CellInv, TypeOK, Evict
    <3> QED BY <3>1, <3>2
  <2>4. UNCHANGED <<locations, placeID, image, address, requests>>
    BY DEF Leave, Evict
  <2> QED BY <2>2, <2>3, <2>4 DEF CellInv, TypeOK, Requests
<1>2. /\ UNCHANGED <<placeID, image, requests, locations>>
      /\ Len(locations) \in Nat
  BY DEF Leave, Evict, CellInv, TypeOK
<1> QED BY <1>1, <1>2, QuietStep

LEMMA ConfigureInv ==
    ASSUME CellInv, NEW c \in Cells, NEW i \in DOMAIN locations, Configure(c, i)
    PROVE  CellInv'
<1> DEFINE new == [cell |-> c, place |-> locations[i].place, index |-> i,
                   state |-> "queued"]
           n == Len(requests) + 1
<1>1. /\ locations \in Seq(Location) /\ requests \in Seq(Request)
      /\ Len(requests) \in Nat /\ Len(locations) \in Nat
      /\ Requests = 1 .. Len(requests)
      /\ i \in 1 .. Len(locations)
  BY DEF CellInv, TypeOK, Requests
<1>2. locations[i].place \in Places
  <2>1. locations[i] \in Location
    BY <1>1
  <2> QED BY <2>1 DEF Location
<1>3. /\ new \in Request
      /\ new.cell = c /\ new.place = locations[i].place
      /\ new.index = i /\ new.state = "queued"
  BY <1>1, <1>2 DEF Request, State
<1>4. /\ requests' = Append(requests, new)
      /\ placeID' = [placeID EXCEPT ![c] = locations[i].place]
      /\ row' = [row EXCEPT ![c] = i]
      /\ UNCHANGED <<locations, image, address, cache>>
  BY DEF Configure
<1> HIDE DEF new
<1>5. /\ requests' \in Seq(Request)
      /\ Requests' = 1 .. n
      /\ \A r \in Requests : requests'[r] = requests[r]
      /\ requests'[n] = new
      /\ n \in Nat /\ n \notin Requests
  BY <1>1, <1>3, <1>4 DEF Requests
<1>6. TypeOK'
  <2>1. row' \in [Cells -> 0 .. Len(locations)]
    BY <1>1, <1>4 DEF CellInv, TypeOK
  <2>2. placeID' \in [Cells -> MaybePlace]
    BY <1>2, <1>4 DEF CellInv, TypeOK, MaybePlace
  <2>3. \A r \in Requests' : requests'[r].index \in 1 .. Len(locations)
    <3> SUFFICES ASSUME NEW r \in Requests'
                 PROVE  requests'[r].index \in 1 .. Len(locations)
      OBVIOUS
    <3>1. CASE r = n
      BY <1>1, <1>3, <1>5, <3>1
    <3>2. CASE r # n
      <4>1. r \in Requests
        BY <1>1, <1>5, <3>2
      <4> QED BY <1>5, <4>1 DEF CellInv, TypeOK
    <3> QED BY <3>1, <3>2
  <2> QED BY <1>4, <1>5, <2>1, <2>2, <2>3 DEF CellInv, TypeOK
<1>7. \A r \in Requests : ~Latest(c, r)'
  <2>1. n \in RequestsOf(c)'
    BY <1>1, <1>3, <1>5 DEF RequestsOf
  <2>2. \A r \in Requests : ~(n <= r)
    BY <1>1
  <2> QED BY <2>1, <2>2 DEF Latest
<1>8. ASSUME NEW d \in Cells, d # c, NEW r \in Requests', Latest(d, r)'
      PROVE  Latest(d, r) /\ r \in Requests
  <2>1. \A q \in Requests : requests'[q].cell = requests[q].cell
    BY <1>5
  <2>2. r \in Requests' /\ requests'[r].cell = d
    BY <1>8 DEF Latest, RequestsOf
  <2>3. r \in Requests
    BY <1>1, <1>3, <1>5, <1>8, <2>2
  <2>4. Requests \subseteq Requests'
    BY <1>1, <1>5
  <2>5. RequestsOf(d) \subseteq RequestsOf(d)'
    BY <2>1, <2>4 DEF RequestsOf
  <2>6. r \in RequestsOf(d)
    BY <2>1, <2>2, <2>3 DEF RequestsOf
  <2> QED BY <1>8, <2>3, <2>5, <2>6 DEF Latest
<1>9. LatestIsCurrent'
  <2> SUFFICES ASSUME NEW d \in Cells, NEW r \in Requests', Latest(d, r)'
               PROVE  placeID'[d] = requests'[r].place
    BY DEF LatestIsCurrent
  <2>1. CASE d = c
    <3>1. r = n
      BY <1>1, <1>5, <1>7, <2>1
    <3> QED BY <1>3, <1>4, <1>5, <2>1, <3>1 DEF CellInv, TypeOK
  <2>2. CASE d # c
    <3>1. Latest(d, r) /\ r \in Requests
      BY <1>8, <2>2
    <3> QED BY <1>4, <1>5, <2>2, <3>1 DEF CellInv, TypeOK, LatestIsCurrent
  <2> QED BY <2>1, <2>2
<1>10. QueueIsSuffix'
  <2> SUFFICES ASSUME NEW r \in Requests', NEW q \in Requests', q < r,
                      requests'[q].state = "queued"
               PROVE  requests'[r].state = "queued"
    BY DEF QueueIsSuffix
  <2>1. CASE r = n
    BY <1>3, <1>5, <2>1
  <2>2. CASE r # n
    <3>1. r \in Requests /\ q \in Requests
      BY <1>1, <1>5, <2>2
    <3> QED BY <1>5, <3>1 DEF CellInv, QueueIsSuffix
  <2> QED BY <2>1, <2>2
<1>11. RequestsMatch'
  BY <1>1, <1>3, <1>4, <1>5 DEF CellInv, RequestsMatch
<1>12. ImageSettles'
  <2> SUFFICES ASSUME NEW d \in Cells, NEW r \in Requests', Latest(d, r)',
                      requests'[r].state = "done"
               PROVE  image'[d] = placeID'[d]
    BY DEF ImageSettles
  <2>1. r # n
    BY <1>3, <1>5
  <2>2. r \in Requests /\ d # c
    BY <1>1, <1>5, <1>7, <2>1
  <2>3. Latest(d, r)
    BY <1>8, <2>2
  <2> QED BY <1>4, <1>5, <2>2, <2>3 DEF CellInv, TypeOK, ImageSettles
<1> QED BY <1>6, <1>9, <1>10, <1>11, <1>12 DEF CellInv

(***************************************************************************)
(* Steps of one request.                                                   *)
(***************************************************************************)

\* What a moved request leaves to be shown: the types of the other variables
\* and ImageSettles.
LEMMA RequestStep ==
    ASSUME CellInv, NEW r \in Requests, NEW s \in State, MoveTo(r, s),
           s # "queued",
           requests[r].state = "queued" =>
              \A q \in 1 .. r - 1 : requests[q].state # "queued",
           UNCHANGED <<row, placeID>>,
           locations' \in Seq(Location),
           Len(locations') = Len(locations),
           \A i \in 1 .. Len(locations) : locations'[i].place = locations[i].place,
           image' \in [Cells -> MaybePlace],
           address' \in [Cells -> MaybePlace],
           cache' \in [Cells -> SUBSET Places],
           ImageSettles'
    PROVE  CellInv'
<1>1. /\ requests' \in Seq(Request)
      /\ Requests' = Requests
      /\ \A q \in Requests :
            /\ requests'[q].cell = requests[q].cell
            /\ requests'[q].place = requests[q].place
            /\ requests'[q].index = requests[q].index
            /\ requests'[q].state = IF q = r THEN s ELSE requests[q].state
  BY Moved DEF CellInv
<1>2. TypeOK'
  BY <1>1 DEF CellInv, TypeOK
<1>3. LatestIsCurrent'
  <2>1. ASSUME NEW c \in Cells, NEW q \in Requests, Latest(c, q)'
        PROVE  Latest(c, q)
    <3>1. RequestsOf(c)' = RequestsOf(c)
      BY <1>1 DEF RequestsOf
    <3> QED BY <2>1, <3>1 DEF Latest
  <2>2. ASSUME NEW c \in Cells, NEW q \in Requests, Latest(c, q)'
        PROVE  placeID'[c] = requests'[q].place
    BY <1>1, <2>1, <2>2 DEF CellInv, LatestIsCurrent
  <2> QED BY <1>1, <2>2 DEF LatestIsCurrent
<1>4. QueueIsSuffix'
  <2> SUFFICES ASSUME NEW b \in Requests, NEW a \in Requests, a < b,
                      requests'[a].state = "queued"
               PROVE  requests'[b].state = "queued"
    BY <1>1 DEF QueueIsSuffix
  <2>1. requests[a].state = "queued" /\ a # r
    BY <1>1
  <2>2. requests[b].state = "queued"
    BY <2>1 DEF CellInv, QueueIsSuffix
  <2>3. b # r
    <3>1. SUFFICES ASSUME b = r PROVE FALSE
      OBVIOUS
    <3>2. a \in 1 .. r - 1
      BY <3>1, RequestAt DEF CellInv
    <3> QED BY <2>1, <2>2, <3>1, <3>2
  <2> QED BY <1>1, <2>2, <2>3
<1>5. RequestsMatch'
  <2>1. ASSUME NEW q \in Requests
        PROVE  requests'[q].place = locations'[requests'[q].index].place
    <3>1. requests[q].index \in 1 .. Len(locations)
      BY RequestAt DEF CellInv
    <3> QED BY <1>1, <3>1 DEF CellInv, RequestsMatch
  <2> QED BY <1>1, <2>1 DEF RequestsMatch
<1> QED BY <1>2, <1>3, <1>4, <1>5 DEF CellInv

\* If r's cell now shows r's place, or if no request became "done" and no
\* image changed, the images are settled still.
LEMMA SettledStep ==
    ASSUME CellInv, NEW r \in Requests, NEW s \in State, MoveTo(r, s),
           UNCHANGED placeID,
           \/ s # "done" /\ UNCHANGED image
           \/ /\ placeID[requests[r].cell] # requests[r].place
              /\ UNCHANGED image
           \/ /\ placeID[requests[r].cell] = requests[r].place
              /\ image' = [image EXCEPT ![requests[r].cell] = requests[r].place]
           \/ /\ requests[r].state = "queued"
              /\ \A q \in 1 .. r - 1 : requests[q].state # "queued"
              /\ image' = [image EXCEPT ![requests[r].cell] = requests[r].place]
    PROVE  ImageSettles'
<1>1. /\ Requests' = Requests
      /\ \A q \in Requests :
            /\ requests'[q].cell = requests[q].cell
            /\ requests'[q].place = requests[q].place
            /\ requests'[q].state = IF q = r THEN s ELSE requests[q].state
  BY Moved DEF CellInv
<1>2. /\ image \in [Cells -> MaybePlace]
      /\ requests[r].cell \in Cells
      /\ Requests = 1 .. Len(requests) /\ Len(requests) \in Nat
  BY RequestAt DEF CellInv, TypeOK
<1> SUFFICES ASSUME NEW d \in Cells, NEW q \in Requests,
                    Latest(d, q), requests'[q].state = "done"
             PROVE  image'[d] = placeID[d]
  BY <1>1 DEF ImageSettles, Latest, RequestsOf
<1>3. placeID[d] = requests[q].place /\ requests[q].cell = d
  BY DEF CellInv, LatestIsCurrent, Latest, RequestsOf
<1>4. CASE q = r
  BY <1>1, <1>2, <1>3, <1>4
<1>5. CASE q # r
  <2>1. requests[q].state = "done" /\ image[d] = placeID[d]
    BY <1>1, <1>5 DEF CellInv, ImageSettles
  <2>2. CASE requests[r].cell # d
    BY <1>2, <2>1, <2>2
  <2>3. CASE requests[r].cell = d
    <3>1. r < q
      BY <1>2, <1>5, <2>3 DEF Latest, RequestsOf
    <3>2. requests[r].state # "queued"
      BY <2>1, <3>1 DEF CellInv, QueueIsSuffix
    <3> QED BY <1>2, <1>3, <2>1, <2>3, <3>2
  <2> QED BY <2>2, <2>3
<1> QED BY <1>4, <1>5

LEMMA RunQueuedInv ==
    ASSUME CellInv, NEW r \in Requests, RunQueued(r)
    PROVE  CellInv'
<1> DEFINE c == requests[r].cell
           p == requests[r].place
<1>1. /\ c \in Cells /\ p \in Places
      /\ requests[r].state = "queued"
      /\ \A q \in 1 .. r - 1 : requests[q].state # "queued"
      /\ UNCHANGED <<locations, row, placeID, address, cache>>
      /\ \/ /\ image' = [image EXCEPT ![c] = p]
            /\ MoveTo(r, "done")
         \/ /\ MoveTo(r, "lookup")
            /\ UNCHANGED image
  BY RequestAt DEF RunQueued, CellInv
<1>2. PICK s \in {"done", "lookup"} :
         /\ MoveTo(r, s)
         /\ \/ s = "lookup" /\ UNCHANGED image
            \/ image' = [image EXCEPT ![c] = p]
  BY <1>1
<1>3. image' \in [Cells -> MaybePlace]
  BY <1>1, <1>2 DEF CellInv, TypeOK, MaybePlace
<1>4. s \in State /\ s # "queued"
  BY DEF State
<1>5. ImageSettles'
  BY <1>1, <1>2, <1>4, SettledStep
<1>6. /\ locations' \in Seq(Location)
      /\ Len(locations') = Len(locations)
      /\ address' \in [Cells -> MaybePlace]
      /\ cache' \in [Cells -> SUBSET Places]
  BY <1>1 DEF CellInv, TypeOK
<1> QED BY <1>1, <1>2, <1>3, <1>4, <1>5, <1>6, RequestStep

LEMMA AnswerInv ==
    ASSUME CellInv, NEW r \in Requests, PhotosFound(r) \/ PhotoFails(r)
    PROVE  CellInv'
<1>1. /\ requests[r].state # "queued"
      /\ UNCHANGED <<locations, row, placeID, image, address, cache>>
  BY DEF PhotosFound, PhotoFails
<1>2. PICK s \in {"photo", "failed"} : MoveTo(r, s)
  BY DEF PhotosFound, PhotoFails
<1>3. s \in State /\ s # "queued" /\ s # "done"
  BY DEF State
<1>4. ImageSettles'
  BY <1>1, <1>2, <1>3, SettledStep
<1>5. /\ locations' \in Seq(Location)
      /\ Len(locations') = Len(locations)
      /\ image' \in [Cells -> MaybePlace]
      /\ address' \in [Cells -> MaybePlace]
      /\ cache' \in [Cells -> SUBSET Places]
  BY <1>1 DEF CellInv, TypeOK
<1> QED BY <1>1, <1>2, <1>3, <1>4, <1>5, RequestStep

\* The location gets the photo of its own place.
LEMMA PhotoSet ==
    ASSUME CellInv, NEW r \in Requests,
           locations' = [locations EXCEPT
                           ![requests[r].index].photo = requests[r].place]
    PROVE  /\ locations' \in Seq(Location)
           /\ Len(locations') = Len(locations)
           /\ \A i \in 1 .. Len(locations) :
                 locations'[i].place = locations[i].place
           /\ \E i \in DOMAIN locations :
                 locations' = [locations EXCEPT ![i].photo = locations[i].place]
<1> DEFINE i == requests[r].index
           new == [locations[i] EXCEPT !.photo = locations[i].place]
<1>1. /\ locations \in Seq(Location) /\ i \in 1 .. Len(locations)
      /\ requests[r].place = locations[i].place
      /\ requests[r].place \in Places
      /\ DOMAIN locations = 1 .. Len(locations)
  BY RequestAt DEF CellInv, TypeOK, RequestsMatch
<1>2. locations[i] \in Location
  BY <1>1
<1>3. new \in Location /\ new.place = locations[i].place
  BY <1>1, <1>2 DEF Location, MaybePlace
<1>4. locations' = [locations EXCEPT ![i] = new]
  BY <1>1
<1>5. \E j \in DOMAIN locations :
         locations' = [locations EXCEPT ![j].photo = locations[j].place]
  BY <1>1
<1> HIDE DEF new, i
<1>6. /\ locations' \in Seq(Location)
      /\ Len(locations') = Len(locations)
  <2>1. locations \in Seq(Location) /\ i \in 1 .. Len(locations) /\ new \in Location
    BY <1>1, <1>3
  <2> QED BY ONLY <1>4, <2>1, ExceptSeq
<1>7. \A j \in 1 .. Len(locations) :
         locations'[j] = IF j = i THEN new ELSE locations[j]
  BY <1>1, <1>4
<1> QED BY <1>3, <1>5, <1>6, <1>7

LEMMA PhotoLoadedInv ==
    ASSUME CellInv, NEW r \in Requests, PhotoLoaded(r)
    PROVE  CellInv'
<1> DEFINE c == requests[r].cell
           p == requests[r].place
<1>1. /\ c \in Cells /\ p \in Places
      /\ requests[r].state # "queued"
      /\ MoveTo(r, "done")
      /\ cache' = [cache EXCEPT ![c] = @ \cup {p}]
      /\ address' = [address EXCEPT ![c] = p]
      /\ UNCHANGED <<row, placeID>>
      /\ \/ /\ placeID[c] = p
            /\ image' = [image EXCEPT ![c] = p]
            /\ locations' = [locations EXCEPT ![requests[r].index].photo = p]
         \/ placeID[c] # p /\ UNCHANGED <<image, locations>>
  BY RequestAt DEF PhotoLoaded, CellInv
<1>2. /\ image' \in [Cells -> MaybePlace]
      /\ address' \in [Cells -> MaybePlace]
      /\ cache' \in [Cells -> SUBSET Places]
  BY <1>1 DEF CellInv, TypeOK, MaybePlace
<1>3. "done" \in State
  BY DEF State
<1>4. ImageSettles'
  BY <1>1, <1>3, SettledStep
<1>5. /\ locations' \in Seq(Location)
      /\ Len(locations') = Len(locations)
      /\ \A i \in 1 .. Len(locations) : locations'[i].place = locations[i].place
  <2>1. CASE locations' = [locations EXCEPT ![requests[r].index].photo = p]
    BY <2>1, PhotoSet
  <2>2. CASE UNCHANGED locations
    BY <2>2 DEF CellInv, TypeOK
  <2> QED BY <1>1, <2>1, <2>2
<1> QED BY <1>1, <1>2, <1>3, <1>4, <1>5, RequestStep

----------------------------------------------------------------------------
(***************************************************************************)
(* Theorems.                                                               *)
(***************************************************************************)

LEMMA InitInv == Init => CellInv
BY DEF Init, CellInv, TypeOK, LatestIsCurrent, QueueIsSuffix, RequestsMatch,
       ImageSettles, Requests, MaybePlace

LEMMA NextInv == CellInv /\ [Next]_vars => CellInv'
<1> SUFFICES ASSUME CellInv, [Next]_vars PROVE CellInv'
  OBVIOUS
<1>1. CASE \E p \in Places : AddLocation(p)
  BY <1>1, AddLocationInv
<1>2. CASE \E c \in Cells : \E i \in DOMAIN locations : Configure(c, i)
  BY <1>2, ConfigureInv
<1>3. CASE \E c \in Cells : Leave(c) \/ \E p \in Places : Evict(c, p)
  BY <1>3, ScreenInv
<1>4. CASE \E r \in Requests : RunQueued(r)
  BY <1>4, RunQueuedInv
<1>5. CASE \E r \in Requests : PhotosFound(r) \/ PhotoFails(r)
  BY <1>5, AnswerInv
<1>6. CASE \E r \in Requests : PhotoLoaded(r)
  BY <1>6, PhotoLoadedInv
<1>7. CASE UNCHANGED vars
  BY <1>7
  DEF vars, CellInv, TypeOK, LatestIsCurrent, QueueIsSuffix, RequestsMatch,
      ImageSettles, Latest, RequestsOf, Requests
<1> QED BY <1>1, <1>2, <1>3, <1>4, <1>5, <1>6, <1>7
        DEF Next, LookupAnswer, LoadAnswer

\* The inductive invariant holds of every behaviour of the table's cells.
THEOREM CellInvariant == Spec => []CellInv
<1> QED BY InitInv, NextInv, PTL DEF Spec

\* Every variable has its type; every request is for an existing location.
THEOREM TypeCorrect == Spec => []TypeOK
<1>1. CellInv => TypeOK
  BY DEF CellInv
<1> QED BY <1>1, CellInvariant, PTL

\* A cell whose latest request brought a photo shows that photo, whatever
\* answers are still to come (ItineraryCell.configure).
THEOREM ImagesSettle == Spec => []ImageSettles
<1>1. CellInv => ImageSettles
  BY DEF CellInv
<1> QED BY <1>1, CellInvariant, PTL

\* A location gets no photo but the one of its own place, and the itinerary
\* only grows: what SaveItinerary assumes of the table.
THEOREM PhotosGoHome == Spec => PhotosGoToTheirLocation
<1>1. ASSUME CellInv, [Next]_vars PROVE ItineraryStep \/ UNCHANGED locations
  <2>1. CASE \E p \in Places : AddLocation(p)
    BY <2>1 DEF AddLocation, ItineraryStep
  <2>2. CASE \E r \in Requests : PhotoLoaded(r)
    BY <1>1, <2>2, PhotoSet DEF PhotoLoaded, ItineraryStep
  <2> QED BY <1>1, <2>1, <2>2
          DEF Next, Configure, Leave, Evict, RunQueued, PhotosFound, PhotoFails,
              LookupAnswer, LoadAnswer, vars
<1> QED BY <1>1, CellInvariant, PTL DEF Spec, PhotosGoToTheirLocation

=============================================================================
