--------------------------- MODULE ItineraryCell ---------------------------
(***************************************************************************)
(* The photos of the itinerary table (ItineraryCell.swift).                *)
(*                                                                         *)
(* The table reuses its cells.  Each time it configures a cell for a       *)
(* location, a closure is queued on the main queue; it shows the photo     *)
(* from the cell's cache, or looks the place up in Google Places and loads *)
(* its first photo.  Lookups of one cell, for different locations, overlap *)
(* and answer in any order; a photo that arrives is also given to the      *)
(* location itself, which is what a save uploads later.                    *)
(***************************************************************************)
EXTENDS Naturals, Sequences

CONSTANTS
    Cells,          \* ItineraryCell objects, of one table or of several
    Places,         \* places; a place stands for its photo and address too
    NoPlace,        \* no image, no address, no photo, never configured
    MaxLocations,   \* bound: locations added
    MaxRequests     \* bound: calls of configure

ASSUME CellAssumption ==
    /\ NoPlace \notin Places
    /\ MaxLocations \in Nat
    /\ MaxRequests \in Nat

VARIABLES
    locations,      \* CurrentItinerary.shared.locations
    row,            \* row[c]: the location c is on screen for, 0 if none
    placeID,        \* placeID[c]: c.locationPlaceID
    image,          \* image[c]: the place whose photo c shows
    address,        \* address[c]: the place whose address c shows
    cache,          \* cache[c]: the places whose photo is in c.imageCache
    requests        \* the calls of configure, in the order they were made

vars == <<locations, row, placeID, image, address, cache, requests>>

MaybePlace == Places \cup {NoPlace}

Location == [place : Places, photo : MaybePlace]

(***************************************************************************)
(* A request is the closure of one call of configure: "queued" on the main *)
(* queue, waiting for lookUpPhotos or for loadPlacePhoto, and then "done"  *)
(* with a photo or "failed" without one.                                   *)
(***************************************************************************)
State == {"queued", "lookup", "photo", "done", "failed"}
Request == [cell : Cells, place : Places, index : Nat, state : State]

Pending(r) == requests[r].state \in {"queued", "lookup", "photo"}

Requests == DOMAIN requests

Init ==
    /\ locations = <<>>
    /\ row = [c \in Cells |-> 0]
    /\ placeID = [c \in Cells |-> NoPlace]
    /\ image = [c \in Cells |-> NoPlace]
    /\ address = [c \in Cells |-> NoPlace]
    /\ cache = [c \in Cells |-> {}]
    /\ requests = <<>>

\* CurrentItinerary.addLocation.
AddLocation(p) ==
    /\ Len(locations) < MaxLocations
    /\ locations' = Append(locations, [place |-> p, photo |-> NoPlace])
    /\ UNCHANGED <<row, placeID, image, address, cache, requests>>

----------------------------------------------------------------------------
\* tableView(_:cellForRowAt:) dequeues a cell that is not on screen and
\* configures it for location i; what the cell shows is not reset.
Configure(c, i) ==
    /\ row[c] = 0
    /\ \A d \in Cells : row[d] # i
    /\ Len(requests) < MaxRequests
    /\ row' = [row EXCEPT ![c] = i]
    /\ placeID' = [placeID EXCEPT ![c] = locations[i].place]
    /\ requests' = Append(requests, [cell  |-> c,
                                     place |-> locations[i].place,
                                     index |-> i,
                                     state |-> "queued"])
    /\ UNCHANGED <<locations, image, address, cache>>

\* The cell leaves the screen: it scrolls away, the table reloads, or the
\* editor goes.
Leave(c) ==
    /\ row[c] # 0
    /\ row' = [row EXCEPT ![c] = 0]
    /\ UNCHANGED <<locations, placeID, image, address, cache, requests>>

\* NSCache drops what it likes.
Evict(c, p) ==
    /\ p \in cache[c]
    /\ cache' = [cache EXCEPT ![c] = @ \ {p}]
    /\ UNCHANGED <<locations, row, placeID, image, address, requests>>

----------------------------------------------------------------------------
MoveTo(r, s) == requests' = [requests EXCEPT ![r].state = s]

\* Mutant of RunQueued: a photo found in the cache is not shown.
RunQueuedNoImage(r) ==
    /\ requests[r].state = "queued"
    /\ \A q \in 1 .. r - 1 : requests[q].state # "queued"
    /\ MoveTo(r, IF requests[r].place \in cache[requests[r].cell]
                   THEN "done" ELSE "lookup")
    /\ UNCHANGED <<locations, row, placeID, image, address, cache>>

\* Mutant of RunQueued: the closures run on a concurrent queue.
RunQueuedAnyOrder(r) ==
    LET c == requests[r].cell
        p == requests[r].place
    IN  /\ requests[r].state = "queued"
        /\ IF p \in cache[c]
             THEN /\ image' = [image EXCEPT ![c] = p]
                  /\ MoveTo(r, "done")
             ELSE /\ MoveTo(r, "lookup")
                  /\ UNCHANGED image
        /\ UNCHANGED <<locations, row, placeID, address, cache>>

\* The main queue runs the oldest closure.  A photo found in the cache is
\* shown, whatever the cell has been configured for meanwhile, and neither
\* the address nor the location gets it.
RunQueued(r) ==
    LET c == requests[r].cell
        p == requests[r].place
    IN  /\ requests[r].state = "queued"
        /\ \A q \in 1 .. r - 1 : requests[q].state # "queued"
        /\ IF p \in cache[c]
             THEN /\ image' = [image EXCEPT ![c] = p]
                  /\ MoveTo(r, "done")
             ELSE /\ MoveTo(r, "lookup")
                  /\ UNCHANGED image
        /\ UNCHANGED <<locations, row, placeID, address, cache>>

\* lookUpPhotos answers with at least one photo.
PhotosFound(r) ==
    /\ requests[r].state = "lookup"
    /\ MoveTo(r, "photo")
    /\ UNCHANGED <<locations, row, placeID, image, address, cache>>

\* lookUpPhotos or loadPlacePhoto reports an error, or there is no photo:
\* nothing is called back.
PhotoFails(r) ==
    /\ requests[r].state \in {"lookup", "photo"}
    /\ MoveTo(r, "failed")
    /\ UNCHANGED <<locations, row, placeID, image, address, cache>>

\* Mutants of PhotoLoaded: the guard on the image is dropped; and the photo
\* goes to the row the cell is on screen for now.
PhotoLoadedUnguarded(r) ==
    LET c == requests[r].cell
        p == requests[r].place
    IN  /\ requests[r].state = "photo"
        /\ image' = [image EXCEPT ![c] = p]
        /\ locations' = [locations EXCEPT ![requests[r].index].photo = p]
        /\ cache' = [cache EXCEPT ![c] = @ \cup {p}]
        /\ address' = [address EXCEPT ![c] = p]
        /\ MoveTo(r, "done")
        /\ UNCHANGED <<row, placeID>>

PhotoLoadedCurrentRow(r) ==
    LET c == requests[r].cell
        p == requests[r].place
    IN  /\ requests[r].state = "photo"
        /\ image' = [image EXCEPT ![c] = p]
        /\ locations' = [i \in 1 .. Len(locations) |->
              IF i = row[c] THEN [locations[i] EXCEPT !.photo = p]
                            ELSE locations[i]]
        /\ cache' = [cache EXCEPT ![c] = @ \cup {p}]
        /\ address' = [address EXCEPT ![c] = p]
        /\ MoveTo(r, "done")
        /\ UNCHANGED <<row, placeID>>

\* loadPlacePhoto answers.  The photo is shown and given to the location if
\* the cell is still configured for the place; the cache and the address are
\* set in any case.
PhotoLoaded(r) ==
    LET c == requests[r].cell
        p == requests[r].place
    IN  /\ requests[r].state = "photo"
        /\ IF placeID[c] = p
             THEN /\ image' = [image EXCEPT ![c] = p]
                  /\ locations' = [locations EXCEPT
                                     ![requests[r].index].photo = p]
             ELSE UNCHANGED <<image, locations>>
        /\ cache' = [cache EXCEPT ![c] = @ \cup {p}]
        /\ address' = [address EXCEPT ![c] = p]
        /\ MoveTo(r, "done")
        /\ UNCHANGED <<row, placeID>>

LookupAnswer(r) == PhotosFound(r) \/ (requests[r].state = "lookup" /\ PhotoFails(r))
LoadAnswer(r) == PhotoLoaded(r) \/ (requests[r].state = "photo" /\ PhotoFails(r))

Next ==
    \/ \E p \in Places : AddLocation(p)
    \/ \E c \in Cells :
          \/ \E i \in DOMAIN locations : Configure(c, i)
          \/ Leave(c)
          \/ \E p \in Places : Evict(c, p)
    \/ \E r \in Requests : RunQueued(r) \/ LookupAnswer(r) \/ LoadAnswer(r)

Spec == Init /\ [][Next]_vars

\* The main queue runs what is queued, and Google Places answers each call,
\* with photos or with an error.
Fairness ==
    \A r \in 1 .. MaxRequests :
        /\ WF_vars(r \in Requests /\ RunQueued(r))
        /\ WF_vars(r \in Requests /\ LookupAnswer(r))
        /\ WF_vars(r \in Requests /\ LoadAnswer(r))

FairSpec == Spec /\ Fairness

----------------------------------------------------------------------------
(***************************************************************************)
(* Properties.                                                             *)
(***************************************************************************)

\* Every variable has its type; in particular every request was made for a
\* location that exists (addPhotoToLocation does not check the index).
TypeOK ==
    /\ locations \in Seq(Location)
    /\ row \in [Cells -> 0 .. Len(locations)]
    /\ placeID \in [Cells -> MaybePlace]
    /\ image \in [Cells -> MaybePlace]
    /\ address \in [Cells -> MaybePlace]
    /\ cache \in [Cells -> SUBSET Places]
    /\ requests \in Seq(Request)
    /\ \A r \in Requests : requests[r].index \in 1 .. Len(locations)

RequestsOf(c) == {r \in Requests : requests[r].cell = c}

Latest(c, r) == r \in RequestsOf(c) /\ \A q \in RequestsOf(c) : q <= r

\* However the lookups of a reused cell overlap, once the request made for
\* its last location has brought a photo, the cell shows the photo of that
\* location and no late answer replaces it (ItineraryCell.configure).
ImageSettles ==
    \A c \in Cells : \A r \in Requests :
        Latest(c, r) /\ requests[r].state = "done" => image[c] = placeID[c]

\* All that happens to the itinerary is that a location is added without a
\* photo, or that a location gets the photo of its own place: what the save
\* pipeline relies on (addLocation, addPhotoToLocation).
ItineraryStep ==
    \/ \E p \in Places :
          locations' = Append(locations, [place |-> p, photo |-> NoPlace])
    \/ \E i \in DOMAIN locations :
          locations' = [locations EXCEPT ![i].photo = locations[i].place]
PhotosGoToTheirLocation == [][ItineraryStep]_locations

\* A cell that stays on screen shows the photo of its location in the end,
\* unless its last lookup fails (configure, GMSPlacesHelper).
CellFillsIn ==
    \A c \in Cells :
        row[c] # 0 ~>
            \/ row[c] = 0
            \/ image[c] = placeID[c]
            \/ \E r \in Requests : Latest(c, r) /\ requests[r].state = "failed"

(***************************************************************************)
(* The inductive invariant behind ImageSettles.                            *)
(***************************************************************************)

\* A cell is configured for the place of its latest request.
LatestIsCurrent ==
    \A c \in Cells : \A r \in Requests :
        Latest(c, r) => placeID[c] = requests[r].place

\* The closures run in order: those still queued are the last ones.
QueueIsSuffix ==
    \A r \in Requests : \A q \in Requests :
        q < r /\ requests[q].state = "queued" => requests[r].state = "queued"

\* A request carries the place of the location it was made for.
RequestsMatch ==
    \A r \in Requests : requests[r].place = locations[requests[r].index].place

CellInv ==
    /\ TypeOK
    /\ LatestIsCurrent
    /\ QueueIsSuffix
    /\ RequestsMatch
    /\ ImageSettles

=============================================================================
