----------------------- MODULE SaveItinerary_proofs -----------------------
(***************************************************************************)
(* Proofs about SaveItinerary, for every set of editors, places and users. *)
(***************************************************************************)
EXTENDS SaveItinerary, SequenceTheorems, TLAPS

\* A location of the itinerary, taken from its sequence.
LEMMA LocationAt ==
    ASSUME TypeOK, NEW i \in 1 .. Len(locations)
    PROVE  /\ locations[i] \in Location
           /\ locations[i].place \in Places
           /\ locations[i].photo \in Places \cup {NoPhoto}
<1>1. locations \in Seq(Location)
  BY DEF TypeOK
<1>2. locations[i] \in Location
  BY <1>1
<1> QED BY <1>2 DEF Location

(***************************************************************************)
(* savePhoto(index: i): what it may leave behind, for an index in range.   *)
(***************************************************************************)
LEMMA SavePhotoOutcome ==
    ASSUME TypeOK, NEW s \in Save, NEW i \in 0 .. LocationCount,
           NEW t \in SavePhoto(s, i)
    PROVE  /\ t \in Save
           /\ t.photoIDs = s.photoIDs
           /\ t.size = s.size
           /\ t.index = i
           /\ t.count = LocationCount
           /\ t.phase \in {"failed", "registering", "putting"}
           /\ t.phase = "registering" => i = LocationCount /\ t.user \in Users
           /\ t.phase = "putting" => /\ i < LocationCount
                                     /\ t.image = locations[i + 1].photo
                                     /\ t.image \in Places
<1> DEFINE b == [s EXCEPT !.index = i, !.count = LocationCount]
<1>1. LocationCount \in Nat /\ i \in Nat
  BY DEF TypeOK, LocationCount
<1>2. /\ b \in Save
      /\ b.photoIDs = s.photoIDs
      /\ b.size = s.size
      /\ b.index = i
      /\ b.count = LocationCount
  BY <1>1 DEF Save
<1>3. CASE i = LocationCount
  <2>1. t = [b EXCEPT !.phase = "failed"]
          \/ (uid # NoUser /\ t = [b EXCEPT !.phase = "registering", !.user = uid])
    BY <1>3 DEF SavePhoto
  <2>2. uid # NoUser => uid \in Users
    BY DEF TypeOK
  <2> HIDE DEF b
  <2> QED BY <1>2, <1>3, <2>1, <2>2 DEF Save, Phase, InFlight
<1>4. CASE i # LocationCount
  <2>1. i + 1 \in 1 .. Len(locations) /\ i < LocationCount
    BY <1>1, <1>4 DEF LocationCount
  <2>2. locations[i + 1].photo \in Places \cup {NoPhoto}
    BY <2>1, LocationAt
  <2>3. t = [b EXCEPT !.phase = "failed"]
          \/ /\ locations[i + 1].photo \in Places
             /\ t = [b EXCEPT !.phase = "putting", !.image = locations[i + 1].photo]
    BY <1>4, <2>2 DEF SavePhoto
  <2> HIDE DEF b
  <2> QED BY <1>2, <1>4, <2>1, <2>2, <2>3 DEF Save, Phase, InFlight
<1> QED BY <1>3, <1>4

(***************************************************************************)
(* Steps that leave the saves and the courses alone.                       *)
(***************************************************************************)

\* If places are only added and photos set, what the running saves hold
\* stays right.
LEMMA PlacesKept ==
    ASSUME SaveInv,
           locations' \in Seq(Location),
           Len(locations') >= Len(locations),
           \A i \in 1 .. Len(locations) : locations'[i].place = locations[i].place,
           UNCHANGED <<save, courses>>,
           NEW e \in Editors,
           e \in opened => e \in opened'
    PROVE  EditorInv(e)'
<1>1. /\ locations \in Seq(Location)
      /\ save[e].index \in Nat /\ save[e].count \in Nat /\ save[e].size \in Nat
      /\ save[e].phase \in Phase
  BY DEF SaveInv, TypeOK, Save
<1>2. Len(locations) \in Nat /\ Len(locations') \in Nat
  BY <1>1
<1>3. EditorInv(e)
  BY DEF SaveInv
<1>4. OrderedPhotoIDs(e)'
  <2>1. SUFFICES ASSUME Running(e)
                 PROVE  /\ Len(save[e].photoIDs) = save[e].index
                        /\ save[e].index <= Len(locations')
                        /\ \A i \in 1 .. save[e].index :
                              save[e].photoIDs[i] =
                                [by |-> e, index |-> i, photo |-> locations'[i].place]
    BY DEF OrderedPhotoIDs, Running, LocationCount
  <2>2. /\ Len(save[e].photoIDs) = save[e].index
        /\ save[e].index <= Len(locations)
        /\ \A i \in 1 .. save[e].index :
              save[e].photoIDs[i] =
                [by |-> e, index |-> i, photo |-> locations[i].place]
    BY <1>3, <2>1 DEF EditorInv, OrderedPhotoIDs, LocationCount
  <2>3. \A i \in 1 .. save[e].index : locations'[i].place = locations[i].place
    BY <1>1, <1>2, <2>2
  <2> QED BY <1>1, <1>2, <2>2, <2>3
<1>5. NotStarted(e)'
  BY <1>3 DEF EditorInv, NotStarted
<1>6. Progress(e)'
  <2>1. ASSUME save[e].phase \in {"putting", "fetching"}
        PROVE  /\ save[e].index < save[e].count
               /\ save[e].count <= Len(locations')
               /\ save[e].image = locations'[save[e].index + 1].place
    <3>1. /\ save[e].index < save[e].count
          /\ save[e].count <= Len(locations)
          /\ save[e].image = locations[save[e].index + 1].place
      BY <1>3, <2>1 DEF EditorInv, Progress, LocationCount
    <3>2. save[e].index + 1 \in 1 .. Len(locations)
      BY <1>1, <1>2, <3>1
    <3> QED BY <1>1, <1>2, <3>1, <3>2
  <2> QED BY <1>1, <1>2, <1>3, <2>1 DEF EditorInv, Progress, Running, LocationCount
<1>7. CourseWhenLanded(e)'
  BY <1>3 DEF EditorInv, CourseWhenLanded, HasCourse
<1> QED BY <1>4, <1>5, <1>6, <1>7 DEF EditorInv

LEMMA OpenInv ==
    ASSUME SaveInv, NEW e \in Editors, Open(e)
    PROVE  SaveInv'
<1> USE DEF Open
<1>1. TypeOK'
  BY DEF SaveInv, TypeOK
<1>2. SavesAreCovered'
  <2>1. save[e].phase = "none"
    BY DEF SaveInv, EditorInv, NotStarted
  <2>2. asked = {}
    BY ConstantsAssumption DEF SaveInv, SavesAreCovered, TypeOK
  <2> QED BY <2>1, <2>2, ConstantsAssumption DEF SaveInv, SavesAreCovered
<1>3. PhotosMatch'
  BY DEF SaveInv, PhotosMatch
<1>4. ASSUME NEW f \in Editors PROVE EditorInv(f)'
  BY PlacesKept DEF SaveInv, TypeOK
<1> QED BY <1>1, <1>2, <1>3, <1>4 DEF SaveInv

LEMMA CancelInv ==
    ASSUME SaveInv, NEW e \in Editors, Cancel(e)
    PROVE  SaveInv'
<1> USE DEF Cancel
<1>1. TypeOK'
  BY DEF SaveInv, TypeOK
<1>2. SavesAreCovered'
  BY ConstantsAssumption DEF SaveInv, SavesAreCovered, TypeOK
<1>3. PhotosMatch'
  BY DEF SaveInv, PhotosMatch
<1>4. ASSUME NEW f \in Editors PROVE EditorInv(f)'
  BY PlacesKept DEF SaveInv, TypeOK
<1> QED BY <1>1, <1>2, <1>3, <1>4 DEF SaveInv

LEMMA AlertInv ==
    ASSUME SaveInv, NEW e \in Editors, CompleteTapped(e) \/ BackTapped(e)
    PROVE  SaveInv'
<1> USE DEF CompleteTapped, BackTapped
<1>1. TypeOK'
  BY DEF SaveInv, TypeOK
<1>2. SavesAreCovered'
  BY DEF SaveInv, SavesAreCovered, Touchable
<1>3. PhotosMatch'
  BY DEF SaveInv, PhotosMatch
<1>4. ASSUME NEW f \in Editors PROVE EditorInv(f)'
  BY PlacesKept DEF SaveInv, TypeOK
<1> QED BY <1>1, <1>2, <1>3, <1>4 DEF SaveInv

LEMMA ChangeUserInv ==
    ASSUME SaveInv, NEW u \in Users \cup {NoUser}, ChangeUser(u)
    PROVE  SaveInv'
<1> USE DEF ChangeUser
<1>1. TypeOK'
  BY DEF SaveInv, TypeOK
<1>2. SavesAreCovered' /\ PhotosMatch'
  BY DEF SaveInv, SavesAreCovered, PhotosMatch
<1>4. ASSUME NEW f \in Editors PROVE EditorInv(f)'
  BY PlacesKept DEF SaveInv, TypeOK
<1> QED BY <1>1, <1>2, <1>4 DEF SaveInv

LEMMA PickPlaceInv ==
    ASSUME SaveInv, NEW e \in Editors, NEW p \in Places, PickPlace(e, p)
    PROVE  SaveInv'
<1> DEFINE new == [place |-> p, photo |-> NoPhoto]
<1>1. new \in Location
  BY DEF Location
<1>2. locations \in Seq(Location) /\ locations' = Append(locations, new)
  BY DEF SaveInv, TypeOK, PickPlace
<1> HIDE DEF new
<1>3. /\ locations' \in Seq(Location)
      /\ Len(locations') = Len(locations) + 1
      /\ Len(locations) \in Nat
      /\ \A i \in 1 .. Len(locations) : locations'[i] = locations[i]
      /\ locations'[Len(locations) + 1] = new
  BY <1>1, <1>2
<1>4. TypeOK'
  BY <1>3 DEF SaveInv, TypeOK, PickPlace
<1>5. SavesAreCovered'
  BY DEF SaveInv, SavesAreCovered, PickPlace
<1>6. PhotosMatch'
  <2> SUFFICES ASSUME NEW i \in 1 .. Len(locations')
               PROVE  locations'[i].photo \in {NoPhoto, locations'[i].place}
    BY DEF PhotosMatch
  <2>1. CASE i \in 1 .. Len(locations)
    BY <1>3, <2>1 DEF SaveInv, PhotosMatch
  <2>2. CASE i = Len(locations) + 1
    BY <1>3, <2>2 DEF new
  <2> QED BY <1>3, <2>1, <2>2
<1>7. ASSUME NEW f \in Editors PROVE EditorInv(f)'
  BY <1>3, PlacesKept DEF PickPlace
<1> QED BY <1>4, <1>5, <1>6, <1>7 DEF SaveInv

LEMMA PhotoArrivesInv ==
    ASSUME SaveInv, NEW i \in DOMAIN locations, PhotoArrives(i)
    PROVE  SaveInv'
<1> DEFINE new == [locations[i] EXCEPT !.photo = locations[i].place]
<1>1. locations \in Seq(Location) /\ i \in 1 .. Len(locations)
  BY DEF SaveInv, TypeOK
<1>2. /\ new \in Location
      /\ new.place = locations[i].place
      /\ new.photo = locations[i].place
  BY <1>1, LocationAt DEF Location, SaveInv
<1>3. locations' = [locations EXCEPT ![i] = new]
  BY DEF PhotoArrives
<1> HIDE DEF new
<1>4. /\ locations' \in Seq(Location)
      /\ Len(locations') = Len(locations)
      /\ Len(locations) \in Nat
      /\ \A j \in 1 .. Len(locations) :
            locations'[j] = IF j = i THEN new ELSE locations[j]
  BY <1>1, <1>2, <1>3
<1>5. TypeOK'
  BY <1>4 DEF SaveInv, TypeOK, PhotoArrives
<1>6. SavesAreCovered'
  BY DEF SaveInv, SavesAreCovered, PhotoArrives
<1>7. PhotosMatch'
  BY <1>2, <1>4 DEF SaveInv, PhotosMatch
<1>8. ASSUME NEW f \in Editors PROVE EditorInv(f)'
  BY <1>2, <1>4, PlacesKept DEF PhotoArrives
<1> QED BY <1>5, <1>6, <1>7, <1>8 DEF SaveInv


(***************************************************************************)
(* Steps of one save.                                                      *)
(***************************************************************************)

\* A course is appended for its editor only.
LEMMA CourseAppended ==
    ASSUME courses \in Seq(Course), NEW c \in Course,
           courses' = Append(courses, c), NEW f \in Editors
    PROVE  /\ courses' \in Seq(Course)
           /\ HasCourse(f)' <=> HasCourse(f) \/ c.by = f
<1>1. /\ courses' \in Seq(Course)
      /\ DOMAIN courses = 1 .. Len(courses)
      /\ DOMAIN courses' = 1 .. Len(courses) + 1
      /\ Len(courses) \in Nat
      /\ \A i \in 1 .. Len(courses) : courses'[i] = courses[i]
      /\ courses'[Len(courses) + 1] = c
  OBVIOUS
<1>2. ASSUME HasCourse(f)' PROVE HasCourse(f) \/ c.by = f
  <2>1. PICK i \in 1 .. Len(courses) + 1 : courses'[i].by = f
    BY <1>1, <1>2 DEF HasCourse
  <2>2. CASE i \in 1 .. Len(courses)
    BY <1>1, <2>1, <2>2 DEF HasCourse
  <2>3. CASE i = Len(courses) + 1
    BY <1>1, <2>1, <2>3
  <2> QED BY <1>1, <2>2, <2>3
<1>3. ASSUME HasCourse(f) PROVE HasCourse(f)'
  <2>1. PICK i \in 1 .. Len(courses) : courses[i].by = f
    BY <1>1, <1>3 DEF HasCourse
  <2>2. i \in DOMAIN courses' /\ courses'[i].by = f
    BY <1>1, <2>1
  <2> QED BY <2>2 DEF HasCourse
<1>4. ASSUME c.by = f PROVE HasCourse(f)'
  <2>1. Len(courses) + 1 \in DOMAIN courses' /\ courses'[Len(courses) + 1].by = f
    BY <1>1, <1>4
  <2> QED BY <2>1 DEF HasCourse
<1> QED BY <1>1, <1>2, <1>3, <1>4

\* A step of e's save leaves the other saves right.
LEMMA OneSave ==
    ASSUME SaveInv, NEW e \in Editors, NEW t \in Save,
           save' = [save EXCEPT ![e] = t],
           UNCHANGED <<locations, opened>>,
           \A f \in Editors \ {e} : HasCourse(f)' <=> HasCourse(f),
           EditorInv(e)'
    PROVE  \A f \in Editors : EditorInv(f)'
<1>1. ASSUME NEW f \in Editors, f # e PROVE EditorInv(f)'
  <2>1. save'[f] = save[f]
    BY <1>1 DEF SaveInv, TypeOK
  <2>2. EditorInv(f)
    BY DEF SaveInv
  <2>3. OrderedPhotoIDs(f)'
    BY <2>1, <2>2 DEF EditorInv, OrderedPhotoIDs, Running, LocationCount
  <2>4. NotStarted(f)'
    BY <2>1, <2>2 DEF EditorInv, NotStarted
  <2>5. Progress(f)'
    BY <2>1, <2>2 DEF EditorInv, Progress, Running, LocationCount
  <2>6. CourseWhenLanded(f)'
    BY <1>1, <2>1, <2>2 DEF EditorInv, CourseWhenLanded
  <2> QED BY <2>3, <2>4, <2>5, <2>6 DEF EditorInv
<1> QED BY <1>1

\* The editor of a running save is open, and behind its HUD if on screen.
LEMMA RunningIsOpen ==
    ASSUME SaveInv, NEW e \in Editors, save[e].phase # "none"
    PROVE  /\ e \in opened
           /\ e \notin asked
           /\ shown = e => e \in hud
BY DEF SaveInv, EditorInv, NotStarted, SavesAreCovered

\* savePhoto(index: i) after i photos leaves e's save right.
LEMMA SavePhotoInv ==
    ASSUME SaveInv, NEW e \in Editors, NEW s \in Save, NEW i \in 0 .. LocationCount,
           NEW t \in SavePhoto(s, i),
           save' = [save EXCEPT ![e] = t],
           UNCHANGED <<locations, opened, courses>>,
           e \in opened, ~HasCourse(e),
           s.size <= LocationCount,
           Len(s.photoIDs) = i,
           \A j \in 1 .. i :
              s.photoIDs[j] = [by |-> e, index |-> j, photo |-> locations[j].place]
    PROVE  EditorInv(e)'
<1>1. /\ t \in Save
      /\ t.photoIDs = s.photoIDs
      /\ t.size = s.size
      /\ t.index = i
      /\ t.count = LocationCount
      /\ t.phase \in {"failed", "registering", "putting"}
      /\ t.phase = "registering" => i = LocationCount /\ t.user \in Users
      /\ t.phase = "putting" => /\ i < LocationCount
                                /\ t.image = locations[i + 1].photo
                                /\ t.image \in Places
  BY SavePhotoOutcome DEF SaveInv
<1>2. save'[e] = t
  BY DEF SaveInv, TypeOK
<1>3. LocationCount \in Nat /\ i \in Nat /\ LocationCount = Len(locations)
  BY DEF SaveInv, TypeOK, LocationCount
<1>4. OrderedPhotoIDs(e)'
  BY <1>1, <1>2, <1>3 DEF OrderedPhotoIDs, Running, LocationCount
<1>5. NotStarted(e)'
  BY <1>1, <1>2 DEF NotStarted
<1>6. Progress(e)'
  <2>1. ASSUME t.phase = "putting"
        PROVE  t.image = locations[i + 1].place
    <3>1. i + 1 \in 1 .. Len(locations)
      BY <1>1, <1>3, <2>1
    <3> QED BY <1>1, <2>1, <3>1, ConstantsAssumption DEF SaveInv, PhotosMatch
  <2> QED BY <1>1, <1>2, <1>3, <2>1 DEF Progress, Running, InFlight, LocationCount
<1>7. CourseWhenLanded(e)'
  BY <1>1, <1>2 DEF CourseWhenLanded, HasCourse
<1> QED BY <1>4, <1>5, <1>6, <1>7 DEF EditorInv

LEMMA YesTappedInv ==
    ASSUME SaveInv, NEW e \in Editors, YesTapped(e)
    PROVE  SaveInv'
<1> DEFINE s == [save[e] EXCEPT !.size = LocationCount]
<1>1. PICK t \in SavePhoto(s, 0) : save' = [save EXCEPT ![e] = t]
  BY DEF YesTapped
<1>2. /\ LocationCount \in Nat
      /\ e \in opened /\ shown = e /\ save[e] = NewSave /\ ~HasCourse(e)
  BY DEF SaveInv, TypeOK, LocationCount, YesTapped, SavesAreCovered, EditorInv,
         NotStarted, CourseWhenLanded, NewSave
<1>3. /\ s \in Save
      /\ s.size = LocationCount
      /\ s.photoIDs = <<>>
  BY <1>2 DEF SaveInv, TypeOK, Save, NewSave
<1> HIDE DEF s
<1>4. t \in Save /\ t.phase # "none"
  BY <1>1, <1>2, <1>3, SavePhotoOutcome DEF SaveInv
<1>5. EditorInv(e)'
  <2>1. /\ 0 \in 0 .. LocationCount
        /\ s.size <= LocationCount
        /\ Len(s.photoIDs) = 0
        /\ \A j \in 1 .. 0 :
              s.photoIDs[j] = [by |-> e, index |-> j, photo |-> locations[j].place]
    BY <1>2, <1>3
  <2>2. UNCHANGED <<locations, opened, courses>>
    BY DEF YesTapped
  <2> QED BY <1>1, <1>2, <1>3, <2>1, <2>2, SavePhotoInv
<1>6. TypeOK'
  BY <1>1, <1>4 DEF SaveInv, TypeOK, YesTapped
<1>7. SavesAreCovered'
  BY <1>1, <1>2, <1>4 DEF SaveInv, TypeOK, SavesAreCovered, YesTapped
<1>8. PhotosMatch'
  BY DEF SaveInv, PhotosMatch, YesTapped
<1>9. \A f \in Editors : EditorInv(f)'
  BY <1>1, <1>4, <1>5, OneSave DEF YesTapped, HasCourse
<1> QED BY <1>6, <1>7, <1>8, <1>9 DEF SaveInv

LEMMA PutSucceedsInv ==
    ASSUME SaveInv, NEW e \in Editors, PutSucceeds(e)
    PROVE  SaveInv'
<1> DEFINE t == [save[e] EXCEPT !.phase = "fetching"]
<1>1. save' = [save EXCEPT ![e] = t] /\ save[e].phase = "putting"
  BY DEF PutSucceeds
<1>2. /\ t \in Save
      /\ t.phase = "fetching"
      /\ t.index = save[e].index /\ t.count = save[e].count
      /\ t.image = save[e].image /\ t.size = save[e].size
      /\ t.photoIDs = save[e].photoIDs
  BY DEF SaveInv, TypeOK, Save, Phase, InFlight
<1> HIDE DEF t
<1>3. save'[e] = t
  BY <1>1 DEF SaveInv, TypeOK
<1>4. EditorInv(e)'
  <2>1. EditorInv(e) /\ Running(e) /\ Running(e)' /\ e \in opened
    BY <1>1, <1>2, <1>3, RunningIsOpen DEF SaveInv, Running, InFlight
  <2>2. OrderedPhotoIDs(e)'
    BY <1>2, <1>3, <2>1
    DEF EditorInv, OrderedPhotoIDs, LocationCount, PutSucceeds
  <2>3. NotStarted(e)'
    BY <1>2, <1>3, <2>1 DEF NotStarted, PutSucceeds
  <2>4. Progress(e)'
    BY <1>1, <1>2, <1>3, <2>1 DEF EditorInv, Progress, LocationCount, PutSucceeds
  <2>5. CourseWhenLanded(e)'
    BY <1>1, <1>2, <1>3, <2>1
    DEF EditorInv, CourseWhenLanded, HasCourse, PutSucceeds
  <2> QED BY <2>2, <2>3, <2>4, <2>5 DEF EditorInv
<1>5. TypeOK'
  BY <1>1, <1>2 DEF SaveInv, TypeOK, PutSucceeds
<1>6. SavesAreCovered'
  BY <1>1, <1>2, RunningIsOpen DEF SaveInv, TypeOK, SavesAreCovered, PutSucceeds
<1>7. PhotosMatch'
  BY DEF SaveInv, PhotosMatch, PutSucceeds
<1>8. \A f \in Editors : EditorInv(f)'
  BY <1>1, <1>2, <1>4, OneSave DEF PutSucceeds, HasCourse
<1> QED BY <1>5, <1>6, <1>7, <1>8 DEF SaveInv

LEMMA FailureInv ==
    ASSUME SaveInv, NEW e \in Editors,
           PutFails(e) \/ UrlFails(e) \/ WriteRefused(e)
    PROVE  SaveInv'
<1> USE DEF PutFails, UrlFails, WriteRefused
<1> DEFINE t == [save[e] EXCEPT !.phase = "failed"]
<1>1. save' = [save EXCEPT ![e] = t] /\ Running(e) /\ save[e].phase # "none"
  BY DEF Running, InFlight
<1>2. t \in Save /\ t.phase = "failed"
  BY DEF SaveInv, TypeOK, Save, Phase
<1> HIDE DEF t
<1>3. save'[e] = t
  BY <1>1 DEF SaveInv, TypeOK
<1>4. EditorInv(e)'
  BY <1>1, <1>2, <1>3, RunningIsOpen
  DEF EditorInv, OrderedPhotoIDs, NotStarted, Progress, CourseWhenLanded,
      Running, InFlight
<1>5. TypeOK'
  BY <1>1, <1>2 DEF SaveInv, TypeOK
<1>6. SavesAreCovered'
  BY <1>1, <1>2, RunningIsOpen DEF SaveInv, TypeOK, SavesAreCovered
<1>7. PhotosMatch'
  BY DEF SaveInv, PhotosMatch
<1>8. \A f \in Editors : EditorInv(f)'
  BY <1>1, <1>2, <1>4, OneSave DEF HasCourse
<1> QED BY <1>5, <1>6, <1>7, <1>8 DEF SaveInv


\* When a download URL arrives, e's save goes on with savePhoto(index: i)
\* for the next i, and photoIDs is right for it.
LEMMA UrlReady ==
    ASSUME SaveInv, NEW e \in Editors, save[e].phase = "fetching",
           NEW i, i = save[e].index + 1
    PROVE  /\ WithUrl(e) \in Save
           /\ i \in 0 .. LocationCount
           /\ WithUrl(e).size = save[e].size
           /\ WithUrl(e).size <= LocationCount
           /\ Len(WithUrl(e).photoIDs) = i
           /\ \A j \in 1 .. i :
                 WithUrl(e).photoIDs[j] =
                    [by |-> e, index |-> j, photo |-> locations[j].place]
           /\ PhotoSaved(WithUrl(e)) = SavePhoto(WithUrl(e), i)
<1>1. /\ save[e] \in Save
      /\ save[e].index \in Nat /\ save[e].count \in Nat /\ save[e].size \in Nat
      /\ save[e].photoIDs \in Seq(Object)
      /\ LocationCount \in Nat /\ LocationCount = Len(locations)
  BY DEF SaveInv, TypeOK, Save, LocationCount
<1>2. OrderedPhotoIDs(e) /\ Progress(e) /\ Running(e)
  BY DEF SaveInv, EditorInv, Running, InFlight
<1>3. /\ save[e].index < save[e].count
      /\ save[e].count <= LocationCount
      /\ save[e].size <= LocationCount
      /\ save[e].image = locations[i].place
      /\ i \in 1 .. Len(locations)
      /\ i \in 0 .. LocationCount
  BY <1>1, <1>2 DEF Progress
<1>4. Upload(e) = [by |-> e, index |-> i, photo |-> locations[i].place]
  BY <1>3 DEF Upload
<1>5. Upload(e) \in Object
  BY <1>1, <1>3, <1>4, LocationAt DEF SaveInv, Object
<1>6. /\ Append(save[e].photoIDs, Upload(e)) \in Seq(Object)
      /\ Len(Append(save[e].photoIDs, Upload(e))) = i
      /\ \A j \in 1 .. i :
            Append(save[e].photoIDs, Upload(e))[j]
              = [by |-> e, index |-> j, photo |-> locations[j].place]
  <2>1. /\ Len(save[e].photoIDs) = save[e].index
        /\ \A j \in 1 .. save[e].index :
              save[e].photoIDs[j] =
                 [by |-> e, index |-> j, photo |-> locations[j].place]
    BY <1>2 DEF OrderedPhotoIDs
  <2> DEFINE a == Append(save[e].photoIDs, Upload(e))
  <2>2. /\ a \in Seq(Object)
        /\ Len(a) = i
        /\ \A j \in 1 .. save[e].index : a[j] = save[e].photoIDs[j]
        /\ a[i] = Upload(e)
    BY <1>1, <1>5, <2>1, AppendProperties
  <2> HIDE DEF a
  <2>3. ASSUME NEW j \in 1 .. i
        PROVE  a[j] = [by |-> e, index |-> j, photo |-> locations[j].place]
    <3>1. CASE j = i
      BY <1>4, <2>2, <3>1
    <3>2. CASE j # i
      <4>1. j \in 1 .. save[e].index
        BY <1>1, <3>2
      <4> QED BY <2>1, <2>2, <4>1
    <3> QED BY <3>1, <3>2
  <2> QED BY <2>2, <2>3 DEF a
<1>7. /\ WithUrl(e) \in Save
      /\ WithUrl(e).photoIDs = Append(save[e].photoIDs, Upload(e))
      /\ WithUrl(e).size = save[e].size
      /\ WithUrl(e).index = save[e].index
      /\ WithUrl(e).count = save[e].count
  BY <1>1, <1>6 DEF WithUrl, Save
<1>8. PhotoSaved(WithUrl(e)) = SavePhoto(WithUrl(e), i)
  BY <1>1, <1>3, <1>7 DEF PhotoSaved
<1> QED BY <1>3, <1>6, <1>7, <1>8

\* What the arrival of a download URL makes of e's save.
LEMMA UrlOutcome ==
    ASSUME SaveInv, NEW e \in Editors, UrlArrives(e)
    PROVE  \E t \in SavePhoto(WithUrl(e), save[e].index + 1) :
              /\ save' = [save EXCEPT ![e] = t]
              /\ t \in Save
              /\ t.size = save[e].size
              /\ t.phase \in {"failed", "registering", "putting"}
<1> DEFINE i == save[e].index + 1
<1>1. /\ WithUrl(e) \in Save /\ i \in 0 .. LocationCount
      /\ WithUrl(e).size = save[e].size
      /\ PhotoSaved(WithUrl(e)) = SavePhoto(WithUrl(e), i)
  BY UrlReady DEF UrlArrives
<1> HIDE DEF i
<1>2. PICK t \in SavePhoto(WithUrl(e), i) : save' = [save EXCEPT ![e] = t]
  BY <1>1 DEF UrlArrives
<1>3. /\ t \in Save /\ t.size = save[e].size
      /\ t.phase \in {"failed", "registering", "putting"}
  BY <1>1, <1>2, SavePhotoOutcome DEF SaveInv
<1> QED BY <1>2, <1>3 DEF i

LEMMA UrlArrivesInv ==
    ASSUME SaveInv, NEW e \in Editors, UrlArrives(e)
    PROVE  SaveInv'
<1> DEFINE i == save[e].index + 1
<1>1. PICK t \in SavePhoto(WithUrl(e), i) :
         /\ save' = [save EXCEPT ![e] = t]
         /\ t \in Save
         /\ t.phase \in {"failed", "registering", "putting"}
  BY UrlOutcome
<1>2. /\ save[e].phase = "fetching" /\ save[e].phase # "none"
      /\ UNCHANGED <<locations, shown, opened, asked, hud, uid, courses>>
  BY DEF UrlArrives
<1>3. e \in opened /\ ~HasCourse(e)
  BY <1>2, RunningIsOpen DEF SaveInv, EditorInv, CourseWhenLanded
<1>4. EditorInv(e)'
  <2>1. /\ WithUrl(e) \in Save
        /\ i \in 0 .. LocationCount
        /\ WithUrl(e).size <= LocationCount
        /\ Len(WithUrl(e).photoIDs) = i
        /\ \A j \in 1 .. i :
              WithUrl(e).photoIDs[j] =
                 [by |-> e, index |-> j, photo |-> locations[j].place]
    BY <1>2, UrlReady
  <2> HIDE DEF i
  <2> QED BY <1>1, <1>2, <1>3, <2>1, SavePhotoInv
<1>5. TypeOK'
  BY <1>1, <1>2 DEF SaveInv, TypeOK
<1>6. SavesAreCovered'
  BY <1>1, <1>2, RunningIsOpen DEF SaveInv, TypeOK, SavesAreCovered
<1>7. PhotosMatch'
  BY <1>2 DEF SaveInv, PhotosMatch
<1>8. \A f \in Editors : EditorInv(f)'
  BY <1>1, <1>2, <1>4, OneSave DEF HasCourse
<1> QED BY <1>5, <1>6, <1>7, <1>8 DEF SaveInv

LEMMA WriteLandsInv ==
    ASSUME SaveInv, NEW e \in Editors, WriteLands(e)
    PROVE  SaveInv'
<1> DEFINE t == [save[e] EXCEPT !.phase = "landed"]
           c == [by     |-> e,
                 user   |-> save[e].user,
                 images |-> save[e].photoIDs]
<1>1. /\ save' = [save EXCEPT ![e] = t] /\ courses' = Append(courses, c)
      /\ save[e].phase = "registering" /\ Running(e) /\ save[e].phase # "none"
      /\ UNCHANGED <<locations, shown, opened, asked, hud, uid>>
  BY DEF WriteLands, Running, InFlight
<1>2. EditorInv(e) /\ e \in opened /\ save[e] \in Save /\ courses \in Seq(Course)
  BY <1>1, RunningIsOpen DEF SaveInv, TypeOK
<1>3. c \in Course /\ c.by = e
  BY <1>1, <1>2 DEF Course, Save, EditorInv, Progress
<1>4. /\ t \in Save
      /\ t.phase = "landed"
      /\ t.index = save[e].index /\ t.size = save[e].size
      /\ t.photoIDs = save[e].photoIDs
  BY <1>2 DEF Save, Phase, InFlight
<1> HIDE DEF t, c
<1>5. save'[e] = t
  BY <1>1 DEF SaveInv, TypeOK
<1>6. courses' \in Seq(Course) /\ HasCourse(e)'
  BY <1>1, <1>2, <1>3, CourseAppended
<1>7. \A f \in Editors \ {e} : HasCourse(f)' <=> HasCourse(f)
  BY <1>1, <1>2, <1>3, CourseAppended
<1>8. EditorInv(e)'
  BY <1>1, <1>2, <1>4, <1>5, <1>6
  DEF EditorInv, OrderedPhotoIDs, NotStarted, Progress, CourseWhenLanded,
      Running, InFlight, LocationCount
<1>9. TypeOK'
  BY <1>1, <1>4, <1>6 DEF SaveInv, TypeOK
<1>10. SavesAreCovered'
  BY <1>1, <1>4, RunningIsOpen DEF SaveInv, TypeOK, SavesAreCovered
<1>11. PhotosMatch'
  BY <1>1 DEF SaveInv, PhotosMatch
<1>12. \A f \in Editors : EditorInv(f)'
  BY <1>1, <1>4, <1>7, <1>8, OneSave
<1> QED BY <1>9, <1>10, <1>11, <1>12 DEF SaveInv

LEMMA WriteAnsweredInv ==
    ASSUME SaveInv, NEW e \in Editors, WriteAnswered(e)
    PROVE  SaveInv'
<1> DEFINE t == [save[e] EXCEPT !.phase = "done"]
<1>1. /\ save' = [save EXCEPT ![e] = t] /\ save[e].phase = "landed"
      /\ Running(e) /\ save[e].phase # "none"
  BY DEF WriteAnswered, Running, InFlight
<1>2. t \in Save /\ t.phase = "done"
  BY DEF SaveInv, TypeOK, Save, Phase
<1> HIDE DEF t
<1>3. save'[e] = t
  BY <1>1 DEF SaveInv, TypeOK
<1>4. EditorInv(e)'
  <2>1. EditorInv(e) /\ e \in opened
    BY <1>1, RunningIsOpen DEF SaveInv
  <2> QED BY <1>1, <1>2, <1>3, <2>1
          DEF WriteAnswered, EditorInv, OrderedPhotoIDs, NotStarted, Progress,
              CourseWhenLanded, HasCourse, Running, InFlight
<1>5. TypeOK'
  BY <1>1, <1>2 DEF SaveInv, TypeOK, WriteAnswered
<1>6. SavesAreCovered'
  BY <1>1, <1>2, RunningIsOpen, ConstantsAssumption
  DEF SaveInv, TypeOK, SavesAreCovered, WriteAnswered
<1>7. PhotosMatch'
  BY DEF SaveInv, PhotosMatch, WriteAnswered
<1>8. \A f \in Editors : EditorInv(f)'
  BY <1>1, <1>2, <1>4, OneSave DEF WriteAnswered, HasCourse
<1> QED BY <1>5, <1>6, <1>7, <1>8 DEF SaveInv

LEMMA RelaunchInv ==
    ASSUME SaveInv, Relaunch
    PROVE  SaveInv'
<1> USE DEF Relaunch
<1>1. ASSUME NEW e \in Editors
      PROVE  /\ save'[e] \in Save
             /\ save'[e] = save[e] \/ save'[e].phase = "lost"
             /\ Running(e) <=> save'[e] # save[e]
             /\ save'[e].phase \notin InFlight
             /\ Running(e) => save'[e].phase = "lost"
  <2>1. save[e] \in Save
    BY DEF SaveInv, TypeOK
  <2>2. CASE Running(e)
    <3>1. save'[e] = [save[e] EXCEPT !.phase = "lost"]
      BY <2>2
    <3> QED BY <2>1, <2>2, <3>1 DEF Save, Phase, InFlight, Running
  <2>3. CASE ~Running(e)
    <3>1. save'[e] = save[e]
      BY <2>3
    <3> QED BY <2>1, <2>3, <3>1 DEF Running
  <2> QED BY <2>2, <2>3
<1>2. TypeOK'
  BY <1>1 DEF SaveInv, TypeOK
<1>3. SavesAreCovered' /\ PhotosMatch'
  BY ConstantsAssumption DEF SavesAreCovered, PhotosMatch
<1>4. ASSUME NEW e \in Editors PROVE EditorInv(e)'
  <2>1. EditorInv(e)
    BY DEF SaveInv
  <2>2. CASE Running(e)
    <3>1. e \in opened
      BY <2>2, RunningIsOpen DEF Running, InFlight
    <3> QED BY <1>1, <2>2, <3>1
            DEF EditorInv, OrderedPhotoIDs, NotStarted, Progress,
                CourseWhenLanded, Running, InFlight
  <2>3. CASE ~Running(e)
    <3>1. save'[e] = save[e]
      BY <1>1, <2>3
    <3> QED BY <2>1, <2>3, <3>1
            DEF EditorInv, OrderedPhotoIDs, NotStarted, Progress,
                CourseWhenLanded, HasCourse, Running, InFlight
  <2> QED BY <2>2, <2>3
<1> QED BY <1>2, <1>3, <1>4 DEF SaveInv

----------------------------------------------------------------------------
(***************************************************************************)
(* Theorems.                                                               *)
(***************************************************************************)

LEMMA InitInv == Init => SaveInv
<1> SUFFICES ASSUME Init PROVE SaveInv
  OBVIOUS
<1> USE DEF Init
<1>1. NewSave \in Save /\ NewSave.phase = "none"
  BY DEF NewSave, Save, Phase, InFlight
<1>2. TypeOK
  BY <1>1 DEF TypeOK
<1>3. SavesAreCovered /\ PhotosMatch
  BY ConstantsAssumption DEF SavesAreCovered, PhotosMatch
<1>4. ASSUME NEW e \in Editors PROVE EditorInv(e)
  <2>1. ~HasCourse(e)
    BY DEF HasCourse
  <2> QED BY <1>1, <2>1
          DEF EditorInv, OrderedPhotoIDs, NotStarted, Progress, CourseWhenLanded,
              Running, InFlight
<1> QED BY <1>2, <1>3, <1>4 DEF SaveInv

LEMMA NextInv == SaveInv /\ [Next]_vars => SaveInv'
<1> SUFFICES ASSUME SaveInv, [Next]_vars PROVE SaveInv'
  OBVIOUS
<1>1. ASSUME NEW e \in Editors, EditorStep(e) PROVE SaveInv'
  BY <1>1, OpenInv, CancelInv, PickPlaceInv, AlertInv, YesTappedInv,
     PutSucceedsInv, FailureInv, UrlArrivesInv, WriteLandsInv, WriteAnsweredInv
  DEF EditorStep, UserStep, StorageAnswer, UrlAnswer, DatabaseAnswer
<1>2. ASSUME NEW i \in DOMAIN locations, PhotoArrives(i) PROVE SaveInv'
  BY <1>2, PhotoArrivesInv
<1>3. ASSUME NEW u \in Users \cup {NoUser}, ChangeUser(u) PROVE SaveInv'
  BY <1>3, ChangeUserInv
<1>4. CASE Relaunch
  BY <1>4, RelaunchInv
<1>5. CASE UNCHANGED vars
  BY <1>5
  DEF vars, SaveInv, TypeOK, SavesAreCovered, PhotosMatch, EditorInv,
      OrderedPhotoIDs, NotStarted, Progress, CourseWhenLanded, HasCourse,
      Running, LocationCount
<1> QED BY <1>1, <1>2, <1>3, <1>4, <1>5 DEF Next

\* The inductive invariant holds of every behaviour of the save pipeline
\* (addCourseItinerary.swift).
THEOREM SaveInvariant == Spec => []SaveInv
<1> QED BY InitInv, NextInv, PTL DEF Spec

\* Every variable has its type: in particular no location without a photo is
\* ever uploaded (the guard of savePhotoToDatabase).
THEOREM TypeCorrect == Spec => []TypeOK
<1>1. SaveInv => TypeOK
  BY DEF SaveInv
<1> QED BY <1>1, SaveInvariant, PTL

\* While a save runs, photoIDs is the saved part of the itinerary, in order
\* (savePhoto, savePhotoToDatabase).
THEOREM PhotoIDsCorrect == Spec => []PhotoIDsInOrder
<1>1. SaveInv => PhotoIDsInOrder
  BY DEF SaveInv, EditorInv, PhotoIDsInOrder
<1> QED BY <1>1, SaveInvariant, PTL


\* A save that ended is never resumed, restarted or answered again
\* (completeIntineraryTapped: its editor stays behind the HUD).
THEOREM EndedIsFinal == Spec => EndedSaveIsFinal
<1>1. ASSUME SaveInv, [Next]_vars, NEW e \in Editors, save[e].phase \in Ended
      PROVE  save'[e] = save[e]
  <2> USE <1>1 DEF Ended
  <2>1. save \in [Editors -> Save] /\ save[e].phase # "none" /\ ~Running(e)
    BY DEF SaveInv, TypeOK, Running, InFlight
  <2>2. e \notin asked
    BY <2>1, RunningIsOpen
  <2>3. ASSUME NEW g \in Editors, EditorStep(g)
        PROVE  save'[e] = save[e]
    BY <2>1, <2>2, <2>3
    DEF EditorStep, UserStep, StorageAnswer, UrlAnswer, DatabaseAnswer, Open,
        Cancel, PickPlace, CompleteTapped, BackTapped, YesTapped, PutSucceeds,
        PutFails, UrlArrives, UrlFails, WriteLands, WriteRefused, WriteAnswered
  <2>4. CASE \E i \in DOMAIN locations : PhotoArrives(i)
    BY <2>4 DEF PhotoArrives
  <2>5. CASE \E u \in Users \cup {NoUser} : ChangeUser(u)
    BY <2>5 DEF ChangeUser
  <2>6. CASE Relaunch
    BY <2>1, <2>6 DEF Relaunch
  <2>7. CASE UNCHANGED vars
    BY <2>7 DEF vars
  <2> QED BY <2>3, <2>4, <2>5, <2>6, <2>7 DEF Next
<1>2. SaveInv /\ [Next]_vars => EndedKept
  BY <1>1 DEF EndedKept
<1> QED BY <1>2, SaveInvariant, PTL DEF Spec, EndedSaveIsFinal

----------------------------------------------------------------------------
(***************************************************************************)
(* The pipeline implements CoursePublication.                              *)
(***************************************************************************)

\* The places of a sequence of locations, one by one.
LEMMA PlacesOf ==
    ASSUME NEW locs \in Seq(Location)
    PROVE  /\ PlacesIn(locs) \in Seq(Places)
           /\ Len(PlacesIn(locs)) = Len(locs)
           /\ Len(locs) \in Nat
           /\ \A i \in 1 .. Len(locs) : PlacesIn(locs)[i] = locs[i].place
<1>1. Len(locs) \in Nat
  OBVIOUS
<1>2. \A i \in 1 .. Len(locs) : locs[i] \in Location
  OBVIOUS
<1>3. \A i \in 1 .. Len(locs) : locs[i].place \in Places
  BY <1>2 DEF Location
<1> QED BY <1>1, <1>3 DEF PlacesIn

\* A step that moves e's save and adds no course but e's moves e's ticket.
LEMMA TicketStep ==
    ASSUME SaveInv, NEW e \in Editors, NEW t \in Save,
           save' = [save EXCEPT ![e] = t],
           \A f \in Editors \ {e} : HasCourse(f)' <=> HasCourse(f)
    PROVE  Tickets' = [Tickets EXCEPT ![e] = TicketOf(e)']
<1>1. ASSUME NEW f \in Editors \ {e} PROVE TicketOf(f)' = TicketOf(f)
  BY <1>1 DEF SaveInv, TypeOK, TicketOf, Running
<1> QED BY <1>1 DEF Tickets

LEMMA SizeStep ==
    ASSUME SaveInv, NEW e \in Editors, NEW t \in Save,
           save' = [save EXCEPT ![e] = t]
    PROVE  Sizes' = [Sizes EXCEPT ![e] = t.size]
BY DEF SaveInv, TypeOK, Sizes

\* Steps that leave the abstract state as it is.
LEMMA StutterStep ==
    ASSUME SaveInv, UNCHANGED <<locations, save, courses>>
    PROVE  UNCHANGED Publication!vars
<1>1. UNCHANGED <<ItineraryPlaces, Sizes, Published>>
  BY DEF ItineraryPlaces, Sizes, Published, ImagePlaces
<1>2. UNCHANGED Tickets
  BY DEF Tickets, TicketOf, HasCourse, Running
<1> QED BY <1>1, <1>2 DEF Publication!vars

\* Steps of e's save that add no course and keep its size.
LEMMA SaveStutter ==
    ASSUME SaveInv, NEW e \in Editors, NEW t \in Save,
           save' = [save EXCEPT ![e] = t], t.size = save[e].size,
           UNCHANGED <<locations, courses>>
    PROVE  /\ UNCHANGED <<ItineraryPlaces, Sizes, Published>>
           /\ Tickets' = [Tickets EXCEPT ![e] = TicketOf(e)']
<1>1. UNCHANGED <<ItineraryPlaces, Published>>
  BY DEF ItineraryPlaces, Published, ImagePlaces
<1>2. UNCHANGED Sizes
  BY SizeStep DEF Sizes
<1>3. \A f \in Editors : HasCourse(f)' <=> HasCourse(f)
  BY DEF HasCourse
<1> QED BY <1>1, <1>2, <1>3, TicketStep

LEMMA PickPlaceRefines ==
    ASSUME SaveInv, SaveInv', NEW e \in Editors, NEW p \in Places, PickPlace(e, p)
    PROVE  Publication!Add(p)
<1> DEFINE new == [place |-> p, photo |-> NoPhoto]
<1>1. locations \in Seq(Location) /\ locations' = Append(locations, new)
  BY DEF SaveInv, TypeOK, PickPlace
<1>2. new \in Location /\ new.place = p
  BY DEF Location
<1> HIDE DEF new
<1>3. /\ Len(locations') = Len(locations) + 1
      /\ \A i \in 1 .. Len(locations) : locations'[i] = locations[i]
      /\ locations'[Len(locations) + 1] = new
  BY <1>1, <1>2
<1>4. /\ ItineraryPlaces \in Seq(Places)
      /\ Len(ItineraryPlaces) = Len(locations)
      /\ Len(locations) \in Nat
      /\ \A i \in 1 .. Len(locations) : ItineraryPlaces[i] = locations[i].place
  BY <1>1, PlacesOf DEF ItineraryPlaces
<1>5. /\ ItineraryPlaces' \in Seq(Places)
      /\ Len(ItineraryPlaces') = Len(locations) + 1
      /\ \A i \in 1 .. Len(locations) + 1 :
            ItineraryPlaces'[i] = locations'[i].place
  <2>1. locations' \in Seq(Location)
    BY <1>1, <1>2
  <2>2. ItineraryPlaces' = PlacesIn(locations')
    BY DEF ItineraryPlaces, PlacesIn
  <2> QED BY <1>3, <2>1, <2>2, PlacesOf
<1>6. ItineraryPlaces' = Append(ItineraryPlaces, p)
  <2> DEFINE a == Append(ItineraryPlaces, p)
  <2>1. /\ a \in Seq(Places)
        /\ Len(a) = Len(locations) + 1
        /\ \A i \in 1 .. Len(locations) : a[i] = ItineraryPlaces[i]
        /\ a[Len(locations) + 1] = p
    BY <1>4, AppendProperties
  <2> HIDE DEF a
  <2>2. \A i \in 1 .. Len(locations) + 1 : ItineraryPlaces'[i] = a[i]
    BY <1>2, <1>3, <1>4, <1>5, <2>1
  <2>3. ItineraryPlaces' = a
    BY <1>5, <2>1, <2>2, SeqEqual
  <2> QED BY <2>3 DEF a
<1>7. UNCHANGED <<Sizes, Published>>
  BY DEF PickPlace, Sizes, Published, ImagePlaces
<1>8. UNCHANGED Tickets
  BY DEF PickPlace, Tickets, TicketOf, HasCourse, Running
<1> QED BY <1>6, <1>7, <1>8 DEF Publication!Add

LEMMA PhotoArrivesRefines ==
    ASSUME SaveInv, NEW i \in DOMAIN locations, PhotoArrives(i)
    PROVE  UNCHANGED Publication!vars
<1>1. /\ locations \in Seq(Location) /\ i \in 1 .. Len(locations)
      /\ locations[i] \in Location
  BY LocationAt DEF SaveInv, TypeOK
<1>2. /\ Len(locations') = Len(locations)
      /\ \A j \in 1 .. Len(locations) : locations'[j].place = locations[j].place
  BY <1>1 DEF PhotoArrives, Location
<1>3. UNCHANGED ItineraryPlaces
  BY <1>2 DEF ItineraryPlaces, PlacesIn
<1>4. UNCHANGED <<Sizes, Published>>
  BY DEF PhotoArrives, Sizes, Published, ImagePlaces
<1>5. UNCHANGED Tickets
  BY DEF PhotoArrives, Tickets, TicketOf, HasCourse, Running
<1> QED BY <1>3, <1>4, <1>5 DEF Publication!vars


LEMMA YesTappedRefines ==
    ASSUME SaveInv, SaveInv', NEW e \in Editors, YesTapped(e)
    PROVE  Publication!Confirm(e)
<1> DEFINE s == [save[e] EXCEPT !.size = LocationCount]
<1>1. PICK t \in SavePhoto(s, 0) : save' = [save EXCEPT ![e] = t]
  BY DEF YesTapped
<1>2. save[e] = NewSave /\ ~HasCourse(e) /\ save[e] \in Save
  BY DEF SaveInv, TypeOK, YesTapped, SavesAreCovered, EditorInv, NotStarted,
         CourseWhenLanded, NewSave
<1>3. /\ s \in Save /\ s.size = LocationCount
      /\ LocationCount \in Nat /\ LocationCount = Len(locations)
      /\ 0 \in 0 .. LocationCount
  <2>1. LocationCount \in Nat /\ LocationCount = Len(locations)
    BY DEF SaveInv, TypeOK, LocationCount
  <2> QED BY <1>2, <2>1 DEF Save
<1> HIDE DEF s
<1>4. /\ t \in Save /\ t.size = LocationCount
      /\ t.phase \in {"failed", "registering", "putting"}
  BY <1>1, <1>3, SavePhotoOutcome DEF SaveInv
<1>5. /\ UNCHANGED <<locations, courses>>
      /\ \A f \in Editors : HasCourse(f)' <=> HasCourse(f)
  BY DEF YesTapped, HasCourse
<1>6. UNCHANGED <<ItineraryPlaces, Published>>
  BY <1>5 DEF ItineraryPlaces, PlacesIn, Published, ImagePlaces
<1>7. Sizes' = [Sizes EXCEPT ![e] = Len(ItineraryPlaces)]
  <2>1. Len(ItineraryPlaces) = t.size
    BY <1>3, <1>4, PlacesOf DEF SaveInv, TypeOK, ItineraryPlaces
  <2> QED BY <1>1, <1>4, <2>1, SizeStep
<1>8. Tickets[e] = "none"
  BY <1>2 DEF Tickets, TicketOf, NewSave, Running, InFlight
<1>9. \E k \in {"saving", "over"} : Tickets' = [Tickets EXCEPT ![e] = k]
  <2>1. save'[e] = t
    BY <1>1 DEF SaveInv, TypeOK
  <2>2. TicketOf(e)' \in {"saving", "over"}
    BY <1>2, <1>4, <1>5, <2>1 DEF TicketOf, Running, InFlight
  <2> QED BY <1>1, <1>4, <1>5, <2>2, TicketStep
<1> QED BY <1>6, <1>7, <1>8, <1>9 DEF Publication!Confirm

LEMMA PutSucceedsRefines ==
    ASSUME SaveInv, NEW e \in Editors, PutSucceeds(e)
    PROVE  UNCHANGED Publication!vars
<1> DEFINE t == [save[e] EXCEPT !.phase = "fetching"]
<1>1. /\ save' = [save EXCEPT ![e] = t] /\ save[e].phase = "putting"
      /\ UNCHANGED <<locations, courses>>
  BY DEF PutSucceeds
<1>2. t \in Save /\ t.phase = "fetching" /\ t.size = save[e].size
  BY DEF SaveInv, TypeOK, Save, Phase, InFlight
<1> HIDE DEF t
<1>3. /\ UNCHANGED <<ItineraryPlaces, Sizes, Published>>
      /\ Tickets' = [Tickets EXCEPT ![e] = TicketOf(e)']
  BY <1>1, <1>2, SaveStutter
<1>4. TicketOf(e)' = TicketOf(e)
  BY <1>1, <1>2 DEF SaveInv, TypeOK, TicketOf, HasCourse, Running, InFlight
<1>5. UNCHANGED Tickets
  BY <1>3, <1>4 DEF Tickets
<1> QED BY <1>3, <1>5 DEF Publication!vars

LEMMA FailureRefines ==
    ASSUME SaveInv, NEW e \in Editors,
           PutFails(e) \/ UrlFails(e) \/ WriteRefused(e)
    PROVE  Publication!GiveUp(e)
<1> USE DEF PutFails, UrlFails, WriteRefused
<1> DEFINE t == [save[e] EXCEPT !.phase = "failed"]
<1>1. /\ save' = [save EXCEPT ![e] = t]
      /\ save[e].phase \in {"putting", "fetching", "registering"}
      /\ UNCHANGED <<locations, courses>>
  OBVIOUS
<1>2. t \in Save /\ t.phase = "failed" /\ t.size = save[e].size
  BY DEF SaveInv, TypeOK, Save, Phase
<1> HIDE DEF t
<1>3. /\ UNCHANGED <<ItineraryPlaces, Sizes, Published>>
      /\ Tickets' = [Tickets EXCEPT ![e] = TicketOf(e)']
  BY <1>1, <1>2, SaveStutter
<1>4. ~HasCourse(e) /\ ~HasCourse(e)'
  BY <1>1 DEF SaveInv, EditorInv, CourseWhenLanded, HasCourse
<1>5. Tickets[e] = "saving" /\ TicketOf(e)' = "over"
  BY <1>1, <1>2, <1>4 DEF SaveInv, TypeOK, Tickets, TicketOf, Running, InFlight
<1> QED BY <1>3, <1>5 DEF Publication!GiveUp

LEMMA UrlArrivesRefines ==
    ASSUME SaveInv, SaveInv', NEW e \in Editors, UrlArrives(e)
    PROVE  Publication!GiveUp(e) \/ UNCHANGED Publication!vars
<1>1. PICK t \in SavePhoto(WithUrl(e), save[e].index + 1) :
         /\ save' = [save EXCEPT ![e] = t]
         /\ t \in Save
         /\ t.size = save[e].size
         /\ t.phase \in {"failed", "registering", "putting"}
  BY UrlOutcome
<1>2. /\ save[e].phase = "fetching"
      /\ UNCHANGED <<locations, courses>>
      /\ ~HasCourse(e) /\ ~HasCourse(e)'
  BY DEF UrlArrives, SaveInv, EditorInv, CourseWhenLanded, HasCourse
<1>4. /\ UNCHANGED <<ItineraryPlaces, Sizes, Published>>
      /\ Tickets' = [Tickets EXCEPT ![e] = TicketOf(e)']
  BY <1>1, <1>2, SaveStutter
<1>5. TicketOf(e) = "saving" /\ TicketOf(e)' \in {"saving", "over"}
  BY <1>1, <1>2 DEF SaveInv, TypeOK, TicketOf, Running, InFlight
<1>6. CASE TicketOf(e)' = "over"
  BY <1>4, <1>5, <1>6 DEF Tickets, Publication!GiveUp
<1>7. CASE TicketOf(e)' = "saving"
  <2>1. UNCHANGED Tickets
    BY <1>4, <1>5, <1>7 DEF Tickets
  <2> QED BY <1>4, <2>1 DEF Publication!vars
<1> QED BY <1>5, <1>6, <1>7

LEMMA WriteLandsRefines ==
    ASSUME SaveInv, SaveInv', NEW e \in Editors, WriteLands(e)
    PROVE  Publication!Publish(e)
<1> DEFINE t == [save[e] EXCEPT !.phase = "landed"]
           ids == save[e].photoIDs
           c == [by |-> e, user |-> save[e].user, images |-> ids]
           n == save[e].index
<1>1. /\ save' = [save EXCEPT ![e] = t] /\ courses' = Append(courses, c)
      /\ save[e].phase = "registering"
      /\ UNCHANGED locations
  BY DEF WriteLands
<1>2. /\ t \in Save /\ t.phase = "landed" /\ t.size = save[e].size
      /\ ids \in Seq(Object) /\ n \in Nat /\ save[e].size \in Nat
      /\ c \in Course /\ c.by = e /\ c.images = ids
      /\ courses \in Seq(Course) /\ locations \in Seq(Location)
  BY <1>1
  DEF SaveInv, TypeOK, Save, Phase, InFlight, EditorInv, Progress, Course
<1>3. /\ Len(ids) = n
      /\ n \in save[e].size .. Len(locations)
      /\ \A i \in 1 .. n : ids[i].photo = locations[i].place
  <2>1. OrderedPhotoIDs(e) /\ Progress(e) /\ Running(e)
    BY <1>1 DEF SaveInv, EditorInv, Running, InFlight
  <2>2. /\ Len(ids) = n /\ n <= Len(locations) /\ save[e].size <= n
        /\ \A i \in 1 .. n :
              ids[i] = [by |-> e, index |-> i, photo |-> locations[i].place]
    BY <1>1, <2>1 DEF OrderedPhotoIDs, Progress, LocationCount
  <2>3. Len(locations) \in Nat
    BY <1>2
  <2> HIDE DEF ids, n, c, t
  <2> QED BY <1>2, <2>2, <2>3
<1> HIDE DEF t, c, ids, n
<1>4. /\ \A f \in Editors : HasCourse(f)' <=> HasCourse(f) \/ f = e
      /\ ~HasCourse(e)
  BY <1>1, <1>2, CourseAppended DEF SaveInv, EditorInv, CourseWhenLanded
<1>5. Tickets' = [Tickets EXCEPT ![e] = "published"]
  <2>1. Tickets' = [Tickets EXCEPT ![e] = TicketOf(e)']
    BY <1>1, <1>2, <1>4, TicketStep
  <2> QED BY <1>4, <2>1 DEF TicketOf
<1>6. Tickets[e] = "saving"
  BY <1>1, <1>4 DEF Tickets, TicketOf, Running, InFlight
<1>7. UNCHANGED <<ItineraryPlaces, Sizes>>
  BY <1>1, <1>2, SizeStep DEF ItineraryPlaces, PlacesIn, Sizes
<1>8. /\ ItineraryPlaces \in Seq(Places)
      /\ Len(ItineraryPlaces) = Len(locations)
      /\ Len(locations) \in Nat
      /\ \A i \in 1 .. Len(locations) : ItineraryPlaces[i] = locations[i].place
  BY <1>2, PlacesOf DEF ItineraryPlaces
<1>9. ImagePlaces(ids) = SubSeq(ItineraryPlaces, 1, n)
  BY <1>2, <1>3, <1>8 DEF ImagePlaces
<1>10. Published' = Append(Published, [by |-> e, images |-> ImagePlaces(ids)])
  <2>1. /\ Len(courses') = Len(courses) + 1
        /\ Len(courses) \in Nat
        /\ \A i \in 1 .. Len(courses) : courses'[i] = courses[i]
        /\ courses'[Len(courses) + 1] = c
    BY <1>1, <1>2
  <2>2. Published' = [i \in 1 .. Len(courses) + 1 |->
                        [by     |-> courses'[i].by,
                         images |-> ImagePlaces(courses'[i].images)]]
    BY <2>1 DEF Published, ImagePlaces
  <2> QED BY <1>2, <2>1, <2>2 DEF Published
<1>11. Sizes[e] = save[e].size
  BY DEF Sizes
<1> QED BY <1>3, <1>5, <1>6, <1>7, <1>8, <1>9, <1>10, <1>11
        DEF Publication!Publish

LEMMA WriteAnsweredRefines ==
    ASSUME SaveInv, NEW e \in Editors, WriteAnswered(e)
    PROVE  UNCHANGED Publication!vars
<1> DEFINE t == [save[e] EXCEPT !.phase = "done"]
<1>1. /\ save' = [save EXCEPT ![e] = t] /\ save[e].phase = "landed"
      /\ UNCHANGED <<locations, courses>>
  BY DEF WriteAnswered
<1>2. t \in Save /\ t.phase = "done" /\ t.size = save[e].size
  BY DEF SaveInv, TypeOK, Save, Phase
<1> HIDE DEF t
<1>3. /\ UNCHANGED <<ItineraryPlaces, Sizes, Published>>
      /\ Tickets' = [Tickets EXCEPT ![e] = TicketOf(e)']
  BY <1>1, <1>2, SaveStutter
<1>4. HasCourse(e) /\ HasCourse(e)'
  BY <1>1 DEF SaveInv, EditorInv, CourseWhenLanded, HasCourse
<1>5. UNCHANGED Tickets
  BY <1>3, <1>4 DEF Tickets, TicketOf
<1> QED BY <1>3, <1>5 DEF Publication!vars

LEMMA RelaunchRefines ==
    ASSUME SaveInv, Relaunch
    PROVE  Publication!Forget
<1> USE DEF Relaunch
<1>1. ItineraryPlaces' = <<>>
  BY DEF ItineraryPlaces, PlacesIn
<1>2. UNCHANGED Published
  BY DEF Published, ImagePlaces
<1>3. ASSUME NEW e \in Editors
      PROVE  /\ save'[e].size = save[e].size
             /\ TicketOf(e)' = IF TicketOf(e) = "saving" THEN "over"
                                                         ELSE TicketOf(e)
  <2>1. save[e] \in Save
    BY DEF SaveInv, TypeOK
  <2>2. HasCourse(e)' <=> HasCourse(e)
    BY DEF HasCourse
  <2>3. CASE Running(e)
    <3>1. save'[e] = [save[e] EXCEPT !.phase = "lost"]
      BY <2>3
    <3> QED BY <2>1, <2>2, <2>3, <3>1 DEF Save, TicketOf, Running, InFlight
  <2>4. CASE ~Running(e)
    <3>1. save'[e] = save[e]
      BY <2>4
    <3> QED BY <2>1, <2>2, <2>4, <3>1 DEF TicketOf, Running
  <2> QED BY <2>3, <2>4
<1>4. UNCHANGED Sizes
  BY <1>3 DEF Sizes
<1>5. Tickets' = [e \in Editors |->
                    IF Tickets[e] = "saving" THEN "over" ELSE Tickets[e]]
  BY <1>3 DEF Tickets
<1> QED BY <1>1, <1>2, <1>4, <1>5 DEF Publication!Forget

LEMMA InitRefines == Init => Publication!Init
<1> SUFFICES ASSUME Init PROVE Publication!Init
  OBVIOUS
<1>1. ItineraryPlaces = <<>> /\ Published = <<>>
  BY DEF Init, ItineraryPlaces, PlacesIn, Published
<1>2. Sizes = [e \in Editors |-> 0]
  BY DEF Init, Sizes, NewSave
<1>3. \A e \in Editors : TicketOf(e) = "none"
  <2>1. \A e \in Editors : save[e] = NewSave /\ NewSave.phase = "none"
    BY DEF Init, NewSave
  <2>2. courses = <<>> /\ DOMAIN <<>> = {}
    BY DEF Init
  <2>3. \A e \in Editors : ~HasCourse(e)
    BY <2>2 DEF HasCourse
  <2> QED BY <2>1, <2>3 DEF TicketOf, Running, InFlight
<1>4. Tickets = [e \in Editors |-> "none"]
  BY <1>3 DEF Tickets
<1> QED BY <1>1, <1>2, <1>4 DEF Publication!Init

LEMMA NextRefines ==
    SaveInv /\ SaveInv' /\ [Next]_vars => [Publication!Next]_(Publication!vars)
<1> SUFFICES ASSUME SaveInv, SaveInv', [Next]_vars
             PROVE  Publication!Next \/ UNCHANGED Publication!vars
  OBVIOUS
<1>1. ASSUME NEW e \in Editors, EditorStep(e)
      PROVE  Publication!Next \/ UNCHANGED Publication!vars
  <2>1. CASE Open(e) \/ Cancel(e) \/ CompleteTapped(e) \/ BackTapped(e)
    BY <2>1, StutterStep DEF Open, Cancel, CompleteTapped, BackTapped
  <2>2. CASE \E p \in Places : PickPlace(e, p)
    BY <2>2, PickPlaceRefines DEF Publication!Next
  <2>3. CASE YesTapped(e)
    BY <2>3, YesTappedRefines DEF Publication!Next
  <2>4. CASE PutSucceeds(e)
    BY <2>4, PutSucceedsRefines
  <2>5. CASE PutFails(e) \/ UrlFails(e) \/ WriteRefused(e)
    BY <2>5, FailureRefines DEF Publication!Next
  <2>6. CASE UrlArrives(e)
    BY <2>6, UrlArrivesRefines DEF Publication!Next
  <2>7. CASE WriteLands(e)
    BY <2>7, WriteLandsRefines DEF Publication!Next
  <2>8. CASE WriteAnswered(e)
    BY <2>8, WriteAnsweredRefines
  <2> QED BY <1>1, <2>1, <2>2, <2>3, <2>4, <2>5, <2>6, <2>7, <2>8
          DEF EditorStep, UserStep, StorageAnswer, UrlAnswer, DatabaseAnswer
<1>2. CASE \E i \in DOMAIN locations : PhotoArrives(i)
  BY <1>2, PhotoArrivesRefines
<1>3. CASE \E u \in Users \cup {NoUser} : ChangeUser(u)
  BY <1>3, StutterStep DEF ChangeUser
<1>4. CASE Relaunch
  BY <1>4, RelaunchRefines DEF Publication!Next
<1>5. CASE UNCHANGED vars
  BY <1>5, StutterStep DEF vars
<1> QED BY <1>1, <1>2, <1>3, <1>4, <1>5 DEF Next

\* Saving an itinerary implements the abstract publication: at most one
\* course per editor, a prefix of the itinerary that holds every place
\* confirmed (savePhoto, saveItinerary, registerCourseIntoDatabase).
THEOREM SaveImplementsPublication == Spec => ImplementsPublication
<1> QED BY InitRefines, NextRefines, SaveInvariant, PTL
        DEF Spec, ImplementsPublication, Publication!Spec


=============================================================================
