--------------------------- MODULE SaveItinerary ---------------------------
(***************************************************************************)
(* Saving an itinerary as a course (addCourseItinerary.swift).             *)
(*                                                                         *)
(* The user confirms an alert; savePhoto(index:) then uploads the photo of *)
(* each location of the shared itinerary, one after another, asks Storage  *)
(* for the download URL of each, and registers the course in the Realtime  *)
(* Database when the index reaches the number of locations.  Every step is *)
(* a callback on the main queue, so a handler is one atomic action, and    *)
(* between two handlers anything may happen: the editor is cancelled, a    *)
(* new one is opened on the same shared itinerary, locations are added,    *)
(* the user changes, an answer never comes, or the process dies.           *)
(*                                                                         *)
(* An editor is one AddCourseItineraryViewController.  It is created by a  *)
(* tap on the tab bar, shown at most once, and kept alive by the closures  *)
(* of a save that is still running after it was dismissed.                 *)
(***************************************************************************)
EXTENDS Naturals, Sequences

CONSTANTS
    Editors,        \* AddCourseItineraryViewController instances
    Places,         \* places the place picker can return
    Users,          \* uids of Firebase users
    NoEditor,       \* no editor is on screen
    NoPhoto,        \* Location.firstPhoto is nil
    NoUser,         \* Auth.auth().currentUser is nil
    MaxLocations    \* bound: the user picks at most this many places

ASSUME ConstantsAssumption ==
    /\ NoEditor \notin Editors
    /\ NoPhoto \notin Places
    /\ NoUser \notin Users
    /\ MaxLocations \in Nat

VARIABLES
    locations,      \* CurrentItinerary.shared.locations
    shown,          \* the editor on screen
    opened,         \* the editors created so far
    asked,          \* editors whose "Creating Itinerary" alert is up
    hud,            \* editors covered by their progress HUD
    save,           \* save[e]: what e's photoIDs and closures hold
    uid,            \* Auth.auth().currentUser?.uid
    courses         \* the children of "courses", in the order they landed

vars == <<locations, shown, opened, asked, hud, save, uid, courses>>

(***************************************************************************)
(* A photo is named by the place it shows.  An uploaded object (and its   *)
(* download URL) is named by the editor, the index and the photo of the    *)
(* upload: imageName is a fresh UUID for each.                             *)
(***************************************************************************)
Location == [place : Places, photo : Places \cup {NoPhoto}]
Object == [by : Editors, index : Nat, photo : Places]
Course == [by : Editors, user : Users, images : Seq(Object)]

InFlight == {"putting", "fetching", "registering", "landed"}
Phase == InFlight \cup {"none", "done", "failed", "dropped", "lost"}

Save == [phase    : Phase,        \* the call whose answer is awaited
         index    : Nat,          \* savePhoto's index
         count    : Nat,          \* savePhoto's locationCount
         image    : Places \cup {NoPhoto},   \* the photo being uploaded
         photoIDs : Seq(Object),
         user     : Users \cup {NoUser},     \* "user" of the course written
         size     : Nat]          \* history: locations when confirmed

NewSave == [phase |-> "none", index |-> 0, count |-> 0, image |-> NoPhoto,
            photoIDs |-> <<>>, user |-> NoUser, size |-> 0]

LocationCount == Len(locations)

Running(e) == save[e].phase \in InFlight

\* A tap reaches e's table: no other screen, alert or HUD is in front of it.
Touchable(e) == shown = e /\ e \notin hud /\ e \notin asked

Init ==
    /\ locations = <<>>
    /\ shown = NoEditor
    /\ opened = {}
    /\ asked = {}
    /\ hud = {}
    /\ save = [e \in Editors |-> NewSave]
    /\ uid \in Users
    /\ courses = <<>>

----------------------------------------------------------------------------
(***************************************************************************)
(* The editor on screen and its surroundings.                              *)
(***************************************************************************)

\* tabBarController(_:shouldSelect:) presents a new editor.
Open(e) ==
    /\ shown = NoEditor
    /\ e \notin opened
    /\ shown' = e
    /\ opened' = opened \cup {e}
    /\ UNCHANGED <<locations, asked, hud, save, uid, courses>>

\* cancelButtonTapped: the bar button is outside the view the HUD covers,
\* so a running save does not prevent it, and nothing stops the save.
Cancel(e) ==
    /\ shown = e
    /\ e \notin asked
    /\ shown' = NoEditor
    /\ UNCHANGED <<locations, opened, asked, hud, save, uid, courses>>

\* placePicker(_:didPick:) adds the place to the shared itinerary.
PickPlace(e, p) ==
    /\ Touchable(e)
    /\ LocationCount < MaxLocations
    /\ locations' = Append(locations, [place |-> p, photo |-> NoPhoto])
    /\ UNCHANGED <<shown, opened, asked, hud, save, uid, courses>>

\* addPhotoToLocation, called by the table cell that shows location i when
\* the photo of that location's place has arrived, however late.
PhotoArrives(i) ==
    /\ locations' = [locations EXCEPT ![i].photo = locations[i].place]
    /\ UNCHANGED <<shown, opened, asked, hud, save, uid, courses>>

\* Sign-in and sign-out.  SignUpViewController.sendEmail signs out from a
\* callback, so the current user may change whatever is on screen.
ChangeUser(u) ==
    /\ u # uid
    /\ uid' = u
    /\ UNCHANGED <<locations, shown, opened, asked, hud, save, courses>>

\* The process dies and is started again: the singletons are empty, the
\* closures are gone, Storage, the Database and the signed-in user remain.
Relaunch ==
    /\ locations' = <<>>
    /\ shown' = NoEditor
    /\ asked' = {}
    /\ hud' = {}
    /\ save' = [e \in Editors |->
                  IF Running(e) THEN [save[e] EXCEPT !.phase = "lost"]
                                ELSE save[e]]
    /\ UNCHANGED <<opened, uid, courses>>

----------------------------------------------------------------------------
(***************************************************************************)
(* The save.                                                               *)
(***************************************************************************)

\* completeIntineraryTapped shows the alert ...
CompleteTapped(e) ==
    /\ Touchable(e)
    /\ asked' = asked \cup {e}
    /\ UNCHANGED <<locations, shown, opened, hud, save, uid, courses>>

\* ... whose "Back" button takes it away.
BackTapped(e) ==
    /\ e \in asked
    /\ asked' = asked \ {e}
    /\ UNCHANGED <<locations, shown, opened, hud, save, uid, courses>>

\* savePhoto(index: i) of a save s: either every photo is saved and the
\* course is written for the user of this moment, or the upload of the
\* photo at index i starts.  The set of saves it can leave behind; an early
\* return calls no completion, so the save then goes no further.
SavePhoto(s, i) ==
    LET t     == [s EXCEPT !.index = i, !.count = LocationCount]
        photo == locations[i + 1].photo
    IN  IF i = LocationCount
          THEN IF uid = NoUser
                 THEN {[t EXCEPT !.phase = "failed"]}
                 ELSE {[t EXCEPT !.phase = "registering", !.user = uid]}
          ELSE {[t EXCEPT !.phase = "failed"]}   \* no photo, or no PNG of it
                 \cup {[t EXCEPT !.phase = "putting", !.image = q] :
                         q \in {photo} \ {NoPhoto}}

\* Mutant of YesTapped: the HUD is not shown.
YesTappedNoHud(e) ==
    /\ e \in asked
    /\ asked' = asked \ {e}
    /\ \E s \in SavePhoto([save[e] EXCEPT !.size = LocationCount], 0) :
          save' = [save EXCEPT ![e] = s]
    /\ UNCHANGED <<locations, shown, opened, hud, uid, courses>>

\* "Yes" shows the HUD over the editor's view and starts saveItinerary.
\* photoIDs is not cleared.
YesTapped(e) ==
    /\ e \in asked
    /\ asked' = asked \ {e}
    /\ hud' = hud \cup {e}
    /\ \E s \in SavePhoto([save[e] EXCEPT !.size = LocationCount], 0) :
          save' = [save EXCEPT ![e] = s]
    /\ UNCHANGED <<locations, shown, opened, uid, courses>>

\* The object e is uploading.
Upload(e) == [by |-> e, index |-> save[e].index + 1, photo |-> save[e].image]

\* putData succeeds, and its completion asks for the download URL.
PutSucceeds(e) ==
    /\ save[e].phase = "putting"
    /\ save' = [save EXCEPT ![e].phase = "fetching"]
    /\ UNCHANGED <<locations, shown, opened, asked, hud, uid, courses>>

\* Mutant of PutFails: the HUD goes, so that the user can try again.
PutFailsRetry(e) ==
    /\ save[e].phase = "putting"
    /\ save' = [save EXCEPT ![e].phase = "failed"]
    /\ hud' = hud \ {e}
    /\ UNCHANGED <<locations, shown, opened, asked, uid, courses>>

\* putData reports an error; the object may have been stored all the same.
PutFails(e) ==
    /\ save[e].phase = "putting"
    /\ save' = [save EXCEPT ![e].phase = "failed"]
    /\ UNCHANGED <<locations, shown, opened, asked, hud, uid, courses>>

\* Mutant of PhotoSaved: an off-by-one in the comparison.
PhotoSavedOffByOne(s) ==
    IF s.index + 1 < s.count THEN SavePhoto(s, s.index + 1)
                             ELSE {[s EXCEPT !.phase = "dropped"]}

\* What savePhoto's closure does once savePhotoToDatabase has completed.
PhotoSaved(s) ==
    IF s.index + 1 <= s.count THEN SavePhoto(s, s.index + 1)
                              ELSE {[s EXCEPT !.phase = "dropped"]}

\* The download URL arrives and is appended to photoIDs.
WithUrl(e) == [save[e] EXCEPT !.photoIDs = Append(@, Upload(e))]

UrlArrives(e) ==
    /\ save[e].phase = "fetching"
    /\ \E s \in PhotoSaved(WithUrl(e)) :
          save' = [save EXCEPT ![e] = s]
    /\ UNCHANGED <<locations, shown, opened, asked, hud, uid, courses>>

\* No download URL: the guard returns.
UrlFails(e) ==
    /\ save[e].phase = "fetching"
    /\ save' = [save EXCEPT ![e].phase = "failed"]
    /\ UNCHANGED <<locations, shown, opened, asked, hud, uid, courses>>

\* The server applies updateChildValues to a fresh child of "courses" ...
WriteLands(e) ==
    /\ save[e].phase = "registering"
    /\ courses' = Append(courses, [by     |-> e,
                                   user   |-> save[e].user,
                                   images |-> save[e].photoIDs])
    /\ save' = [save EXCEPT ![e].phase = "landed"]
    /\ UNCHANGED <<locations, shown, opened, asked, hud, uid>>

\* ... or refuses it.
WriteRefused(e) ==
    /\ save[e].phase = "registering"
    /\ save' = [save EXCEPT ![e].phase = "failed"]
    /\ UNCHANGED <<locations, shown, opened, asked, hud, uid, courses>>

\* Mutant of WriteAnswered: the editor stays on screen.
WriteAnsweredStay(e) ==
    /\ save[e].phase = "landed"
    /\ save' = [save EXCEPT ![e].phase = "done"]
    /\ hud' = hud \ {e}
    /\ UNCHANGED <<locations, shown, opened, asked, uid, courses>>

\* The completion block of updateChildValues: the HUD goes and the editor
\* dismisses itself, which does nothing if it is no longer on screen.
WriteAnswered(e) ==
    /\ save[e].phase = "landed"
    /\ save' = [save EXCEPT ![e].phase = "done"]
    /\ hud' = hud \ {e}
    /\ shown' = IF shown = e THEN NoEditor ELSE shown
    /\ UNCHANGED <<locations, opened, asked, uid, courses>>

----------------------------------------------------------------------------
UserStep(e) ==
    \/ Open(e)
    \/ Cancel(e)
    \/ \E p \in Places : PickPlace(e, p)
    \/ CompleteTapped(e)
    \/ BackTapped(e)
    \/ YesTapped(e)

StorageAnswer(e) == PutSucceeds(e) \/ PutFails(e)
UrlAnswer(e) == UrlArrives(e) \/ UrlFails(e)
DatabaseAnswer(e) == WriteLands(e) \/ WriteRefused(e)

EditorStep(e) ==
    \/ UserStep(e)
    \/ StorageAnswer(e)
    \/ UrlAnswer(e)
    \/ DatabaseAnswer(e)
    \/ WriteAnswered(e)

Next ==
    \/ \E e \in Editors : EditorStep(e)
    \/ \E i \in DOMAIN locations : PhotoArrives(i)
    \/ \E u \in Users \cup {NoUser} : ChangeUser(u)
    \/ Relaunch

Spec == Init /\ [][Next]_vars

\* Firebase calls every completion handler, with a result or with an error.
\* Nothing is assumed of the user, of the photos or of the process.
Fairness ==
    \A e \in Editors :
        /\ WF_vars(StorageAnswer(e))
        /\ WF_vars(UrlAnswer(e))
        /\ WF_vars(DatabaseAnswer(e))
        /\ WF_vars(WriteAnswered(e))

FairSpec == Spec /\ Fairness

----------------------------------------------------------------------------
(***************************************************************************)
(* Properties.                                                             *)
(***************************************************************************)

\* Every variable has its type; in particular only a photo is ever uploaded.
TypeOK ==
    /\ locations \in Seq(Location)
    /\ shown \in Editors \cup {NoEditor}
    /\ opened \subseteq Editors
    /\ asked \subseteq Editors
    /\ hud \subseteq Editors
    /\ save \in [Editors -> Save]
    /\ uid \in Users \cup {NoUser}
    /\ courses \in Seq(Course)

\* While a save runs, photoIDs holds exactly one URL for each location that
\* is already saved, in the order of the itinerary and of that location's
\* place, although other editors add to the same itinerary and photoIDs is
\* never cleared (savePhoto, savePhotoToDatabase).
OrderedPhotoIDs(e) ==
    Running(e) =>
        /\ Len(save[e].photoIDs) = save[e].index
        /\ save[e].index <= LocationCount
        /\ \A i \in 1 .. save[e].index :
              save[e].photoIDs[i] =
                  [by |-> e, index |-> i, photo |-> locations[i].place]

PhotoIDsInOrder == \A e \in Editors : OrderedPhotoIDs(e)

\* A save that failed or finished is never resumed, restarted or answered
\* again: its editor has no second try (completeIntineraryTapped).
Ended == {"done", "failed", "dropped", "lost"}
EndedKept == \A e \in Editors : save[e].phase \in Ended => save'[e] = save[e]
EndedSaveIsFinal == [][EndedKept]_vars

\* A confirmed save does not hang between two locations: it writes the
\* course, or one of its calls fails, or the process dies (saveItinerary).
ConfirmedSaveEnds ==
    \A e \in Editors :
        Running(e) ~> save[e].phase \in {"done", "failed", "lost"}

\* The pipeline implements the abstract specification of a publication: at
\* most one course per editor, showing the places of the itinerary in order
\* and none of those confirmed left out.
HasCourse(e) == \E i \in DOMAIN courses : courses[i].by = e

TicketOf(e) ==
    IF HasCourse(e) THEN "published"
    ELSE IF Running(e) THEN "saving"
    ELSE IF save[e].phase = "none" THEN "none" ELSE "over"

ImagePlaces(images) == [i \in 1 .. Len(images) |-> images[i].photo]

PlacesIn(locs) == [i \in 1 .. Len(locs) |-> locs[i].place]
ItineraryPlaces == PlacesIn(locations)
Tickets == [e \in Editors |-> TicketOf(e)]
Sizes == [e \in Editors |-> save[e].size]
Published == [i \in 1 .. Len(courses) |->
                [by     |-> courses[i].by,
                 images |-> ImagePlaces(courses[i].images)]]

Publication ==
    INSTANCE CoursePublication WITH
        itinerary <- ItineraryPlaces,
        ticket    <- Tickets,
        size      <- Sizes,
        published <- Published

ImplementsPublication == Publication!Spec

(***************************************************************************)
(* The inductive invariant behind PhotoIDsInOrder and the refinement.      *)
(***************************************************************************)

\* An editor that has started a save can be on screen only behind its HUD.
SavesAreCovered ==
    /\ \A e \in Editors : shown = e => /\ e \in opened
                                       /\ save[e].phase # "none" => e \in hud
    /\ \A e \in asked : shown = e /\ save[e].phase = "none"

\* An editor that has not started a save has no photoIDs; one that was not
\* opened has not started a save.
NotStarted(e) ==
    /\ e \notin opened => save[e].phase = "none"
    /\ save[e].phase = "none" => save[e] = NewSave

\* The only photo a location ever gets is the one of its place.
PhotosMatch ==
    \A i \in 1 .. Len(locations) :
        locations[i].photo \in {NoPhoto, locations[i].place}

\* Every place confirmed is still in the itinerary; the photo in flight is
\* the one of the location at the index; past the last photo, the index is
\* at least the number of places confirmed.
Progress(e) ==
    /\ Running(e) => save[e].size <= LocationCount
    /\ save[e].phase \in {"putting", "fetching"} =>
          /\ save[e].index < save[e].count
          /\ save[e].count <= LocationCount
          /\ save[e].image = locations[save[e].index + 1].place
    /\ save[e].phase = "registering" =>
          /\ save[e].index >= save[e].size
          /\ save[e].user \in Users

\* The course of an editor exists once its write has landed, not before.
CourseWhenLanded(e) ==
    /\ save[e].phase \in {"none", "putting", "fetching", "registering"} =>
          ~HasCourse(e)
    /\ save[e].phase \in {"landed", "done"} => HasCourse(e)

EditorInv(e) ==
    /\ OrderedPhotoIDs(e)
    /\ NotStarted(e)
    /\ Progress(e)
    /\ CourseWhenLanded(e)

\* The inductive invariant: it implies TypeOK and PhotoIDsInOrder.
SaveInv ==
    /\ TypeOK
    /\ SavesAreCovered
    /\ PhotosMatch
    /\ \A e \in Editors : EditorInv(e)

(***************************************************************************)
(* What the repository says of the program and the program does not do.    *)
(***************************************************************************)

\* "return course["images"] as! [String]" (DataModel.swift): every course in
\* the database has an "images" child.  An empty array is no child at all.
EveryCourseHasImages ==
    \A i \in DOMAIN courses : courses[i].images # <<>>

=============================================================================
