-------------------------- MODULE ItineraryEditor --------------------------
(***************************************************************************)
(* Editing an itinerary: the editor (addCourseItinerary.swift) with its    *)
(* table and its small map, the place picker, and the full-screen map      *)
(* (addCourseMap.swift) that it pushes.                                    *)
(*                                                                         *)
(* The shared CurrentItinerary holds the locations and the markers and     *)
(* lives as long as the process; an editor holds its path and the section  *)
(* of its "add" cell, and starts afresh each time it is opened.  The table *)
(* view remembers the numbers of sections and rows of its last reload,     *)
(* and a reload is posted to the main queue each time the editor appears:  *)
(* in between, it draws cells of the old shape from the new data.          *)
(***************************************************************************)
EXTENDS Integers, Sequences, FiniteSets

CONSTANTS
    Places,         \* places the place picker can return
    NoPath,         \* the editor's pathway is nil
    MaxPlaces       \* bound: the user picks at most this many places

ASSUME EditorAssumption ==
    /\ NoPath \notin Seq(Places)
    /\ MaxPlaces \in Nat

VARIABLES
    places,         \* the places of CurrentItinerary.shared.locations
    markers,        \* CurrentItinerary.shared.markers
    screen,         \* what is in front: "down" if the process is dead
    alerts,         \* alert views above the screen
    updating,       \* the editor waits for a location update
    path,           \* the editor's pathway
    section,        \* the editor's addButtonSectionIndex
    table,          \* what the table view remembers of its last reload
    reloading       \* a reload is queued on the main queue

itinerary == <<places, markers>>
editor == <<updating, path, section, table, reloading>>
vars == <<itinerary, screen, alerts, editor>>

Screens == {"down", "tabs", "table", "picker", "map"}

\* "ok" goes away when its button is tapped; "leave" also makes the editor
\* dismiss what it presented, or else itself.
Alerts == {"ok", "leave"}

Marker == [place : Places, number : Nat]

\* numberOfSections(in:), and what the add cell's section is at a reload.
Loaded == [sections |-> 1 + Len(places), add |-> section]

Touchable(s) == screen = s /\ alerts = {}

\* The process is gone, and with it the singletons and the editor.
Die ==
    /\ places' = <<>>
    /\ markers' = <<>>
    /\ screen' = "down"
    /\ alerts' = {}
    /\ updating' = FALSE
    /\ path' = NoPath
    /\ section' = 0
    /\ table' = [sections |-> 1, add |-> 0]
    /\ reloading' = FALSE

Init ==
    /\ places = <<>>
    /\ markers = <<>>
    /\ screen = "tabs"
    /\ alerts = {}
    /\ updating = FALSE
    /\ path = NoPath
    /\ section = 0
    /\ table = [sections |-> 1, add |-> 0]
    /\ reloading = FALSE

----------------------------------------------------------------------------
\* The system ends the process; the user starts it again.
Kill == screen # "down" /\ Die

Launch ==
    /\ screen = "down"
    /\ screen' = "tabs"
    /\ UNCHANGED <<itinerary, alerts, editor>>

\* The tab bar presents a new editor: its table loads as it appears, and
\* viewDidAppear posts a reload.
Open ==
    /\ Touchable("tabs")
    /\ screen' = "table"
    /\ updating' = TRUE
    /\ path' = NoPath
    /\ section' = 0
    /\ table' = [sections |-> 1 + Len(places), add |-> 0]
    /\ reloading' = TRUE
    /\ UNCHANGED <<itinerary, alerts>>

\* cancelButtonTapped: clear() reloads the table, and nothing else.
Cancel ==
    /\ Touchable("table")
    /\ screen' = "tabs"
    /\ table' = Loaded
    /\ updating' = FALSE
    /\ UNCHANGED <<itinerary, alerts, path, section, reloading>>

\* A save that has written its course dismisses the editor, which is then in
\* front: its HUD keeps the user on the table.
Saved ==
    /\ Touchable("table")
    /\ screen' = "tabs"
    /\ updating' = FALSE
    /\ UNCHANGED <<itinerary, alerts, path, section, table, reloading>>

\* locationManager(_:didUpdateLocations:), once for each editor: setUpMap
\* makes a new small map with an empty path, or alerts if the location is
\* gone again.
SetUpMap ==
    /\ updating
    /\ updating' = FALSE
    /\ \/ path' = <<>> /\ UNCHANGED alerts
       \/ alerts' = alerts \cup {"leave"} /\ UNCHANGED path
    /\ UNCHANGED <<itinerary, screen, section, table, reloading>>

\* addLocationButtonTapped presents the place picker, or alerts.
AddLocationTapped ==
    /\ Touchable("table")
    /\ \/ screen' = "picker" /\ UNCHANGED alerts
       \/ alerts' = {"ok"} /\ UNCHANGED screen
    /\ UNCHANGED <<itinerary, editor>>

AlertDone(a) ==
    /\ a \in alerts
    /\ alerts' = alerts \ {a}
    /\ \/ /\ a = "ok" \/ screen = "tabs"
          /\ UNCHANGED <<screen, updating, reloading>>
       \/ /\ a = "leave" /\ screen = "picker"
          /\ screen' = "table"
          /\ reloading' = TRUE
          /\ UNCHANGED updating
       \/ /\ a = "leave" /\ screen \in {"table", "map"}
          /\ screen' = "tabs"
          /\ updating' = FALSE
          /\ UNCHANGED reloading
    /\ UNCHANGED <<itinerary, path, section, table>>

\* Mutant of Picked: the editor does not reload when it appears again.
PickedNoReload(p) ==
    /\ Touchable("picker")
    /\ Len(places) < MaxPlaces
    /\ screen' = "table"
    /\ places' = Append(places, p)
    /\ section' = section + 1
    /\ markers' = Append(markers, [place |-> p, number |-> Len(places')])
    /\ path' = IF path = NoPath THEN NoPath ELSE Append(path, p)
    /\ UNCHANGED <<alerts, updating, table, reloading>>

\* placePicker(_:didPick:): the picker goes, the editor appears again, and
\* the place is added to the itinerary, the markers and the path, if any.
Picked(p) ==
    /\ Touchable("picker")
    /\ Len(places) < MaxPlaces
    /\ screen' = "table"
    /\ places' = Append(places, p)
    /\ section' = section + 1
    /\ markers' = Append(markers, [place |-> p, number |-> Len(places')])
    /\ path' = IF path = NoPath THEN NoPath ELSE Append(path, p)
    /\ reloading' = TRUE
    /\ UNCHANGED <<alerts, updating, table>>

\* placePickerDidCancel.
PickerCancelled ==
    /\ Touchable("picker")
    /\ screen' = "table"
    /\ reloading' = TRUE
    /\ UNCHANGED <<itinerary, alerts, updating, path, section, table>>

\* The reload posted by viewDidAppear.
Reload ==
    /\ reloading
    /\ reloading' = FALSE
    /\ table' = Loaded
    /\ UNCHANGED <<itinerary, screen, alerts, updating, path, section>>

----------------------------------------------------------------------------
(***************************************************************************)
(* The full-screen map.                                                    *)
(***************************************************************************)

\* A long press on the small map pushes the full-screen one, which shows
\* the markers, or alerts if there is no location.
OpenMap ==
    /\ Touchable("table")
    /\ screen' = "map"
    /\ alerts' \in {{}, {"leave"}}
    /\ UNCHANGED <<itinerary, editor>>

\* The map's cancel button pops it, and the editor appears again.
MapCancelled ==
    /\ Touchable("map")
    /\ screen' = "table"
    /\ reloading' = TRUE
    /\ UNCHANGED <<itinerary, alerts, updating, path, section, table>>

\* The location undoButtonPressed removes.
WithoutLast(s) == IF s = <<>> THEN s ELSE SubSeq(s, 1, Len(s) - 1)

\* Mutant of UndoPressed: the nil pathway is passed over.
UndoPressedSafe ==
    /\ Touchable("map")
    /\ places' = WithoutLast(places)
    /\ UNCHANGED <<markers, screen, alerts, editor>>

\* undoButtonPressed removes the last location and then force-unwraps the
\* count of a static pathway that nothing ever assigns: the process stops.
UndoPressed ==
    /\ Touchable("map")
    /\ Die

\* The map's "add" button sends pickPlace: to its screen, whose class does not
\* implement it (only that of test.swift does, which nothing presents).
MapAddPressed ==
    /\ Touchable("map")
    /\ Die

----------------------------------------------------------------------------
Next ==
    \/ Kill \/ Launch
    \/ Open \/ Cancel \/ Saved \/ SetUpMap
    \/ AddLocationTapped \/ PickerCancelled \/ Reload
    \/ \E a \in Alerts : AlertDone(a)
    \/ \E p \in Places : Picked(p)
    \/ OpenMap \/ MapCancelled \/ UndoPressed \/ MapAddPressed

Spec == Init /\ [][Next]_vars

\* The main queue runs what is posted to it.
FairSpec == Spec /\ WF_vars(Reload)

(***************************************************************************)
(* What the table view draws: the rows it remembers, made into cells by    *)
(* tableView(_:cellForRowAt:) from the data of the moment.                 *)
(***************************************************************************)
RowsIn(s) == IF s = table.add /\ s > 0 THEN 4 ELSE IF s > 0 THEN 3 ELSE 1

IndexPaths == {sr \in (0 .. table.sections - 1) \X (0 .. 3) : sr[2] < RowsIn(sr[1])}

CellKind(s, r) ==
    IF s = section /\ (section = 0 \/ r = 3) THEN "add"
    ELSE IF s > 0 /\ r < 3 THEN <<"title", "photo", "arrow">>[r + 1]
    ELSE "blank"
----------------------------------------------------------------------------
(***************************************************************************)
(* Properties.                                                             *)
(***************************************************************************)

\* Every variable has its type; in particular the add cell's section is one
\* the itinerary has (addButtonSectionIndex).
TypeOK ==
    /\ places \in Seq(Places)
    /\ markers \in Seq(Marker)
    /\ screen \in Screens
    /\ alerts \subseteq Alerts
    /\ updating \in BOOLEAN
    /\ path \in Seq(Places) \cup {NoPath}
    /\ section \in 0 .. Len(places)
    /\ table \in [sections : Nat \ {0}, add : Nat]
    /\ reloading \in BOOLEAN

\* Between a change of the itinerary and the reload the table draws old rows
\* from new data: no cell it draws asks for a location that does not exist
\* (getLocation does not check its index).
DrawsInBounds ==
    \A sr \in IndexPaths :
        CellKind(sr[1], sr[2]) \in {"title", "photo"} => sr[1] <= Len(places)

\* After every reload the table has exactly one cell to add a location or to
\* complete the itinerary, also when the editor was opened on locations left
\* by an earlier one (addButtonSectionIndex starts at 0 each time).
AddCells == {sr \in IndexPaths : CellKind(sr[1], sr[2]) = "add"}
OneAddCell == table = Loaded => Cardinality(AddCells) = 1

\* What the table draws, before and after a reload, is right.
TableRight == DrawsInBounds /\ OneAddCell

\* The markers are the locations, in order and numbered, so the full-screen
\* map, which reads location i for marker i, stays in bounds; and the path is
\* the last places picked (placePicker(_:didPick:), addCourseMap.setUpMap).
MarkersMatch ==
    /\ Len(markers) = Len(places)
    /\ \A i \in 1 .. Len(places) :
          markers[i] = [place |-> places[i], number |-> i]

PathIsEnd ==
    path # NoPath /\ screen \notin {"tabs", "down"} =>
        \E k \in 0 .. Len(places) : path = SubSeq(places, k + 1, Len(places))

MapFollowsItinerary == MarkersMatch /\ PathIsEnd

\* An editor on screen shows the whole itinerary in the end: the table has a
\* section for each location (viewDidAppear).
TableCatchesUp ==
    screen = "table" /\ table # Loaded ~> table = Loaded \/ screen # "table"

(***************************************************************************)
(* The inductive invariant behind TableRight and MapFollowsItinerary: the  *)
(* table never remembers more sections than the itinerary has, since       *)
(* places go away only with the process.                                   *)
(***************************************************************************)
TableInBounds == table.sections <= 1 + Len(places)

EditorInv ==
    /\ TypeOK
    /\ TableInBounds
    /\ MapFollowsItinerary

(***************************************************************************)
(* What the repository says of the program and the program does not do.    *)
(***************************************************************************)

\* "//delete last path and marker" (undoButtonPressed).
UndoKeepsRest ==
    UndoPressed /\ places # <<>> =>
        markers' = WithoutLast(markers) /\ screen' = "map"
UndoDeletesLastMarker == [][UndoKeepsRest]_vars

=============================================================================
