---------------------- MODULE ItineraryEditor_proofs ----------------------
(***************************************************************************)
(* Proofs about ItineraryEditor, for every set of places and every number  *)
(* of picks.                                                               *)
(***************************************************************************)
EXTENDS ItineraryEditor, SequenceTheorems, FiniteSetTheorems, TLAPS

(***************************************************************************)
(* Sequences.                                                              *)
(***************************************************************************)

\* The end of a sequence to which an element is appended.
LEMMA EndOfAppend ==
    ASSUME NEW S, NEW s \in Seq(S), NEW e \in S, NEW k \in 0 .. Len(s)
    PROVE  SubSeq(Append(s, e), k + 1, Len(Append(s, e))) =
             Append(SubSeq(s, k + 1, Len(s)), e)
<1> DEFINE n == Len(s)
           t == SubSeq(s, k + 1, n)
<1>1. /\ n \in Nat /\ k \in Nat /\ k <= n
      /\ \A i \in k + 1 .. n : s[i] \in S
  BY ElementOfSeq
<1>2. /\ Append(s, e) \in Seq(S) /\ Len(Append(s, e)) = n + 1
      /\ \A i \in k + 1 .. n + 1 : Append(s, e)[i] \in S
  BY AppendProperties, ElementOfSeq, <1>1
<1>3. /\ t \in Seq(S) /\ Len(t) = n - k
      /\ \A i \in 1 .. n - k : t[i] = s[k + i]
  BY <1>1, SubSeqProperties
<1>4. /\ SubSeq(Append(s, e), k + 1, n + 1) \in Seq(S)
      /\ Len(SubSeq(Append(s, e), k + 1, n + 1)) = n + 1 - k
      /\ \A i \in 1 .. n + 1 - k :
            SubSeq(Append(s, e), k + 1, n + 1)[i] = Append(s, e)[k + i]
  BY <1>1, <1>2, SubSeqProperties
<1>5. /\ Append(t, e) \in Seq(S) /\ Len(Append(t, e)) = n + 1 - k
      /\ \A i \in 1 .. n - k : Append(t, e)[i] = t[i]
      /\ Append(t, e)[n + 1 - k] = e
  BY <1>1, <1>3, AppendProperties
<1>6. \A i \in 1 .. n + 1 - k :
         SubSeq(Append(s, e), k + 1, n + 1)[i] = Append(t, e)[i]
  <2> SUFFICES ASSUME NEW i \in 1 .. n + 1 - k
               PROVE  Append(s, e)[k + i] = Append(t, e)[i]
    BY <1>4
  <2>1. CASE i = n + 1 - k
    BY <1>1, <1>5, <2>1, AppendProperties
  <2>2. CASE i # n + 1 - k
    <3>1. i \in 1 .. n - k /\ k + i \in 1 .. n
      BY <1>1, <2>2
    <3>2. Append(s, e)[k + i] = s[k + i]
      BY <3>1, AppendProperties
    <3> QED BY <1>3, <1>5, <3>1, <3>2
  <2> QED BY <2>1, <2>2
<1> QED BY <1>2, <1>4, <1>5, <1>6, SeqEqual

----------------------------------------------------------------------------
(***************************************************************************)
(* Steps.                                                                  *)
(***************************************************************************)

\* Steps that leave the itinerary alone: the section stays in range, the
\* table remembers no more than there is, and the path, if it is drawn at
\* all afterwards, is the one it was, or empty.
LEMMA SameItinerary ==
    ASSUME EditorInv, UNCHANGED itinerary,
           screen' \in Screens, alerts' \subseteq Alerts, updating' \in BOOLEAN,
           reloading' \in BOOLEAN,
           section' = section \/ section' = 0,
           \/ table' = table
           \/ table' = Loaded
           \/ table' = [sections |-> 1 + Len(places), add |-> 0],
           \/ path' = path /\ (screen' \in {"tabs", "down"}
                              \/ screen \notin {"tabs", "down"})
           \/ path' = NoPath
           \/ path' = <<>>
    PROVE  EditorInv'
<1>1. /\ places \in Seq(Places) /\ Len(places) \in Nat
      /\ UNCHANGED <<places, markers>>
      /\ table \in [sections : Nat \ {0}, add : Nat]
      /\ section \in 0 .. Len(places)
  BY DEF EditorInv, TypeOK, itinerary
<1>2. /\ table' \in [sections : Nat \ {0}, add : Nat]
      /\ table'.sections <= 1 + Len(places)
  BY <1>1 DEF EditorInv, TableInBounds, Loaded
<1>3. path' \in Seq(Places) \cup {NoPath}
  BY EmptySeq DEF EditorInv, TypeOK
<1>4. section' \in 0 .. Len(places)
  BY <1>1
<1>5. TypeOK'
  BY <1>1, <1>2, <1>3, <1>4 DEF EditorInv, TypeOK
<1>6. TableInBounds'
  BY <1>1, <1>2 DEF TableInBounds
<1>7. MarkersMatch'
  BY <1>1 DEF EditorInv, MapFollowsItinerary, MarkersMatch
<1>8. PathIsEnd'
  <2>1. CASE path' = path /\ (screen' \in {"tabs", "down"}
                              \/ screen \notin {"tabs", "down"})
    BY <1>1, <2>1 DEF EditorInv, MapFollowsItinerary, PathIsEnd
  <2>2. CASE path' = NoPath
    BY <2>2 DEF PathIsEnd
  <2>3. CASE path' = <<>>
    <3>1. SubSeq(places, Len(places) + 1, Len(places)) = <<>>
      BY <1>1, SubSeqEmpty
    <3>2. Len(places) \in 0 .. Len(places)
      BY <1>1
    <3> QED BY <1>1, <2>3, <3>1, <3>2 DEF PathIsEnd
  <2> QED BY <2>1, <2>2, <2>3
<1> QED BY <1>5, <1>6, <1>7, <1>8 DEF EditorInv, MapFollowsItinerary

\* The end of the process.
LEMMA DieInv ==
    ASSUME Die
    PROVE  EditorInv'
<1>1. /\ <<>> \in Seq(Places) /\ <<>> \in Seq(Marker) /\ Len(<<>>) = 0
      /\ [sections |-> 1, add |-> 0] \in [sections : Nat \ {0}, add : Nat]
  BY EmptySeq
<1>2. section' \in 0 .. Len(places')
  BY <1>1 DEF Die
<1>3. TypeOK'
  BY <1>1, <1>2 DEF Die, TypeOK, Screens
<1>4. TableInBounds' /\ MarkersMatch' /\ PathIsEnd'
  BY <1>1 DEF Die, TableInBounds, MarkersMatch, PathIsEnd
<1> QED BY <1>3, <1>4 DEF EditorInv, MapFollowsItinerary

\* A pick adds the place to the itinerary, the markers and the path.
LEMMA PickedInv ==
    ASSUME EditorInv, NEW p \in Places, Picked(p)
    PROVE  EditorInv'
<1> DEFINE m == [place |-> p, number |-> Len(places')]
<1>1. /\ places \in Seq(Places) /\ markers \in Seq(Marker)
      /\ places' = Append(places, p)
      /\ section \in 0 .. Len(places)
      /\ section' = section + 1
      /\ screen = "picker" /\ screen' = "table"
      /\ reloading' = TRUE
      /\ UNCHANGED <<alerts, updating, table>>
      /\ path' = IF path = NoPath THEN NoPath ELSE Append(path, p)
  BY DEF EditorInv, TypeOK, Picked, Touchable
<1>2. /\ places' \in Seq(Places) /\ Len(places) \in Nat
      /\ Len(places') = Len(places) + 1
      /\ \A i \in 1 .. Len(places) : places'[i] = places[i]
      /\ places'[Len(places) + 1] = p
  BY <1>1, AppendProperties, LenProperties
<1>3. m \in Marker /\ markers' = Append(markers, m)
  BY <1>2 DEF Marker, Picked
<1>4. m = [place |-> p, number |-> Len(places) + 1]
  BY <1>2
<1> HIDE DEF m
<1>5. /\ markers' \in Seq(Marker)
      /\ Len(markers') = Len(markers) + 1
      /\ \A i \in 1 .. Len(markers) : markers'[i] = markers[i]
      /\ markers'[Len(markers) + 1] = m
  BY <1>1, <1>3, AppendProperties
<1>6. TypeOK'
  <2>1. path' \in Seq(Places) \cup {NoPath}
    BY <1>1, AppendProperties DEF EditorInv, TypeOK
  <2>2. section' \in 0 .. Len(places')
    BY <1>1, <1>2
  <2> QED BY <1>1, <1>2, <1>5, <2>1, <2>2 DEF EditorInv, TypeOK, Screens
<1>7. TableInBounds'
  BY <1>1, <1>2 DEF EditorInv, TypeOK, TableInBounds
<1>8. MarkersMatch'
  <2>1. Len(markers) = Len(places)
    BY DEF EditorInv, MapFollowsItinerary, MarkersMatch
  <2>2. ASSUME NEW i \in 1 .. Len(places) + 1
        PROVE  markers'[i] = [place |-> places'[i], number |-> i]
    <3>1. CASE i = Len(places) + 1
      BY <1>2, <1>4, <1>5, <2>1, <3>1
    <3>2. CASE i # Len(places) + 1
      <4>1. i \in 1 .. Len(places)
        BY <1>2, <3>2
      <4> QED BY <1>2, <1>5, <2>1, <4>1
              DEF EditorInv, MapFollowsItinerary, MarkersMatch
    <3> QED BY <3>1, <3>2
  <2> QED BY <1>2, <1>5, <2>1, <2>2 DEF MarkersMatch
<1>9. PathIsEnd'
  <2> SUFFICES ASSUME path' # NoPath
               PROVE  \E k \in 0 .. Len(places') :
                         path' = SubSeq(places', k + 1, Len(places'))
    BY DEF PathIsEnd
  <2>1. path # NoPath /\ path' = Append(path, p)
    BY <1>1
  <2>2. PICK k \in 0 .. Len(places) : path = SubSeq(places, k + 1, Len(places))
    BY <1>1, <2>1 DEF EditorInv, MapFollowsItinerary, PathIsEnd
  <2>3. path' = SubSeq(places', k + 1, Len(places'))
    BY <1>1, <2>1, <2>2, EndOfAppend
  <2>4. k \in 0 .. Len(places')
    BY <1>2
  <2> QED BY <2>3, <2>4
<1> QED BY <1>6, <1>7, <1>8, <1>9 DEF EditorInv, MapFollowsItinerary

LEMMA InitInv == Init => EditorInv
<1> SUFFICES ASSUME Init PROVE EditorInv
  OBVIOUS
<1>1. /\ <<>> \in Seq(Places) /\ <<>> \in Seq(Marker) /\ Len(<<>>) = 0
      /\ [sections |-> 1, add |-> 0] \in [sections : Nat \ {0}, add : Nat]
  BY EmptySeq
<1>2. section \in 0 .. Len(places)
  BY <1>1 DEF Init
<1>3. TypeOK
  BY <1>1, <1>2 DEF Init, TypeOK, Screens
<1>4. TableInBounds /\ MarkersMatch /\ PathIsEnd
  BY <1>1 DEF Init, TableInBounds, MarkersMatch, PathIsEnd
<1> QED BY <1>3, <1>4 DEF EditorInv, MapFollowsItinerary

LEMMA NextInv == EditorInv /\ [Next]_vars => EditorInv'
<1> SUFFICES ASSUME EditorInv, [Next]_vars PROVE EditorInv'
  OBVIOUS
<1> USE DEF itinerary, editor
<1>0. /\ screen \in Screens /\ alerts \subseteq Alerts
      /\ updating \in BOOLEAN /\ reloading \in BOOLEAN
  BY DEF EditorInv, TypeOK
<1>1. CASE Kill \/ UndoPressed \/ MapAddPressed
  BY <1>1, DieInv DEF Kill, UndoPressed, MapAddPressed
<1>2. CASE Launch
  BY <1>0, <1>2, SameItinerary DEF Launch, Screens
<1>3. CASE Open
  BY <1>0, <1>3, SameItinerary DEF Open, Touchable, Screens
<1>4. CASE Cancel
  BY <1>0, <1>4, SameItinerary DEF Cancel, Touchable, Screens
<1>5. CASE Saved
  BY <1>0, <1>5, SameItinerary DEF Saved, Touchable, Screens
<1>6. CASE SetUpMap
  <2>1. alerts' \subseteq Alerts
    BY <1>0, <1>6 DEF SetUpMap, Alerts
  <2>2. path' = path \/ path' = <<>>
    BY <1>6 DEF SetUpMap
  <2> QED BY <1>0, <1>6, <2>1, <2>2, SameItinerary DEF SetUpMap
<1>7. CASE AddLocationTapped
  BY <1>0, <1>7, SameItinerary DEF AddLocationTapped, Touchable, Screens, Alerts
<1>8. CASE PickerCancelled
  BY <1>0, <1>8, SameItinerary DEF PickerCancelled, Touchable, Screens
<1>9. CASE Reload
  BY <1>0, <1>9, SameItinerary DEF Reload
<1>10. ASSUME NEW a \in Alerts, AlertDone(a) PROVE EditorInv'
  BY <1>0, <1>10, SameItinerary DEF AlertDone, Screens
<1>11. ASSUME NEW p \in Places, Picked(p) PROVE EditorInv'
  BY <1>11, PickedInv
<1>12. CASE OpenMap
  BY <1>0, <1>12, SameItinerary DEF OpenMap, Touchable, Screens, Alerts
<1>13. CASE MapCancelled
  BY <1>0, <1>13, SameItinerary DEF MapCancelled, Touchable, Screens
<1>14. CASE UNCHANGED vars
  BY <1>0, <1>14, SameItinerary DEF vars
<1> QED BY <1>1, <1>2, <1>3, <1>4, <1>5, <1>6, <1>7, <1>8, <1>9, <1>10,
           <1>11, <1>12, <1>13, <1>14 DEF Next

----------------------------------------------------------------------------
(***************************************************************************)
(* Theorems.                                                               *)
(***************************************************************************)

\* The inductive invariant holds of every use of the editors, the picker and
\* the maps.
THEOREM EditorInvariant == Spec => []EditorInv
<1> QED BY InitInv, NextInv, PTL DEF Spec

\* Every variable has its type; the add cell's section always exists.
THEOREM TypeCorrect == Spec => []TypeOK
<1>1. EditorInv => TypeOK
  BY DEF EditorInv
<1> QED BY <1>1, EditorInvariant, PTL

\* Markers and path follow the itinerary, so the full-screen map reads no
\* location that does not exist (addCourseMap.setUpMap).
THEOREM MapFollows == Spec => []MapFollowsItinerary
<1>1. EditorInv => MapFollowsItinerary
  BY DEF EditorInv
<1> QED BY <1>1, EditorInvariant, PTL

\* No row of the table, however old, asks for a location that does not exist
\* (tableView(_:cellForRowAt:)).
LEMMA TableDrawsInBounds == EditorInv => DrawsInBounds
<1> SUFFICES ASSUME EditorInv, NEW sr \in IndexPaths
             PROVE  sr[1] <= Len(places)
  BY DEF DrawsInBounds
<1>1. Len(places) \in Nat /\ table.sections \in Nat
  BY DEF EditorInv, TypeOK
<1>2. sr[1] \in 0 .. table.sections - 1
  BY DEF IndexPaths
<1> QED BY <1>1, <1>2 DEF EditorInv, TableInBounds

\* A loaded table has one add cell, whatever the number of locations that
\* earlier editors left (addButtonSectionIndex).
LEMMA TableHasOneAddCell == EditorInv => OneAddCell
<1> SUFFICES ASSUME EditorInv, table = Loaded
             PROVE  Cardinality(AddCells) = 1
  BY DEF OneAddCell
<1> DEFINE at == <<section, IF section = 0 THEN 0 ELSE 3>>
<1>1. /\ Len(places) \in Nat /\ section \in 0 .. Len(places)
      /\ table.sections = 1 + Len(places) /\ table.add = section
  BY DEF EditorInv, TypeOK, Loaded
<1>2. at \in AddCells
  BY <1>1 DEF AddCells, IndexPaths, RowsIn, CellKind
<1>3. ASSUME NEW sr \in AddCells PROVE sr = at
  <2>1. /\ sr \in (0 .. Len(places)) \X (0 .. 3)
        /\ sr[2] < RowsIn(sr[1])
        /\ CellKind(sr[1], sr[2]) = "add"
    BY <1>1 DEF AddCells, IndexPaths
  <2>2. sr[1] = section /\ (section = 0 \/ sr[2] = 3)
    <3>1. \A r \in 0 .. 2 : <<"title", "photo", "arrow">>[r + 1] # "add"
      OBVIOUS
    <3> QED BY <2>1, <3>1 DEF CellKind
  <2>3. section = 0 => sr[2] = 0
    BY <1>1, <2>1, <2>2 DEF RowsIn
  <2> QED BY <2>1, <2>2, <2>3
<1>4. AddCells = {at}
  BY <1>2, <1>3
<1> QED BY <1>4, FS_Singleton

\* What the table draws is right, before and after it is reloaded.
THEOREM TableIsRight == Spec => []TableRight
<1>1. EditorInv => TableRight
  BY TableDrawsInBounds, TableHasOneAddCell DEF TableRight
<1> QED BY <1>1, EditorInvariant, PTL

=============================================================================
