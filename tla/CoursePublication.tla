------------------------- MODULE CoursePublication -------------------------
(***************************************************************************)
(* What saving an itinerary promises, without uploads, alerts or answers.  *)
(*                                                                         *)
(* An editor is confirmed at most once.  A confirmed editor publishes at   *)
(* most one course, and that course is a prefix of the itinerary as it is  *)
(* at that moment, in its order, holding at least every place that was in  *)
(* it at the confirmation; or the editor gives up.  An itinerary only      *)
(* grows, until the process dies.                                          *)
(***************************************************************************)
EXTENDS Naturals, Sequences

CONSTANTS Editors, Places

VARIABLES
    itinerary,      \* the places of the current itinerary
    ticket,         \* ticket[e]: how far editor e's save is
    size,           \* size[e]: places in the itinerary when e was confirmed
    published       \* the courses, each [by, images]

vars == <<itinerary, ticket, size, published>>

Ticket == {"none", "saving", "published", "over"}

Init ==
    /\ itinerary = <<>>
    /\ ticket = [e \in Editors |-> "none"]
    /\ size = [e \in Editors |-> 0]
    /\ published = <<>>

Add(p) ==
    /\ itinerary' = Append(itinerary, p)
    /\ UNCHANGED <<ticket, size, published>>

\* The first photo may be missing: then the save is over as it starts.
Confirm(e) ==
    /\ ticket[e] = "none"
    /\ \E t \in {"saving", "over"} : ticket' = [ticket EXCEPT ![e] = t]
    /\ size' = [size EXCEPT ![e] = Len(itinerary)]
    /\ UNCHANGED <<itinerary, published>>

Publish(e) ==
    /\ ticket[e] = "saving"
    /\ ticket' = [ticket EXCEPT ![e] = "published"]
    /\ \E n \in size[e] .. Len(itinerary) :
          published' = Append(published,
                              [by |-> e, images |-> SubSeq(itinerary, 1, n)])
    /\ UNCHANGED <<itinerary, size>>

GiveUp(e) ==
    /\ ticket[e] = "saving"
    /\ ticket' = [ticket EXCEPT ![e] = "over"]
    /\ UNCHANGED <<itinerary, size, published>>

\* The process dies: the itinerary is forgotten and every save is over.
Forget ==
    /\ itinerary' = <<>>
    /\ ticket' = [e \in Editors |->
                    IF ticket[e] = "saving" THEN "over" ELSE ticket[e]]
    /\ UNCHANGED <<size, published>>

Next ==
    \/ \E p \in Places : Add(p)
    \/ \E e \in Editors : Confirm(e) \/ Publish(e) \/ GiveUp(e)
    \/ Forget

Spec == Init /\ [][Next]_vars

=============================================================================
