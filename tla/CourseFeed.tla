----------------------------- MODULE CourseFeed -----------------------------
(***************************************************************************)
(* The feed of courses (DataModel.swift, MainViewController.swift).        *)
(*                                                                         *)
(* Each MainViewController observes the courses of the Realtime Database   *)
(* for good.  A change raises one event for each observer on the main      *)
(* queue; the event replaces the array that all of them share, and posts   *)
(* the reload of its own collection view to a later turn.  In between, the *)
(* view on screen draws and selects by index in an array it has not        *)
(* counted.  The Database raises events for this app's own writes at once, *)
(* and takes them back if the server refuses the write.                    *)
(***************************************************************************)
EXTENDS Naturals, Sequences, FiniteSets

CONSTANTS
    Courses,        \* children of "courses"
    Imageless,      \* the courses written without "images"
    NoCourse,       \* a cell that is not drawn, no course selected
    MaxViews,       \* bound: main screens made since launch
    MaxQueue        \* bound: a change waits until the queue is shorter

ASSUME FeedAssumption ==
    /\ Imageless \subseteq Courses
    /\ NoCourse \notin Courses
    /\ MaxViews \in Nat
    /\ MaxQueue \in Nat

VARIABLES
    server,         \* the courses in the Database
    pending,        \* writes of this app the server has not answered
    courses,        \* DataModel.sharedInstance.courses
    views,          \* main screens since launch; the last one is in front
    observing,      \* the first observers, those that have had an event
    queue,          \* the blocks on the main queue
    laidOut,        \* the front collection view has counted since its reload
    cells,          \* the course of each item it counted, if drawn
    detail,         \* the course shown over the feed
    stopped,        \* why the process stopped, if it did
    takenBack       \* history: the courses whose write was refused since launch

database == <<server, pending>>
screen == <<laidOut, cells, detail>>
vars == <<database, courses, views, observing, queue, screen, stopped, takenBack>>

Readable == Courses \ Imageless

Block == [kind : {"value"}, view : Nat, snapshot : SUBSET Courses]
           \cup [kind : {"reload"}, view : Nat]

Running == stopped = "no"

\* What this app's observers see: its own writes count at once.
Snapshot == server \cup pending

Init ==
    /\ server = {}
    /\ pending = {}
    /\ courses = <<>>
    /\ views = 1
    /\ observing = 0
    /\ queue = <<>>
    /\ laidOut = FALSE
    /\ cells = <<>>
    /\ detail = NoCourse
    /\ stopped = "no"
    /\ takenBack = {}

----------------------------------------------------------------------------
(***************************************************************************)
(* The Database.                                                           *)
(***************************************************************************)

\* Mutant of Raise: the courses are read once (observeSingleEvent).
RaiseNothing(S) == queue' = queue

\* A change of the courses raises an event for each observer, in order.
Raise(S) ==
    queue' = queue \o [v \in 1 .. observing |->
                         [kind |-> "value", view |-> v, snapshot |-> S]]

\* A course of another user, or of an earlier run of this app.
OthersAdd(c) ==
    /\ Len(queue) < MaxQueue
    /\ c \notin Snapshot
    /\ server' = server \cup {c}
    /\ Raise(Snapshot \cup {c})
    /\ UNCHANGED <<pending, courses, views, observing, screen, stopped, takenBack>>

\* registerCourseIntoDatabase: updateChildValues on a fresh child.
Write(c) ==
    /\ Running
    /\ Len(queue) < MaxQueue
    /\ c \notin Snapshot
    /\ pending' = pending \cup {c}
    /\ Raise(Snapshot \cup {c})
    /\ UNCHANGED <<server, courses, views, observing, screen, stopped, takenBack>>

\* The server applies the write: nothing changes for the observers ...
WriteApplied(c) ==
    /\ c \in pending
    /\ pending' = pending \ {c}
    /\ server' = server \cup {c}
    /\ UNCHANGED <<courses, views, observing, queue, screen, stopped, takenBack>>

\* ... or refuses it, and the course disappears again.
WriteRefused(c) ==
    /\ c \in pending
    /\ Len(queue) < MaxQueue
    /\ pending' = pending \ {c}
    /\ takenBack' = takenBack \cup {c}
    /\ Raise(Snapshot \ {c})
    /\ UNCHANGED <<server, courses, views, observing, screen, stopped>>

----------------------------------------------------------------------------
(***************************************************************************)
(* The main screens.                                                       *)
(***************************************************************************)

\* Mutant of NewView: the main screen is kept, and refreshing it empties the
\* array before it observes again.
NewViewClears ==
    /\ Running /\ views < MaxViews
    /\ views' = views + 1
    /\ courses' = <<>>
    /\ UNCHANGED <<database, observing, queue, screen, stopped, takenBack>>

\* After a sign-out, the next sign-in makes a new main screen; the observer
\* of the one before stays.
NewView ==
    /\ Running
    /\ views < MaxViews
    /\ views' = views + 1
    /\ laidOut' = FALSE
    /\ cells' = <<>>
    /\ detail' = NoCourse
    /\ UNCHANGED <<database, courses, observing, queue, stopped, takenBack>>

\* getInitialCourses registers the observer on another queue; it has its
\* first event once the courses have come from the server.
Observe ==
    /\ Running
    /\ observing < views
    /\ observing' = observing + 1
    /\ queue' = Append(queue, [kind |-> "value", view |-> observing + 1,
                               snapshot |-> Snapshot])
    /\ UNCHANGED <<database, courses, views, screen, stopped, takenBack>>

\* createCourseData appends the courses in the order of a dictionary.
Orders(S) ==
    {s \in [1 .. Cardinality(S) -> S] :
        \A i, j \in DOMAIN s : s[i] = s[j] => i = j}

\* Mutants of RunValue: courses without images are skipped over by the cast
\* but not by the array; the reload is not posted; and the array is made on a
\* concurrent queue, where a later event may overtake an earlier one.
RunValueLenient ==
    LET b == Head(queue)
    IN  /\ Running /\ queue # <<>> /\ b.kind = "value"
        /\ courses' \in Orders(b.snapshot)
        /\ queue' = Append(Tail(queue), [kind |-> "reload", view |-> b.view])
        /\ UNCHANGED <<database, views, observing, screen, stopped, takenBack>>

RunValueNoReload ==
    LET b == Head(queue)
    IN  /\ Running /\ queue # <<>> /\ b.kind = "value"
        /\ queue' = Tail(queue)
        /\ IF b.snapshot \cap Imageless # {}
             THEN stopped' = "cast" /\ UNCHANGED courses
             ELSE courses' \in Orders(b.snapshot) /\ UNCHANGED stopped
        /\ UNCHANGED <<database, views, observing, screen, takenBack>>

RunValueOvertakes ==
    \E i \in DOMAIN queue :
        /\ Running
        /\ queue[i].kind = "value"
        /\ queue[i].snapshot \cap Imageless = {}
        /\ courses' \in Orders(queue[i].snapshot)
        /\ queue' = SubSeq(queue, 1, i - 1) \o SubSeq(queue, i + 1, Len(queue))
                        \o <<[kind |-> "reload", view |-> queue[i].view]>>
        /\ UNCHANGED <<database, views, observing, screen, stopped, takenBack>>

\* The observer's closure replaces the array, or the forced cast of
\* "images" stops the process; the completion posts the reload.
RunValue ==
    LET b == Head(queue)
    IN  /\ Running
        /\ queue # <<>>
        /\ b.kind = "value"
        /\ IF b.snapshot \cap Imageless # {}
             THEN /\ stopped' = "cast"
                  /\ queue' = Tail(queue)
                  /\ UNCHANGED courses
             ELSE /\ courses' \in Orders(b.snapshot)
                  /\ queue' = Append(Tail(queue),
                                     [kind |-> "reload", view |-> b.view])
                  /\ UNCHANGED stopped
        /\ UNCHANGED <<database, views, observing, screen, takenBack>>

\* reloadData: the view counts again in its next layout pass.  A view that
\* is not in front has none.
RunReload ==
    LET b == Head(queue)
    IN  /\ Running
        /\ queue # <<>>
        /\ b.kind = "reload"
        /\ queue' = Tail(queue)
        /\ laidOut' = (laidOut /\ b.view # views)
        /\ UNCHANGED <<database, courses, views, observing, cells, detail,
                       stopped, takenBack>>

\* A layout pass counts the items and draws the first of them, those that
\* fit on the screen.
Layout ==
    /\ Running
    /\ ~laidOut
    /\ detail = NoCourse
    /\ laidOut' = TRUE
    /\ \E k \in 0 .. Len(courses) :
          cells' = [i \in 1 .. Len(courses) |->
                      IF i <= k THEN courses[i] ELSE NoCourse]
    /\ UNCHANGED <<database, courses, views, observing, queue, detail, stopped,
                   takenBack>>

\* collectionView(_:cellForItemAt:), when item i scrolls onto the screen.
Scroll(i) ==
    /\ Running
    /\ laidOut
    /\ detail = NoCourse
    /\ i \in DOMAIN cells
    /\ IF i <= Len(courses)
         THEN cells' = [cells EXCEPT ![i] = courses[i]] /\ UNCHANGED stopped
         ELSE stopped' = "index" /\ UNCHANGED cells
    /\ UNCHANGED <<database, courses, views, observing, queue, laidOut, detail,
                   takenBack>>

\* collectionView(_:didSelectItemAt:) shows the course at the index of the
\* cell that was tapped.
Select(i) ==
    /\ Running
    /\ detail = NoCourse
    /\ i \in DOMAIN cells
    /\ cells[i] # NoCourse
    /\ IF i <= Len(courses)
         THEN detail' = courses[i] /\ UNCHANGED stopped
         ELSE stopped' = "index" /\ UNCHANGED detail
    /\ UNCHANGED <<database, courses, views, observing, queue, laidOut, cells,
                   takenBack>>

CloseDetail ==
    /\ Running
    /\ detail # NoCourse
    /\ detail' = NoCourse
    /\ UNCHANGED <<database, courses, views, observing, queue, laidOut, cells,
                   stopped, takenBack>>

\* The process ends, or has stopped, and starts again; writes that were not
\* applied are lost.
Relaunch ==
    /\ pending' = {}
    /\ courses' = <<>>
    /\ views' = 1
    /\ observing' = 0
    /\ queue' = <<>>
    /\ laidOut' = FALSE
    /\ cells' = <<>>
    /\ detail' = NoCourse
    /\ stopped' = "no"
    /\ takenBack' = {}
    /\ UNCHANGED server

----------------------------------------------------------------------------
RunBlock == RunValue \/ RunReload

Next ==
    \/ \E c \in Courses :
          OthersAdd(c) \/ Write(c) \/ WriteApplied(c) \/ WriteRefused(c)
    \/ NewView \/ Observe \/ RunBlock \/ Layout
    \/ \E i \in DOMAIN cells : Scroll(i) \/ Select(i)
    \/ CloseDetail
    \/ Relaunch

Spec == Init /\ [][Next]_vars

\* The courses come from the server, the main queue runs its blocks, and a
\* view that needs layout gets it.
FairSpec == Spec /\ WF_vars(Observe) /\ WF_vars(RunBlock) /\ WF_vars(Layout)

----------------------------------------------------------------------------
(***************************************************************************)
(* Properties.                                                             *)
(***************************************************************************)

\* Every variable has its type; in particular no course without images gets
\* into the array (CourseCollectionViewCell.configure takes urls[0]).
TypeOK ==
    /\ server \subseteq Courses
    /\ pending \subseteq Courses
    /\ courses \in Seq(Readable)
    /\ views \in Nat
    /\ observing \in 0 .. views
    /\ queue \in Seq(Block)
    /\ laidOut \in BOOLEAN
    /\ cells \in Seq(Readable \cup {NoCourse})
    /\ detail \in Readable \cup {NoCourse}
    /\ stopped \in {"no", "cast", "index"}
    /\ takenBack \subseteq Courses

\* The front view will hear of the array it shows: it waits for its first
\* event, or for a block, or for a layout pass.
Catching ==
    \/ observing < views
    \/ \E i \in DOMAIN queue : queue[i].view = views
    \/ ~laidOut

\* Although every observer replaces the array that the front view draws from,
\* the front view shows the array as it is, up to cells not drawn, as soon as
\* nothing is under way for it (getInitialCourses, observeCourses).
FrontShowsFeed ==
    Running /\ ~Catching =>
        /\ Len(cells) = Len(courses)
        /\ \A i \in DOMAIN cells : cells[i] \in {NoCourse, courses[i]}

\* The gap between the new array and the reload stops the process only if a
\* course was taken back: the index of a cell is out of range for no other
\* reason (cellForItemAt, didSelectItemAt).
StopsOnlyAfterTakeBack == stopped = "index" => takenBack # {}

\* However many observers replace the array, each with the courses of when
\* its event was raised, no course leaves the feed but one whose write was
\* refused: a screen never goes back to an older feed (getInitialCourses).
Listed == {courses[i] : i \in DOMAIN courses}
CoursesStay == [][Relaunch \/ Listed \ Listed' \subseteq takenBack]_vars

\* Once the first observer has its first event, every course in the Database
\* gets to the front view, unless the user looks at a course, the process
\* stops or it starts again (observeCourses).
InFeed(c) ==
    /\ \E i \in DOMAIN courses : courses[i] = c
    /\ laidOut
    /\ Len(cells) = Len(courses)
CoursesArrive ==
    \A c \in Courses :
        c \in server /\ observing > 0
            ~> InFeed(c) \/ detail # NoCourse \/ ~Running \/ observing = 0

----------------------------------------------------------------------------
(***************************************************************************)
(* The inductive invariant.                                                *)
(***************************************************************************)

IsEvent(i) == i \in DOMAIN queue /\ queue[i].kind = "value"

\* What an observer is sent is finite, so that it has an order.
Finite ==
    /\ IsFiniteSet(Snapshot)
    /\ \A i \in DOMAIN queue : IsEvent(i) => IsFiniteSet(queue[i].snapshot)

\* The last observer has an event at or after every other.
LastEvent ==
    \A i \in DOMAIN queue : IsEvent(i) =>
        \E j \in DOMAIN queue : IsEvent(j) /\ j >= i /\ queue[j].view = observing

\* Cells, array, events in their order and Database: each has no more
\* courses than the next.
Growing ==
    /\ Len(cells) <= Len(courses)
    /\ Len(courses) <= Cardinality(Snapshot)
    /\ \A i \in DOMAIN queue : IsEvent(i) =>
          /\ Len(courses) <= Cardinality(queue[i].snapshot)
          /\ queue[i].snapshot \subseteq Snapshot
          /\ \A j \in DOMAIN queue : IsEvent(j) /\ i < j =>
                queue[i].snapshot \subseteq queue[j].snapshot

\* What the screen in front shows, and what it rests on.
ScreenInv ==
    /\ TypeOK /\ Finite /\ LastEvent
    /\ FrontShowsFeed
    /\ takenBack # {} \/ Growing
    /\ StopsOnlyAfterTakeBack

\* But for what was refused, the array is in every event to come, these are
\* in the later ones, and all are in the Database.
Kept ==
    /\ Listed \ takenBack \subseteq Snapshot
    /\ \A i \in DOMAIN queue : IsEvent(i) =>
          /\ Listed \ takenBack \subseteq queue[i].snapshot
          /\ queue[i].snapshot \ takenBack \subseteq Snapshot
          /\ \A j \in DOMAIN queue : IsEvent(j) /\ i < j =>
                queue[i].snapshot \ takenBack \subseteq queue[j].snapshot

FeedInv == ScreenInv /\ Kept

=============================================================================
