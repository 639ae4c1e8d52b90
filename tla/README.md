# DateCourse: specifications, model checks and proofs

DateCourse is an iOS app, about 2,400 lines of Swift: its users put together a
"course" (an itinerary of places), save it with a photo of each place in
Firebase, and look at the courses of others. Its repository also holds the source
of the libraries it links; one of them, the LevelDB that the Realtime Database
stores to, is a concurrent and crash-safe store of some 16,000 lines of C++. This
directory holds TLA+ modules of the app's core logic and of LevelDB's, the TLC
runs that check them on small instances, and theorems that TLAPS proves for every
value of the constants.

Paths of Swift files below are relative to `src/DateCourse/DateCourse/`, paths of C++
files to `src/DateCourse/Pods/leveldb-library/`. The other pods are modelled only by how
the app uses them.

## 1. The system

### Components of the app

| Component | State | Operations | Modelled in |
|---|---|---|---|
| Saving an itinerary (`addCourseItinerary.swift` 145-229, 489-520) | `photoIDs` of an editor, the index and count held by closures, the HUD, the alert | complete, Yes/Back, `savePhoto`, `savePhotoToDatabase`, `registerCourseIntoDatabase` and all their callbacks | `SaveItinerary`, abstractly `CoursePublication` |
| Table cells and photos (`ItineraryCell.swift`, `GMSPlaceClient.swift`) | a cell's `locationPlaceID`, image, address, cache; lookups under way | `configure`, the closure it queues, `loadFirstPhotoForPlace`, `loadImageForMetadata` | `ItineraryCell` |
| Editor (`addCourseItinerary.swift` 68-142, 239-382, 489-587; `addCourseMap.swift`) | `addButtonSectionIndex`, `pathway`, what the table view loaded, the screen in front | open, cancel, pick a place, long press, location update, reload, undo, the map's buttons | `ItineraryEditor` |
| Current itinerary (`CurrentItinerary.swift`) | the singleton: locations with photos, markers, map | `addLocation`, `removeLocation`, `addPhotoToLocation` | as variables of the three modules |
| Course feed (`DataModel.swift`, `MainViewController.swift`, `CourseCollectionViewCell.swift`) | the array of courses, the collection view's counts, the database's observers | observe, replace, reload, draw, select | `CourseFeed` |
| Remote image view (`CustomImageView.swift`) | URL, image, cache, downloads under way | load, answer | `RemoteImage` |
| Session (`AppDelegate.swift`, `LogInViewController.swift`, `SignUpViewController.swift`, `ProfileViewController.swift`) | current user, calls to Auth, the screens over each other, the HUDs on them, profiles | launch, log in, sign up, mail, password reset, sign out | `Session` |
| Shared alert and HUD (`AlertView.swift`, `ProgressView.swift`) | one shared view each | show, dismiss | not modelled: nothing shows them |
| Image resizing (`UIImage + Convenience.swift`) | none | `resizedTo1MB` | planned |
| Legacy map (`test.swift`) | static locations, markers, lines, path | pick, undo | not modelled; nothing presents it |
| Course detail map, collapsing header, plain views, unused classes | none, or geometry | draw | not modelled, see section 7 |

### Components of LevelDB

| Component | State | Operations | Modelled in |
|---|---|---|---|
| Database (`db/db_impl.cc`, `LogAndApply` and `Recover` of `db/version_set.cc`) | the queue of writers, memtables, logs, the current version, MANIFEST, table files, the background thread | `Write`, `MakeRoomForWrite`, `Get`, `CompactMemTable`, `DoCompactionWork`, `DeleteObsoleteFiles`, the destructor, `DB::Open` | `LevelDB`, abstractly `DurableStore` |
| Levels and compactions (`db/version_set.cc`, `DoCompactionWork`) | the tables of each level, the snapshots, the compaction under way | flush, pick, grow the inputs, move, merge, drop, cut, `CompactRange`, `Version::Get` | `LSMTree` |
| Table cache and LRU cache (`util/cache.cc`, `db/table_cache.cc`) | entries with reference counts, two lists, usage; readers' handles | `Lookup`, `Insert`, `Release`, `Erase`, `Prune`; `FindTable`, `Evict` | `LRUCache`, `TableCache` |
| Log format (`db/log_writer.cc`, `db/log_reader.cc`) | a file, the offset in the block, a reader's scratch | `AddRecord`, `EmitPhysicalRecord`, `ReadRecord`, `ReadPhysicalRecord` | `LogFormat` |
| Iterators (`db/db_iter.cc`, `table/merger.cc`) | each child's place, direction, the saved key | seek, next, prev, with their searches | `DBIterator` |
| Skip list (`db/skiplist.h`) | links by level, `max_height_` | `Insert`, the searches and moves of an iterator | `SkipList` |
| Tables and blocks (`table/`) | the builder's open block and index, the blocks written, an iterator's places in both | `Add`, `Flush`, `Finish`; `InternalGet`; `Seek`, `Next`, `Prev` of `Block::Iter` and `TwoLevelIterator` | `TableFile` |
| Files and threads of the platform (`util/env_posix.cc`) | the locked files, two limits, the queue of the background thread | `LockFile`, `UnlockFile`, `NewRandomAccessFile`, `Schedule`, `BGThread` | `PosixEnv` |
| Filters, encodings, arena, C interface, repair, dump | bytes, or none | encode, decode | not modelled, see section 7 |

Firebase's Objective-C code reaches LevelDB through `APLevelDB.mm` and
`FLevelDBStorageEngine.m`. The app never turns persistence on, so today LevelDB is
linked and idle; what is checked here is the library with the calls and options that this
wrapper would give it.

### How they interact

In the app, everything runs on the main queue: Firebase, Google Places and UIKit call
their completion handlers there, and the app posts its own blocks there. A
handler is therefore atomic, and what makes the app hard is what happens
*between* two handlers:

* **Shared state.** `CurrentItinerary.shared` lives as long as the process. Each
  tap on the middle tab makes a *new* editor on the *old* itinerary, and an
  editor that was cancelled goes on living inside the closures of its save.
  So a save may run while another editor adds places to the itinerary it is
  uploading.
* **Chains of callbacks.** A save is a recursion through three callbacks for each
  location and one more at the end. Each can fail, each failure simply returns.
* **Reused views.** A table cell has lookups for several locations under way, which
  answer in any order and write through the index they were started with.
* **Posted blocks.** The table reloads one turn after the editor appears; until
  then it draws old rows from new data.
* **One array, many observers.** Each sign-in makes a main screen whose observer
  of the courses lives as long as the process; all of them replace one array.
* **The current user** changes when Firebase Auth answers, a turn or more before the
  callback runs that acts on it.
* **Death of the process.** It empties the singletons and drops the closures; what
  Storage, the Database and the login hold remains.

In LevelDB, threads share one mutex and let go of it for all that is slow:

* **Writers** stand in a queue. The first logs, syncs and inserts for a group
  *without* the mutex, and may first have to wait for the background thread.
* **The background thread** builds and merges tables without the mutex, and in the
  middle of a merge it flushes a memtable that has filled up.
* **Readers** pin memtables and a version, and read tables that nobody may
  delete meanwhile. In the memtable they search while the writer links nodes.
* **Files** are created, appended, synced, renamed and deleted in an order that
  has to be right at each point at which the process or the machine may stop, and each
  of these calls can fail.

### What makes each component correct

* Save: `photoIDs` is in step with the index whatever fails or interleaves; one
  confirmation gives at most one course, which is a prefix of the itinerary
  with all that was confirmed; nothing ended is resumed; nothing hangs.
* Cells: a late answer does not displace the right photo; a location never gets
  the photo of another place; a cell on screen fills in.
* Editor: no row asks for a missing location; there is always one way to add and
  to complete; markers and path follow the itinerary; the table catches up.
* Feed: the screen in front shows the array that all observers replace; no cell is
  asked for beyond it; a course that was there stays unless its write is refused; every course arrives.
* Image view: never another URL's image; never blank without waiting for something.
* Session: a late sign-out or sign-in does not leave the main screens without a
  user or an address in another account's profile; a sign-in is answered.
* Database: one writer logs at a time; a read keeps its snapshot; what was acknowledged
  survives what it must; no sequence number is used twice; every call returns; in all,
  it is a durable store.
* Levels: a read finds the newest entry it may see; levels below 0 do not overlap.
* Caches: an entry in use is never freed, an unused one beyond the capacity is.
* Log: what is read is what was written, in order, and all that a reader can be sure of.
* Iterator: it is where a sorted list of the snapshot would be, in both directions.
* Skip list: a search finds what was there when it began, and reads no unwritten link.
* Table: a lookup and an iterator find in the blocks what was added, whatever the blocks,
  and an iterator that had to leave some out says so.
* Platform: one database holds the lock, a limit is kept, queued work is seen.

## 2. Modules

| Module | Role |
|---|---|
| `SaveItinerary` | editors, the shared itinerary, the save pipeline, users, relaunch |
| `CoursePublication` | what a save promises, without uploads, alerts or answers |
| `MCSaveItinerary` | its instance for TLC; the symmetry is used by the run that looks for a violation |
| `SaveItinerary_proofs` | its inductive invariant, action property and refinement, proved |
| `ItineraryCell`, `ItineraryCell_proofs` | table cells, queued closures, lookups, caches; the inductive invariant and the action property |
| `ItineraryEditor`, `ItineraryEditor_proofs` | editor, table view, picker, maps, alerts; the inductive invariant and safety |
| `CourseFeed` | the database's courses, observers, the shared array, the collection view |
| `RemoteImage` | one reused image view of the feed, its downloads and cache; its names differ from `CourseFeed`'s, so that one module can prove about both |
| `CourseFeed_proofs` | the inductive invariants and safety of `CourseFeed` and of `RemoteImage`, and the action property of `CourseFeed` |
| `Session`, `Session_proofs` | Firebase Auth, the current user, log-in and sign-up screens; the inductive invariant and safety |
| `LevelDB` | DBImpl: writers, readers, background thread, files, crashes, recovery |
| `DurableStore` | what a DBImpl promises over crashes |
| `MCLevelDB` | the bounds of `LevelDB` for TLC |
| `LevelDBInvariant` | the inductive invariant of `LevelDB`, part by part |
| `LevelDBSteps` | names for groups of its steps and for their effects, which the proofs use |
| `LevelDB_proofs` | one writer logs at a time; the inductive invariant; the safety properties and the refinement of `DurableStore` that follow from it |
| `LSMTree`, `MCLSMTree` | tables by key and level; the bounds for TLC |
| `LRUCache`, `TableCache` | a shard of the cache, as functions; the open tables in one, with its clients |
| `LogFormat` | writer and reader of logs, by units of the file |
| `DBIterator` | a user's iterator over merged children, one of which grows |
| `SkipList` | insertion beside a search, load by load |
| `TableFile` | a table's blocks, restart points and index, and the iterators over them |
| `PosixEnv` | lock, limits and queue of the platform |
| `Storage` | the seven modules under the threads side by side: a behaviour is one of the part that `part` names |
| `MCStorage` | their bounds for TLC |
| `Storage_proofs` | inductive invariants and safety of `SkipList`, `PosixEnv`, `LSMTree`, `TableCache` and `DBIterator`, as parts of `Storage` |
| `StorageFiles_proofs` | the inductive invariants and safety of `LogFormat` and `TableFile`, as parts of `Storage` |

### SaveItinerary

`save[e]` is what editor `e` and the closures of its save hold; its `phase` names
the call whose answer is awaited: `putting` (`putData`), `fetching`
(`downloadURL`), `registering` (`updateChildValues` sent), `landed` (the server
applied it, the completion has not run). `failed` is any early return, `dropped`
the recursion's missing else branch, `lost` a save whose process died.
`SavePhoto(s, i)` is `savePhoto(index: i)`: it gives the *set* of states the call
can leave, since `resizedTo1MB` or the PNG may fail. `photoIDs` is a history of
objects `[by, index, photo]`, one fresh name (UUID) each; a photo is named by
the place it shows. `size` is a history variable.

Modelled as the code has it: the count is read again for each index; `photoIDs` is
never cleared; the user is read after the last upload; the HUD covers the
editor's view but not the navigation bar, so Cancel works during a save and does
not stop it; a failure never dismisses the HUD; `dismiss` of an editor that is no
longer shown does nothing.

### CoursePublication

A ticket per editor (`none`, `saving`, `published`, `over`), the itinerary, and the
courses. `Publish` appends a prefix of the itinerary with at least the places of
the confirmation. `SaveItinerary` maps to it with `ItineraryPlaces`, `Tickets`,
`Sizes`, `Published`; a `landed` save already counts as published, since its
course exists whether or not the app ever hears of it.

### ItineraryCell

`requests` is the log of all calls of `configure`, in order, each with its cell, place,
index and state (`queued` block, `lookup`, `photo`, `done`, `failed`). The main
queue runs the oldest queued block; Google Places answers the others in any
order. `row[c]` is what the cell is on screen for; when it leaves, nothing is reset,
because the code has no `prepareForReuse`. The address label and the cache are
written by any answer, image and location only by one for the current place.

### ItineraryEditor

`screen` is what is in front, `alerts` what covers it, `table` what the table view
remembers of its last reload, `reloading` a posted reload. `IndexPaths` and
`CellKind` are the table view's data source, evaluated on remembered rows and
current data. `picked` is one step: UIKit calls the completion of a dismissal in
the turn in which the editor appears again, before the block that
`viewDidAppear` has posted. A trap (the undo button's force-unwrap, the button that sends
`pickPlace:`, which the class of its screen does not implement) is the end of the process, `Die`.

### CourseFeed

`views` counts the main screens made since launch; the last is in front, the first
`observing` of them have had an event. A change of the courses appends one `value` block
for each observer to `queue`, with the snapshot it carries; running it replaces
`courses` (in any order: the snapshot is a dictionary) and appends the `reload`
of that observer's view. `laidOut` and `cells` are what the collection view in front
counted and drew. `pending` holds this app's own writes, which observers see at
once and lose again when the server refuses them; `takenBack` is a history variable with these. A course without images stops
the process at the cast. Courses are never deleted, because nothing deletes one.

### RemoteImage

One view, with the variables of the class. `downloads[u]` counts data tasks for `u`,
which end in any order; `answers` are the blocks they post. A block whose data are no
image stops the process. URLs that cannot be parsed are left out: the
app stores only URLs that Firebase gave it.

### Session

`stack` is the chain of presented screens; only log-in and sign-up screens have an id,
since only they present from callbacks. `Presented` does nothing unless the screen is on top,
and `Dismissed` takes away what the screen presented before it takes the screen,
as UIKit does. `Answered` is Auth's part of an answer (the current user
changes, the callback is queued), `LogInDone` ... `MailDone` are the completions, which
read the current user and the text fields anew. `covered` is the set of log-in
screens with a HUD on them. The password is part of the account; a wrong one is
an answer that fails. `mailEnded` and `mixed` are history variables.

### LevelDB

A step is what one thread does while it holds `mutex_`, or one call it makes while it
does not. `op[t].pc` is where `t`'s `Write` is: `wait` in `w.cv.Wait()`, `room` in
`MakeRoomForWrite`, `asleep` in its sleep of 1 ms, `bgwait` on `bg_cv_`, `log`, `sync`, `insert` and
`commit` for the group, `immwait` when a NULL batch waits for its memtable.
`bg` is the background thread: `build` a table from the immutable memtable, `work`
on a merge, `append` and `sync` of a MANIFEST record, each for the job `mem`, `merge`,
or `nested` (a memtable flushed inside a merge). `logs`, `synced`, `tables` and
`manifest` are the disk: when the machine stops, a log keeps any prefix that has what was
synced, and the MANIFEST any of the states since its last sync. `recovery` is `DB::Open`, one
log at a step. `Fault` lets a call of the file system fail, within its bound. `issued`,
`acked`, `promised` and what a read `sees` are history variables.

Modelled as the code has it: a group takes a sync write only behind a sync leader;
a failed `AddRecord` returns its status and does not set `bg_error_`, a failed
sync does; after a failed MANIFEST write nothing is deleted and nothing is compacted; a
destructor waits for the background call only; a NULL batch that is grouped behind others is answered
with them. Abstractions: a batch is one entry; recovery makes one table of a log; a
merge takes all tables of both levels into one table of level 1 (`LSMTree` has the rest); no
manual compaction, no compaction for seeks and no list of snapshots; `reuse_logs` is
false, its default; operations on directories are durable in their order.

### DurableStore

Entries that are in `contents`, in `doubt` (their `Write` has not returned, or failed, and a
recovery may find them) or neither, and the subset that is `durable`. The steps are
`Begin`, `Commit`, `Persist`, `Stop`, `Open` and `Damage`; no flush, merge, deletion or
replay is a step of it. `LevelDB` maps to it with what a reader would find
(`Contents`), with what `DB::Open` would find in each state the MANIFEST may have (`Doubtful`), and
with what it finds in all of them (`Durable`).

### LSMTree

A table is the set of its entries, a value its sequence number. Bytes are
nondeterministic: an output may end after any entry, any level may be too big, any
limit may be passed. A step of `Put` may switch and flush the memtable; a compaction is two steps,
its choice (`PickCompaction` or `CompactRange`, with `SetupOtherInputs`) and
`CompactionDone`, with puts, flushes and snapshots in between. `split` and `gap` are
history variables: a key that is in two tables of one level, and a memtable flushed
between the inputs of a manual compaction. Failed compactions and the immutable memtable are part of `LevelDB`.

### LRUCache and TableCache

`LRUCache` is the shard as functions from a cache to the cache after a call, with
`Ref`, `Unref`, `LRU_Remove`, `FinishErase` as in the code. A handle that is freed leaves
the domain of `handle`, so a later use of it is an error of evaluation that TLC reports.
`TableCache` has clients that miss, open and insert, or find, then read and release, and files that
are deleted and evicted. Two clients may open one table; `Release` may leave unused entries beyond
the capacity until the next `Insert`, as the code does. `Charged` is the sum of the charges of entries.

### LogFormat

The file is a sequence of units, each known by the physical record it is of and by its place in
it, so that a checksum matches if and only if all units are there. A failed
write leaves any prefix of a physical record, and `block_offset_` counts it whole; a
crash keeps any prefix of the file; a new writer begins a new file, or
goes on at its end (`reuse_logs`). The reader makes one step for a physical record. An `Append` of
a trailer that fails by itself, whose status the writer does not look at (`log_writer.cc:53`), is left out.

### DBIterator

A step is one call of the internal iterator, so that an entry may be
inserted into the memtable between any two, also between the `Seek` and the `SeekToLast` with which
the merge changes its direction; the `Seek` and `Prev` of a child that is still valid (`merger.cc:97`) are one step. `expected` is the key a list of the snapshot would
give, computed from the same children when the call begins.

### SkipList

One writer, one reader. A step of the reader is one load of a link; the
writer's steps are the choice of a height with the search before it, which only the writer
runs, and the link of one level. `max_height_` is loaded without a barrier: any value it has had
may be read. `search.present` are the keys there when the search began.

### TableFile

A block is a sequence of entries with restart points; an offset is the number of an entry. An entry shares bytes with the
one before or not, and is decoded only behind the right key (`Decoded`), so that a walk that starts between
restart points would be seen. A block may be full after any entry, and the index may have any separator that
`FindShortestSeparator` can give: the last key, or a shorter user key before the next one, with the greatest sequence number. `index` and `data` of
`cursor` are the two `Block::Iter` of a `TwoLevelIterator`, `block` its handle. A
block that cannot be read, for a call, gives an iterator without entries but with an error. Each
loop of the code is a `Loop`: a function that makes one turn, the set of states that make another,
and a number of turns in which it must end (the restart points, entries or blocks there are); that it does end in
these is proved, and TLC would fail to evaluate one that does not. `wanted` is the entry at which a sorted list would be.

### PosixEnv

`pc[t]` is where the call of thread `t` is and what it holds after it; a step is one system call or one
section under a mutex. `lockedIn` has the processes whose `PosixLockTable` has the file, `kernel` the one
with the `fcntl` lock. Any `close` of the file by a process ends its lock, as POSIX has it; `dropped` is a history variable that says
that one did so to another thread's lock. `Look` and `Take` are the load without and with the mutex of
`Limiter::Acquire`.

### How they meet

`SaveItinerary`'s `ChangeUser` stands for every change of the current user that
`Session` makes; its `WriteLands` is the `Write` of `CourseFeed`, and its course without images
is a member of `Imageless` there. The cells of `CourseFeed` each own a `RemoteImage`.
The three modules of the editor share `CurrentItinerary` and meet in two places. `SaveItinerary`
allows a location to be added and to get *the photo of its own place*
(`PhotoArrives`) at any moment; that this is all that can happen to it is
`PhotosGoToTheirLocation` of `ItineraryCell`, proved there. Both leave
`removeLocation` out because `ItineraryEditor` shows that its one caller ends the
process before anything else happens.

`LevelDB` treats a memtable, a table and a log as a set or a sequence of entries. That
a memtable may be read while it is written is `SearchRight`; that a table can be read while it
is evicted is `TablesRight`; that a log whose tail is torn gives its whole records is
`LogReadsRight`, and the damaged log of `LevelDB` (a record written in part with others after
it) is the one case in which records are lost there, too; that keys and levels
add nothing to what a merge holds is `ReadsRight`. That a table's bytes give back the set of entries that the
other modules take it for is `TableFileRight`, and that a user's iterator over them gives what a sorted list would, while the memtable
grows, is `IteratorRight`; that work handed to
the background thread is run, and that no second database opens the files, is `EnvironmentRight`. `LevelDB` inserts without a lock because
of `OneLogger`, the assumption under which `SkipList` and `LogFormat` have one writer.

## 3. Runs

| Run | Question | Bounds | States | Result |
|---|---|---|---|---|
| `save` | Does `photoIDs` stay in step, is an ended save final, does the pipeline implement `CoursePublication`, does a confirmed save end? | 2 editors, 2 places, 1 user or none, 3 locations | 717,698 | pass |
| `save_no_images` | Does every course have images (`DataModel.swift:46`)? | the same, 2 users, symmetry | | violated |
| `cell` | Do late answers do harm, does a cell on screen fill in? | 2 cells, 2 places, 2 locations, 3 requests | 126,135 | pass |
| `editor` | Are rows, add cell, markers and path right, does the table catch up? | 2 places, 3 picks | 4,909 | pass |
| `editor_undo` | Does undo delete the last marker (`addCourseMap.swift:105`)? | the same | | violated |
| `feed` | Do the shared array and late reloads show wrong courses or lose any, does every course get to the screen in front? | 3 courses, one without images, 2 screens, queue 2 | 392,103 | pass |
| `image` | Can a late download show a wrong image, or leave none, does the image arrive? | 3 URLs, 2 downloads of each | 147,055 | pass |
| `session` | Whom do late callbacks hit, is every sign-in answered? | 2 accounts, 2 screens, 2 calls | 758,638 | pass |
| `session_retry` | Can the user try again (`LogInViewController.swift:42`)? | 1 account, 2 screens | | violated |
| `leveldb` | Is the queue exclusive, do reads keep their snapshot, are writes lost or numbers reused, is it a durable store, does every call return? | 2 writers, 1 reader, one entry to a memtable, groups of 2, 2 tables of level 0 trigger and slow, 3 stop; five scenarios | 192,356 | pass |
| `storage` | Does each part under the threads find what it should? | see below | 1,340,774 | pass |
| `lsm_split` | Do entries never hop across levels (`db/version_set.cc:346`)? | the trees of `storage` | | violated |

One run answers the safety and the liveness questions of a component, under the
specification with fairness, so none of the passing runs uses symmetry.
Where the inductive invariant of a component is proved, the run checks it in place of
the type invariant, which it contains: `SaveInv`, `CellInv`, `EditorInv`, `FeedInv`, `SessionInv`, `StoreInv`. `RemoteImage`'s
`ImageTypeOK` is proved and not run.

**Why the bounds are enough.** Two editors give the one interesting overlap (a
save in a dismissed editor and a shown one that adds places, or two saves at
once), since only one editor is ever shown. Three locations give a first, a
middle and a last, and let the itinerary grow before, during and after the
upload of each. A user who is or is not signed in is enough for a change
between confirmation and registration, since a course only records who it was. Two cells and two places give reuse of a cell for the other place
and back again; three requests give a cell that is used for one place, for the other and
for the first again, or overlapping lookups of both cells. Three picks fill two editors with locations and
a table whose add section is behind the last location. Two main screens are enough for a
screen in front and an observer of one behind; a change waits until the main queue is
shorter than two blocks, but then adds a block for each observer, so that two
snapshots and their reloads interleave. Three URLs let a late answer be neither for the last nor for the
present use of a view. Two log-in and sign-up screens allow a sign-up, its late mail and a sign-in while it is
under way, or two log-in screens with the main screens between them; two calls that the user starts, with those that
a sign-up starts itself, give each pair of overlapping calls.

`leveldb` has a writer in front and one that waits, joins or is left behind. `MemCap` 0 makes each entry fill its
memtable, so that a second write needs a switch and a third waits for the flush of the first. Each member of `MCBounds` lets
some kinds of steps happen together: two crashes with a failing file, so that a recovery is itself
interrupted and repeated; three tables before a crash; a read across flushes and a merge; and two old tables, with
which a merge begins at once, so that a memtable is flushed inside it, with a failing file and a crash.
All kinds in one instance are beyond TLC.

`storage` has one part in each behaviour, chosen by the initial state. The skip list has three keys and three levels, so that a key
goes between two others on some levels only. The trees have three keys and four levels, `kMaxMemCompactLevel` 2, and three puts beside
up to three keys of older tables: enough for a flush below a compaction, a trivial move, a deletion over an older entry two levels
down, and outputs cut at each place. The cache holds two of three tables, one of which is charged for two; three readers and
four opens let two of them open one table and a third find it. A block of 6 units with headers of 2 leaves room for
4; records of 0, 3 and 6 fit, fill the trailer or are cut in two and three, and three of
them with a failed write and two crashes put a torn record before, between and behind whole ones. The iterator has three entries in every
distribution over three keys and two children, and one insertion at any point of a call. A table has up to four entries of three keys and two
sequence numbers in one to four blocks with a restart at each second entry, so that a key's entries are in one
block or in two and a block has one restart point or two; one call meets unreadable blocks, any
set of them. Two threads of a process and one of another make four attempts at the lock, five at opening a file with one
mapping and one descriptor allowed, and four pieces of background work.

`CHECK_DEADLOCK FALSE` is in five configurations: in `ItineraryCell.cfg`, `LevelDB.cfg`, `Storage.cfg` and `LSMSplit.cfg` the
bounds end the behaviour, and in `RemoteImage.cfg` the process may have stopped.

**What is assumed for liveness.** `SaveItinerary!Fairness`: Firebase calls each
completion handler at some time, with a result or an error, and the main queue
runs it. Storage gives up after its retry limit, and the Database keeps a write until it
is online again, so the assumption is that the device is online at some time
before the process dies; a process that dies makes the save `lost`, which
ends it. `ItineraryCell!Fairness`: the main queue runs posted blocks, and
each call to Google Places is answered. `ItineraryEditor!FairSpec`: the main queue
runs the posted reload. `CourseFeed!FairSpec`: an observer gets its first event, the main
queue runs, and UIKit lays out a view that needs it. `FairImageSpec` of `RemoteImage`: every data task
ends, if only by the time-out of `URLSession`. `Session!FairSpec`: Auth answers every
call, if only with an error. Nothing is assumed of the user, of the photos, of the
cache or of the process. `LevelDB!Fairness`: a writer that can go on does (which includes that the sleep of a
slowed write ends, and that a thread that was signalled takes the mutex), the background thread
goes on and, once the database closes, stops; and the destructor returns when it can. Nothing is
assumed of callers, of files that fail, of crashes or of a `DB::Open`.

## 4. Where the program and its text disagree

* `save_no_images`: an itinerary without locations can be completed and writes a
  course without images; `DataModel.createCourseData` force-casts `images` of
  every course, so every app that observes the courses stops.
* `editor_undo`: the undo button of the full-screen map unwraps a static path that
  is never assigned and ends the process.
* `session_retry`: a failed log-in says "Please try again" and leaves the screen under a
  HUD that nothing dismisses; the completion dismisses the shared one.
* `lsm_split`: `Version::Get` stops at the first level that has the key, "since entries never
  hop across levels". With a snapshot that needs the older of two entries of a key, an output may
  end between them; the next compaction, or a trivial move, may then take the table with the newer one
  alone a level down, below which the older stays, and a read finds the older first.
  LevelDB's later versions take such boundary files along
  (`AddBoundaryInputs`); this version does not. `ReadsRight` holds as long as this has not
  happened (`split`).

On the other side, `StopsOnlyAfterTakeBack` shows that the gap between a new array of courses
and its reload is harmless as long as the array only grows: the observers' events
run in order, so only a write that the server refuses makes it shorter. `UserInTabs` shows that
the main screens lose their user to the late sign-out of a sign-up, and to nothing else.
`NothingLost` shows that LevelDB loses an acknowledged write only where a log went on behind a
record written in part.

Facts the models contain, and no property judges:

* In the app: the HUD stays after a failed save; a photo shown from a cell's cache
  is not given to the location, at which a later save stops; the address label may
  be of another location than the photo; the user is read at the end of a save. After a save
  the comment `//Reset all fields` (`addCourseItinerary.swift:508`) stands over the dismissal of the HUD only:
  the next editor starts with the saved locations. An editor opened on old locations does
  not connect the last of them with its first pick (`:574`), because its path is new.
* In LevelDB: a failed `AddRecord` does not set `bg_error_` (`db/db_impl.cc:1223`), so writes after
  it are acknowledged in a log that a recovery may read only in part. A MANIFEST record that
  is torn and has another behind it makes each `DB::Open` refuse. A NULL batch grouped behind
  others is answered without a switch of the memtable. A compaction takes its outputs out
  of `pending_outputs_` before its version is installed, which is harmless because
  only the background thread deletes files then. A memtable flushed
  between the inputs of a `CompactRange` that are apart may overlap its outputs (`gap`).
  A second `LockFile` in the same process is refused, but closes its descriptor (`util/env_posix.cc:471`), and so takes from the process the
  lock that the first one has; the close of an `UnlockFile` (`:493`) does that to a thread that has locked
  since the name was removed (`:492`). `LockExclusive` holds until then (`dropped`); an iOS app has no second
  process. A `TwoLevelIterator` passes over a block that it cannot read and keeps the error in its status;
  the loops of the wrapper (`APLevelDB.mm:216`, `:244`, `:271`, `:294`) ask only `Valid()`, and would take the rest for
  all there is.

## 5. Proofs

All theorems hold for every set of editors, places, users, accounts, courses, cells, threads and keys, and for
every bound. They rest on the named assumptions of the modules only
(`ConstantsAssumption` of `SaveItinerary` and of `LevelDB`, `CellAssumption`, `EditorAssumption`, `FeedAssumption`,
`ImageAssumption`, `SessionAssumption`, `SkipListAssumption`, `StorageAssumption`: the "nothing" values are
outside their sets, the bounds are naturals, the threads of `PosixEnv` are finitely many), which TLC evaluates in the runs.

**`SaveItinerary_proofs`.** `PhotoIDsInOrder` is not inductive: that a first upload starts
with empty `photoIDs` depends on the editor never having saved before.
`SaveInv` adds `SavesAreCovered` (an editor on screen that has started a save is behind
its HUD, and one with an alert has not started), `NotStarted` (no save, no `photoIDs`),
`PhotosMatch` (a photo is the one of its place), `Progress` (the photo in flight is the one of the
location at the index, the itinerary does not shrink below the count) and `CourseWhenLanded`
(a course exists exactly once its write has landed). Theorems: `SaveInvariant`,
`TypeCorrect`, `PhotoIDsCorrect`, `EndedIsFinal` (the action property, from the
same invariant) and `SaveImplementsPublication`: each step maps to a step of
`CoursePublication` or a stutter, the interesting ones being `YesTapped` (a `Confirm`,
which may fail at once), `WriteLands` (a `Publish` of the prefix that `photoIDs` is)
and `Relaunch` (a `Forget`).

**`ItineraryCell_proofs`.** `ImageSettles` needs three facts: `LatestIsCurrent` (a cell is
configured for the place of its latest request), `QueueIsSuffix` (the queue runs in
order, so nothing older than a finished request is still queued: this is what
makes the unguarded cache branch harmless) and `RequestsMatch` (a request carries
the place of its index, so a late photo goes home). Theorems: `CellInvariant`, `TypeCorrect`,
`ImagesSettle`, `PhotosGoHome`.

**`ItineraryEditor_proofs`.** `EditorInv` adds `TableInBounds`: the table never remembers more
sections than the itinerary has, because locations go only with the process.
Theorems: `EditorInvariant`, `TypeCorrect`, `MapFollows`, `TableIsRight` (every row, however old, is of a
location that exists, and a loaded table has one add cell).

**`CourseFeed_proofs`.** `FeedInv` adds to `FrontShowsFeed` and `StopsOnlyAfterTakeBack` what they
rest on: `Finite` (a snapshot is finite, so that it can be put in an order),
`LastEvent` (the last observer has an event at or behind every other in the queue, so that the array
changes last for the view in front, whose reload follows) and `Growing` (while nothing was taken back, the cells
are at most the array, the array is at most every snapshot in the queue, and each of these is
within the later ones and the Database). These are `ScreenInv`. `Kept`, the last part, says without that condition, course by
course, that but for what was refused the array is within every event to come, these within the later ones, and
all within the Database; `CoursesStay` follows because an array that is replaced gets all of the first event (`OrderShowsAll`).
Theorems: `FeedInvariant`, `TypeCorrect`, `FrontCatchesUp`, `IndexInRange`, `FeedOnlyGrows`.

The same module proves about `RemoteImage`, the image view of a cell. Its type correctness
(`ImageTypeOK`), `OwnImage` and `ShowsOrWaits` are inductive together: a block that runs is
for the URL of the view and shows it, or for another and leaves what the view waits for.
Theorems: `ImageInvariant`, `ImageTypeCorrect`, `NoForeignImage`, `BlankViewWaits`.

**`Session_proofs`.** `UserInTabs` and `OwnProfile` depend on which screens can be over which. `SessionInv` adds
`ScreensInOrder` (which presents which), `ScreensKnown` (ids are unique, and a pending call's
screen is of its kind if it is still there), `OneLogIn` (at most one sign-in is under way, of a
covered log-in screen that is in front but for an alert, so that its success presents
the main screens or nothing), `SignedIn` (a sign-in that was answered has a user, unless
a sign-up's mail has ended) and `CreatedAlone` (a creation that is not mixed is of what the fields say and
of the current user). Theorems: `SessionInvariant`, `TypeCorrect`, `TabsHaveUser`, `ProfileIsOwn`.

**`LevelDB_proofs`.** `QueueInv` is `OneLogger` with the types of `queue` and `op`, and with the fact that a
writer that serves a group has the whole group in the queue behind it, so that its answer
takes away no other writer (`OneLoggerAtATime`). All else rests on `StoreInv`
(`LevelDBInvariant`), since no promise to a caller is inductive by itself: that an
acknowledged entry is found tomorrow depends on what each log, table, MANIFEST record
and half-done compaction holds today.

| Part of `StoreInv` | Says | Needed because |
|---|---|---|
| `RestInv` | a database that is not open has no writer, memtable, read or background job | a crash or a close must leave only the disk |
| `EntryInv`, `LogInv` | ids and sequence numbers are unique wherever an entry is; no log has one twice | a replay that makes an old log into a table gives no number a second time |
| `ManifestInv`, `NumberInv` | every state the MANIFEST may recover has its tables, and its counters are past them; file numbers are below `next_file_number_` | a new table or log never overwrites one that a recovery needs |
| `LoggedInv` | a memtable's entries are in its log | the log is deleted only once another place has them |
| `SeqInv` | what is beyond `lastSeq` is of the group under way | a group that fails is invisible |
| `VersionInv` | every state the MANIFEST may recover stores at least the version, and the immutable memtable once its log is obsolete there | between the append and the sync of a record a crash may keep either |
| `FlushInv`, `MergeInv`, `EditInv` | a table under construction holds what it replaces, nobody refers to it yet, and the edit is about it | the install may then delete the old places |
| `GroupInv`, `StageInv` | the group has the next numbers, and its entries are exactly where the leader has brought them, synced if any writer asked | the commit answers for all of them |
| `ReadInv` | what a read pinned is still there and gives what it saw | switches, installs and deletions go on under it |
| `RecoveryInv` | the logs replayed so far are in the tables made, and these hold nothing else | `DB::Open` ends by dropping the logs |
| `AckInv` | acknowledged ids are in the contents, promised ones in every recoverable state | `NothingLost` is a part of it |

TLC checks `StoreInv` on the run `leveldb`. The proof has one lemma per part (`VersionKeeps`, `FlushKeeps`, ...), a
case of it per step that the part can see; each rests on lemmas that say what a step does without the `CHOOSE`,
`LET` and `IF` of the model (`InstallFacts`, `ReplayFacts`, `CrashFacts`, ...; `LevelDBSteps` names their
conclusions), and these on lemmas about the operators (the least of a set of numbers, the prefix of a log,
the rank of a record in a damaged log). Theorems: `StoreInvariant`, `TypeCorrect`, `ReadsSeeTheirSnapshot`, `NothingIsLost`,
`SequenceNumbersUnique`.

The refinement, `DatabaseIsDurableStore`, needs of the invariant that whatever is in the contents, in doubt or durable is a known
entry (`Shown`). Contents, doubt and durability are first restated state by state of the MANIFEST (`ClosedNow`, `DoubtNow`,
`DurableNow`, each also for the next state). Then: `RoomFound` is a `Begin`, a `Commit` with status OK is a `Commit`
(`StoreCommits`: its entries are in the memtable by `StageInv`), a close or a crash of the machine is a `Stop` (`StoreStops`: what is
left is between durable and in doubt), `OpenInstalls` is an `Open` that changes no contents (`StoreOpens`), every other step of an undamaged
database is a `Persist` or a stutter (`StorePersists`: nothing new is shown, `VisibleFrom`; nothing is lost,
`VisibleKept`; durable stays durable, `DurableStays`), and with a damaged file the abstract store is `Damage`d.

What the proofs changed: `Contents` was a `CASE` whose guards overlapped for an open
database with a broken MANIFEST, where TLC takes the first and the semantics do not
say which; it is an `IF` now. `RecoveryInv` had to say that the tables
a replay has written hold what the logs it has *already* replayed hold, and that the
MANIFEST's next file number is not above the one in memory; `StageInv` that a group which
is still before its commit has no error, and that a failed group is in no memtable. Without
them the invariant held in every run but was not inductive.

**`Storage_proofs` and `StorageFiles_proofs`.** The parts of `Storage` do not share state, so that an invariant of a part is one of `Storage`
while `part` names it. All seven parts are proved.

*The skip list.* `ListInv` says of each level that its nodes are a chain in the order of their
keys (`Chains`), that each level is part of the one below (`Layers`), that the node being
inserted is linked exactly below the level where `Insert` is and that `prev` is still right at and above it
(`Inserts`), and that a search is at a node of its level, before its key (`Searches`). A search that
goes down a level therefore stands on a node there, and whatever is linked meanwhile is
linked behind it or before its key. Theorem: `SearchIsRight`.

*The platform.* `EnvInv` says where each thread of a process stands between the insertion into
`locks_` and its removal: `lockedIn` has the process, no other thread of it is there, and the system's lock is that of
the process whose thread has the file, unless a close dropped it (`LocksHeld`); and that what a `Limiter` allows is
its limit less the threads that hold a mapping or a descriptor (`LimitsHeld`), which needs the threads to be finitely
many, and that a step takes or gives back for one thread. Theorem: `EnvironmentIsRight`.

*The levels.* `Version::Get` stops at the first place that has the key, so that it is right only if places are in the
order of their writes; but a compaction runs for a long time while the levels change beside it, and
drops entries by what it saw when it began. Two invariants, each inductive with those before:

| Part | Says | Needed because |
|---|---|---|
| `TreeTypes`, `JobTypes` | entries, numbers and tables are of those written; the inputs of a compaction are still in their levels | a flush in the middle of a compaction adds tables and removes none |
| `JobApart` | the inputs of an automatic compaction leave no key between the least and the greatest uncovered (`Solid`); the other tables of the output level are on one side of the inputs | a flush goes below level 0 only where nothing overlaps, so that it lands beside the inputs and never between them; outputs stay within the inputs |
| `Ordered` | the memtable is newer than every table; tables of level 0 are ordered by their writes; and while nothing was split, levels are ordered for each key | where `Get` stops is the newest |
| `JobOrdered` | a snapshot is not below the compaction's `smallest_snapshot`; at level 0 what is not an input shares no key with the inputs or is newer; what is deeper and shares a key with them was seen by `IsBaseLevelForKey` | the outputs go one level down, under what stays behind, and a deletion is dropped only if nothing older is left for it to hide |
| `Values` | the entries present give every key, at every snapshot, the value that all entries ever written give | `ReadsRight`, for the places in which `Get` looks |

`TreeInv` is the first two with `LevelsDisjoint`, `ReadInv` is all. `Values` is kept by `CompactionDone` because an entry that is
dropped is either hidden, at every snapshot, by one that is left (`entry (A)` of `DoCompactionWork`), or is a deletion that
no older entry of its key outlives (`DroppedUnseen`). TLC finds no state within the bounds of `storage`, or of two larger ones
with three puts and a snapshot, one of them with a manual compaction, that breaks `ReadInv`. Theorems: `LevelsAreDisjoint`, `NeverHopUnlessSplit` (the comment at version_set.cc:346
with the condition under which it is true: section 4 shows that without it it is false) and `ReadsAreRight`.

*The cache of tables.* `CacheRight(c, out)` says that the lists, the hash table and the usage of a cache agree but for the entries `out`,
which the hash table has let go and `FinishErase` has yet to take from the lists: it holds with `out` empty between calls, and with the
replaced entry in the middle of `Insert`. Every function of `LRUCache` is shown to keep it (`RefIs`, `UnrefIs`, `FinishEraseIs`,
`EraseIs`, `EraseOldestIs`, `InsertIs`) and to free only entries that no client uses (`KeptUsed`). `TablesInv` adds the clients: an entry has as many
references as clients hold its handle, and one more while it is in the cache (`Counts`); a handle that a client
holds is of an entry of its file (`Holds`); entries and clients are of files that are not deleted; handles are not above `opened`, so that a
new one is new. Without the count the invariant is not inductive: that nobody else holds a
handle whose last reference goes is what `Counts` says. The usage is a sum over a finite set, defined by
recursion on an arbitrary element: `SumApart` and `SumWithout` show that any part can be taken out of it. They are proved without an induction
theorem, by a least set that would be wrong (`BySubsets`). Theorem: `TablesAreRight`.

*The log.* What the reader may rely on is said of the file, unit by unit, and kept by every write, failed write and crash:

| Part of `LogInv` | Says | Needed because |
|---|---|---|
| `PartsRight`, `UnitsRight` | the parts of a record are numbered, the first begins it and only the last ends it; every unit is of a part or a trailer and stands behind the units before it | where the reader finds the first and the last unit of a part, the whole part is there |
| `StartsRight`, `OrderRight`, `FollowsRight` | records and parts are in the file in their order, each once; a part comes at most a trailer behind the end of the one before | what the reader joins in `scratch` is of one record, and nothing of it is missing in the middle |
| `CutsRight` | a part that is not whole was cut where the file ended then, and the next record starts there | a torn record is the last one written before the next |
| `BlocksRight`, `OffsetRight`, `WriterAtEnd` | while no write failed, or up to the first record that is not whole, no part crosses a block, trailers end blocks, and `block_offset_` is the place in the block | the reader, which knows only where blocks end, looks where headers are |
| `AtRight`, `ScratchRight`, `GotRight` | the reader is at the end of the file, of a part or of a block; `scratch` holds the first parts of one record, the last of them just before the reader; what was given lies before it, in order | no record is put together from two, or given twice |
| `NothingMissed`, `ReportsRight` | the last unit of each part that is owed (`Due`) is in `got`, in `scratch`, or still before the reader; without a torn record nothing is reported | no whole record is lost |

`Due` is the reason that the property needs care: behind a torn record the rest of a block is dropped
(`kBadRecord`), so that a record is owed only if no torn record is before it, or crashes alone tore those and it starts in
a later block than what follows them. A crash keeps a prefix of the units and the records that start in it: the cut is at the
end of the last of them, where the next writer begins (`CutCuts`). A failed write counts units in `block_offset_` that are not in the file; from then on
blocks are promised only up to the first record that is not whole (`Good`). TLC finds no
state that breaks `LogInv` with blocks of six units, headers of two, three records, a failed write and two crashes (428,706 states). Theorem:
`LogReadsAreRight`, in `StorageFiles_proofs`.

*The table files.* A reader trusts what the builder wrote: it never looks at an entry to see whether the search brought it to the
right block. `TableInv` says why it may.

| Part of `TableInv` | Says | Needed because |
|---|---|---|
| `RowsRight` | each block, written or open, has its entries in order; restart points are in the block, and their entries share no bytes (`IsBlock`); the blocks follow one another, and together have what was added | the binary search compares the keys of restart points, and a walk goes on in the next block |
| `IndexRight` | the index has one entry for each block but a pending one; its key is the last of the block, or between that and every *user key* behind it (`Separates`) | a separator with the user key of the next block would bring a lookup at the greatest sequence number to the block before its entries |
| `Between` | a separator is pending exactly while a block was written and none is begun, and `Finish` leaves none | the first key behind a block is known when its index entry is written |
| `CursorRight` | between calls, the index iterator is at the block that `block` names, both iterators have the key, place and restart point of the entry they are at (`IsAt`), and no error is kept in the data iterator | `Next` decodes the next entry from `key_`, `Prev` begins at `restart_index_` |
| `FileIteratorRight` | the property itself | what an iterator without an error owes after `Next` and `Prev` is said from where it was |

A builder that failed never gives a table, so that the parts about blocks and index are of one that is `ok`.
The loops are one lemma, `LoopEnds`: what holds at the beginning and is kept by each turn holds at the end, and an end there is, if a
measure goes down; it needs no induction theorem, only that a set of numbers that is not empty has a least one (`LeastOf`). From it: the
binary search ends at a restart point before the target or at the first (`LastRestartOf`), the scans at the
first entry that is not before the target, or at the one before where `Prev` began, decoded from the right key
all the way (`IsReady`). What the calls of `TwoLevelIterator` share is `Walks`: while it skips blocks, forward or backward, it is
at the first of the entries that the call is about (`FirstsOf`), or none of them is in the blocks it has passed (`Past`)
unless it met an error, and the blocks beyond have no others. A lookup (`GetFound`) rests on `SeparatorFacts`: all of a block is up to its separator,
all behind it is greater, and if the separator is no entry the user keys behind it are greater still. TLC checked `TableInv` on the
24,233 states of the table part of `storage` before it was proved. Theorem: `TableFilesAreRight`.

*The iterator.* `IterInv` has three parts: what the children hold (`Base`, as they only grow), where the `MergingIterator`
is among them, and what `DBIter` has left to do.

| Part of `IterInv` | Says | Needed because |
|---|---|---|
| `AtRight` | a child is at one of its own entries; `current_` is one child | `Entry` is what `key()` gives |
| `AheadRight` | forward, no child is behind `key()`, and none has passed a visible entry that is not before it | an entry inserted meanwhile may be passed over, a visible one not |
| `RestRight` | in reverse, `Rest` are the visible entries to come: those up to where their children are, and all of a child in `merge.last`; none is behind `key()`, and with each are all before it | a change of direction puts a child that has ended at its last entry, which may be newer than the snapshot |
| `NextRight` | in `FindNextUserEntry`, the expected key is the first live one that is not skipped and whose newest entry is not passed; a key whose entries are passed in part is skipped | the first visible entry of a key that is not skipped is its newest |
| `PrevRight` | in `FindPrevUserEntry`, the entry kept in `saved_value_` is the last visible one passed and no deletion; the expected key is the last live one to come, or the saved one | the entries of a key come the oldest first, and the last passed is the newest |
| `ScanRight` | while `Prev` leaves the key it was at, the expected key is the last live one before it, and all entries of smaller keys are to come | the turn may meet the entry it started from again |
| `AtEntry`, `BeforeEntries` | at the end of a call: forward, `key()` is the newest entry of the expected key; in reverse, the saved key is expected, and all that is to come is smaller | `Next` and `Prev` go on from there, in either direction |

Each move of the merge is one lemma that says which visible entries are to come after it (`FirstMove`, `SeekMove`, `NextMove`, `LastMove`, `PrevMove`,
`TurnMove`), by `Going` and `Coming`; each loop is one that says what is expected of those (`FindNextFrom`, `PrevFrom`); a step is one of
each. TLC finds no state that breaks `IterInv` with the contents of `storage`, or with four entries and two insertions. Theorem: `IteratorIsRight`.

What these proofs changed: the searches of `TableFile` were recursive operators, about which nothing can be proved here, and are functions
now (`Loop`), with the same states, and `Storage` composes it with the others; the threads of `PosixEnv` and the clients of `TableCache` are assumed to be finitely many; `Dropped` of `LRUCache` cuts
the list at the entry and `Charged` is the library's sum, since both were given by folds the provers cannot open; `Head` of `SkipList` is `HeadNode`, since `Sequences` has a
`Head`; a set difference in `LSMTree` got its parentheses; and `Crash` of `LogFormat` keeps the records that start in the
prefix instead of those up to the last of them, which is the same because records start in their order (`FirstRecords`). To be inductive, `JobOrdered` had to say of a compaction of level 0 that a
table that stays is newer than *all* inputs or shares no key with the upper ones: `Closed` takes what overlaps, and later
flushes only add newer tables. `IteratorAssumption` says now that the contents are finite and numbered in the order of
the writes (`Numbered`): with two entries of one number neither would be first.

**Model-checked only.** `ConfirmedSaveEnds`, `CellFillsIn`, `TableCatchesUp`, `CoursesArrive`,
`ImageArrives`, `LogInAnswered`, `CallsReturn`: liveness under fairness is out of the prover's reach, as is `ENABLED`. Every invariant and every other action property of a passing run is proved. The four violated properties are
counterexamples.

## 6. Plan

The app's save, cells, editor, feed, images and session are done, and LevelDB's threads, levels, caches, logs,
iterators, skip list, table files and platform. What is left:

1. *Composition.* A module of the shared itinerary that `ItineraryCell` and
   `ItineraryEditor` are shown to implement and that `SaveItinerary` relies on; a run
   that composes a save with the feed that receives its course, and one that
   composes a save with the session whose user it reads.
2. *Abstract specifications.* What a feed promises (the screen in front shows a
   snapshot, in the order of the snapshots) and what an image view promises, with
   `CourseFeed` and `RemoteImage` shown to implement them; a map from keys to values that
   `LSMTree` is shown to implement while no key is split.
3. *Algorithms.* `ImageResize`: `resizedTo1MB` as a recursive function over sizes,
   checked against the first size that is small enough.
4. *Proofs.* `LevelDB`, `LSMTree`, `LRUCache`, `TableCache`, `LogFormat`, `DBIterator`, `TableFile`, `PosixEnv` and `SkipList` are done. Left are the refinements of steps 1 and 2.

## 7. Not modelled

* The collapsing header (`scrollViewDidScroll` and its helpers): continuous geometry
  without effect on other state.
* Layout, drawing, animation; the course detail map, which draws a course once and never
  finds a location in it (`CourseData.init` sets none).
* Unused code: `FirebaseClient`, `User`, `TempViewController`, `checkPermission`,
  `removeAllLocations` (whose one caller, `clearAll`, is itself not called), and
  `test.swift`, whose screen nothing presents.
* A second long press between the end of the animation and the end of the push:
  UIKit decides what a push during a push does.
* Titles, introductions and descriptions of a course: constants in the code.
* LevelDB's filters (no policy is ever set), compression, checksums, encodings, its arena and histograms: encodings of
  bytes, or pure functions, without state beyond a call. The block cache, whose entries are those of `LRUCache`.
* Paths, buffers and directories of `util/env_posix.cc`, and `port/`; what files keep when they fail or the machine
  stops is part of `LevelDB` and `LogFormat`. `GetProperty`, `GetApproximateSizes`,
  the C interface, `RepairDB` and `leveldbutil`: nothing in the repository calls them.
* The other pods (`FirebaseAuth`, `FirebaseDatabase`, `FirebaseStorage`, `GTMSessionFetcher`, `Alamofire`, `JGProgressHUD`,
  `SCLAlertView` and others) and the headers of Google's binary frameworks: third-party code that is modelled
  only by what the app calls and what may answer, as external.
