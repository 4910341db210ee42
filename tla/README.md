# Verification of TIFASoccer

TIFASoccer is an iOS app with which the players of a football group arrange
their matches: an admin creates a match, players join and leave it, the admin
places the players of the squad on a pitch of fourteen places, everybody
comments. There is no server code: every phone reads and writes the `Matchs`
tree of a Firebase Realtime Database through asynchronous calls whose
completion blocks run on the main queue. All the consistency there is comes
from the order of those calls and from a loading overlay that is meant to keep
users from tapping while one of them is under way.

The project models that: several phones, the database, the connection between
them, and the user, at the granularity of one call and one callback; and, for
one phone, the account side of the app: sign-in, registration, profile and the
account forms against the authentication, database and storage services, and
the list of players.

It also models the two libraries among the vendored pods that are written in C
and C++: LevelDB, the disk cache of Firebase Database, and nanopb, the protocol
buffers of three other Firebase pods. They are where the repository's threads,
crashes and byte formats are.

## The system's parts

Paths are below `src/TIFASoccer/TIFASoccer/`.

| Part | State it keeps | Operations | Modelled |
| --- | --- | --- | --- |
| `ViewModels/MatchsViewModel.swift` | `isLoad`, `matchsModelList`, `selectedMatch`, `unselectedPlayer`, `showAlert`; one object shared by all match screens | `getAllMatchs`, `joinMatches`, `leaveMatches` (with `isUserInFootballArea` and `deletePlayerForFootballArea`), `deleteMatches`, `setPlayerPositionWithMatch`, `deletePlayerPositionWithMatch`, `getMatchWithMatchID`, `setIsPlanningCompleteForMatch`, `addComment` | all, `MatchBoard` |
| `Models/MatchsModel.swift` | a match as read from the database | `init(dictionary:)` | `MatchStore` |
| `ViewModels/CreateMatchViewModel.swift`, `Controllers/CreateMatchView.swift` | the form of one visit | `createMatch`, closing the form, refreshing the list | `MatchBoard` |
| `Controllers/MatchsView.swift`, `Cells/MatchCardCell.swift`, `Controllers/MatchDetailView.swift`, `Controllers/CommentsView.swift` | which screen is shown, which card or match it was opened for | taps, appearing, going back | `MatchBoard` |
| `CustomViews/LoadingView.swift`, `CustomViews/MessageDialog.swift` | none | cover the content, dismiss | `MatchBoard` |
| Firebase client (`Pods/FirebaseDatabase`) and the database | waiting and sent puts and gets; the tree | answer, refuse, lose, send again, fail without connection | `MatchBoard`, `MatchStore`, as the app meets it |
| `ViewModels/BaseViewModel.swift`, `Controllers/AccountViews/*` | the signed-in flag, the profile, one loading flag | `login`, `register`, `signOut`, `getCurrentUserData`, `loadProfileImage` | all, `Session` |
| `UpdatePasswordViewModel`, `UpdateProfileViewModel` and their screens | form fields, loading flag, alerts | `updatePassword`, `updatePlayerData`, their checks | all, `Session` |
| `PlayersViewModel`, `PlayersView` | the list of players, loading and alert flags | `getAllPlayers`, appearing, the refresh button | all, `Players` |
| `CustomViews/RefreshableScrollView.swift` | pull distance and phase | pull to refresh; no screen uses it | no |
| Lottie, pop-up, image picker, rating, corners, comment and player cells | none that matters | drawing | no |
| `Pods/leveldb-library`: `db_impl`, `version_set`, `dbformat` | memtables, versions of levels of tables, snapshots, work of the background thread | write, get, flush, move, merge, seek and manual compaction, deleting obsolete files | `Levels`, `LevelStore` |
| the same: `Write`, `MakeRoomForWrite`, `BackgroundCall`, destructor | queue of writers, condition variables, background error | grouping, waiting, waking, closing | `WriteQueue` |
| the same: `Open`, `Recover`, `LogAndApply` | logs, MANIFEST, CURRENT, tables, with what of them is synced | open, create, write, flush, switch MANIFEST, clean up; crashes | `Recovery`, implements `DurableStore` |
| `log_writer`, `log_reader` | a file of blocks | append, read; torn, damaged, reopened files | `LogRecords` |
| `db_iter`, `merger`, `two_level_iterator` | position and direction of each iterator | seek, next, prev under a writer | `Cursor` |
| `skiplist.h` | links of each level, height | insert, lock-free search | `SkipList` |
| `env_posix.cc` | lock table and record locks; limiters; work queue and thread | `LockFile`, `NewRandomAccessFile`, `Schedule` | `FileLocks`, `ReadableFiles`, `BackgroundQueue` |
| `cache.cc`, `table_cache.cc` | two lists, hash table, reference counts | insert, look up, release, erase, evict | `TableCache` |
| `repair.cc` | a directory and what was found in it | all of `RepairDB`, interrupted and run again | `Repair` |
| `table_builder`, `filter_block`, `table`, `bloom` | blocks, index, filters, footer | build, look up, offsets | `TableFile` |
| `block_builder`, `block` | entries with shared prefixes, restart points | add, seek, next, prev | `BlockIter` |
| `Pods/nanopb` | streams, a struct with static, allocated and union fields | varints, decode and release, two-pass encode | `Varint`, `ProtoDecode`, `ProtoEncode` |
| encodings, checksums, statistics, the C interface of LevelDB; descriptors of nanopb; the other pods | | | no, see "Not modelled" |

How the parts interact. A tap calls a function of the shared view model, which
sets `isLoad` and sends a request. The callback clears `isLoad`, changes the
view model, and often calls the next function: joining is a read of the squad
and then a write; leaving is a removal, a read of the match, a removal of the
place, and a reload of the list; placing a player is a write and a reload. The
screens read the view model; the detail screen uses both the match it was
opened for (`matchID`) and the last match loaded by anyone (`selectedMatch`).
Registering is a call to the authentication service, which also signs in, and
then a write of the profile; a new picture is an upload, a request for its
address and a write; a new password is a re-authentication and a change. The
library's `currentUser` changes when the service answers, the view model when
the callback runs. Match screens use the profile of `BaseViewModel` to decide
who joins and who sees the admin's buttons.

How the app reaches the libraries. Firebase Database opens a LevelDB store when
persistence is turned on (`APLevelDB.mm`: `create_if_missing`, writes with
`sync = false`, `reuse_logs` left off). The app links it and does not turn
persistence on, so in this app LevelDB is code that ships and does not run. The
model is of the library as Firebase would use it, and where it says so of the
options Firebase leaves off. nanopb is used by GoogleDataTransport, which sizes
a message and then encodes it into a buffer of that size, and decodes the
answer into a zeroed struct; by FirebaseMessaging and FirebaseCoreDiagnostics,
which encode alike, but cut the buffer to what the second pass wrote. None of
them stops at a pass that fails. It is built with `PB_ENABLE_MALLOC`.

What is hard. Two phones between whose calls anything may happen; one phone
whose overlay does not cover everything (navigation bar, tool bar, tabs, the
create button) or goes too early, so that its own calls overlap; a shared
loading flag that any callback clears; writes to children of a match that
another phone has deleted; connections that break with reads lost and writes
sent twice; an app that is killed, or that ends itself with a path that has an
empty component. In LevelDB: readers that use memtables and versions after
giving up the mutex, one background thread that flushes in the middle of a
merge, a leader that writes and answers for other threads, a crash between any
two system calls, a log that ends anywhere. In nanopb: every field of a message
may fail half way, with memory allocated. `PROJECT.json` lists these hazards at their lines.

## Modules

- `MatchStore`: the tree, the writes the app makes to it, what a read returns,
  and `MatchsModel` as `init(dictionary:)` builds it. A node keeps its fields
  apart (`info` stands for the ones `createMatch` writes together), because a
  write to one child of a removed match restores that child alone. A missing
  `matchID` is read as the empty string, which is `None` here.
- `MatchBoard` (extends `MatchStore`): phones, their view models, queues of
  requests and answers, the database, the faults. One action for each gesture
  (named after the view-model function it calls), one for each callback
  (`On...`), the server's two steps, six faults and the clock.
- `Session`: one phone's account tab with its three services. `base` is the
  `BaseViewModel`, `current` the library's user, `tab` and `pushed` what is on
  the screen, `forms` the view models of the two forms, one for each visit
  (callbacks keep the view model of a closed form alive, so answers go to the
  visit that made the call), `picking` a chosen picture that is still being
  read. One action for each gesture, named after the function it calls, one for
  each callback (`On...`), `Serve` for the services and four kinds of accident.
  `Names` stand for what the profile form saves (name and position), `core` for
  what only registration writes.
- `Players`: the list of players of one phone, with profiles that other phones
  write at any time.
- `Levels`: LevelDB's internal keys, versions, lookups and the choice of a
  compaction's inputs, as operators. `LevelStore` (extends it): a running store;
  a step is what happens under the mutex, or one round of the merge loop without
  it. `torn` and `gapped` are history variables: keys whose entries a merge has
  split between levels, and keys in the gap of a merge into which a flush went.
- `WriteQueue`: threads and condition variables of one database, at the
  granularity of a stretch under the mutex. `CompactRange` ignores the status of
  the write it begins with: after a failed one it does not wait for the
  memtable, but asks for its manual compactions and waits for them all the same.
- `DurableStore`: what `options.h` promises of writes and crashes, in six
  actions. `Recovery`: the files, and what each step of writing, flushing,
  opening and cleaning up does to them. It is shown to implement `DurableStore`
  with `contents` mapped to what a running store shows, or else to what `Open`
  would find, and `durable` to what it would find if every file kept only its
  synced part (`Promise`, `KeepsPromise`).
- `LogRecords`, `BlockIter`, `TableFile`: the three file formats, with the
  writer and the reader of each. `Cursor`, `SkipList`: reading while the writer
  goes on; every call of an internal iterator, every link, is a step.
- `FileLocks`, `ReadableFiles`, `BackgroundQueue`, `TableCache`: what processes
  and threads share. A system call, an atomic operation, or what is done under
  the mutex is a step.
- `Repair` (extends `Levels`): `RepairDB` over every directory a small number of
  writes can leave. It copies values and deletions alike, so the writes are
  values. A file archived in `lost/` replaces one of the same name.
- `Varint`, `ProtoDecode`, `ProtoEncode`: nanopb. The message types have a field
  of every kind the code treats differently. `ProtoEncode` has both passes of
  `GDTCCTEncodeBatchedLogRequest`: a sizing pass that fails is only logged, the
  second pass gets a buffer of what was counted up to the error, and the whole
  buffer is returned whatever the second pass came to (`result` is `"cut"` when
  it failed). `FillsExactly` says that with callbacks that repeat themselves a
  message is cut only if both passes failed.
- `MCMatchBoard`, `MCSession`, `MCLevelStore`: constants for TLC.
- `MCAnswers`, `MCStore`, `MCThreads`, `MCReading`, `MCNanopb`, `MCRest`: small
  instances of several modules in one run. A behaviour is about one of them,
  which the variable `part` names; the variables of the others stay `Idle`, so
  that the state spaces add up and do not multiply. What a module assumes of
  its constants is a definition there (`QueueConstants`, ...) and an `ASSUME`
  here, for each instance. Five of them extend the module that a theorem is
  about (`MCAnswers` extends `Players`, `MCStore` `ReadableFiles`, `MCThreads`
  `WriteQueue`, `MCReading` `SkipList`, `MCRest` `BackgroundQueue`), whose
  variables keep their initial values in the other parts: what TLC checks there
  is the very definition that the theorem states.
- `MatchBoardProofs`: the theorems on `MatchBoard`, in sections: queues and
  types, squads, ghosts, the list, the overlay, one phone alone.
- `SessionProofs`, `PlayersProofs`, `WriteQueueProofs`, `SkipListProofs`, `FileLocksProofs`,
  `ReadableFilesProofs`, `BackgroundQueueProofs`: the theorems on the module
  each is named after, with their inductive invariants.

Correspondence of state: `vm[d]` is the `MatchsViewModel` of phone `d`,
`form[d]` the `CreateMatchViewModel` of its current visit, `screen[d]` the top
of its navigation stack, `requests[d]` and `replies[d]` its calls without an
answer and its answers whose completion block has not run. `matchsModelList` is
a sequence of answers, one function from matches to cards each, because
`getAllMatchs` appends what it gets. An action of a callback contains the calls
that callback makes: `OnJoined` contains the `getAllMatchs` that follows.

Four history variables are written and never read by a guard: `deleted` (a
deletion reached the server), `raced` (a phone read a squad while another one,
having found room, had yet to write), `overlapped` (the phone's newest list
load began before an older one was answered), `slipped` (content was tapped
while a request was under way). `Session` has `slipped` for its own phone,
`revoked` (the library signed the user out) and `typedOver` (a new password was
typed during the re-authentication). The properties use them to say exactly when
something may go wrong.

Definitions whose comment begins with `Mutant` are not part of the model. Each
is a plausible mistake in the definition that follows it, and the property it
is paired with in `PROJECT.json` fails with it.

What the model takes as given:

- A phone of `MatchBoard` has one signed-in account with a loaded profile for
  the whole run. `Session` says when that is so.
- In `Session`, e-mail addresses are valid, nobody clears the name field by
  hand, and other phones do not write the profiles of this one's accounts. A
  text field keeps the keyboard while the loading view is shown. Calls to the
  authentication and storage services are answered in any order.
- A phone's requests are handled in the order they were sent and its answers
  arrive in that order; `Overtake` is the exception, after a reconnection.
- A write that is sent twice is sent again before the phone's later writes are
  handled; the client would resend all unacknowledged writes in order.
- A phone is launched again only when the requests of the earlier launch are
  over.
- The planning pop-up of the detail screen can be dismissed at any time and
  hides nothing that matters, so it is left out. `NavigationLink` might close a
  detail screen when its card leaves the list; `Back` is possible at any time
  and covers that.
- The form of a new match is filled in; texts and dates are not told apart,
  except whether the finish time has passed (`MatchEnds`).
- LevelDB. Operations on the directory (create, rename, remove) reach the disk
  in order, as on a journalled file system; a crash of the machine keeps of
  every file any prefix that holds the synced part; a crash of the process
  keeps what was written. Links of the skip list are read with acquire and
  written with release, `max_height_` is relaxed. Sizes are counted in entries.
  A record lock goes when its process closes any descriptor of the file.
- Scaled widths. `Varint` has groups of 2 bits for 7, 5 bits for 32 and 9 for 64,
  so that in both a part of a group is left over, as in the code. Words of
  `TableFile` have 6 bits; lengths of `ProtoEncode` take a second byte from 4
  on instead of 128.

## Runs

| Run | Instance | Shows |
| --- | --- | --- |
| `solo` | one admin phone, two matches (one to create), two places, squad of 1, all gestures, 5 of them; 81,762 states | types; one place per player unless the phone slipped, nobody on the pitch outside the squad (`PitchAgrees`); both screens agree with the database once nothing is under way, and the list has one copy of a match unless loads overlapped (`ScreensAgree`); the last callback ends the overlay |
| `faults` | an admin's and a player's phone, one match that may end and one to create, one place, all gestures, 2 each, one fault of any of the six kinds; 1,246,124 states | capacity unless raced, with its inductive invariant `SquadInv`; a match without fields was deleted; one copy unless overlapped; the overlay ends on the error paths too |
| `session` | one phone, two accounts (one to register), three passwords, all gestures, 4 of them, one failed call, killed app, forced or failed sign-out; 2,680,120 states | whose profile is shown (`ProfileIsOwn`), where pictures, names and new accounts go (`WritesKept`), the signed-in flag, the picture and the loading flags at rest (`ScreenWhenIdle`), which passwords are set (`PasswordsChecked`) |
| `settle` | two phones joining, leaving, refreshing; one phone signing in, registering, signing out; one failure or killed app each, with fairness; the list of players under three loads and two changes; 232,663 states | every chain of calls ends; every join and sign-in is answered; the player list is the last answer |
| `store` | three stores with two or three keys and the smallest thresholds (five writes with a snapshot; a reader that holds what it began with; a manual compaction over a gap); repair of every directory of three writes; a process that crashes twice with and without `reuse_logs`; three threads with one mapping and one descriptor; 993,131 states | reads agree with the writes; no table in use is deleted, levels stay disjoint unless gapped; repair and reopening lose and reuse nothing; the limits of mapped and open tables |
| `recovery` | three writes, one failure, one crash of the process, one of the machine; 145,999 states | the directory opens again after every crash, sequence numbers are unique, and `Recovery` implements `DurableStore` |
| `threads` | three threads with three writes of two sizes into a memtable that each of them fills, two failures, the destructor; three processes that open and close; two processes with two threads that open, close and destroy; two clients and three tables with capacities 0 to 2; 1,344,892 states | answers of grouped writes are true, nothing works after the destructor; one owner of a directory; the cache and its evictions |
| `reading` | a skip list of four keys with one reader; cursors over two keys, three stored entries and a late insert, or two and an unreadable block; tables of three entries over six keys with two block sizes; blocks of four keys of two bits with one damaged entry; logs of three records in blocks of six cells, torn, damaged, scarred and reopened; 993,136 states | searches, cursors, lookups, blocks and logs read what was written, or report |
| `nanopb` | all numbers of 9 bits; messages of three fields of sixteen kinds; four fields of a union; submessages three deep, with callbacks that give up and passes that fail; 1,183,900 states | integers come back; nothing leaks and a decoded struct holds what was sent; the encoder stays in its buffer, its lengths are right, and with callbacks that repeat themselves both passes end alike and the second fills the buffer |
| `rest` | one store with a gap and a manual compaction; two threads with two calls of writing and compacting, or five writes with two failures, and the destructor; a cursor and a skip list under inserts; three databases on the background thread; an interrupted repair; with fairness; 198,534 states | compactions, calls, the destructor, searches, scheduled work and repair end; work runs in the order of the calls |
| `overfull` | two phones that join | violated: the squad exceeds its capacity |
| `resurrect` | one store, one table with two keys, one of them deleted | violated: a deleted key comes back |

Runs over several parts check conjunctions that name the properties of the
modules they instantiate: `LogRight` is what `LogRecords` promises in each of
its instances, and so on. `WritersAnswered`, `LimitsKept`, `RunsInOrder`,
`SkipListRight`, `PlayersRight`, `PitchAgrees`, `ScreensAgree`, `WritesKept` and
`ScreenWhenIdle` are such conjunctions in the modules themselves. The comments of
the modules say what each is about.

Bounds. A squad of one or two stands for fourteen: what matters is whether the
next player fits, and two phones are enough to race for it; more phones are the
matter of the capacity theorem. Five gestures on one phone are enough for join,
open, place, go back and leave, the longest chain one user can make. Two
gestures on each of two phones give every pair of operations in every order of
their calls. One fault is enough to put a failure at every point of every
chain; the theorems have no such bounds. In `session` four gestures are enough
to go to the tab, choose a picture, sign out and register while the upload and a
second profile load are under way; without accidents the properties also hold
with five (11.9 million states), where each of them fails when its exception
(`slipped`, `typedOver`) is left out. In `store` thresholds of one or two
entries make every flush start a compaction, five writes put one key on three
levels, and four levels have room for all rules that look two levels down. In
`recovery` three writes fill a memtable, a log and a MANIFEST up to its limit of
three records, and the two crashes fall between any two steps, the ones of the
second `Open` included. Blocks of six cells and headers of two give fragments
that end on a block, leave a trailer, and span three blocks. In `threads` three
writers are what it takes for a leader, a follower and one who comes late.
Symmetry is used in `threads`, over three threads that no property and no other
instance tells apart; phones, processes and tables differ in what they do.
Deadlock is not checked, because a run stops when its budget is used up;
that nobody waits for ever is `CallsReturn`.

Fairness. `settle` assumes weak fairness of the services and of the main queue
for each phone: a request that reached the server is answered, and a block that
was dispatched is run. Users, faults and the clock are free. Lost reads are not
in this run: a lost read is never answered, and the app has no timeout of its
own. `rest` assumes that the operating system runs a thread that can go on: the
background thread, each caller inside a call, the destructor once it is woken,
a reader inside a search; and that a repair that failed is run again. Nobody has
to call anything, and no wake-up without a signal is counted on. The background
thread of a store is fair as a whole (infinitely often it steps or has nothing
to do). Since a behaviour is about one part, one condition of weak fairness can
speak for a thread of each part.

The two violations are behaviours of the code:

- `overfull`: `joinMatches` reads the size of the squad and writes the player
  in a second call (MatchsViewModel 78-90). Two phones that read it at once
  both join, and `count == 14` does not recognise a larger squad as full.
- `resurrect`: `SetupOtherInputs` (version_set.cc 1403-1411) adds boundary
  tables to the inputs of the level it compacts and not to those of the next
  level. A value that stays behind there is uncovered when the merge drops the
  deletion above it, which `IsBaseLevelForKey` allows. `ReadsAgree` shows that
  this tearing is the only way a read goes wrong in these instances.

## Deviations met while modelling

These statements of the repository are definitions of the modules, with the
quotation in their comment. No run checks them: TLC finds each violated on an
instance of the size of the runs, or as large as the row says, at the lines
given.

| Definition | Code | What happens |
| --- | --- | --- |
| `MatchBoard.MenuOffersOnlyFreePlaces` | MatchsViewModel.swift 249-252, 273-276 | the callbacks of the position writes start a reload and clear `isLoad` at once, so the menu offers a place that was just filled |
| `MatchBoard.NoEmptyChild` | MatchsViewModel.swift 346-354 | after a failed load `selectedMatch` has the `matchID` `""`, and a comment goes to `child("")`, which raises |
| `Session.PasswordTypedTwice` | UpdatePasswordView.swift 234-264 | the form checks the length of both new passwords and never compares them, although its message says that they do not match |
| `LevelStore.LevelsDisjoint` | db_impl.cc 522, version_set.cc 730, 747 | a flush in the middle of a manual compaction may go into the gap that the compaction is about to fill; two tables of a level overlap |
| `Recovery.CreationIsAtomic` | db_impl.cc 201, 283 | the first MANIFEST is not synced before CURRENT names it; after a machine crash the database neither opens nor can be created |
| `Recovery.SyncedWritesKept` | version_set.cc 1013 | with `reuse_logs` a MANIFEST is appended to whose end was never synced; a machine crash then loses a synced write |
| `Recovery.SyncCoversEarlier` | db_impl.cc 1356 | the old log is closed without a sync; a synced write survives the machine and an earlier one does not |
| `WriteQueue.MemTableCompacted` | db_impl.cc 1287 | the empty write of `TEST_CompactMemTable` joins the group of another writer and returns with the memtable as it was |
| `WriteQueue.ManualOutlivesWork` | db_impl.cc 618 | after a background error the caller of a manual compaction leaves while the thread still uses its stack frame |
| `LogRecords.AckedReadable` | log_writer.cc 106, db_impl.cc 463, 1227 | after half an append, or in a reused log with a torn end, acknowledged records lie where the reader does not find them |
| `Cursor.PrevMovesBack` | merger.cc 93 | an insert during the turn of the merged iterator makes `Prev` move forward; `DBIter` skips the entry, so users do not see it |
| `FileLocks.Exclusive`, two threads in a process, or `DestroyDB` | env_posix.cc 627, db_impl.cc 1544 | a refused caller closes its descriptor and with it the lock of its process; `DestroyDB` removes LOCK after giving it up |
| `ReadableFiles.FailsOnlyWhenFull` | env_posix.cc 76 | `Acquire` fails although a slot is free, while another failing call has the counter down |
| `Repair.ArchiveKeeps`, one I/O error and three crashes, or two of each | repair.cc 249, 422 | a table whose size cannot be read is archived; its number is free then, a later repair gives it to a new table, and archiving that one replaces the first in `lost/` |
| `Repair.NothingInvented` | repair.cc 169, 173 | logs are read without checksums, under a comment that says the opposite |
| `Repair.CopiedBeforeMoved` | repair.cc 295, 316 | a damaged table is moved away before its copy is there |
| `Repair.GetFindsNewest` | repair.cc 368 | all tables go to level 0 under their old numbers, where an older entry may hide a newer one |
| `Varint.HalfNeverCuts` | pb_decode.c 223-240 | `pb_decode_varint32` cuts some numbers of more than 32 bits without an error |
| `ProtoDecode.SameTypeMerges` | pb_decode.c 574, 1140 | an allocated submessage of a oneof that comes twice replaces the first, against "merge" |
| `ProtoDecode.NoWildFree` | pb_decode.c 460, 868, 1525 | decoding into a struct that was not zeroed may free a pointer nobody set; the pods zero theirs |

What `Session` shows besides. The launch and the account tab each load the
profile; the first answer opens the screen while the second is under way, and a
sign-out at that moment is followed by the profile of the user who has just
left. `ProfileIsOwn`, `LoginFlagWhenIdle` and `NamesSurvive` say that this one
weakness, a shared loading flag that the first answer clears, is behind every
wrong profile, flag and lost name in runs without failures. A registration that
fails after the account was created cannot be repeated, and leaves an account
without profile. The loading flag of a form stays on when the form is used with
nobody signed in. That takes two sign-ins of which the second is answered after
a sign-out (seven gestures, more than run `session` has): it was the proof of
`ScreensRightAtRest` that asked for `slipped` among the exceptions of
`OverlayEndsWithWork`.

## Theorems

For every value of the constants. What is assumed of these is, for `MatchBoard`,
`Session` and `Players`, the named `ASSUME`s (users are finitely many, a
capacity is at least one, `None` is nobody and no profile, no account has the
empty string for its `uuid`, budgets are natural numbers); for the LevelDB
modules it is the hypothesis named with the theorem, which TLC evaluates for the
constants of each run. `MaxFaults`, budgets and the like stay parameters, so no
theorem rests on a number of gestures, faults, threads or files.

An invariant that a run checks is seldom inductive. Each entry says what had to
be added to it, which is the reason why the code keeps it.

Matches:

- `TypeCorrect` (`MatchBoardProofs`): `Spec => []TypeOK`. `TypeOK` is inductive
  by itself. The part that is not a mere type is that a request under way names
  a match, a user and a place where its path or value needs them, which rests on
  what the guards know of cards and of `selectedMatch`.
- `SquadPromises`, `SquadKeepsCapacity` (`MatchBoardProofs`): `Spec =>
  []SquadInv` and `Spec => []CapacityUnlessRaced`. The number of players is not
  inductive: a phone that has found room will add one later. `SquadInv` counts
  that promise. In a match that was not raced, at most one phone is joining, and
  the squad with its player still fits. Answers to squad reads make promises
  (`ServeReadSquad`), the first callback of `joinMatches` turns the answer into
  a request (`OnRosterSquad`), a write that takes effect, acknowledged or
  resent, keeps it (`CommitSquad`), and every other step is quiet: it brings no
  new promise (`QuietStep` and the lemmas before it).
- `NoGhostBeforeDelete` (`MatchBoardProofs`): `Spec => []GhostOnlyAfterDelete`.
  A write below a match may be on its way for long, so the database alone tells
  nothing. `GhostInv`: every screen, card, selected match, request and answer of
  every phone is about a match that has its fields or was deleted (`Known`), and
  so is everything in the database. Known matches stay known (`KnownGrows`),
  because only a deletion takes the fields away and a deletion is remembered.
- `OneCopyOfTheList` (`MatchBoardProofs`): `Spec => []OneCopyUnlessOverlapped`.
  `getAllMatchs` empties the list when it is called and appends when it is
  answered; `OneLoad` adds that a phone that did not overlap its loads has at
  most one of them under way, as a request or as an answer, and that the list is
  empty meanwhile. Resent, lost and overtaken requests keep it.
- `OverlayEnds` (`MatchBoardProofs`): `Spec => SpinnerEndsWithWork`, an action
  property. Only a callback takes an answer away (`OnlyCallbacksTake`), and each
  callback that makes no further call ends the overlay, but for the exceptions
  the property names (`CallbackClears`).
- `PitchAgreesAlone`, `ScreensAgreeAlone`: `Spec => []PitchAgrees` and `Spec =>
  []ScreensAgree` from `Devices = {p}` and `Faults = {}`, the setting of run
  `solo`, for any users, matches, places, capacity and number of gestures. With
  a second phone or a failure both are false, which is why this is a hypothesis.
  The properties speak of a phone at rest and of a phone that has not slipped;
  `AloneInv` says what is true in between, of the calls that are under way in
  the order they were sent (`Item`: answers first, then requests, so that
  serving a request changes nothing of them):
  - always: a match that is being created was never there (`Births`); a load of
    the list that a change of a squad overtook lies before the answer to that
    change, whose callback, or the chain it starts, empties and loads the list
    again (`AnswersCurrent`, `ListCurrent`);
  - while the phone has not slipped (`Calm`): calls that the overlay covers do
    not meet (`NoClash`: the tool bar and the create button are free, so a
    reload, a planning mark or a creation may meet any of their kind, and a
    call from a card meets no call of a detail screen); the match of a detail
    screen and of its calls is there; with nothing left to serve its last answer
    is the match as it is; a player to be placed is in the squad without a place
    (`PlaceReady`); the pitch `leaveMatches` has read is still the pitch
    (`AreaCurrent`); and whoever is on the pitch outside the squad is about to
    be found or cleared by a chain of `leaveMatches` (`Leaving`).

  `NextAlone` reduces the steps of one phone to sixteen shapes (`AloneStep`), and
  one lemma for each part of the invariant goes through them. TLC checked
  `AloneInv` on the instance of `solo` with five and with seven gestures
  (2,274,222 states) before it was proved.

Accounts (`SessionProofs`):

- `SessionTyped`: `Spec => []TypeOK`. An answer is put into the form of the visit
  that made the call, so `SessionTypes` adds that these visits are known while
  the app runs (`VisitsKnown`).
- `ProfileStaysOwn`: `Spec => []ProfileIsOwn`. `OwnInv`: unless the user slipped
  past the overlay or the library signed out, `isLoggedIn` separates the calls.
  While it is false at most one call is under way, of a sign-in or a
  registration; while it is true none of these is, so that the library's user
  stays the same under every read of a profile.
- `PasswordsAreChecked`: `Spec => []PasswordsChecked`. `CheckedInv` follows the
  text: in the form while a re-authentication is under way, in the request that
  carries it, in the service.
- `WritesStay`, `ScreensRightAtRest`: `Spec => []WritesKept` and `Spec =>
  []ScreenWhenIdle`, both from `ScreenInv`. Every call carries the account it was
  made for (`Kept`). Between the answer that changes the library's user and the
  callback that tells the view model nothing else is under way (`FlagInv`). A
  loading flag that is on has its call (`LoadingEnds`). Without faults and slips
  (`CleanInv`) an account without a profile has the call or the answer that will
  write it (`Stored`), calls are for the user who is still signed in
  (`CallsFit`), and a profile that was read before a new picture is followed by
  the answer of the write it missed (`AnswersFit`, `ScreenFits`).

Players (`PlayersProofs`):

- `PlayersListRight`: `Spec => []PlayersRight`. The view model does not know
  which load an answer belongs to; `OneLoad` adds that without an overlap one
  load at most is under way and the list is empty meanwhile, `Listable` that
  what an answer or the list names is in the database, once.

LevelDB:

- `WritesAnswerTruly` (`WriteQueueProofs`, from `QueueConstants`): `Spec =>
  []WritersAnswered`. A call is answered by its own thread long after the leader
  of its group took it off the queue. `WriteInv` carries the answer there: ids
  grow along the queue and everything in the log is older (`IdsGrow`); the group
  is the front of the queue and has a sync call only under a sync leader
  (`GroupAtFront`); a call that is done and ok is in the log (`ServedWhenDone`).
  `ClosesIdle` is the same for the destructor and the background thread.
- `SearchesFindInserted` (`SkipListProofs`, from `SkipListConstants`): `Spec =>
  []SkipListRight`. Every level links the nodes that are on it in order
  (`LevelsLinked`). To keep that, an insert needs `prev[]` to be still the last
  node before its key on the levels to come (`PrevHolds`), and a search needs
  its node to be on the level it walks and before its target (`ReadersOn`). A
  node is linked from the bottom up, which is why a reader can always go down,
  and the bottom level has every key that was there when it began.
- `LockFileExcludes` (`FileLocksProofs`, from `LockConstants`): `Spec =>
  []LocksExclude` of `FileLocks`. The lock table lists a file from `Insert` to
  `Remove` on every path between, for one thread of the process
  (`TableGuards`). Where every process has one thread and nobody destroys the
  database, LOCK is one file, and the record lock of a holder is on it
  (`OneFile`). Run `threads` checks the same of two instances.
- `LimitersKeepLimits` (`ReadableFilesProofs`, from `LimiterConstants`): `Spec =>
  []LimitsKept`. A counter may fall below zero, by one for each `Acquire` that
  found nothing and has yet to put its decrement back. With these (`Owing`)
  counter and slots add up at every step (`SlotsAddUp`), so whoever finds a
  positive counter finds a slot that nobody holds. `KindFits` ties the slots to
  the file objects.
- `BackgroundRunsInOrder` (`BackgroundQueueProofs`, from `QueueBound`): `Spec =>
  []RunsInOrder`. A database queues its next item while its last one still
  runs. `Newest` tells them apart: a queued item is the newest of its database.

What is only model-checked, and why:

- Liveness (`settle`, `rest`) needs fairness and `ENABLED`.
- What depends on computing over data, by folds or recursive functions, needs
  induction over it: that `Recovery` implements `DurableStore` and `DiskSound`,
  the levels and repair, cursors, tables, blocks and logs, nanopb, and the
  reference counts of `TableCache`.
- `LocksExclude` of run `threads` is about two instances of `FileLocks`; the
  theorem on it is `LockFileExcludes`, about the module itself.

## Not modelled

- Most of the repository's C and C++ lines are headers: the Objective-C
  interfaces of the pods, declarations and documentation without statements.
  The code with logic among them is LevelDB and nanopb, and of these what is
  left out is byte layouts (varints of LevelDB, block handles, version edits,
  write batches), checksums and hashes, the arena, statistics, logging, printing,
  the C interface, test hooks, and nanopb's iterator over generated
  descriptors: sequential code with one caller. The logic of the Objective-C
  and Swift pods is modelled only as the app meets it.
- Pull to refresh: no screen uses it. Drawing, animation, images, texts.
- Listeners, transactions and the cache of Firebase Database: the app uses
  `getData`, `setValue` and `removeValue` only.
- LevelDB: buffering inside `PosixWritableFile`, `RepairDB` on a database that
  another process has open (it takes no lock), sharding of the cache, the
  initial offset of the log reader, which nobody uses.
- nanopb: extensions, default values, fixed-width numbers, UTF-8 checks.
- Hazards without a property. The place that `leaveMatches` clears was found in
  a read, and may belong to somebody else when the removal arrives
  (MatchsViewModel 135). A second tap on the button of the form creates a second
  match (CreateMatchView 115), and a creation that is answered after the user
  went back is not shown until the next refresh (116): both are behaviours of
  the model, and nothing in the repository forbids them. Joining with a profile
  without `uuid` asks for `child("")` (MatchsViewModel 72): a phone of
  `MatchBoard` has a complete profile.

## What is left

Of the properties that need neither liveness nor induction over data, one has no
theorem: the reference counts of `TableCache` (`CacheAgrees`), which are folds
over the clients and would have to be stated as cardinalities.
