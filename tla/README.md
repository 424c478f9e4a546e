# ResponseTracker in TLA+

ResponseTracker is an iPhone app with which a fire fighter records the calls
they answered. A *response* belongs to an *emergency type* and is worth one
point; further points can be added by hand. The app shows the points of the
year, of the month and of the last month, can reset them, clear everything, and
export a CSV file. It keeps its data in a Realm, and the repository contains
the Realm libraries, among them the source of Realm's ObjectStore: the layer
with threads, change notifications and synchronisation.

Paths of the app are relative to `src/ResponseTracker/ResponseTracker/`; `Pods/`
is `src/ResponseTracker/Pods/` and `ObjectStore/` is
`src/ResponseTracker/Pods/Realm/Realm/ObjectStore/src/`.

## Inventory

| Component | State | Operations | What is hard | What makes it correct |
|---|---|---|---|---|
| Store: `DataSource/DataManager.swift`, `Models/Emergency.swift`, `Models/Response.swift` | a Realm file (types, responses, a list of responses per type); the write transaction; callbacks | add, rename and remove a type; add, change and remove a response; clear all | success is reported inside the write, before the commit; a failed commit leaves the transaction open; the process may end between any two steps | no orphaned responses; nothing saved on top of a failed commit; the last answer tells the outcome; every saved change is whole |
| Points: `loadPoints`, `Emergency.getPoints`, `Models/Points.swift`, `Utils/DateExt.swift` | `preset_points` and `last_point_reset` in UserDefaults; the clock and its zone | add points, reset, load | windows at a month's or a year's edge, the reset date, the zone's offset, two separate counts | both counts agree; the month is part of the year; a reset leaves nothing before it |
| Export: `export`, `toCSV`, `manuallyAddedToCSV` | the file written | write a file | dates at the reset are compared otherwise than for the points; the range over a negative amount | the file's rows are the points |
| List screen: `EmergencyViewController` | `emergencyTypes`, `points`, the label | reload, respond, add a type, open the other screens | its array and row numbers outlive the store's state they were read from | what it lists exists and is in order |
| Type and response screens: `EmergencyDetailsViewController`, `ResponseDetailsViewController` | the Realm objects they show, an edited copy | rename, delete, save | the object may be deleted; the row number given to the callback is old | no screen shows, and no handler uses, a deleted object |
| Points screen: `PointsViewController` | the first screen's `Points` object, the strings shown | add, reset, clear, export | changes its copy instead of reading the store, also after a failure | it shows what the store would say |
| Alerts: `AlertFactory`, `UIApplicationExt` | the queue of presentations and the alerts on screen | present, answer | presented by a later block of the main queue, answered later still | messages appear; answers act on what still exists |
| Realm transactions: `Pods/RealmSwift/RealmSwift/Realm.swift`, `Pods/Realm/Realm/RLMRealm.mm`, `ObjectStore/shared_realm.cpp` | the transaction stage | begin, commit, cancel | `write` does not cancel when the commit fails | modelled as the store meets it |
| Change notifications: `ObjectStore/impl/collection_notifier.cpp`, `results_notifier.cpp`, `realm_coordinator.cpp`, `shared_realm.cpp` | the callbacks with what each is still to be told, the index and count of the loop over them, a cached "there are callbacks", the version to skip, the version the notifier is at | add, remove, suppress; notify, refresh, begin, commit; the worker's runs | callbacks add and remove callbacks while they are called; the worker reads without the lock; writers do not wait for it in a callback | each callback is told of every change once; nobody waits for ever |
| Sync sessions: `ObjectStore/sync/sync_session.cpp`, `sync_manager.cpp`, `sync_user.cpp` | per session its state, completion callbacks and counters; the map of sessions; external references; the user's sessions; three mutexes | get, close, log out and in, wait for completion, update the configuration; errors and completions of the sync client | what is done after a mutex was released; mutexes held across several transitions; callbacks put aside | states, map, references and callbacks agree; nothing called twice or dropped; what is started ends |
| `AppDelegate`, cells, storyboards, styling; the rest of the vendored Realm | none of the program's own | | | not modelled, except launch |

Screens call `DataManager.shared` from the main thread and get its answers
through callbacks that run during the call. The type and response screens reach
the store through closures that the list screen gave them. All screens read the
same Realm objects, so an operation on one screen can take away what another
one, or an alert that is still open, refers to. The app's own code has no
background threads: what interleaves there is the user, the blocks of the main
queue, screen transitions, the clock and the end of the process. The
ObjectStore below it does have threads: the coordinator's worker, the sync
client's event loop and whichever threads of an application call it. Those two
parts are modelled for any application, not for the little of them that this
one uses.

## Modules

| Module | Models | |
|---|---|---|
| `Calendar` | `DateExt.swift` | instants are integers; months, years and the zone's offsets are constants |
| `DataManager` | the store and the two counts of points | the core of the app |
| `CsvExport` | the export, on top of the store | |
| `ResponseLedger` | what the store promises | abstract: one variable, whole changes only |
| `StoreRefinement` | | `DataManager` implements `ResponseLedger` |
| `StoreClaims` | | what titles, messages and comments say of the store and the code does not do |
| `Screens` | the view controllers and alerts, composed with the store | |
| `PointsScreen` | the numbers on the first and the points screen, composed with the store | |
| `CollectionNotifier` | change notifications, from the commit to the callback | stands alone |
| `SyncSession` | sessions, their map and their user | stands alone |
| `CompletionPromise` | what waiting for a completion promises the application | abstract: the fate of each callback; `SyncSession` implements it |
| `FiniteSums` | | sums over finite sets: lemmas that the proofs about points share |
| `*Proofs` | | theorems about the module each is named after |
| `MC*` | | the instances for TLC that need definitions; the others are given in the `.cfg` |

### DataManager and CsvExport

| TLA+ | Code |
|---|---|
| `db`, `file`, `writing` | the Realm as its accessors show it, as last committed, and whether it is in a write transaction |
| `preset`, `lastReset` | UserDefaults `preset_points`, `last_point_reset` |
| `pc`, `onFailure` | the step the running operation takes next and what its catch clause would report |
| `replies` | the callback's invocations in this operation |
| `AddEmergency`, ... , `RemoveEmergency` | the operation up to the commit: guard, block, callback (one step, nothing can come between) |
| `CommitWrite`, `CommitWriteFails` | the commit inside `Realm.write`; when it fails, the catch clause |
| `WriteRaises` | `beginWrite` in the transaction left open: "The Realm is already in a write transaction" is raised, which Swift cannot catch |
| `ClearPoints`, `ClearPointsDate` | the two saves to UserDefaults of a reset |
| `ClearAllData`, `ClearAllDate`, `ClearAllRealm`, `ClearAllCommit`, `ClearAllFails` | the steps of `clearAllData`, each of which survives a crash or not on its own |
| `Crash`, `Launch`, `ClockMoves` | the end of the process, its start, the clock (set forward or back) |
| `csv`, `ExportWrites`, `ExportFails`, `ExportTraps` | the rows `export` writes, a file that cannot be written, the range `0..<amount` of a negative amount |

That a failed commit leaves the transaction open is read from
`Pods/RealmSwift/RealmSwift/Realm.swift:210-219` (`cancelWrite` only when the
*block* throws), `Pods/Realm/Realm/RLMRealm.mm:654-670` and
`ObjectStore/shared_realm.cpp:668-726`.

A response's incident number and details, and a type's text, are left out:
no property tells two texts apart beyond equality of names. `Emergency.responses`
is a count per response, since nothing depends on its order and the code could
list one twice. A row of the export is counted, not spelled.

### Screens

`nav` is the navigation stack, `shown` the list screen's array, `queue` the
presentations waiting in the main queue, `alerts` those on screen, `ended` why
the process last ended. A screen remembers the row that led to it, because
`EmergencyViewController.swift:168-171` uses it when a response is deleted. An
alert remembers the screen that asked for it, and forgets it when the screen
leaves the stack: `[weak self]` is nil by then, or its `navigationController`
is. Using a deleted Realm object ends the process
(`Pods/Realm/include/RLMObject_Private.hpp:42-48`).

UIKit is modelled from how the code uses it. It ignores touches during a
transition and while an alert is up; a presentation over an alert that is itself
appearing may be refused. Whether a second touch can be handled between the
request of an alert and the main queue's block that presents it is the constant
`TouchWindow`. With FALSE the screens are right; with TRUE they are not
(`claim_invalid`): the difference is the finding.

### PointsScreen

`held` and `label` belong to the list screen, `points` and `strings` to the
points screen, `shared` says that `points` and `held` are one object. `steady`
is a history variable: the clock has not moved since `held` was loaded.

### CollectionNotifier

One Realm, one of its collections with a `CollectionNotifier`, the worker thread
of the coordinator, and others who commit to the same file. A change is the
number of the version that made it; a changeset is a set of those numbers, so
merging two is their union. A step is what happens while `m_notifier_mutex` or
the callbacks' mutex is held, or between two of those.

| TLA+ | Code |
|---|---|
| `latest`, `at`, `writing` | the file's latest version, the Realm's own, its write transaction |
| `cbs`, `index`, `count`, `have` | `m_callbacks`, `m_callback_index`, `m_callback_count`, `m_have_callbacks` |
| `pc` | what the Realm's thread is in: idle, in the loop over the callbacks, in a callback, waiting for the worker |
| `worker`, `has`, `skip` | the worker's place in `run_async_notifiers` with the version of the rows it compares with, the notifier's version, `m_notifier_skip_version` |
| `woken`, `signal` | that somebody has woken the worker (`wake_up_notifier_worker`, `commit_write`, other processes) since its run began; that `on_change` has signalled the run loop, or that `Realm::notify` came while the Realm was writing and did nothing |
| `AddCallback`, `RemoveCallback` | from outside and from within a callback, removal from any thread; a callback added while others are called wakes nobody (`collection_notifier.cpp:190`) |
| `Package`, `Deliver`, `Return`, `Delivered` | `package_for_delivery`, then one turn of `for_each_callback` after the other |
| `NotifyInWrite`, `Notify`, `NotifyChanged`, `Refresh`, `BeginWrite`, `Waited` | `Realm::notify`, `refresh` and `begin_transaction`, the last two with `package_and_wait` |
| `BeginNestedWrite`, `DropOutOfDate` | a write begun in a callback, which does not wait, and what then becomes of changes found for an older version |
| `Commit`, `CommitFails`, `Cancel`, `OtherCommits` | with the callbacks named in `withoutNotifying`, whose flags stay if the commit fails |
| `StartRun` | `run_async_notifiers` under the lock |
| `TrackChanges`, `RunQuery`, `CalculateChanges` | without it: the three places that read `have_callbacks()`, where the log is asked for (`results_notifier.cpp:93`), the query run (`:104`) and the changes found (`:120`); once for the skip version, if there is one, and once for the target |
| `HandOver` | `prepare_handover`, and after the last one `on_change`'s signal |

`told`, `own` and `disturbed` are history variables: what each callback was told
and up to which version, the versions it was to be spared, and the callbacks
that the code fails to inform exactly. A callback enters `disturbed` only by one
of six situations, each a definition with the line that makes it: `AddedLate`
(added while what the worker's run is going to hand over is not just what
follows the notifier's version, as `InStep` has it: after line 93 found no
callbacks, no changes of the table are read from the log, and what lines 104 and
120 then find lacks modifications; after line 104 or 120 found none, the rows
that the next run compares with are of another version), `CutShort`
(`m_callback_count` goes down for a callback that it did not count), `Dropped`,
`StillToCall` and `Behind` (a write begun in a callback overtakes the notifier),
and the flags left by `CommitFails`. `ToldExactly` says that these are all.

### SyncSession

The sessions that succeed each other at one path, for one user. A step is what a
thread does while it holds a session's `m_state_mutex`. Entering the inactive
state releases that mutex, and only then is the session unregistered and its
waiters called: what a thread has yet to do is kept in `todo`, a sequence of
named steps, and any other thread may come between two of them. The manager's
and the user's mutexes (`lock`) are held over several steps.

| TLA+ | Code |
|---|---|
| `s` | `m_state`, the stop policy, whether `m_session` is there, `m_deferred_close`, `m_death_count`, `m_client_resync_counter`, both completion lists |
| `entry`, `refs` | `SyncManager::m_sessions` at the path; who shares each `ExternalReference` (the application, or a thread that looks whether there is one) |
| `user` | the `SyncUser`'s state, `m_sessions` and `m_waiting_sessions` |
| `asks`, `waits` | access tokens being fetched; wait operations of the sync client |
| `ToInactive`, `ToWaiting`, `ToActive`, `ToDying` | `enter_state` of the four states |
| `GetSession` ... `WaitForCompletion`, `BeginUpdate` | calls of the application; `Continue` is the rest of each |
| `Completes`, `ReportError`, `HandleError`, `ApplyError`, `RestoreWaiters` | the event loop of the sync client: completions, and errors in two halves with the mutex released between |
| `AssertFails` | a `REALM_ASSERT` that does not hold ends the process (`Pods/Realm/include/core/realm/util/config.h:9` turns them on) |

## Runs

| Run | Instance | Shows |
|---|---|---|
| `store` | `ExportSpec`: 2 types, 2 responses, 2 names, amounts 2 and -1, 4 instants in 3 months of a zone east of Greenwich whose offset changes; about 700,000 states | no orphans; divergence only in a write, and by one change of the ledger; nothing saved after a failed commit; the last reply is the outcome; the store implements the ledger; both counts and the export agree; resets reset |
| `screens` | `AppSpec`: 2 types, 2 responses, one instant, `TouchWindow` FALSE; about 550,000 states | list and screens are fresh whenever the user can touch them; no deleted object is used; deleted types leave the list; messages are presented, and none is lost on its way but the one that each presentation over an alert may refuse |
| `points_screen` | 1 type, 1 response, 1 amount; about 220,000 states | the points screen's arithmetic gives what the store says; the label is fresh |
| `sync` | 2 sessions, 2 threads of the application and the client, one callback per direction, two stop policies, resync on, 4 calls or errors; about 450,000 states | state, `sync::Session`, map, references and callbacks agree; the sessions implement `CompletionPromise`: callbacks are dropped only with the list of a session that was let go of, or overwritten in a client resync; what is started ends |
| `notifier` | 2 callbacks, 2 versions; about 1,200,000 states | the cached flag is right; each callback that none of the six situations touches is told of each change once, and of all; waits end; callbacks catch up with whatever the worker was woken for |
| `claim_yearly` | | "Total Yearly Points:" (`PointsViewController.swift:26`) drops at a month's end: `DataManager.swift:236` |
| `claim_months` | | one response in "This Month's" and "Last Month's" points: `DataManager.swift:247` |
| `claim_current_month` | | "points in current month" (`DataManager.swift:38`) miss the month's first hours east of Greenwich: `DateExt.swift:45` |
| `claim_names` | | "Emergency type already exists" (`DataManager.swift:14`) is not asked of a rename: `DataManager.swift:106` |
| `claim_invalid` | `TouchWindow` TRUE | "Object has been deleted or invalidated." after delete, back, confirm: `AlertFactory.swift:86` |
| `claim_unregister` | as `sync`, without fairness | `unregister_session` is a "No-op if the session is [...] still active" (`Pods/Realm/include/sync/sync_manager.hpp:176`) and takes away one that another thread has just revived: `sync_manager.cpp:503` |
| `claim_suppress` | 1 callback, 3 versions | "without notifying specific notification blocks" (`Pods/Realm/include/RLMRealm.h:262`): a run of the worker under way uses up the flag: `collection_notifier.cpp:410` |

The `claim_*` runs end in a counterexample; each states what a title, a message
or a comment says, and the counterexample is what the code does instead.

Oddities that are in the models and have no run of their own: `add(emergency:)`
reports a failed save as `callback(true, errorWritingData)`
(`DataManager.swift:62`; its caller looks at the error alone); `clearAllData`
has removed the manual points when it reports that the data could not be cleared
(`DataManager.swift:127`); after a client resync, callbacks put back
take the place of those registered meanwhile (`sync_session.cpp:503`), and if
somebody made the session active in between nobody waits for them; an inactive
session only queues its callbacks, and one that is let go of is unregistered and
destroyed with them (`sync_session.cpp:391`, `sync_manager.cpp:506`): log out,
open the path, wait for a completion, drop the reference, and the callback is
never called. `CompletionPromise` lets a callback be dropped only while it is at
risk in one of these two ways (`AtRisk`); the last
external reference may be let go of inside `unregister_session`, which then
takes the manager's mutex a second time (`sync_manager.cpp:503`), and `log_out`
takes it while it holds the user's, which `get_session` takes in the other order
(`sync_user.cpp:163`): `Deadlocked` names these two, and `OperationsEnd` says
that nothing else keeps an operation from ending.

**Why the bounds are enough.** Operations of the store concern at most two types
(the one meant and the one now in its row) and one response; the second of each
is the bystander whose state must not change. Instants cover the last instant of
a month, its first, the first of the next and both sides of a month whose start
is shifted by the offset; three months suffice since no window reaches further
than the previous one, and a year begins between two of them. `MaxManual` bounds
the number of additions by hand: each is summed on its own; the negative amount
is the one that no range can count. `MaxQueue` (2) bounds the alerts requested
and not presented. In `Screens` the clock stands still: the windows are the
other runs' subject. Two sessions in `sync` let what a thread still has to do
for the first meet the second at the same path; two threads and the client are
what the two-mutex orders need; `MaxOperations` bounds how many calls begin, not
how they interleave or whether they end. Two callbacks in `notifier` are one
that acts and one that the loop has still to come to; two versions are a write
and one that overtakes it, and `claim_suppress` needs the third. `sync` and
`notifier` do not check deadlock, because the bounded calls and versions run
out; that no thread is stuck is said by `OperationsEnd` and `WaitsEnd`.
Symmetry is used in `store` and `claim_invalid`, which check safety and no
liveness.

**Fairness.** `AppSpec` has `WF_appVars(MainLoop)`: the main run loop, as long
as the process is alive, finishes the operation it is in, serves the main queue
and ends transitions. Nothing is assumed of the user, of the system that may
end the process, or of opening the app again. In `SyncSession` each thread goes
on with what it has begun unless it waits for a mutex, and so does the client's
event loop; nobody need call, and the server need not answer. In
`CollectionNotifier` the worker runs if it has been woken since its last run
began (`woken`) and its runs end, the run loop calls `Realm::notify` if it was
signalled and its thread is not in a callback, callbacks return. Nobody need
commit or refresh, an unwoken worker need not run, and a write transaction may
stay open for ever. `CallbacksCatchUp` is stated accordingly: it promises a
callback something while the worker is woken or has never run, or the file is
ahead of the notifier (`Due`). A callback added within a callback meets none of
these and may wait for the next commit; and a `notify` that comes during a write
transaction is lost (`signal = "missed"`), which excuses the rest.

**Mutants.** The operators described as *slips* are used by no specification.
Each is a definition with a plausible error in it, and putting it in place of
the definition after it violates the property it is paired with in
`PROJECT.json`.

## Proofs

All theorems hold for every value of the constants that meets the assumptions
named in the modules (`CalendarAssumption`: finitely many months, which the
zone's offsets keep in order and of which some begin years;
`DataManagerAssumption`: finite sets of types and responses;
`ScreensAssumption`, `SyncSessionAssumption`, ...: the special values are none
of the ordinary ones).

**The store** (`DataManagerProofs`): `TypeCorrect`, `DivergesOnlyInWrite`,
`NoOrphans`, `FailedStaysUnsaved`. The inductive invariant is `StoreInv ==
TypeOK /\ OpenWrite /\ ResponsesPartitioned`. The three need each other: that
the file has no orphans survives a commit only because what is shown has none,
that what is shown has none survives a crash only because the file has none, and
both survive `AddResponse` only because a row that is not there is in no list.
That `~alive => ~writing` and `pc # "idle" => alive` hold is what excludes a
second write on top of an open one.

**Sums** (`FiniteSums`). Points are counted with folds over sets. The library's
induction theorems take an operator, which the provers cannot instantiate, but
finite sets can be reasoned about without them: strict inclusion among the
subsets of a finite set is well-founded, so a *set* of subsets that has each one
whose smaller ones it has, has them all (`SubsetInduction`). From that the fold's
recursion is justified (`MapThenSumSet` is defined through a `CHOOSE` of a
function), then that any element may be taken first (`SumRemove`), that sums of
functions add up, that elements which count nothing may be left out and fewer
elements count no more, and that lists which share out a set
between them have as many entries together as it has elements (`SharedOutOnce`).

**Points** (`DataManagerProofs`): `TotalsAlwaysAgree`, `MonthAlwaysWithinYear`,
`ClearedPointsAreZero`. The first rests on `NoOrphans`, through
`SharedOutOnce`: a response in two lists, or in none, would be counted twice or
not at all. The second is about the windows: the month's start is never before the
year's for any offsets that keep the months in order (`CalendarAssumption`). For
the third, `EmptiedInv` says what a reset or a clear has done by each of its
steps.

**The export** (`CsvExportProofs`): `ExportUsesStore`, `ExportAlwaysAgrees`.
`ExportInv` is `StoreInv` and that a file that is there is
the one that would be written now, as every step that changes what it is made
from takes it away.

**The store and its ledger** (`StoreRefinementProofs`): `BlocksMakeOneChange`,
`ImplementsLedger`, `RemovalsTakeTheirOwn`, `LastReplyIsTrue`. The ledger's view
of a Realm gives each response the type whose list has it; one lemma per
helper says what the view makes of it. With `StoreInv`, `OneChangeAhead` (what is
shown is what is saved or one change of the ledger ahead) is inductive, because
a block runs only when nothing diverges; a commit is then that one change, and
every other step leaves the file alone. The other two theorems follow from the
same invariant.

**The screens** (`ScreensProofs`): `AppUsesStore` says `AppSpec => Spec`, with no
assumption about `TouchWindow`, so that the theorems about the store hold in the
app. With `TouchWindow = FALSE`: `NothingInvalidUsed`, `WhatIsShownIsThere`,
`ListStaysFresh`, `ScreensTypeCorrect`. None of these is inductive. `ScreensInv`
adds to `StoreInv` that the stack has one of five shapes and what it shows
is alive (`NavInv`, with row numbers within the number of types), that at most
one alert asks something, and fits the top screen, while all others are messages
(`AlertInv`), and that a clear runs only under the points screen (`ClearInv`).
The assumption is used where a second touch would let a question outlive the
screen it fits; without it the theorems are false, as `claim_invalid` shows.

**The points screens** (`PointsScreenProofs`): `PointsUseStore`,
`LabelStaysFresh`, `ScreenTypesCorrect`, `ShownAlwaysStored`. Operations that do
not reload are made on other screens, and a clear that goes on is on the points
screen (`ClearsOnPoints`); the first screen comes back only with a reload. For
the strings on the points screen, `ShownInv` follows the object that both screens
share: it is as loaded when the screen is pushed (`HeldFresh`), each addition and
each reset changes it as it changes the count over the store
(`AdditionCounts`, by `SumRemove`), and while the store is behind, in the midst of
a reset or a clear, nothing is claimed.

**Notifications** (`CollectionNotifierProofs`): `NotifierTypes`,
`HaveCallbacksIsTrue`, `ToldInvariant`, `ToldAlwaysExactly`, `ToldOnlyOnce`. The
flag is left alone by a callback added during a delivery, and rightly so only if
the list was not emptied meanwhile; `index` never beyond the list's end
(`TypeOK`) is what makes that inductive, and for the deliveries to keep it the
loop's count must stay within the list (`LoopInList`) although callbacks come and
go. What callbacks are told needs more. `ToldInv` says, for every callback that
nothing disturbed (`AllKnow`): what it was told covers the versions up to the one
it was called at, what is packaged for it, if its turn is still to come, those
from there to the Realm's, and what is accumulated for it those up to the
notifier's, each without a version outside and leaving out only its `own`. That
survives a hand-over because the worker, whatever its three looks at
`have_callbacks()` said, has in hand the versions from the notifier's to its goal
if there is an undisturbed callback (`Finds`), because the versions to skip, the target
and the notifier's are in order (`Orders`), and because a flag that still stands
is about a version of its callback's own (`Flags`). It survives removals in the loop
because callbacks are told apart by their tokens (`ListInv`).

**Sessions** (`SyncSessionProofs`): `SyncTypes`, `SessionsMatch`,
`ReferencedStays`, `NobodyCalledTwice`,
`SessionsKeepPromise`, `WaitersAlwaysWaitedFor`. A callback is in one
place at a time: the list of one session, one step of one thread, or called
(`AtOnePlace`, over all pairs of places); each action moves it. The refinement
of `CompletionPromise` reads a callback's fate off its place: `Fate` is
"waiting" in a step or in the list of a session that exists, and "dropped" when
it is registered, not called and nowhere of these: a session that the last
reference has left takes its list along. A step that disturbs nobody
leaves each callback where it lasts (`Stays`): it may vanish only if it was at
risk, and none comes from nowhere. Fates then change only where the promise
says: with the registration, with a step that calls, and with the end of a
session or the second half of a client resync. That a
referenced session is in the map needs `MapInv`: only one thread at a time is
between locking and unlocking the manager's mutex, the reference it takes is
that of the entry, and `take_reference` is still to come only while the entry
stands. That waiters are waited for is claimed of the sessions somebody can get
at, and weak references (the user's, the wait operations') would let one that
nobody holds come back: so the proof shows that a step finds no session again
that nobody sought before it (`NobodyFound`, which holds of every
step). With that and `Resynced` (waiters to be put back belong to a session that
was resynced, to which the claim does not apply) `WaitersAreWaitedFor` is
inductive: a step changes one session, and either leaves its waiters fewer or
starts an operation for each (`Turn`); a completion ends the one operation and
takes off the list everybody that it answers.

**Only model-checked.** Liveness and what depends on fairness
(`MessagesAppear`, `GoneTypesLeaveList`, `OperationsEnd`, `WaitsEnd`,
`CallbacksCatchUp`), which the provers do not reach, and the claims of the
`claim_*` runs, which are false. `MessagesAppear` is in part a safety property (a
message leaves the alerts and the queue together only if it is dismissed, refused
over another alert, or the process ends), but what it says of the messages among
both is a recursion over a sequence, which no prover can follow. Every other
safety property of a passing run, and both refinements, of the ledger and of the
promise, are stated by theorems.

## Plan

Done: the store with its export, ledger and refinement; the screens and the
points screen on top of it; notifications and sync sessions below it; the proofs
above, which state the safety properties that the runs check.

What would come next:

1. The response screen's draft: edits reach it when a field ends editing
   (`ResponseDetailsViewController.swift:127-139`), the date at once, and
   `onSave` ends the editing after it popped the screen.
2. A module for Realm's write transaction (`write`, `beginWrite`,
   `commitWrite`, `cancelWrite`), of which the store's `Write` and `Commit`
   steps are shown to be an abstraction, joined to `CollectionNotifier`.
3. Several paths of one user in `SyncSession`: `log_out` goes over them under
   the user's mutex.
4. An abstract specification of what the notifier promises a callback, as
   `CompletionPromise` is for the sessions; the invariant `ToldInv` is already
   its mapping.

## Not modelled

The response screen's text fields before they reach the draft: text, edited on
one thread, which no other component sees until it is saved. Layout, styling,
cells, storyboards and the wording of alerts. Code that nothing calls
(`saveEmergencyTypes`, `getLastResponse`, `remove(responseAtIndex:)`, `isEmpty`,
the archiving of `Points`). Several devices or processes on one Realm file for
the app itself, which it does not have.

Of the sync sessions: several paths, the management and permission sessions,
progress notifiers, the server override, metadata and file actions. Of the
notifications: how a changeset is computed from the transaction log and merged,
several collections or Realms of one coordinator, errors of the worker,
`NSNotification`s.

Of the vendored Realm beyond these: nothing. By far the most lines of the
repository are the headers of its storage and query engines
(`Pods/Realm/include/core/`), third-party templates and declarations whose bodies
are in a binary library that is not part of the repository. There is little
behaviour in them to model, and what these models cover of the repository's lines
is small for that reason.
