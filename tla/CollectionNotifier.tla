------------------------- MODULE CollectionNotifier -------------------------
(***************************************************************************)
(* How a change of the Realm file reaches the callbacks of one collection: *)
(* the Realm on the thread it is used on, the CollectionNotifier of one of *)
(* its collections, the coordinator's worker thread that runs the notifier *)
(* in the background, and whoever else commits to the file (ObjectStore's  *)
(* shared_realm.cpp, collection_notifier.cpp, results_notifier.cpp and     *)
(* realm_coordinator.cpp).                                                 *)
(*                                                                         *)
(* A change is the number of the version that made it and a changeset the  *)
(* set of those numbers; every version changes the collection.  A step is  *)
(* what happens while m_notifier_mutex is held, or between two of those.   *)
(***************************************************************************)
EXTENDS Integers, Sequences, SequencesExt

CONSTANTS
    MaxCallbacks,  \* bound on the callbacks ever added
    MaxVersion     \* bound on the versions of the file

ASSUME CollectionNotifierAssumption == MaxCallbacks \in Nat \ {0} /\ MaxVersion \in Nat \ {0}

(* m_next_token counts the callbacks added.                                *)
Tokens == 1 .. MaxCallbacks

VARIABLES
    latest,    \* the latest version of the file
    at,        \* the version the Realm reads
    writing,   \* the Realm is in a write transaction
    pc,        \* what the Realm's thread is in: m_is_sending_notifications
               \* unless it is "idle"
    target,    \* the version it waits for the notifier to reach
    cbs,       \* m_callbacks
    index,     \* m_callback_index, counted from 1; 0 is npos
    count,     \* m_callback_count
    have,      \* m_have_callbacks
    has,       \* the notifier's m_sg_version, m_has_run, and whether it is in
               \* m_notifiers (not m_new_notifiers)
    woken,     \* the worker has been woken since its run last began
    worker,    \* where the worker is, the versions it runs to, what it found
    skip,      \* m_notifier_skip_version
    signal,    \* the run loop is to call Realm::notify, or called it in vain
    told,      \* what each callback was told: the changes, and up to where
    own,       \* per callback, the versions it was not to be told of
    disturbed  \* callbacks that the code knowingly or not fails to inform

vars == <<latest, at, writing, pc, target, cbs, index, count, have, has,
          woken, worker, skip, signal, told, own, disturbed>>
file == <<latest, at, writing>>
loop == <<index, count>>
notifier == <<cbs, index, count, have, has>>
background == <<woken, worker, skip, signal>>
history == <<told, own, disturbed>>

Between(v, w) == {x \in 1 .. MaxVersion : v < x /\ x <= w}
Registered == {cbs[i].token : i \in DOMAIN cbs}
Place(k) == CHOOSE i \in DOMAIN cbs : cbs[i].token = k

NotTold == [changes |-> {}, upto |-> -1]
Gone == [changes |-> {}, upto |-> -2]

Init ==
    /\ latest = 0 /\ at = 0 /\ writing = FALSE
    /\ pc = "idle" /\ target = 0
    /\ cbs = << >> /\ index = 0 /\ count = 0 /\ have = FALSE
    /\ has = [version |-> 0, run |-> FALSE, listed |-> FALSE]
    /\ woken \in BOOLEAN /\ signal \in {"none", "signalled"}
    /\ worker = [at |-> "idle", skip |-> 0, target |-> 0, tracked |-> FALSE, seen |-> -1, changes |-> {}]
    /\ skip = 0
    /\ told = [k \in Tokens |-> NotTold] /\ own = [k \in Tokens |-> {}] /\ disturbed = {}

-----------------------------------------------------------------------------
(* Callbacks.  Between for_each_callback's turns the user's code runs, and *)
(* may add and remove callbacks: pc is "calling" then.                     *)

UserCode == pc \in {"idle", "calling"}

(* The version that the worker's run is taking the notifier to.            *)
Goal == IF worker.skip > 0 THEN worker.skip ELSE worker.target

(* What the run under way will hand over is just what follows the          *)
(* notifier's version: the rows it compares with are of that version, and  *)
(* none of the times it asked for callbacks was there none.  To a callback *)
(* added otherwise some of it is lost, or some of what it knows is told.   *)
InStep ==
    CASE worker.at \in {"query", "calculate"} -> has.run => worker.tracked /\ worker.seen = has.version
      [] worker.at = "handover" ->
            worker.seen = Goal /\ (has.run => worker.changes = Between(has.version, Goal))
      [] OTHER -> has.run => worker.seen = has.version
AddedLate(k) == IF InStep THEN {} ELSE {k}

New(k) == k \notin Registered /\ told[k] = NotTold

(* A slip the runs must find: nobody is woken.                             *)
WakeNobody == UNCHANGED woken
WakeWorker == woken' = TRUE

AddCallback(k) ==
    /\ UserCode /\ New(k) /\ \A j \in 1 .. k - 1 : ~New(j)
    /\ cbs' = Append(cbs, [token |-> k, accumulated |-> {}, deliver |-> {},
                           initial |-> FALSE, skip |-> FALSE])
    /\ IF index = 0 THEN have' = TRUE /\ WakeWorker ELSE UNCHANGED <<have, woken>>
    /\ disturbed' = disturbed \cup AddedLate(k)
    /\ UNCHANGED <<file, pc, target, loop, has, worker, skip, signal, told, own>>

(* A slip the runs must find: the turn not given back when its callback goes. *)
IndexWithoutStrict(i) == IF index > i THEN index - 1 ELSE index
IndexWithout(i) == IF index # 0 /\ index >= i THEN index - 1 ELSE index

(* m_callback_count is for every callback that goes, also one that came    *)
(* after it was taken: the loop then ends early.                           *)
CutShort(k) == IF pc \in {"calling", "delivering"} /\ Place(k) > count THEN Registered ELSE {}

(* A callback is removed from any thread, but for the stretches of the     *)
(* loop where it holds m_callback_mutex.                                   *)
RemoveCallback(k) ==
    /\ k \in Registered /\ (pc = "delivering" => index = 0)
    /\ index' = IndexWithout(Place(k))
    /\ count' = count - 1
    /\ cbs' = RemoveAt(cbs, Place(k))
    /\ have' = (Len(cbs) # 1)
    /\ disturbed' = (disturbed \cup CutShort(k)) \ {k}
    /\ told' = [told EXCEPT ![k] = Gone] /\ own' = [own EXCEPT ![k] = {}]
    /\ UNCHANGED <<file, pc, target, has, background>>

(* A slip the runs must find: accumulated changes copied, not moved.       *)
PackagedKeeping == [i \in DOMAIN cbs |-> [cbs[i] EXCEPT !.deliver = cbs[i].accumulated]]

(* package_for_delivery, followed by the first round of after_advance.     *)
Packaged == [i \in DOMAIN cbs |-> [cbs[i] EXCEPT !.deliver = cbs[i].accumulated, !.accumulated = {}]]
Package ==
    /\ cbs' = Packaged /\ count' = Len(cbs) /\ pc' = "delivering"
NoPackage == UNCHANGED <<cbs, count>> /\ pc' = "idle"

(* The next callback that has not had its first call or has changes to be  *)
(* told of is called.                                                      *)
Deliver ==
    /\ pc = "delivering" /\ index < count
    /\ index' = index + 1
    /\ LET cb == cbs[index + 1]
       IN  IF cb.initial /\ cb.deliver = {}
           THEN UNCHANGED <<pc, cbs, told>>
           ELSE /\ pc' = "calling"
                /\ cbs' = [cbs EXCEPT ![index + 1].initial = TRUE, ![index + 1].deliver = {}]
                /\ told' = [told EXCEPT ![cb.token] =
                              [changes |-> IF cb.initial THEN @.changes \cup cb.deliver
                                                         ELSE Between(0, at),
                               upto |-> at]]
    /\ UNCHANGED <<file, target, count, have, has, background, own, disturbed>>

Return ==
    /\ pc = "calling" /\ pc' = "delivering"
    /\ UNCHANGED <<file, target, notifier, background, history>>

Delivered ==
    /\ pc = "delivering" /\ index >= count
    /\ pc' = "idle" /\ index' = 0
    /\ UNCHANGED <<file, target, cbs, count, have, has, background, history>>

-----------------------------------------------------------------------------
(* The Realm *)

(* The run loop comes to a signal and calls Realm::notify.                 *)
Signalled == pc = "idle" /\ signal = "signalled" /\ UNCHANGED <<woken, worker, skip>>

(* In a write transaction it does nothing, and is not called again.        *)
NotifyInWrite ==
    /\ Signalled /\ writing
    /\ signal' = "missed"
    /\ UNCHANGED <<file, pc, target, notifier, history>>

(* Nothing new in the file: what the notifier has found is delivered if it *)
(* is about the Realm's version.                                           *)
Notify ==
    /\ Signalled /\ ~writing /\ at = latest
    /\ signal' = "none"
    /\ IF has.run /\ has.version = at THEN Package ELSE NoPackage
    /\ UNCHANGED <<file, target, index, have, has, history>>

(* Something new: advance_to_ready takes the Realm to the version the      *)
(* notifier is at, or to the latest if it has never run.                   *)
AdvanceToLatest == ~has.run /\ at' = latest /\ NoPackage /\ UNCHANGED disturbed
AdvanceToReady == has.run /\ has.version >= at /\ at' = has.version /\ Package /\ UNCHANGED disturbed

(* After a write begun in a callback the Realm may be past the notifier:   *)
(* what was found meanwhile is packaged, dropped, and overwritten by what  *)
(* is packaged next.                                                       *)
Dropped == {cbs[i].token : i \in {j \in DOMAIN cbs : cbs[j].accumulated # {}}}
DropOutOfDate ==
    /\ has.run /\ has.version < at
    /\ cbs' = Packaged /\ count' = Len(cbs) /\ disturbed' = disturbed \cup Dropped
    /\ UNCHANGED <<at, pc>>

NotifyChanged ==
    /\ Signalled /\ ~writing /\ at < latest
    /\ signal' = "none"
    /\ AdvanceToLatest \/ AdvanceToReady \/ DropOutOfDate
    /\ UNCHANGED <<latest, writing, target, index, have, has, told, own>>

(* refresh and beginWrite first wait for the notifier, if it has callbacks,*)
(* to reach the latest version; the write lock is held while beginWrite    *)
(* waits.                                                                  *)
Refresh ==
    /\ pc = "idle" /\ ~writing
    /\ pc' = "refreshing" /\ target' = latest
    /\ UNCHANGED <<file, notifier, background, history>>

BeginWrite ==
    /\ pc = "idle" /\ ~writing /\ latest < MaxVersion
    /\ pc' = "beginning" /\ target' = latest /\ writing' = TRUE
    /\ UNCHANGED <<latest, at, notifier, background, history>>

(* A slip the runs must find: waiting for a version nobody has made.       *)
ReadyPast == ~have \/ (has.run /\ has.version > target)
Ready == ~have \/ (has.run /\ has.version >= target)

Waited ==
    /\ pc \in {"refreshing", "beginning"} /\ Ready
    /\ IF has.run THEN cbs' = Packaged /\ count' = Len(cbs) ELSE UNCHANGED <<cbs, count>>
    /\ IF has.run /\ has.version >= target
       THEN at' = has.version /\ pc' = "delivering"
       ELSE at' = latest /\ pc' = "idle"
    /\ target' = 0
    /\ UNCHANGED <<latest, writing, index, have, has, background, history>>

(* Begun in a callback, a write neither waits nor delivers.  What it and   *)
(* its commit move the Realm past, the callbacks the loop still comes to   *)
(* see before they are told of it.                                         *)
StillToCall == IF pc = "calling" THEN {cbs[i].token : i \in index + 1 .. count} ELSE {}

BeginNestedWrite ==
    /\ pc = "calling" /\ ~writing /\ latest < MaxVersion
    /\ writing' = TRUE /\ at' = latest
    /\ disturbed' = IF at < latest THEN disturbed \cup StillToCall ELSE disturbed
    /\ UNCHANGED <<latest, pc, target, notifier, background, told, own>>

(* suppress_next_notification for each token, then commit_write: the       *)
(* notifier's own version is put down for the worker under the lock.       *)
Skipping(T) == [i \in DOMAIN cbs |-> [cbs[i] EXCEPT !.skip = @ \/ cbs[i].token \in T]]
NotFor(T) == [k \in Tokens |-> IF k \in T THEN own[k] \cup {latest + 1} ELSE own[k]]
(* Where beginWrite did not wait, a flag may take what others changed, and *)
(* its version is overwritten by the commit that follows.                  *)
Flagged(T) == {cbs[i].token : i \in {j \in DOMAIN cbs : Skipping(T)[j].skip}}
Behind(T) == IF has.run /\ has.version = latest THEN {} ELSE Flagged(T)

Commit(T) ==
    /\ UserCode /\ writing
    /\ cbs' = Skipping(T)
    /\ latest' = latest + 1 /\ at' = latest + 1 /\ writing' = FALSE
    /\ skip' = (IF has.listed THEN latest + 1 ELSE skip) /\ WakeWorker
    /\ own' = NotFor(T) /\ disturbed' = disturbed \cup StillToCall \cup Behind(T)
    /\ UNCHANGED <<pc, target, loop, have, has, worker, signal, told>>

(* The commit may fail, and the flags stay.                                *)
CommitFails(T) ==
    /\ UserCode /\ writing /\ T # {}
    /\ cbs' = Skipping(T)
    /\ disturbed' = disturbed \cup T
    /\ UNCHANGED <<file, pc, target, loop, have, has, background, told, own>>

Cancel ==
    /\ UserCode /\ writing
    /\ writing' = FALSE
    /\ UNCHANGED <<latest, at, pc, target, notifier, background, history>>

(* Another thread or process commits, and wakes this process's worker.     *)
OtherCommits ==
    /\ ~writing /\ latest < MaxVersion
    /\ latest' = latest + 1 /\ WakeWorker
    /\ UNCHANGED <<at, writing, pc, target, notifier, worker, skip, signal, history>>

-----------------------------------------------------------------------------
(* The worker: run_async_notifiers *)

(* Under the lock it picks the version to run to and takes the skip        *)
(* version, to which it runs first, with the notifiers it has listed       *)
(* before.  Any process with the file open may wake it for nothing.        *)
StartRun ==
    /\ worker.at = "idle"
    /\ worker' = [worker EXCEPT !.at = "track", !.skip = skip, !.target = latest]
    /\ skip' = 0 /\ woken' = FALSE
    /\ has' = [has EXCEPT !.listed = TRUE]
    /\ UNCHANGED <<file, pc, target, cbs, loop, have, signal, history>>

Working(place) == worker.at = place /\ UNCHANGED <<file, pc, target, notifier, woken, skip, signal, history>>

(* add_required_change_info: whether the log is to be read for the changes *)
(* of the collection's table, from the notifier's version to the goal.     *)
TrackChanges ==
    /\ Working("track")
    /\ worker' = [worker EXCEPT !.at = "query", !.tracked = has.run /\ have]

(* need_to_run: without callbacks the query may be left unrun.             *)
RunQuery ==
    /\ Working("query")
    /\ \/ worker' = [worker EXCEPT !.at = "calculate"]
       \/ ~have /\ worker' = [worker EXCEPT !.at = "handover", !.tracked = FALSE]

(* calculate_changes: without what the log says, or with rows older than   *)
(* it speaks of, some of the changes are found and some are not.           *)
Found ==
    IF ~(has.run /\ have) THEN {{}}
    ELSE IF worker.tracked /\ worker.seen = has.version THEN {Between(has.version, Goal)}
    ELSE SUBSET Between(worker.seen, Goal)
CalculateChanges ==
    /\ Working("calculate")
    /\ \E changes \in Found :
          worker' = [worker EXCEPT !.at = "handover", !.tracked = FALSE,
                                   !.changes = changes, !.seen = Goal]

(* A slip the runs must find: the changes of one run replacing those kept. *)
ReplaceChanges ==
    [i \in DOMAIN cbs |->
       IF cbs[i].skip THEN [cbs[i] EXCEPT !.skip = FALSE]
                      ELSE [cbs[i] EXCEPT !.accumulated = worker.changes]]

(* prepare_handover: add_changes gives every callback the changes, except  *)
(* one that is to skip these.                                              *)
AddChanges ==
    [i \in DOMAIN cbs |->
       IF cbs[i].skip THEN [cbs[i] EXCEPT !.skip = FALSE]
                      ELSE [cbs[i] EXCEPT !.accumulated = @ \cup worker.changes]]

(* After the run to the skip version comes the one to the target; at its   *)
(* end on_change signals the Realm's run loop.                             *)
HandOver ==
    /\ worker.at = "handover"
    /\ has' = [has EXCEPT !.version = Goal, !.run = TRUE]
    /\ cbs' = AddChanges
    /\ LET more == worker.skip > 0
       IN  /\ worker' = [worker EXCEPT !.at = IF more THEN "track" ELSE "idle", !.skip = 0,
                                       !.target = IF more THEN @ ELSE 0, !.changes = {}]
           /\ signal' = IF more THEN signal ELSE "signalled"
    /\ UNCHANGED <<file, pc, target, loop, have, woken, skip, history>>

-----------------------------------------------------------------------------
RealmSteps == Deliver \/ Return \/ Delivered \/ Waited
WorkerSteps == TrackChanges \/ RunQuery \/ CalculateChanges \/ HandOver
Notified == NotifyInWrite \/ Notify \/ NotifyChanged

Next ==
    \/ \E k \in Tokens : AddCallback(k) \/ RemoveCallback(k)
    \/ RealmSteps \/ Notified \/ Refresh \/ BeginWrite \/ BeginNestedWrite
    \/ \E T \in SUBSET Registered : Commit(T) \/ CommitFails(T)
    \/ Cancel \/ OtherCommits
    \/ StartRun \/ WorkerSteps

Spec == Init /\ [][Next]_vars

(* Woken, the worker runs, and its runs end; a run loop that is signalled  *)
(* calls notify once the thread is back in it; callbacks return.  Nobody   *)
(* must commit or ask.                                                     *)
Fairness ==
    /\ WF_vars(woken /\ StartRun) /\ WF_vars(WorkerSteps)
    /\ WF_vars(Notified) /\ WF_vars(RealmSteps)

FairSpec == Spec /\ Fairness

-----------------------------------------------------------------------------
Versions == 0 .. MaxVersion
Changes == SUBSET (1 .. MaxVersion)

(* Every variable has its type.                                            *)
TypeOK ==
    /\ latest \in Versions /\ at \in Versions /\ target \in Versions /\ skip \in Versions
    /\ writing \in BOOLEAN /\ have \in BOOLEAN
    /\ pc \in {"idle", "delivering", "calling", "refreshing", "beginning"}
    /\ cbs \in Seq([token : Tokens, accumulated : Changes, deliver : Changes,
                    initial : BOOLEAN, skip : BOOLEAN])
    /\ index \in 0 .. Len(cbs)
    /\ has \in [version : Versions, run : BOOLEAN, listed : BOOLEAN]
    /\ worker \in [at : {"idle", "track", "query", "calculate", "handover"},
                   skip : Versions, target : Versions, tracked : BOOLEAN,
                   seen : -1 .. MaxVersion, changes : Changes]
    /\ woken \in BOOLEAN /\ signal \in {"none", "signalled", "missed"}
    /\ told \in [Tokens -> [changes : Changes, upto : -2 .. MaxVersion]]
    /\ own \in [Tokens -> Changes] /\ disturbed \subseteq Tokens

(* The cached m_have_callbacks says whether there are callbacks, although  *)
(* it is not set by what a callback adds: removing the last callback while *)
(* being delivered to always brings the index back to npos.  Were it stale *)
(* the other way round, the callbacks there are would not be told again.   *)
HaveCallbacks == have <=> cbs # << >>

(* A callback knows of exactly the changes up to the version it was last   *)
(* called at, whichever thread committed them and however runs of the      *)
(* worker, commits, refreshes and other callbacks coming and going fell;   *)
(* what it is left out of is at most the writes that were to leave it out, *)
(* although the worker may find them together with those of others.        *)
ToldExactly ==
    \A k \in Tokens \ disturbed : told[k].upto >= 0 =>
       /\ told[k].changes \subseteq Between(0, told[k].upto)
       /\ Between(0, told[k].upto) \subseteq told[k].changes \cup own[k]

(* Nobody is told of a change twice.                                       *)
ToldOnce ==
    [][pc = "delivering" /\ pc' = "calling" =>
         LET cb == cbs[index']
         IN  cb.initial /\ cb.token \notin disturbed =>
               cb.deliver \cap told[cb.token].changes = {}]_vars

(* refresh and beginWrite return: the worker gets to the version they wait *)
(* for, and nobody it waits for waits for them.                            *)
WaitsEnd == pc \in {"refreshing", "beginning"} ~> pc \notin {"refreshing", "beginning"}

(* Whenever the notifier is behind the file, or the worker has been woken  *)
(* or has not run yet, every callback there is comes to know all the       *)
(* changes it is not to be left out of, unless it goes or the run loop's   *)
(* call found the Realm writing.  So a callback added while callbacks are  *)
(* called, which wakes nobody, is promised nothing before the next commit. *)
Due(k) == k \in Registered /\ (woken \/ ~has.run \/ has.version < latest)
Informed(k) == told[k].upto >= 0 /\ Between(0, latest) \subseteq told[k].changes \cup own[k]
Excused(k) == k \notin Registered \/ k \in disturbed \/ signal = "missed"
CallbacksCatchUp == \A k \in Tokens : Due(k) ~> Informed(k) \/ Excused(k)

(* What RLMRealm.h says of commitWriteTransactionWithoutNotifying: a       *)
(* callback it names is not told of what the transaction changed.          *)
SuppressedNotTold ==
    [][pc = "delivering" /\ pc' = "calling" =>
         LET cb == cbs[index']
         IN  cb.initial => cb.deliver \cap own[cb.token] = {}]_vars
=============================================================================
