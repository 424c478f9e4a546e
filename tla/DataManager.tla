---------------------------- MODULE DataManager ----------------------------
(***************************************************************************)
(* DataSource/DataManager.swift: the store behind every screen.  It keeps  *)
(* emergency types and their responses in one Realm file and the manually  *)
(* added points and the date of the last reset in UserDefaults.            *)
(*                                                                         *)
(* Everything runs on the main thread, so operations never overlap; what   *)
(* can come between two steps of one is the end of the process.  A Realm   *)
(* write is three steps of the code: beginWrite and the block (which calls *)
(* the caller's callback before anything is saved), then the commit, which *)
(* either saves or fails.  A failed commit does not cancel the write       *)
(* transaction (Realm.swift:210-219): the accessors keep showing the       *)
(* unsaved changes, and the next beginWrite raises                         *)
(* "The Realm is already in a write transaction", which ends the process.  *)
(***************************************************************************)
EXTENDS Calendar, Sequences

CONSTANTS
    Emergencies,   \* identities of Emergency objects
    Responses,     \* identities of Response objects
    Names,         \* type names a user may enter
    NoName,        \* the type of an Emergency that is not in the Realm
    NoDate,        \* the date of a Response that is not; no last reset
    ManualPoints,  \* amounts the "Add points" alert can return
    MaxManual      \* bound on the number of manual additions kept

ASSUME DataManagerAssumption ==
    /\ NoName \notin Names /\ NoDate \notin Int
    /\ IsFiniteSet(Emergencies) /\ IsFiniteSet(Responses)
    /\ ManualPoints \subseteq Int /\ MaxManual \in Nat

VARIABLES
    now,        \* the device's clock, what Date() returns
    alive,      \* the process is running
    db,         \* the Realm as its accessors show it to the app
    file,       \* the Realm as last committed
    writing,    \* the Realm is in a write transaction
    pc,         \* the step the running operation is about to take
    replies,    \* the callback invocations of the current or last operation
    onFailure,  \* the invocation its catch clause would make
    preset,     \* UserDefaults "preset_points"
    lastReset   \* UserDefaults "last_point_reset"

vars == <<now, alive, db, file, writing, pc, replies, onFailure, preset, lastReset>>
process == <<alive, db, writing, pc, replies, onFailure>>
defaults == <<preset, lastReset>>

-----------------------------------------------------------------------------
(* Realm contents: a type name per Emergency, a date per Response and, for *)
(* each Emergency, how often its list holds each Response.                 *)

Snapshot == [type : [Emergencies -> Names \cup {NoName}],
             date : [Responses -> Instants \cup {NoDate}],
             links : [Emergencies -> [Responses -> Nat]]]

Types(s) == {e \in Emergencies : s.type[e] # NoName}
Rows(s) == {r \in Responses : s.date[r] # NoDate}
Linked(s, e) == {r \in Responses : s.links[e][r] > 0}

EmptyRealm == [type |-> [e \in Emergencies |-> NoName],
               date |-> [r \in Responses |-> NoDate],
               links |-> [e \in Emergencies |-> [r \in Responses |-> 0]]]

(* Deleting Response rows also removes every list entry that refers to one.*)
DeleteResponses(s, R) ==
    [s EXCEPT !.date = [r \in Responses |-> IF r \in R THEN NoDate ELSE @[r]],
              !.links = [e \in Emergencies |->
                           [r \in Responses |-> IF r \in R THEN 0 ELSE @[e][r]]]]

DeleteEmergency(s, e) ==
    [s EXCEPT !.type[e] = NoName, !.links[e] = [r \in Responses |-> 0]]

(* Emergency.add(response:) appends to a managed list, which also adds the *)
(* unmanaged response's row; the defaultRealm.add after it finds the row.  *)
AppendResponse(s, e, r, d) == [s EXCEPT !.date[r] = d, !.links[e][r] = @ + 1]

(* Emergency.remove(response:) removes the first entry, if there is one.   *)
Unlink(s, e, r) == [s EXCEPT !.links[e][r] = IF @ > 0 THEN @ - 1 ELSE @]

AlreadyExists(s, name) == \E e \in Types(s) : s.type[e] = name

-----------------------------------------------------------------------------
(* Callbacks *)

Reply(success, error) == [success |-> success, error |-> error]
Success == Reply(TRUE, "none")
NoReply == Reply(FALSE, "none")
Errors == {"none", "alreadyExists", "errorWritingData", "errorClearData", "errorChangingName"}
Replies == [success : BOOLEAN, error : Errors]

-----------------------------------------------------------------------------
(* Points: getPoints of the store and of one emergency type *)

NotBefore(start) == IF lastReset = NoDate \/ start > lastReset THEN start ELSE lastReset

DatedFrom(s, t) == {r \in Rows(s) : s.date[r] >= t}
ManualFrom(t) == {i \in DOMAIN preset : preset[i].date >= t}
ManualSum(I) == MapThenSumSet(LAMBDA i : preset[i].points, I)

(* A slip the runs must find: the reset date not applied to the month.     *)
LoadPointsMonthIgnoringReset(s) ==
    LET year == NotBefore(StartOfYear(now))
        month == StartOfMonth(now)
    IN  [currentYear |-> ManualSum(ManualFrom(year)) + Cardinality(DatedFrom(s, year)),
         currentMonth |-> ManualSum(ManualFrom(month)) + Cardinality(DatedFrom(s, month)),
         previousMonth |-> 0,
         all |-> ManualSum(DOMAIN preset) + Cardinality(Rows(s))]

LoadPoints(s) ==
    LET year == NotBefore(StartOfYear(now))
        month == NotBefore(StartOfMonth(now))
        previous == NotBefore(StartOfPreviousMonth(now))
    IN  [currentYear |-> ManualSum(ManualFrom(month)) + Cardinality(DatedFrom(s, year)),
         currentMonth |-> ManualSum(ManualFrom(month)) + Cardinality(DatedFrom(s, month)),
         previousMonth |->
            ManualSum({i \in ManualFrom(previous) : preset[i].date < month})
            + Cardinality({r \in DatedFrom(s, previous) : s.date[r] <= month}),
         all |-> ManualSum(DOMAIN preset) + Cardinality(Rows(s))]

ListCount(s, e, R) == MapThenSumSet(LAMBDA r : s.links[e][r], R)

(* A slip the runs must find: a type's points not knowing of the reset.    *)
EmergencyPointsIgnoringReset(s, e) ==
    [currentYear |-> ListCount(s, e, DatedFrom(s, StartOfYear(now))),
     currentMonth |-> ListCount(s, e, DatedFrom(s, StartOfMonth(now))),
     previousMonth |-> 0,
     all |-> ListCount(s, e, Responses)]

EmergencyPoints(s, e) ==
    [currentYear |-> ListCount(s, e, DatedFrom(s, NotBefore(StartOfYear(now)))),
     currentMonth |-> ListCount(s, e, DatedFrom(s, NotBefore(StartOfMonth(now)))),
     previousMonth |-> 0,
     all |-> ListCount(s, e, Responses)]

-----------------------------------------------------------------------------
Init ==
    /\ now \in Instants
    /\ alive = TRUE
    /\ db = EmptyRealm /\ file = EmptyRealm
    /\ writing = FALSE
    /\ pc = "idle" /\ replies = << >> /\ onFailure = NoReply
    /\ preset = << >> /\ lastReset = NoDate

Idle == alive /\ pc = "idle"
(* A slip the runs must find: beginWrite joining the write left open.      *)
CanBeginAnyway == TRUE
CanBegin == ~writing

(* The process ends: what it had not committed is gone.                    *)
Die ==
    /\ alive' = FALSE
    /\ db' = file /\ writing' = FALSE
    /\ pc' = "idle" /\ replies' = << >> /\ onFailure' = NoReply
    /\ UNCHANGED <<now, file, preset, lastReset>>

(* try defaultRealm.write { block; callback } up to the commit, with what  *)
(* the catch clause will report.                                           *)
Write(new, reply, failure) ==
    /\ Idle /\ CanBegin
    /\ db' = new /\ writing' = TRUE
    /\ pc' = "commit" /\ replies' = <<reply>> /\ onFailure' = failure
    /\ UNCHANGED <<now, alive, file, preset, lastReset>>

(* A slip the runs must find: no look at the names there are.              *)
AddEmergencyUnchecked(e, name) ==
    /\ e \notin Types(db)
    /\ Write([db EXCEPT !.type[e] = name], Success, Reply(TRUE, "errorWritingData"))

AddEmergency(e, name) ==
    /\ e \notin Types(db)
    /\ IF AlreadyExists(db, name)
       THEN Write(db, Reply(FALSE, "alreadyExists"), Reply(TRUE, "errorWritingData"))
       ELSE Write([db EXCEPT !.type[e] = name], Success, Reply(TRUE, "errorWritingData"))

AddResponse(r, e, d) ==
    /\ r \notin Rows(db) /\ e \in Types(db)
    /\ Write(AppendResponse(db, e, r, d), Success, Reply(FALSE, "errorWritingData"))

(* The emergency is found by a row number the list screen kept, so it need *)
(* not be the one the response belongs to.                                 *)
RemoveResponse(r, e) ==
    /\ r \in Rows(db) /\ e \in Types(db)
    /\ Write(DeleteResponses(Unlink(db, e, r), {r}), Success, Reply(FALSE, "errorClearData"))

UpdateResponse(r, d) ==
    /\ r \in Rows(db)
    /\ Write([db EXCEPT !.date[r] = d], Success, Reply(FALSE, "errorWritingData"))

UpdateEmergency(e, newName) ==
    /\ e \in Types(db)
    /\ Write([db EXCEPT !.type[e] = newName], Success, Reply(FALSE, "errorChangingName"))

(* Slips the runs must find: the type alone, the type and every response.  *)
RemoveEmergencyOnly(e) ==
    /\ e \in Types(db)
    /\ Write(DeleteEmergency(db, e), Success, Reply(FALSE, "errorClearData"))
RemoveEmergencyAndAll(e) ==
    /\ e \in Types(db)
    /\ Write(DeleteEmergency(DeleteResponses(db, Rows(db)), e),
             Success, Reply(FALSE, "errorClearData"))

RemoveEmergency(e) ==
    /\ e \in Types(db)
    /\ Write(DeleteEmergency(DeleteResponses(db, Linked(db, e)), e),
             Success, Reply(FALSE, "errorClearData"))

(* Any of the six above while a failed write is still open.                *)
WriteRaises == Idle /\ ~CanBegin /\ Die

CommitWrite ==
    /\ pc = "commit"
    /\ file' = db /\ writing' = FALSE
    /\ pc' = "idle" /\ onFailure' = NoReply
    /\ UNCHANGED <<now, alive, db, replies, preset, lastReset>>

(* Slips the runs must find: a catch clause that believes the write over,  *)
(* and one that tells nobody.                                              *)
CommitFailsForgettingWrite ==
    /\ pc = "commit"
    /\ pc' = "idle" /\ replies' = Append(replies, onFailure) /\ onFailure' = NoReply
    /\ writing' = FALSE
    /\ UNCHANGED <<now, alive, db, file, preset, lastReset>>
CommitFailsSilently ==
    /\ pc = "commit"
    /\ pc' = "idle" /\ onFailure' = NoReply
    /\ UNCHANGED <<now, alive, db, file, writing, replies, preset, lastReset>>

CommitWriteFails ==
    /\ pc = "commit"
    /\ pc' = "idle" /\ replies' = Append(replies, onFailure) /\ onFailure' = NoReply
    /\ UNCHANGED <<now, alive, db, file, writing, preset, lastReset>>

-----------------------------------------------------------------------------
(* UserDefaults, and the two operations that clear more than one thing *)

ManuallyAdd(p) ==
    /\ Idle /\ Len(preset) < MaxManual
    /\ preset' = Append(preset, [date |-> now, points |-> p])
    /\ replies' = << >>
    /\ UNCHANGED <<now, alive, db, file, writing, pc, onFailure, lastReset>>

(* A slip the runs must find: only the date is kept, the points stay.      *)
ClearPointsKeepingPreset ==
    /\ Idle
    /\ pc' = "resetDate" /\ replies' = << >>
    /\ UNCHANGED <<now, alive, db, file, writing, onFailure, preset, lastReset>>

(* clearPresetPoints is saved before setLastClearPoints is called.         *)
ClearPoints ==
    /\ Idle
    /\ preset' = << >>
    /\ pc' = "resetDate" /\ replies' = << >>
    /\ UNCHANGED <<now, alive, db, file, writing, onFailure, lastReset>>

(* A slip the runs must find: the reset dated back to the month's start.   *)
ClearPointsDateOfMonth ==
    /\ pc = "resetDate"
    /\ lastReset' = StartOfMonth(now)
    /\ pc' = "idle"
    /\ UNCHANGED <<now, alive, db, file, writing, replies, onFailure, preset>>

ClearPointsDate ==
    /\ pc = "resetDate"
    /\ lastReset' = now
    /\ pc' = "idle"
    /\ UNCHANGED <<now, alive, db, file, writing, replies, onFailure, preset>>

ClearAllData ==
    /\ Idle
    /\ preset' = << >>
    /\ pc' = "clearDate" /\ replies' = << >>
    /\ UNCHANGED <<now, alive, db, file, writing, onFailure, lastReset>>

ClearAllDate ==
    /\ pc = "clearDate"
    /\ lastReset' = now
    /\ pc' = "clearRealm"
    /\ UNCHANGED <<now, alive, db, file, writing, replies, onFailure, preset>>

(* A slip the runs must find: the types deleted, their responses not.      *)
ClearAllTypesOnly ==
    /\ pc = "clearRealm" /\ CanBegin
    /\ db' = [EmptyRealm EXCEPT !.date = db.date] /\ writing' = TRUE
    /\ pc' = "clearCommit"
    /\ UNCHANGED <<now, alive, file, replies, onFailure, preset, lastReset>>

ClearAllRealm ==
    /\ pc = "clearRealm" /\ CanBegin
    /\ db' = EmptyRealm /\ writing' = TRUE
    /\ pc' = "clearCommit"
    /\ UNCHANGED <<now, alive, file, replies, onFailure, preset, lastReset>>

ClearAllRaises == pc = "clearRealm" /\ ~CanBegin /\ Die

ClearAllCommit ==
    /\ pc = "clearCommit"
    /\ file' = db /\ writing' = FALSE
    /\ pc' = "idle" /\ replies' = <<Success>>
    /\ UNCHANGED <<now, alive, db, onFailure, preset, lastReset>>

ClearAllFails ==
    /\ pc = "clearCommit"
    /\ pc' = "idle" /\ replies' = <<Reply(FALSE, "errorClearData")>>
    /\ UNCHANGED <<now, alive, db, file, writing, onFailure, preset, lastReset>>

-----------------------------------------------------------------------------
(* The world: the system or the user ends the process at any moment, the   *)
(* user opens the app again, the clock moves (or is set, either way).      *)

Crash == alive /\ Die

Launch ==
    /\ ~alive
    /\ alive' = TRUE
    /\ UNCHANGED <<now, db, file, writing, pc, replies, onFailure, preset, lastReset>>

ClockMoves(t) ==
    /\ now' = t
    /\ UNCHANGED <<process, file, defaults>>

Operation ==
    \/ \E e \in Emergencies, n \in Names : AddEmergency(e, n) \/ UpdateEmergency(e, n)
    \/ \E r \in Responses, e \in Emergencies, d \in Instants : AddResponse(r, e, d)
    \/ \E r \in Responses, e \in Emergencies : RemoveResponse(r, e)
    \/ \E r \in Responses, d \in Instants : UpdateResponse(r, d)
    \/ \E e \in Emergencies : RemoveEmergency(e)
    \/ \E p \in ManualPoints : ManuallyAdd(p)
    \/ ClearPoints \/ ClearAllData

Step ==
    \/ WriteRaises \/ CommitWrite \/ CommitWriteFails
    \/ ClearPointsDate \/ ClearAllDate \/ ClearAllRealm \/ ClearAllRaises
    \/ ClearAllCommit \/ ClearAllFails

World == Crash \/ Launch \/ \E t \in Instants : ClockMoves(t)

Next == Operation \/ Step \/ World

Spec == Init /\ [][Next]_vars

-----------------------------------------------------------------------------
(* Every variable has its type, a transaction is open exactly while one of *)
(* the code's write operations is in it or after its commit failed, and a  *)
(* process that is not running has nothing but the committed file.         *)
TypeOK ==
    /\ now \in Instants
    /\ alive \in BOOLEAN /\ writing \in BOOLEAN
    /\ db \in Snapshot /\ file \in Snapshot
    /\ pc \in {"idle", "commit", "resetDate", "clearDate", "clearRealm", "clearCommit"}
    /\ replies \in Seq(Replies) /\ onFailure \in Replies
    /\ preset \in Seq([date : Instants, points : ManualPoints])
    /\ lastReset \in Instants \cup {NoDate}

(* What the app shows differs from what is saved only inside a write       *)
(* transaction, and no transaction outlives the process.                   *)
OpenWrite ==
    /\ db # file => writing
    /\ pc \in {"commit", "clearCommit"} => writing
    /\ pc # "idle" => alive
    /\ ~alive => ~writing

(* In s every Response row is in the list of exactly one emergency type,   *)
(* once, and no list refers to a row or belongs to a type that is gone.    *)
Partitioned(s) ==
    /\ \A e \in Emergencies, r \in Responses : s.links[e][r] \in {0, 1}
    /\ \A r \in Rows(s) : \E e \in Types(s) : r \in Linked(s, e)
    /\ \A e \in Emergencies : \A r \in Linked(s, e) :
          /\ e \in Types(s) /\ r \in Rows(s)
          /\ \A f \in Emergencies : r \in Linked(s, f) => f = e

(* Deleting a response by a stale row, deleting a type with its responses, *)
(* failed commits and crashes never leave an orphaned response (it would   *)
(* count for ever and be on no screen) nor a list with a deleted one,      *)
(* neither in what the app shows nor in the file.                          *)
ResponsesPartitioned == Partitioned(db) /\ Partitioned(file)

(* The points on the main screen, which DataManager counts over the whole  *)
(* Response table, are the manual points plus the sum of the points that   *)
(* each emergency type's screen counts over its own list.                  *)
TotalsAgree ==
    LET total == LoadPoints(db)
        sum(field) == MapThenSumSet(LAMBDA e : EmergencyPoints(db, e)[field], Types(db))
        manual == ManualSum(ManualFrom(NotBefore(StartOfMonth(now))))
    IN  /\ total.currentMonth = manual + sum("currentMonth")
        /\ total.currentYear = manual + sum("currentYear")
        /\ total.all = ManualSum(DOMAIN preset) + sum("all")

(* The month's points are part of the year's, for the whole store and for  *)
(* each type, wherever the reset date and the clock stand.                 *)
MonthWithinYear ==
    LET within(points) == points.currentMonth <= points.currentYear
    IN  within(LoadPoints(db)) /\ \A e \in Types(db) : within(EmergencyPoints(db, e))

(* A change whose commit failed was reported as failed: until the process  *)
(* ends, no later operation saves it after all or anything on top of it,   *)
(* changes what is shown or opens another write; and ending the process    *)
(* does not save it either.                                                *)
WriteLeftOpen == writing /\ pc \notin {"commit", "clearCommit"}
FailedNeverDurable ==
    [][WriteLeftOpen => file' = file /\ (alive' => WriteLeftOpen' /\ db' = db)]_vars

(* The callback is told of success before anything is saved, and told     *)
(* again when the save fails: what it hears last, when the operation is    *)
(* over, says whether the change was saved or its write is still open.     *)
LastReplyTellsOutcome ==
    [][(pc \in {"commit", "clearCommit"} /\ pc' = "idle" /\ alive') =>
         LET last == replies'[Len(replies')]
         IN  writing' <=> last.error \notin {"none", "alreadyExists"}]_vars

(* What one saved change can take away: removing a type takes its own      *)
(* responses and no other, and only deleting a single response or clearing *)
(* everything takes a response from a type that stays or goes with all.    *)
OnlyOwnResponsesLost ==
    [][LET gone == Types(file) \ Types(file')
           lost == Rows(file) \ Rows(file')
           owned == UNION {Linked(file, e) : e \in gone}
       IN  IF gone = {} THEN Cardinality(lost) <= 1 ELSE lost = owned]_vars

(* When "Reset Points" or "Clear All Data" has done its work, the points   *)
(* loaded next are only those of responses dated from the reset on, and    *)
(* after clearing all data there are none at all.                          *)
ClearZeroesPoints ==
    [][/\ pc = "resetDate" /\ pc' = "idle" /\ alive' =>
            /\ LoadPoints(db)'.currentYear <= Cardinality(DatedFrom(db', now))
            /\ LoadPoints(db)'.currentMonth <= Cardinality(DatedFrom(db', now))
       /\ pc = "clearCommit" /\ pc' = "idle" /\ alive' /\ ~writing' =>
            \A f \in {"currentYear", "currentMonth", "previousMonth", "all"} :
               LoadPoints(db)'[f] = 0]_vars

=============================================================================
