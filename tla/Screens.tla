------------------------------ MODULE Screens ------------------------------
(***************************************************************************)
(* The view controllers over the store: the navigation stack, the list of  *)
(* types the first screen keeps, and the alerts.  An alert is not shown by *)
(* the handler that asks for it: AlertFactory.present puts a block on the  *)
(* main queue, and the alert's own handler runs when a button is pressed,  *)
(* on whatever the store has become by then.                               *)
(*                                                                         *)
(* A handler that calls DataManager is one step with the block of the      *)
(* write and the callback in it; the commit is the next step, and until it *)
(* is taken (pc # "idle") the main thread does nothing else.               *)
(***************************************************************************)
EXTENDS DataManager, SequencesExt

CONSTANTS
    TouchWindow,  \* may a touch be handled between the request and the block?
    MaxQueue,     \* bound on the alerts requested and not yet presented
    NoType,       \* the emergency type of a screen or an alert that concerns none
    NoResponse    \* what a response screen that adds a response edits

ASSUME ScreensAssumption ==
    /\ TouchWindow \in BOOLEAN /\ MaxQueue \in Nat \ {0}
    /\ NoResponse \notin Responses /\ NoType \notin Emergencies

VARIABLES
    nav,     \* the navigation controller's stack of screens
    moving,  \* a push or pop is under way
    shown,   \* EmergencyViewController.emergencyTypes
    queue,   \* alerts requested from the main queue, in order
    alerts,  \* alerts presented, each over the one before
    ended    \* why the process last ended

uiVars == <<nav, moving, shown, queue, alerts, ended>>
appVars == <<vars, uiVars>>

-----------------------------------------------------------------------------
(* Screens and alerts.  "of" is the emergency type concerned, "row" the    *)
(* row of the list that led to it, "from" the depth of the screen whose    *)
(* handler asked for the alert, 0 once that screen has left the stack.     *)
(* "rows" is what a type's screen decided to list when it was loaded.      *)

TypesScreen == [screen |-> "types", of |-> NoType, response |-> NoResponse, row |-> 0, rows |-> "unloaded"]
PointsScreen == [TypesScreen EXCEPT !.screen = "points"]
DetailsScreen(e, row) == [TypesScreen EXCEPT !.screen = "details", !.of = e, !.row = row]
ResponseScreen(e, r, row) ==
    [TypesScreen EXCEPT !.screen = "response", !.of = e, !.response = r, !.row = row]

Alert(kind, e) == [kind |-> kind, of |-> e, from |-> Len(nav)]
Message == Alert("message", NoType)

Top == Last(nav)
Push(screen) == nav' = Append(nav, screen) /\ moving' = TRUE

(* Alerts hold their screen weakly, or reach the stack through it: once it *)
(* has left the stack they find neither.                                   *)
Forget(s, depth) == [i \in DOMAIN s |-> IF s[i].from = depth THEN [s[i] EXCEPT !.from = 0] ELSE s[i]]

Request(a) == Len(queue) < MaxQueue /\ queue' = Append(queue, a)

-----------------------------------------------------------------------------
(* What the screens read of the store *)

Live(e) == e \in Types(db)

(* getEmergencyTypes: every type, sorted by the month's points, in any     *)
(* order of those with the same points.                                    *)
Listings(s) ==
    {l \in SetToSeqs(Types(s)) :
        \A i, j \in DOMAIN l : i < j =>
           EmergencyPoints(s, l[i]).currentMonth >= EmergencyPoints(s, l[j]).currentMonth}

(* EmergencyViewController.reloadData, on what the store now shows.        *)
Reload == \E l \in Listings(db') : shown' = l

-----------------------------------------------------------------------------
AppInit ==
    /\ Init
    /\ nav = <<TypesScreen>> /\ moving = TRUE
    /\ shown = << >> /\ queue = << >> /\ alerts = << >>
    /\ ended = "not yet"

(* The process ends for this reason; a new one starts on the first screen. *)
End(why) ==
    /\ Die
    /\ nav' = <<TypesScreen>> /\ moving' = TRUE
    /\ shown' = << >> /\ queue' = << >> /\ alerts' = << >>
    /\ ended' = why

(* A handler's call of the store: a Realm object that was deleted raises,  *)
(* and so does beginWrite in the transaction a failed commit left open.    *)
Call(valid, operation) ==
    IF ~CanBegin THEN End("open write")
    ELSE IF ~valid THEN End("invalid object")
    ELSE operation /\ UNCHANGED ended

(* Touches reach the top screen when nothing is presented or moving.       *)
Touch ==
    /\ Idle /\ ~moving /\ alerts = << >>
    /\ queue = << >> \/ TouchWindow

OnScreen(name) == Touch /\ Top.screen = name

(* A touch whose handler only asks for an alert or moves between screens.  *)
StoreUntouched == UNCHANGED <<vars, shown, alerts, ended>>

-----------------------------------------------------------------------------
(* EmergencyViewController *)

(* onResponded reads the type of the emergency in its row.                 *)
OnResponded(row) ==
    /\ OnScreen("types") /\ row \in DOMAIN shown
    /\ IF Live(shown[row])
       THEN Request(Alert("responded", shown[row])) /\ UNCHANGED <<nav, moving>> /\ StoreUntouched
       ELSE End("invalid object")

OnAddCall ==
    /\ OnScreen("types")
    /\ Request(Alert("add type", NoType))
    /\ UNCHANGED <<nav, moving>> /\ StoreUntouched

OnShowPoints ==
    /\ OnScreen("types") /\ Push(PointsScreen)
    /\ UNCHANGED queue /\ StoreUntouched

SelectType(row) ==
    /\ OnScreen("types") /\ row \in DOMAIN shown
    /\ Push(DetailsScreen(shown[row], row))
    /\ UNCHANGED queue /\ StoreUntouched

-----------------------------------------------------------------------------
(* EmergencyDetailsViewController *)

OnDeleteType ==
    /\ OnScreen("details")
    /\ Request(Alert("delete type", Top.of))
    /\ UNCHANGED <<nav, moving>> /\ StoreUntouched

OnEditType ==
    /\ OnScreen("details")
    /\ IF Live(Top.of)
       THEN Request(Alert("rename type", Top.of)) /\ UNCHANGED <<nav, moving>> /\ StoreUntouched
       ELSE End("invalid object")

SelectResponse ==
    /\ OnScreen("details") /\ Top.rows = "responses"
    /\ IF Live(Top.of)
       THEN /\ \E r \in Linked(db, Top.of) : Push(ResponseScreen(Top.of, r, Top.row))
            /\ UNCHANGED queue /\ StoreUntouched
       ELSE End("invalid object")

-----------------------------------------------------------------------------
(* ResponseDetailsViewController, and the back button of every screen *)

Pop ==
    /\ nav' = Front(nav) /\ moving' = TRUE
    /\ queue' = Forget(queue, Len(nav)) /\ alerts' = Forget(alerts, Len(nav))

Back == Touch /\ Len(nav) > 1 /\ Pop /\ UNCHANGED <<vars, shown, ended>>

(* onSave leaves the screen before it calls handleNew, whose callback      *)
(* reloads the list, or handleChanged, whose callback does nothing.        *)
OnSaveNew(r, d) ==
    /\ OnScreen("response") /\ Top.response = NoResponse /\ r \notin Rows(db)
    /\ Call(Live(Top.of), AddResponse(r, Top.of, d) /\ Pop /\ Reload)

OnSaveChanged(d) ==
    /\ OnScreen("response") /\ Top.response # NoResponse
    /\ Call(Top.response \in Rows(db), UpdateResponse(Top.response, d) /\ Pop /\ UNCHANGED shown)

OnDeleteResponse ==
    /\ OnScreen("response") /\ Top.response # NoResponse
    /\ Request(Alert("delete response", Top.of))
    /\ UNCHANGED <<nav, moving>> /\ StoreUntouched

-----------------------------------------------------------------------------
(* PointsViewController; its action sheet is presented at once *)

OnAddPoints ==
    /\ OnScreen("points") /\ Len(preset) < MaxManual /\ Request(Alert("add points", NoType))
    /\ UNCHANGED <<nav, moving>> /\ StoreUntouched

(* export writes a temporary file and asks for the share sheet, or for an  *)
(* alert with the error: a presentation in either case.                    *)
OnExportData ==
    /\ OnScreen("points") /\ Request(Message)
    /\ UNCHANGED <<nav, moving>> /\ StoreUntouched

OnResetSettings ==
    /\ OnScreen("points") /\ alerts' = <<Alert("reset sheet", NoType)>>
    /\ UNCHANGED <<vars, nav, moving, shown, queue, ended>>

-----------------------------------------------------------------------------
(* Alerts: a button dismisses the last one presented and runs its handler *)

Pressed(kind) == Idle /\ ~moving /\ alerts # << >> /\ Last(alerts).kind = kind
Of == Last(alerts).of
AlertOwner == Last(alerts).from
Dismiss == alerts' = Front(alerts)
OnlyDismissed == Dismiss /\ UNCHANGED <<vars, nav, moving, shown, ended>>

(* Cancel, or the only button of a message, or a rename to nothing.        *)
Cancel ==
    /\ \E kind \in {"message", "responded", "add type", "delete type", "rename type",
                    "delete response", "reset sheet", "confirm reset", "confirm clear"} : Pressed(kind)
    /\ OnlyDismissed /\ UNCHANGED queue

(* "Confirm you responded" is followed by the choice of Done and Details.  *)
ConfirmResponded ==
    /\ Pressed("responded")
    /\ IF Live(Of) THEN OnlyDismissed /\ Request(Alert("details", Of)) ELSE End("invalid object")

PressDone(r) ==
    /\ Pressed("details") /\ r \notin Rows(db)
    /\ Call(Live(Of), AddResponse(r, Of, now) /\ Reload /\ Dismiss /\ UNCHANGED <<nav, moving, queue>>)

PressDetails ==
    /\ Pressed("details")
    /\ Push(ResponseScreen(Of, NoResponse, 0))
    /\ Dismiss /\ UNCHANGED <<vars, shown, queue, ended>>

EmptyTypeName ==
    /\ Pressed("add type") /\ OnlyDismissed /\ Request(Message)

(* The callback reloads the list or asks for an alert with the error.      *)
ConfirmAddType(e, name) ==
    /\ Pressed("add type") /\ e \notin Types(db)
    /\ Call(TRUE, /\ AddEmergency(e, name)
                  /\ IF AlreadyExists(db, name)
                     THEN Request(Message) /\ UNCHANGED shown
                     ELSE Reload /\ UNCHANGED queue
                  /\ Dismiss /\ UNCHANGED <<nav, moving>>)

ConfirmRename(name) ==
    /\ Pressed("rename type")
    /\ Call(Live(Of), UpdateEmergency(Of, name) /\ Dismiss /\ UNCHANGED <<nav, moving, shown, queue>>)

(* Slips the runs must find: the screen pops itself and the callback pops  *)
(* again; nothing pops.                                                    *)
ConfirmDeletePoppingTwice ==
    /\ Pressed("delete type")
    /\ Call(Live(Of), /\ RemoveEmergency(Of) /\ UNCHANGED <<shown, queue>>
                      /\ nav' = Front(Front(nav)) /\ moving' = TRUE /\ Dismiss)
ConfirmDeleteStaying ==
    /\ Pressed("delete type")
    /\ Call(Live(Of), RemoveEmergency(Of) /\ Dismiss /\ UNCHANGED <<nav, moving, shown, queue>>)

(* The callback pops whatever is on top, if its screen is on the stack.    *)
ConfirmDeleteType ==
    /\ Pressed("delete type")
    /\ Call(Live(Of), /\ RemoveEmergency(Of) /\ UNCHANGED shown
                      /\ IF AlertOwner # 0
                         THEN /\ nav' = Front(nav) /\ moving' = TRUE
                              /\ queue' = Forget(queue, Len(nav))
                              /\ alerts' = Forget(Front(alerts), Len(nav))
                         ELSE Dismiss /\ UNCHANGED <<nav, moving, queue>>)

(* The screen leaves, and the list removes the response from the type now  *)
(* in the row that the user once selected.                                 *)
ConfirmDeleteResponse ==
    /\ Pressed("delete response")
    /\ IF AlertOwner = 0 THEN OnlyDismissed /\ UNCHANGED queue
       ELSE LET screen == nav[AlertOwner]
            IN  IF screen.row \notin DOMAIN shown THEN End("row out of range")
                ELSE Call(Live(shown[screen.row]) /\ screen.response \in Rows(db),
                          /\ RemoveResponse(screen.response, shown[screen.row]) /\ Reload
                          /\ nav' = Front(nav) /\ moving' = TRUE
                          /\ queue' = Forget(queue, Len(nav))
                          /\ alerts' = Forget(Front(alerts), Len(nav)))

ConfirmAddPoints(p) ==
    /\ Pressed("add points") /\ ManuallyAdd(p)
    /\ Dismiss /\ UNCHANGED <<nav, moving, shown, queue, ended>>

ChooseReset(kind) ==
    /\ Pressed("reset sheet") /\ OnlyDismissed
    /\ IF AlertOwner # 0 THEN Request(Alert(kind, NoType)) ELSE UNCHANGED queue

ConfirmReset ==
    /\ Pressed("confirm reset") /\ ClearPoints
    /\ Dismiss /\ UNCHANGED <<nav, moving, shown, queue, ended>>

ConfirmClear ==
    /\ Pressed("confirm clear")
    /\ Dismiss /\ UNCHANGED <<nav, moving, shown, queue, ended>>
    /\ IF AlertOwner # 0 THEN ClearAllData ELSE UNCHANGED vars

-----------------------------------------------------------------------------
(* The main loop: the rest of an operation of the store, the blocks of the *)
(* main queue, and the end of a transition.                                *)

UiUnchanged == UNCHANGED uiVars

(* The callback of a commit that failed asks for an alert.                 *)
Commits == CommitWrite /\ UiUnchanged
CommitFails == CommitWriteFails /\ queue' = Append(queue, Message)
               /\ UNCHANGED <<nav, moving, shown, alerts, ended>>

ClearProceeds == (ClearPointsDate \/ ClearAllDate \/ ClearAllRealm) /\ UiUnchanged
ClearRaises == pc = "clearRealm" /\ ~CanBegin /\ End("open write")
ClearCommits ==
    /\ ClearAllCommit /\ Reload /\ queue' = Append(queue, Message)
    /\ UNCHANGED <<nav, moving, alerts, ended>>
ClearFails ==
    /\ ClearAllFails /\ queue' = Append(queue, Message)
    /\ UNCHANGED <<nav, moving, shown, alerts, ended>>

(* A slip the runs must find: any presentation may be lost.                *)
PresentOrDrop ==
    /\ Idle /\ queue # << >>
    /\ queue' = Tail(queue)
    /\ alerts' \in {alerts, Append(alerts, Head(queue))}
    /\ UNCHANGED <<vars, nav, moving, shown, ended>>

(* Over an alert that is itself still appearing, UIKit may refuse.         *)
Present ==
    /\ Idle /\ queue # << >>
    /\ queue' = Tail(queue)
    /\ \/ alerts' = Append(alerts, Head(queue))
       \/ alerts # << >> /\ alerts' = alerts
    /\ UNCHANGED <<vars, nav, moving, shown, ended>>

(* A slip the runs must find: the list loaded once, not when it appears.   *)
SettleWithoutLoading ==
    /\ Idle /\ moving
    /\ moving' = FALSE
    /\ nav' = IF Top.screen = "details" /\ Top.rows = "unloaded"
              THEN [nav EXCEPT ![Len(nav)].rows =
                      IF Linked(db, Top.of) = {} THEN "empty" ELSE "responses"]
              ELSE nav
    /\ UNCHANGED <<vars, shown, queue, alerts, ended>>

(* viewDidAppear of the list reloads it; viewWillAppear of a type's screen *)
(* and viewDidLoad of a response's read the objects they show.  A type's   *)
(* screen decides once, when it loads, whether to show the empty row.      *)
Settle ==
    /\ Idle /\ moving
    /\ IF \/ Top.screen \in {"details", "response"} /\ ~Live(Top.of)
          \/ Top.screen = "response" /\ Top.response \notin Rows(db) \cup {NoResponse}
       THEN End("invalid object")
       ELSE /\ moving' = FALSE
            /\ nav' = IF Top.screen = "details" /\ Top.rows = "unloaded"
                      THEN [nav EXCEPT ![Len(nav)].rows =
                              IF Linked(db, Top.of) = {} THEN "empty" ELSE "responses"]
                      ELSE nav
            /\ UNCHANGED <<vars, queue, alerts, ended>>
            /\ IF Top.screen = "types" THEN Reload ELSE UNCHANGED shown

MainLoop ==
    \/ Commits \/ CommitFails
    \/ ClearProceeds \/ ClearRaises \/ ClearCommits \/ ClearFails
    \/ Present \/ Settle

(* The process can be ended, and the app opened again, at any moment.      *)
Killed == alive /\ End("killed")
Opened == Launch /\ UiUnchanged

Touches ==
    \/ \E row \in 1 .. Cardinality(Emergencies) : OnResponded(row) \/ SelectType(row)
    \/ OnAddCall \/ OnShowPoints
    \/ OnDeleteType \/ OnEditType \/ SelectResponse
    \/ Back
    \/ \E d \in Instants : OnSaveChanged(d) \/ \E r \in Responses : OnSaveNew(r, d)
    \/ OnDeleteResponse
    \/ OnAddPoints \/ OnExportData \/ OnResetSettings

Presses ==
    \/ Cancel
    \/ ConfirmResponded \/ PressDetails \/ \E r \in Responses : PressDone(r)
    \/ EmptyTypeName
    \/ \E name \in Names : ConfirmRename(name) \/ \E e \in Emergencies : ConfirmAddType(e, name)
    \/ ConfirmDeleteType \/ ConfirmDeleteResponse
    \/ \E p \in ManualPoints : ConfirmAddPoints(p)
    \/ \E kind \in {"confirm reset", "confirm clear"} : ChooseReset(kind)
    \/ ConfirmReset \/ ConfirmClear

AppNext == Touches \/ Presses \/ MainLoop \/ Killed \/ Opened

(* The main run loop serves its queue, its timers and the layout passes:   *)
(* what it can do on its own does not wait for ever.  Nothing is assumed   *)
(* of the user, who may leave any screen or alert untouched.               *)
AppSpec == AppInit /\ [][AppNext]_appVars /\ WF_appVars(MainLoop)

-----------------------------------------------------------------------------
ScreenTypes == {"types", "details", "response", "points"}
AlertKinds == {"message", "responded", "details", "add type", "delete type", "rename type",
               "delete response", "add points", "reset sheet", "confirm reset", "confirm clear"}

(* Every variable has its type, and the list of types is the stack's root. *)
ScreensTypeOK ==
    /\ nav \in Seq([screen : ScreenTypes, of : Emergencies \cup {NoType},
                    response : Responses \cup {NoResponse}, row : Nat,
                    rows : {"unloaded", "empty", "responses"}])
    /\ nav # << >> /\ Head(nav) = TypesScreen
    /\ moving \in BOOLEAN
    /\ shown \in Seq(Emergencies)
    /\ \A s \in {queue, alerts} :
          s \in Seq([kind : AlertKinds, of : Emergencies \cup {NoType}, from : Nat])
    /\ ended \in {"not yet", "killed", "open write", "invalid object", "row out of range"}

(* The list of types that a settled first screen shows is the store's, in  *)
(* the order of the month's points, although it is reloaded only when the  *)
(* screen appears and in the callbacks of some operations.                 *)
ListFresh ==
    Idle /\ ~moving /\ Top.screen = "types" => shown \in Listings(db)

(* A screen that the user can touch shows an emergency type that is still  *)
(* in the Realm, and a response that is still in that type's list.         *)
ScreensShowLive ==
    Idle /\ ~moving =>
       \A i \in DOMAIN nav :
          /\ nav[i].screen \in {"details", "response"} => Live(nav[i].of)
          /\ nav[i].response # NoResponse => nav[i].response \in Linked(db, nav[i].of)

(* RLMObject_Private.hpp:42-48 refuses an object that "has been deleted or *)
(* invalidated": no handler, callback or row number that outlived what it  *)
(* refers to ends the process.                                             *)
NoInvalidAccess == ended \notin {"invalid object", "row out of range"}

(* The first screen does not go on listing a type that the store no longer *)
(* has: the transition back to that screen ends, and reloads the list.     *)
ListsGone(e) == Top.screen = "types" /\ e \in ToSet(shown) /\ ~Live(e)
GoneTypesLeaveList == \A e \in Emergencies : ListsGone(e) ~> ~ListsGone(e)

(* The messages on the screen and those still to come, in the order in     *)
(* which they were asked for.                                              *)
Messages == SelectSeq(alerts \o queue, LAMBDA a : a.kind = "message")
OneLess == Len(Messages') = Len(Messages) - 1
Dismissed == alerts # << >> /\ Last(alerts).kind = "message" /\ Len(alerts') < Len(alerts) /\ OneLess
Refused == alerts # << >> /\ Len(queue') < Len(queue) /\ OneLess

(* Each error or notice that a handler asks for is presented: none waits   *)
(* in the queue for ever, and none is lost on its way, whatever is pressed *)
(* meanwhile and however many are asked for, until it is dismissed on the  *)
(* screen or the process ends; but UIKit may refuse one, and only one, for *)
(* each presentation over an alert that is on the screen already.          *)
MessagesAppear ==
    /\ [][Len(Messages') < Len(Messages) => ~alive' \/ Dismissed \/ Refused]_appVars
    /\ (\E i \in DOMAIN queue : queue[i].kind = "message")
          ~> ~(\E i \in DOMAIN queue : queue[i].kind = "message")

=============================================================================
