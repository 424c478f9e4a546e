---------------------------- MODULE PointsScreen ----------------------------
(***************************************************************************)
(* The points on the first screen and on the points screen, beside the     *)
(* store they were loaded from.  The first screen's Points object is       *)
(* handed to PointsViewController, which never reads the store again: it   *)
(* adds to the object, or zeroes it, after each operation of its own.      *)
(* EmergencyViewController.loadData replaces its own object, so the two    *)
(* screens share one only until a clear of all data succeeds.              *)
(***************************************************************************)
EXTENDS DataManager

VARIABLES
    held,      \* EmergencyViewController.points
    label,     \* the numbers in its pointsLabel
    screen,    \* what is on top: the first screen, the points screen or another
    points,    \* PointsViewController.points
    shared,    \* points and held are one object
    strings,   \* PointsViewController.pointStrings
    steady     \* history: the clock has not moved since held was loaded

screenVars == <<held, label, screen, points, shared, strings, steady>>
allVars == <<vars, screenVars>>

NoPoints == [currentYear |-> 0, currentMonth |-> 0, previousMonth |-> 0, all |-> 0]

(* A slip the runs must find: the addition forgotten in the year.          *)
IncreasedMonthOnly(p, n) == [p EXCEPT !.all = @ + n, !.currentMonth = @ + n]
Increased(p, n) == [p EXCEPT !.all = @ + n, !.currentMonth = @ + n, !.currentYear = @ + n]

Label(p) == <<p.currentMonth, p.currentYear>>
(* A slip the runs must find: one title too many for the numbers.          *)
StringsTooFew(p) == <<p.currentYear, p.currentMonth>>
Strings(p) == <<p.currentYear, p.currentMonth, p.previousMonth>>

(* loadData and setupPoints of the first screen, once the store has moved. *)
Load ==
    /\ held' = LoadPoints(db)'
    /\ label' = Label(held')
    /\ steady' = TRUE

(* A change that PointsViewController makes to its object and shows.       *)
Show(p) ==
    /\ points' = p /\ strings' = Strings(p)
    /\ held' = IF shared THEN p ELSE held

ScreenInit ==
    /\ Init
    /\ held = NoPoints /\ label = <<0, 0>> /\ steady = TRUE
    /\ screen = "first" /\ points = NoPoints /\ shared = FALSE /\ strings = << >>

On(name) == Idle /\ screen = name

(* Operations of the other screens and of the alerts over the first one.   *)
(* The callbacks of adding a type, adding a response and removing one      *)
(* reload, unless there is an error; those of the others do not.           *)
Reloading ==
    /\ \/ On("first") /\ \E e \in Emergencies, n \in Names : AddEmergency(e, n)
       \/ (On("first") \/ On("other")) /\
             \E e \in Emergencies, r \in Responses, d \in Instants : AddResponse(r, e, d)
       \/ On("other") /\ \E e \in Emergencies, r \in Responses : RemoveResponse(r, e)
    /\ IF replies'[1].error = "none" THEN Load ELSE UNCHANGED <<held, label, steady>>
    /\ UNCHANGED <<screen, points, shared, strings>>

NotReloading ==
    /\ On("other")
    /\ \/ \E e \in Emergencies, n \in Names : UpdateEmergency(e, n)
       \/ \E e \in Emergencies : RemoveEmergency(e)
       \/ \E r \in Responses, d \in Instants : UpdateResponse(r, d)
    /\ UNCHANGED screenVars

OnShowOther ==
    /\ On("first")
    /\ screen' = "other"
    /\ UNCHANGED <<vars, held, label, points, shared, strings, steady>>

OnShowPoints ==
    /\ On("first")
    /\ screen' = "points" /\ points' = held /\ shared' = TRUE /\ strings' = Strings(held)
    /\ UNCHANGED <<vars, held, label, steady>>

(* A slip the runs must find: the first screen appears and keeps its own.  *)
BackWithoutLoading ==
    /\ On("points") \/ On("other")
    /\ screen' = "first" /\ shared' = FALSE
    /\ UNCHANGED <<vars, held, label, points, strings, steady>>

(* The first screen appears again and reloads.                             *)
Back ==
    /\ On("points") \/ On("other")
    /\ screen' = "first" /\ shared' = FALSE
    /\ UNCHANGED <<vars, points, strings>>
    /\ Load

OnAddPoints(p) ==
    /\ On("points")
    /\ ManuallyAdd(p) /\ Show(Increased(points, p))
    /\ UNCHANGED <<label, screen, shared, steady>>

OnResetPoints == On("points") /\ ClearPoints /\ UNCHANGED screenVars
ResetPointsDone ==
    /\ ClearPointsDate /\ Show(NoPoints)
    /\ UNCHANGED <<label, screen, shared, steady>>

OnClearData == On("points") /\ ClearAllData /\ UNCHANGED screenVars
ClearDataStep == (ClearAllDate \/ ClearAllRealm) /\ UNCHANGED screenVars

(* The first screen's callback loads a new object; then, whatever the      *)
(* callback was told, the points screen zeroes the object it has.          *)
ClearDataDone ==
    /\ ClearAllCommit /\ Load
    /\ shared' = FALSE /\ points' = NoPoints /\ strings' = Strings(NoPoints)
    /\ UNCHANGED screen
ClearDataFailed ==
    /\ ClearAllFails /\ Show(NoPoints)
    /\ UNCHANGED <<label, screen, shared, steady>>

(* Commits, raised exceptions, crashes and the clock leave the screens as  *)
(* they are until the process ends.                                        *)
Meanwhile ==
    \/ (CommitWrite \/ CommitWriteFails) /\ UNCHANGED screenVars
    \/ /\ \E t \in Instants : ClockMoves(t)
       /\ steady' = (steady /\ now' = now)
       /\ UNCHANGED <<held, label, screen, points, shared, strings>>
    \/ /\ ClearAllRaises \/ Crash \/ (~On("points") /\ WriteRaises)
       /\ held' = NoPoints /\ label' = <<0, 0>> /\ steady' = TRUE
       /\ screen' = "first" /\ points' = NoPoints /\ shared' = FALSE /\ strings' = << >>
    \/ Launch /\ Load /\ UNCHANGED <<screen, points, shared, strings>>

ScreenNext ==
    \/ Reloading \/ NotReloading \/ OnShowOther \/ OnShowPoints \/ Back
    \/ \E p \in ManualPoints : OnAddPoints(p)
    \/ OnResetPoints \/ ResetPointsDone
    \/ OnClearData \/ ClearDataStep \/ ClearDataDone \/ ClearDataFailed
    \/ Meanwhile

ScreenSpec == ScreenInit /\ [][ScreenNext]_allVars

-----------------------------------------------------------------------------
PointsType == [currentYear : Int, currentMonth : Int, previousMonth : Int, all : Int]

(* Every variable has its type.                                            *)
ScreenTypeOK ==
    /\ held \in PointsType /\ points \in PointsType
    /\ label \in Int \X Int
    /\ screen \in {"first", "points", "other"} /\ shared \in BOOLEAN
    /\ strings = << >> \/ strings \in Int \X Int \X Int
    /\ steady \in BOOLEAN

(* The clock has not moved since the points were loaded, nor ever back     *)
(* behind a reset, and the month as the code computes it has begun.        *)
ClockSteady ==
    /\ steady /\ StartOfMonth(now) <= now
    /\ lastReset # NoDate => lastReset <= now

(* Adding and resetting points in place gives what the store would say:    *)
(* with a steady clock, no response dated in the future and no write left  *)
(* open, the three numbers are those that loadPoints would return.         *)
ShownIsStored ==
    On("points") /\ ClockSteady /\ ~writing /\ DatedFrom(db, now) = {}
    => strings = Strings(LoadPoints(db))

(* The first screen, whenever the user is on it, shows the month's and the *)
(* year's points of the store as of the clock it was last loaded at,       *)
(* although only some operations reload it and resets and manual points    *)
(* never do.                                                               *)
LabelFresh ==
    On("first") /\ steady => label = Label(LoadPoints(db))

=============================================================================
