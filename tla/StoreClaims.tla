---------------------------- MODULE StoreClaims ----------------------------
(***************************************************************************)
(* What the screens' titles, the error messages and the comments say of    *)
(* the store.  DataManager does something else in each case; the runs that *)
(* check these definitions show how.                                       *)
(***************************************************************************)
EXTENDS DataManager

(* PointsViewController.swift:26 titles the first number "Total Yearly     *)
(* Points:": while the clock runs on within one year and nothing is        *)
(* removed or reset, it does not go down.                                  *)
YearlyTotalSurvivesMonthEnd ==
    [][/\ now' > now /\ YearStart(now') = YearStart(now)
       /\ UNCHANGED <<db, preset, lastReset>>
       => LoadPoints(db)'.currentYear >= LoadPoints(db).currentYear]_vars

(* The titles "This Month's Points:" and "Last Month's Points:" of         *)
(* PointsViewController.swift:26: no point is in both months.              *)
MonthsDisjoint ==
    LET points == LoadPoints(db) IN points.currentMonth + points.previousMonth <= points.all

(* DataManager.swift:38, "emergencies are sorted by points in current      *)
(* month": as long as nothing was reset, a type's points of the current    *)
(* month are those of its responses dated since the month began.           *)
SortedByCurrentMonth ==
    lastReset = NoDate =>
       \A e \in Types(db) :
          EmergencyPoints(db, e).currentMonth = ListCount(db, e, DatedFrom(db, MonthStart(now)))

(* DataManager.swift:14, "Emergency type already exists": two types never  *)
(* have one name.                                                          *)
TypeNamesUnique ==
    \A e, f \in Types(db) : db.type[e] = db.type[f] => e = f

=============================================================================
