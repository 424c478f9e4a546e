----------------------------- MODULE CsvExport -----------------------------
(***************************************************************************)
(* "Export Data" of the points screen: DataManager.export writes a file of *)
(* one row per response of every emergency type, dated after the last      *)
(* reset, and one row per manually added point.                            *)
(***************************************************************************)
EXTENDS DataManager

VARIABLE csv   \* the rows of the file that the last step wrote

NoFile == [rows |-> [e \in Emergencies |-> 0], manual |-> 0, written |-> FALSE]

(* A slip the runs must find: the rows since the reset and those at it.    *)
SinceResetInclusive == IF lastReset = NoDate THEN Rows(db) ELSE DatedFrom(db, lastReset)

(* toCSV(sinceDate:) leaves out what is dated exactly at the reset.        *)
SinceReset == {r \in Rows(db) : lastReset # NoDate => db.date[r] > lastReset}

(* manuallyAddedToCSV writes a row for each number in 0..<amount: a range   *)
(* that the process does not survive if the amount is below 0.             *)
ManualRows == MapThenSumSet(LAMBDA i : Cardinality(0 .. preset[i].points - 1), DOMAIN preset)
Uncountable == \E i \in DOMAIN preset : preset[i].points < 0

Csv == [rows |-> [e \in Emergencies |-> IF e \in Types(db) THEN ListCount(db, e, SinceReset) ELSE 0],
        manual |-> ManualRows,
        written |-> TRUE]

ExportTraps == Idle /\ Uncountable /\ Die /\ csv' = NoFile
ExportWrites == Idle /\ ~Uncountable /\ csv' = Csv /\ UNCHANGED vars
ExportFails == Idle /\ ~Uncountable /\ csv' = NoFile /\ UNCHANGED vars

ExportInit == Init /\ csv = NoFile
ExportNext ==
    \/ Next /\ csv' = NoFile
    \/ ExportTraps \/ ExportWrites \/ ExportFails
ExportSpec == ExportInit /\ [][ExportNext]_<<vars, csv>>

-----------------------------------------------------------------------------
(* The file and the points agree: the rows of all types together are the   *)
(* responses that the store counts, over its whole table, since the reset, *)
(* but for those dated exactly at it, which only the points include; and   *)
(* the other rows are as many as the manual points, although an amount     *)
(* below 0 takes away from the points and a file cannot have fewer than no *)
(* rows: no file is ever written of such an amount.                        *)
ExportAgreesWithPoints ==
    csv.written =>
       LET rows == MapThenSumSet(LAMBDA e : csv.rows[e], Emergencies)
           total == LoadPoints(db)
           recent == total.currentYear - ManualSum(ManualFrom(NotBefore(StartOfMonth(now))))
           atReset == Cardinality({r \in Rows(db) : db.date[r] = lastReset})
       IN  IF lastReset = NoDate THEN rows + csv.manual = total.all
           ELSE StartOfYear(now) <= lastReset => rows + atReset = recent
=============================================================================
