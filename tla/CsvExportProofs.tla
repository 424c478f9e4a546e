-------------------------- MODULE CsvExportProofs --------------------------
(***************************************************************************)
(* The exported file, proved for every Realm, calendar and list of manual  *)
(* points, along every sequence of operations, crashes and exports.        *)
(***************************************************************************)
EXTENDS CsvExport, DataManagerProofs

(* The file's rows with what they are written from in the arguments.       *)
RowsSince(s, reset) == {r \in Rows(s) : reset # NoDate => s.date[r] > reset}

CsvOf(s, p, reset) ==
    [rows |-> [e \in Emergencies |->
                 IF e \in Types(s) THEN ListCount(s, e, RowsSince(s, reset)) ELSE 0],
     manual |-> MapThenSumSet(LAMBDA i : Cardinality(0 .. p[i].points - 1), DOMAIN p),
     written |-> TRUE]

LEMMA CsvNow == Csv = CsvOf(db, preset, lastReset)
BY DEF Csv, CsvOf, SinceReset, RowsSince, ManualRows

(* A file that a step wrote is still the one that would be written: every  *)
(* step that changes what it was made from leaves no file.                 *)
ExportInv ==
    /\ StoreInv
    /\ csv.written => csv = CsvOf(db, preset, lastReset) /\ ~Uncountable

LEMMA ExportStoreStep == [ExportNext]_<<vars, csv>> => [Next]_vars
BY DEF ExportNext, ExportTraps, ExportWrites, ExportFails, Next, World, Crash, Idle

LEMMA ExportInitStep ==
    /\ ExportInit => ExportInv
    /\ ExportInv /\ [ExportNext]_<<vars, csv>> => ExportInv'
<1>1. ExportInit => ExportInv
  BY InitInv DEF ExportInit, ExportInv, NoFile
<1>2. ASSUME ExportInv, [ExportNext]_<<vars, csv>> PROVE ExportInv'
  <2>1. StoreInv'
    BY <1>2, ExportStoreStep, StepInv DEF ExportInv
  <2>2. CASE csv' = NoFile
    BY <2>1, <2>2 DEF ExportInv, NoFile
  <2>3. CASE ExportWrites
    <3>1. csv' = CsvOf(db, preset, lastReset) /\ ~Uncountable /\ UNCHANGED vars
      BY <2>3, CsvNow DEF ExportWrites
    <3>2. UNCHANGED <<db, preset, lastReset>> /\ ~Uncountable'
      BY <3>1 DEF vars, Uncountable
    <3>3. csv' = CsvOf(db', preset', lastReset')
      BY <3>1, <3>2
    <3> QED BY <2>1, <3>2, <3>3 DEF ExportInv
  <2>4. CASE UNCHANGED <<vars, csv>>
    <3>1. UNCHANGED <<db, preset, lastReset, csv>> /\ (~Uncountable => ~Uncountable')
      BY <2>4 DEF vars, Uncountable
    <3> QED BY <1>2, <2>1, <3>1 DEF ExportInv
  <2> QED BY <1>2, <2>2, <2>3, <2>4 DEF ExportNext, ExportTraps, ExportFails
<1> QED BY <1>1, <1>2

(* An export takes nothing from the store and gives it nothing, but for    *)
(* the process it ends: what is proved of the store holds with exports.    *)
THEOREM ExportUsesStore == ExportSpec => Spec
<1>1. ExportInit => Init
  BY DEF ExportInit
<1> QED BY <1>1, ExportStoreStep, PTL DEF ExportSpec, Spec

(* A file that was written is the one the store would give now.            *)
THEOREM ExportInvariant == ExportSpec => []ExportInv
BY ExportInitStep, PTL DEF ExportSpec

-----------------------------------------------------------------------------
(* All the rows of responses, one for each response since the reset.       *)
LEMMA RowsOfTypes ==
    ASSUME NEW s \in Snapshot, Partitioned(s), NEW p, NEW reset
    PROVE  Sum(CsvOf(s, p, reset).rows, Emergencies) = Cardinality(RowsSince(s, reset))
<1> DEFINE R == RowsSince(s, reset)
           g == [e \in Emergencies |-> IF e \in Types(s) THEN ListCount(s, e, R) ELSE 0]
           h == [e \in Types(s) |-> ListCount(s, e, R)]
<1>1. R \in SUBSET Rows(s)
  BY DEF RowsSince
<1> HIDE DEF R
<1>2. Types(s) \in SUBSET Emergencies /\ IsFiniteSet(Types(s))
  <2>1. Types(s) \in SUBSET Emergencies
    BY DEF Types
  <2> QED BY <2>1, DataManagerAssumption, FS_Subset
<1>3. \A e \in Emergencies : g[e] \in Int
  <2>1. ASSUME NEW e \in Emergencies PROVE ListCount(s, e, R) \in Int
    <3>1. \A r \in R : s.links[e][r] \in Int
      BY <1>1, RowsTyped DEF Snapshot
    <3>2. IsFiniteSet(R)
      BY <1>1, RowsTyped
    <3> QED BY <3>1, <3>2, SumInt, ListCountIsSum
  <2> QED BY <2>1
<1>4. (\A e \in Types(s) : g[e] = h[e]) /\ \A e \in Emergencies \ Types(s) : g[e] = 0
  BY <1>2
<1>5. Sum(h, Types(s)) = Cardinality(R)
  BY <1>1, TypesCountOnce
<1> HIDE DEF g, h
<1>6. Sum(g, Emergencies) = Sum(g, Types(s))
  BY <1>2, <1>3, <1>4, DataManagerAssumption, SumSupport
<1>7. Sum(g, Types(s)) = Sum(h, Types(s))
  BY <1>2, <1>4, SumAgree
<1> QED BY <1>5, <1>6, <1>7 DEF CsvOf, R, g

(* Where a file can be written, it has a row for each manual point.        *)
LEMMA ManualRowsCount ==
    ASSUME preset \in Additions, ~Uncountable
    PROVE  ManualRows = ManualSum(DOMAIN preset)
<1> DEFINE rows == [i \in DOMAIN preset |-> Cardinality(0 .. preset[i].points - 1)]
           amount == [i \in DOMAIN preset |-> preset[i].points]
<1>1. IsFiniteSet(DOMAIN preset)
  BY AdditionsTyped
<1>2. \A i \in DOMAIN preset : rows[i] = amount[i]
  <2>1. ASSUME NEW i \in DOMAIN preset PROVE Cardinality(0 .. preset[i].points - 1) = preset[i].points
    <3>1. preset[i].points \in Int /\ ~(preset[i].points < 0)
      BY AdditionsTyped DEF Uncountable
    <3> QED BY <3>1, FS_Interval
  <2> QED BY <2>1
<1> HIDE DEF rows, amount
<1>3. Sum(rows, DOMAIN preset) = Sum(amount, DOMAIN preset)
  BY <1>1, <1>2, SumAgree
<1>4. ManualRows = Sum(rows, DOMAIN preset)
  BY DEF ManualRows, Sum, MapThenSumSet, MapThenFoldSet, rows
<1>5. ManualSum(DOMAIN preset) = Sum(amount, DOMAIN preset)
  BY DEF ManualSum, Sum, MapThenSumSet, MapThenFoldSet, amount
<1> QED BY <1>3, <1>4, <1>5

LEMMA ExportAgrees == ExportInv => ExportAgreesWithPoints
<1> SUFFICES ASSUME ExportInv, csv.written PROVE ExportAgreesWithPoints
  BY DEF ExportAgreesWithPoints
<1> DEFINE month == NotBefore(StartOfMonth(now))
           year == NotBefore(StartOfYear(now))
           exported == MapThenSumSet(LAMBDA e : csv.rows[e], Emergencies)
           since == RowsSince(db, lastReset)
           at == {r \in Rows(db) : db.date[r] = lastReset}
<1>1. /\ db \in Snapshot /\ Partitioned(db) /\ now \in Instants /\ preset \in Additions
      /\ lastReset \in Instants \cup {NoDate}
      /\ csv = CsvOf(db, preset, lastReset)
  BY DEF ExportInv, StoreInv, TypeOK, ResponsesPartitioned, Additions
<1>2. exported = Cardinality(since)
  <2>1. exported = Sum(csv.rows, Emergencies)
    BY DEF Sum, MapThenSumSet, MapThenFoldSet
  <2> QED BY <1>1, <2>1, RowsOfTypes
<1>3. csv.manual = ManualSum(DOMAIN preset) /\ csv.manual \in Int
  <2>1. csv.manual = ManualRows
    BY <1>1, CsvNow DEF Csv
  <2>2. csv.manual = ManualSum(DOMAIN preset)
    BY <1>1, <2>1, ManualRowsCount DEF ExportInv
  <2> QED BY <1>1, <2>2, AdditionsSum, ManualIsSumOf
<1>4. /\ since \in SUBSET Rows(db) /\ at \in SUBSET Rows(db)
      /\ Cardinality(since) \in Nat /\ Cardinality(at) \in Nat
      /\ IsFiniteSet(since) /\ IsFiniteSet(at)
  <2>1. since \in SUBSET Rows(db) /\ at \in SUBSET Rows(db)
    BY DEF RowsSince
  <2> HIDE DEF since, at
  <2> QED BY <1>1, <2>1, RowsTyped
<1>5. CASE lastReset = NoDate
  <2>1. since = Rows(db)
    BY <1>5 DEF RowsSince
  <2>2. LoadPoints(db).all = ManualSum(DOMAIN preset) + Cardinality(Rows(db))
    BY DEF LoadPoints
  <2>3. exported + csv.manual = LoadPoints(db).all
    <3> HIDE DEF exported, since
    <3> QED BY <1>2, <1>3, <1>4, <2>1, <2>2
  <2> QED BY <1>5, <2>3 DEF ExportAgreesWithPoints
<1>6. CASE lastReset # NoDate
  <2> DEFINE manual == ManualSum(ManualFrom(month))
  <2>1. SUFFICES ASSUME StartOfYear(now) <= lastReset
                 PROVE  exported + Cardinality(at) = LoadPoints(db).currentYear - manual
    BY <1>6 DEF ExportAgreesWithPoints
  <2>2. year = lastReset /\ lastReset \in Int
    BY <1>1, <1>6, <2>1, StartsOrdered, CalendarAssumption DEF NotBefore
  <2>3. LoadPoints(db).currentYear = manual + Cardinality(DatedFrom(db, lastReset))
    BY <2>2 DEF LoadPoints
  <2>4. manual \in Int
    <3>1. ManualFrom(month) \in SUBSET DOMAIN preset
      BY DEF ManualFrom
    <3> HIDE DEF month
    <3> QED BY <1>1, <3>1, AdditionsSum, ManualIsSumOf
  <2>5. DatedFrom(db, lastReset) = since \cup at /\ since \cap at = {}
    <3>1. \A r \in Rows(db) : db.date[r] \in Int
      BY <1>1, RowsTyped
    <3> QED BY <1>6, <2>2, <3>1 DEF DatedFrom, RowsSince
  <2> HIDE DEF since, at, manual, exported
  <2>6. Cardinality(since \cup at) = Cardinality(since) + Cardinality(at)
    <3>1. Cardinality(since \cap at) = 0
      BY <2>5, FS_EmptySet
    <3>2. Cardinality(since \cup at) = Cardinality(since) + Cardinality(at) - Cardinality(since \cap at)
      <4>1. IsFiniteSet(since) /\ IsFiniteSet(at)
        BY <1>4
      <4> QED BY ONLY <4>1, FS_Union
    <3> QED BY <1>4, <3>1, <3>2
  <2> DEFINE total == LoadPoints(db).currentYear
             n == Cardinality(since)
             m == Cardinality(at)
  <2>7. exported = n /\ total = manual + (n + m) /\ n \in Nat /\ m \in Nat
    BY <1>2, <1>4, <2>3, <2>5, <2>6
  <2> HIDE DEF total, n, m
  <2>8. exported + m = total - manual
    BY <2>4, <2>7
  <2> QED BY <2>8 DEF total, m
<1> QED BY <1>5, <1>6

(* The responses in the exported file are those that the points count      *)
(* since the reset, but for the ones at it; the other rows are one for     *)
(* each manual point, whatever amounts were added.                         *)
THEOREM ExportAlwaysAgrees == ExportSpec => []ExportAgreesWithPoints
BY ExportInvariant, ExportAgrees, PTL

=============================================================================
