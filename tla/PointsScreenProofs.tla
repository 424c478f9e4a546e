------------------------- MODULE PointsScreenProofs -------------------------
(***************************************************************************)
(* The numbers on the first screen and on the points screen, proved for    *)
(* every set of types and responses, every calendar and every amount of    *)
(* points.                                                                 *)
(***************************************************************************)
EXTENDS PointsScreen, DataManagerProofs

(* What loadPoints depends on.                                             *)
counted == <<db, now, preset, lastReset>>

Fresh == label = Label(LoadPoints(db))

(* Resetting and clearing go on only on the points screen, from which the  *)
(* first screen returns with a reload.                                     *)
ClearsOnPoints ==
    pc \in {"resetDate", "clearDate", "clearRealm", "clearCommit"} => screen = "points"

LabelInv ==
    /\ ClearsOnPoints
    /\ alive /\ screen = "first" /\ steady => Fresh

-----------------------------------------------------------------------------
LEMMA LoadMakesFresh ==
    ASSUME Load PROVE Fresh'
BY DEF Load, Fresh, Label

(* The label's two numbers, with what they depend on in their arguments.   *)
ThisMonth == NotBefore(StartOfMonth(now))
ThisYear == NotBefore(StartOfYear(now))

LEMMA Numbers ==
    Label(LoadPoints(db)) =
       <<SumOf(preset, ManualFrom(ThisMonth)) + Cardinality(DatedFrom(db, ThisMonth)),
         SumOf(preset, ManualFrom(ThisMonth)) + Cardinality(DatedFrom(db, ThisYear))>>
BY DEF Label, LoadPoints, ManualSum, SumOf, ThisMonth, ThisYear

LEMMA NumbersNext ==
    Label(LoadPoints(db))' =
       <<SumOf(preset', ManualFrom(ThisMonth)') + Cardinality(DatedFrom(db, ThisMonth)'),
         SumOf(preset', ManualFrom(ThisMonth)') + Cardinality(DatedFrom(db, ThisYear)')>>
BY SMT DEF Label, LoadPoints, ManualSum, SumOf, ThisMonth, ThisYear, MapThenSumSet, MapThenFoldSet

(* The points change only with the store, the clock and UserDefaults.      *)
LEMMA FreshKept ==
    ASSUME Fresh, UNCHANGED counted, UNCHANGED label PROVE Fresh'
<1>1. UNCHANGED <<ThisMonth, ThisYear>>
  BY DEF counted, ThisMonth, ThisYear, NotBefore, StartOfYear, StartOfMonth
<1>2. /\ ManualFrom(ThisMonth)' = ManualFrom(ThisMonth)
      /\ DatedFrom(db, ThisMonth)' = DatedFrom(db, ThisMonth)
      /\ DatedFrom(db, ThisYear)' = DatedFrom(db, ThisYear)
  BY <1>1 DEF counted, ManualFrom, DatedFrom, Rows
<1>3. Label(LoadPoints(db))' = Label(LoadPoints(db))
  BY <1>2, Numbers, NumbersNext DEF counted
<1> QED BY <1>3 DEF Fresh

(* A type whose name there is already is refused without a change.         *)
LEMMA RefusedUnchanged ==
    ASSUME Reloading, replies'[1].error # "none" PROVE UNCHANGED counted
<1>1. ASSUME NEW e \in Emergencies, NEW n \in Names, AddEmergency(e, n)
      PROVE  UNCHANGED counted
  <2>1. AlreadyExists(db, n)
    BY <1>1 DEF AddEmergency, Write, Reply, Success
  <2> QED BY <1>1, <2>1 DEF AddEmergency, Write, counted
<1>2. \A e \in Emergencies, r \in Responses :
         ~RemoveResponse(r, e) /\ \A d \in Instants : ~AddResponse(r, e, d)
  BY DEF AddResponse, RemoveResponse, Write, Reply, Success
<1> QED BY <1>1, <1>2 DEF Reloading

LEMMA ReloadingKeeps ==
    ASSUME LabelInv, Reloading PROVE LabelInv'
<1>1. pc' = "commit"
  BY DEF Reloading, AddEmergency, AddResponse, RemoveResponse, Write
<1>2. CASE replies'[1].error = "none"
  <2>1. Load
    BY <1>2 DEF Reloading
  <2> QED BY <1>1, <2>1, LoadMakesFresh DEF LabelInv, ClearsOnPoints
<1>3. CASE replies'[1].error # "none"
  <2>1. UNCHANGED <<label, steady, screen>>
    BY <1>3 DEF Reloading
  <2>2. alive
    BY DEF Reloading, On, Idle
  <2>3. UNCHANGED counted
    BY <1>3, RefusedUnchanged
  <2> QED BY <1>1, <2>1, <2>2, <2>3, FreshKept DEF LabelInv, ClearsOnPoints
<1> QED BY <1>2, <1>3

(* Operations of the points screen leave the label stale, but are over     *)
(* before the user is back.                                                *)
LEMMA ElsewhereKeeps ==
    ASSUME LabelInv,
           \/ NotReloading \/ OnShowOther \/ OnShowPoints
           \/ \E p \in ManualPoints : OnAddPoints(p)
           \/ OnResetPoints \/ ResetPointsDone
           \/ OnClearData \/ ClearDataStep \/ ClearDataFailed
    PROVE  LabelInv'
<1>1. screen' # "first"
  BY DEF LabelInv, ClearsOnPoints, NotReloading, OnShowOther, OnShowPoints, OnAddPoints,
         OnResetPoints, ResetPointsDone, OnClearData, ClearDataStep, ClearDataFailed, On,
         screenVars, ClearPointsDate, ClearAllDate, ClearAllRealm, ClearAllFails
<1>2. CASE NotReloading
  <2>1. pc' = "commit"
    BY <1>2 DEF NotReloading, UpdateEmergency, RemoveEmergency, UpdateResponse, Write
  <2> QED BY <1>1, <2>1 DEF LabelInv, ClearsOnPoints
<1>3. CASE OnShowOther \/ OnShowPoints
  BY <1>1, <1>3 DEF LabelInv, ClearsOnPoints, OnShowOther, OnShowPoints, On, Idle, vars, process
<1>4. CASE \E p \in ManualPoints : OnAddPoints(p)
  BY <1>1, <1>4 DEF LabelInv, ClearsOnPoints, OnAddPoints, On
<1>5. CASE OnResetPoints \/ ResetPointsDone \/ OnClearData \/ ClearDataStep \/ ClearDataFailed
  BY <1>1, <1>5 DEF LabelInv, ClearsOnPoints, OnResetPoints, ResetPointsDone, OnClearData,
         ClearDataStep, ClearDataFailed, On, screenVars, ClearPointsDate, ClearAllDate,
         ClearAllRealm, ClearAllFails
<1> QED BY <1>2, <1>3, <1>4, <1>5

LEMMA MeanwhileKeeps ==
    ASSUME LabelInv, Meanwhile PROVE LabelInv'
<1>1. CASE (CommitWrite \/ CommitWriteFails) /\ UNCHANGED screenVars
  <2>1. UNCHANGED <<counted, label, steady, screen, alive>> /\ pc' = "idle"
    BY <1>1 DEF CommitWrite, CommitWriteFails, screenVars, counted
  <2> QED BY <2>1, FreshKept DEF LabelInv, ClearsOnPoints
<1>2. CASE /\ \E t \in Instants : ClockMoves(t)
           /\ steady' = (steady /\ now' = now)
           /\ UNCHANGED <<held, label, screen, points, shared, strings>>
  <2>1. UNCHANGED <<db, preset, lastReset, label, screen, alive, pc>>
    BY <1>2 DEF ClockMoves, process, defaults
  <2>2. CASE now' = now
    BY <1>2, <2>1, <2>2, FreshKept DEF LabelInv, ClearsOnPoints, counted
  <2>3. CASE now' # now
    BY <1>2, <2>1, <2>3 DEF LabelInv, ClearsOnPoints
  <2> QED BY <2>2, <2>3
<1>3. CASE ClearAllRaises \/ Crash \/ (~On("points") /\ WriteRaises)
  <2>1. ~alive' /\ pc' = "idle"
    BY <1>3 DEF ClearAllRaises, Crash, WriteRaises, Die
  <2> QED BY <2>1 DEF LabelInv, ClearsOnPoints
<1>4. CASE Launch /\ Load /\ UNCHANGED <<screen, points, shared, strings>>
  BY <1>4, LoadMakesFresh DEF LabelInv, ClearsOnPoints, Launch
<1> QED BY <1>1, <1>2, <1>3, <1>4 DEF Meanwhile

LEMMA BackKeeps ==
    ASSUME LabelInv, Back \/ ClearDataDone PROVE LabelInv'
BY LoadMakesFresh DEF LabelInv, ClearsOnPoints, Back, ClearDataDone, ClearAllCommit, On, Idle, vars, process

(* Before anything was recorded there are no points.                       *)
LEMMA NothingLoaded ==
    ASSUME Init PROVE LoadPoints(db) = NoPoints
BY LoadedNow, LoadedEmpty DEF Init, NoPoints

(* The label's numbers are what loadPoints would return, whenever the user *)
(* is on the first screen and the clock has not moved since it loaded.     *)
THEOREM LabelStaysFresh == ScreenSpec => []LabelFresh
<1>1. ScreenInit => LabelInv
  <2>1. ASSUME ScreenInit PROVE Fresh
    BY <2>1, NothingLoaded DEF ScreenInit, Fresh, Label, NoPoints
  <2> QED BY <2>1 DEF ScreenInit, Init, LabelInv, ClearsOnPoints
<1>2. LabelInv /\ [ScreenNext]_allVars => LabelInv'
  <2>1. ASSUME LabelInv, ScreenNext PROVE LabelInv'
    BY <2>1, ReloadingKeeps, ElsewhereKeeps, MeanwhileKeeps, BackKeeps DEF ScreenNext
  <2>2. ASSUME LabelInv, UNCHANGED allVars PROVE LabelInv'
    BY <2>2, FreshKept DEF LabelInv, ClearsOnPoints, allVars, screenVars, vars, process, defaults, counted
  <2> QED BY <2>1, <2>2
<1>3. LabelInv => LabelFresh
  BY DEF LabelInv, LabelFresh, On, Idle, Fresh
<1> QED BY <1>1, <1>2, <1>3, PTL DEF ScreenSpec

-----------------------------------------------------------------------------
(* The types.  What the screens load is a record of integers because the   *)
(* store's contents are well-typed, so the store's invariant is needed.    *)
LEMMA ScreenStoreStep == [ScreenNext]_allVars => [Next]_vars
<1> SUFFICES ASSUME ScreenNext \/ UNCHANGED allVars PROVE Next \/ UNCHANGED vars
  OBVIOUS
<1>1. CASE Reloading \/ NotReloading
  BY <1>1 DEF Reloading, NotReloading, Next, Operation
<1>2. CASE OnShowOther \/ OnShowPoints \/ Back
  BY <1>2 DEF OnShowOther, OnShowPoints, Back
<1>3. CASE \E p \in ManualPoints : OnAddPoints(p)
  BY <1>3 DEF OnAddPoints, Next, Operation
<1>4. CASE OnResetPoints \/ ResetPointsDone \/ OnClearData \/ ClearDataStep
           \/ ClearDataDone \/ ClearDataFailed
  BY <1>4 DEF OnResetPoints, ResetPointsDone, OnClearData, ClearDataStep, ClearDataDone,
              ClearDataFailed, Next, Operation, Step
<1>5. CASE Meanwhile
  BY <1>5 DEF Meanwhile, Next, Step, World
<1> QED BY <1>1, <1>2, <1>3, <1>4, <1>5 DEF ScreenNext, allVars

LEMMA LoadsTyped ==
    ASSUME StoreInv' PROVE LoadPoints(db)' \in PointsType
<1>1. db' \in Snapshot /\ preset' \in Additions
  BY DEF StoreInv, TypeOK, Additions
<1> QED BY <1>1, LoadedNext, LoadedTyped DEF PointsType

LEMMA PointsTyped ==
    /\ NoPoints \in PointsType
    /\ \A p \in PointsType : /\ Label(p) \in Int \X Int /\ Strings(p) \in Int \X Int \X Int
                            /\ \A n \in Int : Increased(p, n) \in PointsType
<1>1. NoPoints \in PointsType
  BY DEF NoPoints, PointsType
<1>2. ASSUME NEW p \in PointsType
      PROVE  Label(p) \in Int \X Int /\ Strings(p) \in Int \X Int \X Int
  <2>1. p.currentMonth \in Int /\ p.currentYear \in Int /\ p.previousMonth \in Int
    BY DEF PointsType
  <2> QED BY <2>1 DEF Label, Strings
<1>3. ASSUME NEW p \in PointsType, NEW n \in Int PROVE Increased(p, n) \in PointsType
  <2> DEFINE a == p.all + n
             m == p.currentMonth + n
             y == p.currentYear + n
  <2>1. a \in Int /\ m \in Int /\ y \in Int
    BY DEF PointsType
  <2>2. Increased(p, n) = [p EXCEPT !.all = a, !.currentMonth = m, !.currentYear = y]
    BY DEF Increased
  <2> HIDE DEF a, m, y
  <2> QED BY <2>1, <2>2 DEF PointsType
<1> QED BY <1>1, <1>2, <1>3

LEMMA TypesStep ==
    ASSUME ScreenTypeOK, StoreInv', [ScreenNext]_allVars PROVE ScreenTypeOK'
<1> USE DEF ScreenTypeOK, screenVars
<1>1. ASSUME Load PROVE held' \in PointsType /\ label' \in Int \X Int /\ steady' \in BOOLEAN
  BY <1>1, LoadsTyped, PointsTyped DEF Load
<1>2. ASSUME NEW p \in PointsType, Show(p)
      PROVE  held' \in PointsType /\ points' \in PointsType /\ strings' \in Int \X Int \X Int
  BY <1>2, PointsTyped DEF Show
<1>3. CASE Reloading
  BY <1>1, <1>3 DEF Reloading
<1>4. CASE NotReloading \/ OnShowOther \/ OnResetPoints \/ OnClearData \/ ClearDataStep
  BY <1>4 DEF NotReloading, OnShowOther, OnResetPoints, OnClearData, ClearDataStep
<1>5. CASE OnShowPoints
  BY <1>5, PointsTyped DEF OnShowPoints
<1>6. CASE Back
  BY <1>1, <1>6 DEF Back
<1>7. CASE \E p \in ManualPoints : OnAddPoints(p)
  <2>1. PICK p \in ManualPoints : OnAddPoints(p)
    BY <1>7
  <2>2. Increased(points, p) \in PointsType
    BY PointsTyped, DataManagerAssumption
  <2> QED BY <1>2, <2>1, <2>2 DEF OnAddPoints
<1>8. CASE ResetPointsDone \/ ClearDataFailed
  BY <1>2, <1>8, PointsTyped DEF ResetPointsDone, ClearDataFailed
<1>9. CASE ClearDataDone
  BY <1>1, <1>9, PointsTyped DEF ClearDataDone
<1>10. CASE Meanwhile
  <2>1. CASE (CommitWrite \/ CommitWriteFails) /\ UNCHANGED screenVars
    BY <2>1
  <2>2. CASE steady' = (steady /\ now' = now)
             /\ UNCHANGED <<held, label, screen, points, shared, strings>>
    BY <2>2
  <2>3. CASE held' = NoPoints /\ label' = <<0, 0>> /\ steady' = TRUE
             /\ screen' = "first" /\ points' = NoPoints /\ shared' = FALSE /\ strings' = << >>
    <3>1. label' \in Int \X Int
      BY <2>3
    <3> QED BY <2>3, <3>1, PointsTyped
  <2>4. CASE Load /\ UNCHANGED <<screen, points, shared, strings>>
    BY <1>1, <2>4
  <2> QED BY <1>10, <2>1, <2>2, <2>3, <2>4 DEF Meanwhile
<1>11. CASE UNCHANGED allVars
  BY <1>11 DEF allVars
<1> QED BY <1>3, <1>4, <1>5, <1>6, <1>7, <1>8, <1>9, <1>10, <1>11 DEF ScreenNext

(* The points screens use the store as its specification allows.           *)
THEOREM PointsUseStore == ScreenSpec => Spec
<1>1. ScreenInit => Init
  BY DEF ScreenInit
<1> QED BY <1>1, ScreenStoreStep, PTL DEF ScreenSpec, Spec

LEMMA ScreenStoreInvariant == ScreenSpec => [](StoreInv /\ EmptiedInv)
<1>1. ScreenInit => StoreInv /\ EmptiedInv
  BY InitInv, EmptiedInitStep DEF ScreenInit
<1>2. StoreInv /\ EmptiedInv /\ [ScreenNext]_allVars => StoreInv' /\ EmptiedInv'
  BY ScreenStoreStep, StepInv, EmptiedInitStep
<1> QED BY <1>1, <1>2, PTL DEF ScreenSpec

(* Every variable of the two screens always has its type: what they show   *)
(* is made of integers, whatever is added, reset and cleared.              *)
THEOREM ScreenTypesCorrect == ScreenSpec => []ScreenTypeOK
<1>1. ScreenInit => ScreenTypeOK
  <2>1. <<0, 0>> \in Int \X Int
    OBVIOUS
  <2> QED BY <2>1, PointsTyped DEF ScreenInit, ScreenTypeOK
<1>2. ScreenTypeOK /\ StoreInv' /\ [ScreenNext]_allVars => ScreenTypeOK'
  BY TypesStep
<1> QED BY <1>1, <1>2, ScreenStoreInvariant, PTL DEF ScreenSpec

-----------------------------------------------------------------------------
(* The points screen.  The first screen's object is what the store would   *)
(* load, in all its numbers and not only in the label's two, because it is *)
(* what the points screen starts from.                                     *)
Stored == Loaded(db, preset, now, lastReset)

HeldFresh == alive /\ screen = "first" /\ steady => held = Stored

(* The condition of ShownIsStored, with the Realm and the clock unmoved.   *)
Comparable == ClockSteady /\ ~writing /\ DatedFrom(db, now) = {}

ShownInv ==
    /\ pc = "commit" => screen # "points"
    /\ ~alive => screen = "first"
    /\ ClearsOnPoints
    /\ HeldFresh
    /\ alive /\ screen = "points" /\ pc = "idle" /\ Comparable
         => strings = Strings(points) /\ Strings(points) = Strings(Stored)

(* An addition counts in the month and the year that the clock is in.      *)
LEMMA AdditionCounts ==
    ASSUME NEW s \in Snapshot, NEW p \in Additions, NEW time \in Instants, NEW reset,
           StartOfMonth(time) <= time,
           reset # NoDate => reset \in Int /\ reset <= time,
           NEW n \in ManualPoints
    PROVE  LET q == Append(p, [date |-> time, points |-> n])
           IN  Strings(Loaded(s, q, time, reset)) = Strings(Increased(Loaded(s, p, time, reset), n))
<1> DEFINE entry == [date |-> time, points |-> n]
           q == Append(p, entry)
           k == Len(p) + 1
           month == After(reset, StartOfMonth(time))
           previous == After(reset, StartOfPreviousMonth(time))
           year == After(reset, StartOfYear(time))
           now0 == Loaded(s, p, time, reset)
           then0 == Loaded(s, q, time, reset)
<1>1. time \in Int /\ month \in Int /\ month <= time /\ n \in Int
  BY StartsOrdered, CalendarAssumption, DataManagerAssumption DEF After
<1>2. /\ q \in Additions
      /\ DOMAIN q = DOMAIN p \cup {k} /\ k \notin DOMAIN p /\ q[k] = entry
      /\ \A i \in DOMAIN p : q[i] = p[i]
      /\ q[k].date = time /\ q[k].points = n
  <2>1. q \in Additions
    BY DEF Additions
  <2>2. /\ Len(p) \in Nat /\ DOMAIN p = 1 .. Len(p)
        /\ Len(q) = Len(p) + 1 /\ DOMAIN q = 1 .. Len(q)
        /\ q[k] = entry /\ \A i \in DOMAIN p : q[i] = p[i]
    BY DEF Additions
  <2> QED BY <2>1, <2>2
<1> HIDE DEF entry, q, k, month, previous, year
<1>3. Added(q, month) = Added(p, month) \cup {k} /\ Added(p, month) \in SUBSET DOMAIN p
  BY <1>1, <1>2 DEF Added
<1>4. SumOf(q, Added(q, month)) = n + SumOf(p, Added(p, month))
  <2>1. \A i \in Added(p, month) \cup {k} : q[i].points \in Int
    BY <1>2, <1>3, AdditionsTyped
  <2>2. IsFiniteSet(Added(p, month)) /\ k \notin Added(p, month)
    BY <1>2, <1>3, AdditionsSum
  <2>3. SumOf(q, Added(p, month) \cup {k}) = q[k].points + SumOf(q, Added(p, month))
    BY <2>1, <2>2, SumOfInsert
  <2>4. SumOf(q, Added(p, month)) = SumOf(p, Added(p, month))
    BY <1>2, <1>3, SumOfAgrees
  <2> QED BY <1>2, <1>3, <2>3, <2>4
<1> DEFINE old(x) == {i \in Added(x, previous) : x[i].date < month}
<1>5. SumOf(q, old(q)) = SumOf(p, old(p))
  <2>1. old(q) = old(p) /\ old(p) \in SUBSET DOMAIN p
    BY <1>1, <1>2 DEF Added
  <2> HIDE DEF old
  <2> QED BY <1>2, <2>1, SumOfAgrees
<1>6. /\ SumOf(p, Added(p, month)) \in Int
      /\ Cardinality(DatedFrom(s, month)) \in Int /\ Cardinality(DatedFrom(s, year)) \in Int
  <2>1. DatedFrom(s, month) \in SUBSET Rows(s) /\ DatedFrom(s, year) \in SUBSET Rows(s)
    BY DEF DatedFrom
  <2> QED BY <1>3, <2>1, AdditionsSum, RowsTyped
<1>7. /\ then0.currentMonth = now0.currentMonth + n
      /\ then0.currentYear = now0.currentYear + n
      /\ then0.previousMonth = now0.previousMonth
  <2>1. \A x \in {p, q} :
          LET l == Loaded(s, x, time, reset)
          IN  /\ l.currentMonth = SumOf(x, Added(x, month)) + Cardinality(DatedFrom(s, month))
              /\ l.currentYear = SumOf(x, Added(x, month)) + Cardinality(DatedFrom(s, year))
              /\ l.previousMonth = SumOf(x, old(x))
                    + Cardinality({r \in DatedFrom(s, previous) : s.date[r] <= month})
    BY DEF Loaded, month, year, previous
  <2> HIDE DEF old, now0, then0
  <2>2. /\ now0.currentMonth = SumOf(p, Added(p, month)) + Cardinality(DatedFrom(s, month))
        /\ now0.currentYear = SumOf(p, Added(p, month)) + Cardinality(DatedFrom(s, year))
        /\ then0.currentMonth = (n + SumOf(p, Added(p, month))) + Cardinality(DatedFrom(s, month))
        /\ then0.currentYear = (n + SumOf(p, Added(p, month))) + Cardinality(DatedFrom(s, year))
        /\ then0.previousMonth = now0.previousMonth
    BY <1>4, <1>5, <2>1 DEF now0, then0
  <2> QED BY <1>1, <1>6, <2>2
<1>8. now0 \in PointsType
  BY LoadedTyped DEF PointsType
<1> HIDE DEF now0, then0
<1>9. /\ Increased(now0, n).currentMonth = now0.currentMonth + n
      /\ Increased(now0, n).currentYear = now0.currentYear + n
      /\ Increased(now0, n).previousMonth = now0.previousMonth
  BY <1>8 DEF Increased, PointsType
<1> QED BY <1>7, <1>9 DEF Strings, now0, then0, q, entry

(* Nothing dated from the reset on is nothing to count.                    *)
LEMMA NothingSince ==
    ASSUME NEW s \in Snapshot, NEW time \in Instants, DatedFrom(s, time) = {},
           StartOfMonth(time) <= time
    PROVE  Strings(Loaded(s, << >>, time, time)) = Strings(NoPoints)
<1>1. time \in Int /\ time # NoDate
  BY CalendarAssumption, DataManagerAssumption
<1>2. /\ After(time, StartOfMonth(time)) = time /\ After(time, StartOfYear(time)) = time
      /\ After(time, StartOfPreviousMonth(time)) = time
  BY <1>1, StartsOrdered DEF After
<1>3. \A t, u : Added(<< >>, t) = {} /\ {i \in Added(<< >>, t) : << >>[i].date < u} = {}
  BY DEF Added
<1>4. {r \in DatedFrom(s, time) : s.date[r] <= time} = {}
  OBVIOUS
<1>5. SumOf(<< >>, {}) + Cardinality({}) = 0
  BY SumOfEmpty, FS_EmptySet
<1>6. /\ Loaded(s, << >>, time, time).currentYear = 0
      /\ Loaded(s, << >>, time, time).currentMonth = 0
      /\ Loaded(s, << >>, time, time).previousMonth = 0
  BY <1>2, <1>3, <1>4, <1>5 DEF Loaded
<1> QED BY <1>6 DEF Strings, NoPoints

LEMMA StoredKept == UNCHANGED counted => Stored' = Stored
BY DEF counted, Stored

LEMMA LoadMakesHeldFresh == Load => held' = Stored'
BY LoadedNext DEF Load, Stored

(* On the way to and on the other screens.                                 *)
LEMMA ShownElsewhere ==
    ASSUME ShownInv, Reloading \/ NotReloading \/ OnShowOther \/ Back
    PROVE  ShownInv'
<1>1. CASE Reloading
  <2>1. pc' = "commit" /\ screen' = screen /\ screen # "points" /\ alive /\ alive'
    BY <1>1 DEF Reloading, On, Idle, AddEmergency, AddResponse, RemoveResponse, Write
  <2>2. CASE replies'[1].error = "none"
    <3>1. held' = Stored'
      BY <1>1, <2>2, LoadMakesHeldFresh DEF Reloading
    <3> QED BY <2>1, <3>1 DEF ShownInv, HeldFresh, ClearsOnPoints
  <2>3. CASE replies'[1].error # "none"
    <3>1. UNCHANGED <<held, steady>> /\ Stored' = Stored
      BY <1>1, <2>3, RefusedUnchanged, StoredKept DEF Reloading
    <3> QED BY <2>1, <3>1 DEF ShownInv, HeldFresh, ClearsOnPoints
  <2> QED BY <2>2, <2>3
<1>2. CASE NotReloading
  <2>1. pc' = "commit" /\ screen' = "other" /\ alive'
    BY <1>2 DEF NotReloading, On, Idle, screenVars, UpdateEmergency, RemoveEmergency, UpdateResponse, Write
  <2> QED BY <2>1 DEF ShownInv, HeldFresh, ClearsOnPoints
<1>3. CASE OnShowOther
  BY <1>3 DEF ShownInv, HeldFresh, ClearsOnPoints, OnShowOther, On, Idle, vars, process
<1>4. CASE Back
  <2>1. pc' = "idle" /\ screen' = "first" /\ held' = Stored'
    BY <1>4, LoadMakesHeldFresh DEF Back, On, Idle, vars
  <2> QED BY <2>1 DEF ShownInv, HeldFresh, ClearsOnPoints
<1> QED BY <1>1, <1>2, <1>3, <1>4

(* Opening the points screen and adding points there.                      *)
LEMMA ShownOnPoints ==
    ASSUME StoreInv, ShownInv, OnShowPoints \/ \E p \in ManualPoints : OnAddPoints(p)
    PROVE  ShownInv'
<1>1. CASE OnShowPoints
  <2>1. /\ pc' = "idle" /\ pc = "idle" /\ alive /\ screen = "first" /\ screen' = "points"
        /\ points' = held /\ strings' = Strings(held)
        /\ alive' /\ UNCHANGED <<vars, steady>>
    BY <1>1 DEF OnShowPoints, On, Idle, vars
  <2>2. Stored' = Stored
    BY <2>1, StoredKept DEF vars, counted
  <2>3. Comparable' => steady
    BY <2>1 DEF Comparable, ClockSteady
  <2>4. Comparable' => strings' = Strings(points') /\ Strings(points') = Strings(Stored')
    BY <2>1, <2>2, <2>3 DEF ShownInv, HeldFresh
  <2>5. Strings(points)' = Strings(points') /\ Strings(Stored)' = Strings(Stored')
    BY DEF Strings
  <2> QED BY <2>1, <2>4, <2>5 DEF ShownInv, HeldFresh, ClearsOnPoints
<1>2. CASE \E p \in ManualPoints : OnAddPoints(p)
  <2>1. PICK p \in ManualPoints : OnAddPoints(p)
    BY <1>2
  <2>2. /\ pc' = "idle" /\ pc = "idle" /\ alive /\ screen = "points" /\ screen' = "points"
        /\ preset' = Append(preset, [date |-> now, points |-> p])
        /\ points' = Increased(points, p) /\ strings' = Strings(points')
        /\ UNCHANGED <<now, alive, db, writing, lastReset, steady>>
    BY <2>1 DEF OnAddPoints, ManuallyAdd, Show, On, Idle
  <2>3. Comparable' => Comparable
    BY <2>2 DEF Comparable, ClockSteady, StartOfMonth, ToLocal, MonthStart, DatedFrom, Rows
  <2>4. ASSUME Comparable PROVE Strings(Stored') = Strings(Increased(Stored, p))
    <3>1. /\ db \in Snapshot /\ preset \in Additions /\ now \in Instants
          /\ lastReset \in Instants \cup {NoDate}
      BY DEF StoreInv, TypeOK, Additions
    <3>2. StartOfMonth(now) <= now /\ (lastReset # NoDate => lastReset \in Int /\ lastReset <= now)
      BY <2>4, <3>1, CalendarAssumption DEF Comparable, ClockSteady
    <3> QED BY <2>2, <3>1, <3>2, AdditionCounts DEF Stored
  <2>5. ASSUME Strings(points) = Strings(Stored), Strings(Stored') = Strings(Increased(Stored, p))
        PROVE  Strings(Increased(points, p)) = Strings(Stored')
    BY <2>5 DEF Strings, Increased
  <2>6. Strings(points)' = Strings(points') /\ Strings(Stored)' = Strings(Stored')
    BY DEF Strings
  <2>7. Comparable' => Strings(points') = Strings(Stored')
    BY <2>2, <2>3, <2>4, <2>5 DEF ShownInv
  <2> QED BY <2>2, <2>6, <2>7 DEF ShownInv, HeldFresh, ClearsOnPoints
<1> QED BY <1>1, <1>2

(* Resetting the points and clearing all data.                             *)
LEMMA ShownCleared ==
    ASSUME StoreInv, EmptiedInv, ShownInv,
           \/ OnResetPoints \/ ResetPointsDone
           \/ OnClearData \/ ClearDataStep \/ ClearDataDone \/ ClearDataFailed
    PROVE  ShownInv'
<1>1. CASE OnResetPoints \/ OnClearData
  BY <1>1 DEF ShownInv, HeldFresh, ClearsOnPoints, OnResetPoints, OnClearData, ClearPoints,
              ClearAllData, On, Idle, screenVars
<1>2. CASE ClearDataStep
  BY <1>2 DEF StoreInv, OpenWrite, ShownInv, HeldFresh, ClearsOnPoints, ClearDataStep, ClearAllDate, ClearAllRealm,
              screenVars
<1>3. Strings(points)' = Strings(points') /\ Strings(Stored)' = Strings(Stored')
  BY DEF Strings
<1>4. CASE ResetPointsDone
  <2>1. /\ pc' = "idle" /\ screen = "points" /\ screen' = "points"
        /\ points' = NoPoints /\ strings' = Strings(NoPoints)
        /\ preset' = << >> /\ lastReset' = now /\ UNCHANGED <<now, db>> /\ alive'
    BY <1>4 DEF StoreInv, OpenWrite, ResetPointsDone, ClearPointsDate, Show, ShownInv, ClearsOnPoints, EmptiedInv
  <2>2. db \in Snapshot /\ now \in Instants
    BY DEF StoreInv, TypeOK
  <2>3. ASSUME Comparable' PROVE Strings(Stored') = Strings(NoPoints)
    <3>1. DatedFrom(db, now) = {} /\ StartOfMonth(now) <= now
      BY <2>1, <2>3 DEF Comparable, ClockSteady, StartOfMonth, ToLocal, MonthStart, DatedFrom, Rows
    <3>2. Strings(Loaded(db, << >>, now, now)) = Strings(NoPoints)
      BY <2>2, <3>1, NothingSince
    <3> QED BY <2>1, <3>2 DEF Stored
  <2> QED BY <1>3, <2>1, <2>3 DEF ShownInv, HeldFresh, ClearsOnPoints
<1>5. CASE ClearDataDone
  <2>1. /\ pc' = "idle" /\ screen = "points" /\ screen' = "points"
        /\ points' = NoPoints /\ strings' = Strings(NoPoints)
        /\ preset' = << >> /\ db' = EmptyRealm /\ alive'
    BY <1>5 DEF StoreInv, OpenWrite, ClearDataDone, ClearAllCommit, ShownInv, ClearsOnPoints, EmptiedInv
  <2>2. Stored' = NoPoints
    BY <2>1, LoadedEmpty DEF Stored, NoPoints
  <2> QED BY <1>3, <2>1, <2>2 DEF ShownInv, HeldFresh, ClearsOnPoints
<1>6. CASE ClearDataFailed
  <2>1. pc' = "idle" /\ screen' = "points" /\ writing' /\ alive'
    BY <1>6 DEF ClearDataFailed, ClearAllFails, ShownInv, ClearsOnPoints, StoreInv, OpenWrite
  <2> QED BY <2>1 DEF ShownInv, HeldFresh, ClearsOnPoints, Comparable
<1> QED BY <1>1, <1>2, <1>4, <1>5, <1>6

LEMMA ShownMeanwhile ==
    ASSUME ShownInv, Meanwhile \/ UNCHANGED allVars PROVE ShownInv'
<1>1. Strings(points)' = Strings(points') /\ Strings(Stored)' = Strings(Stored')
  BY DEF Strings
<1>2. CASE (CommitWrite \/ CommitWriteFails) /\ UNCHANGED screenVars
  <2>1. /\ pc = "commit" /\ pc' = "idle" /\ screen' = screen
        /\ UNCHANGED <<counted, alive, held, steady>>
    BY <1>2 DEF CommitWrite, CommitWriteFails, screenVars, counted
  <2> QED BY <2>1, StoredKept DEF ShownInv, HeldFresh, ClearsOnPoints
<1>3. CASE /\ \E t \in Instants : ClockMoves(t)
           /\ steady' = (steady /\ now' = now)
           /\ UNCHANGED <<held, label, screen, points, shared, strings>>
  <2>1. UNCHANGED <<db, preset, lastReset, alive, pc, writing, held, screen, points, strings>>
    BY <1>3 DEF ClockMoves, process, defaults
  <2>2. CASE now' = now
    <3>1. UNCHANGED <<counted, steady>> \/ ~steady'
      BY <1>3, <2>1, <2>2 DEF counted
    <3>2. Comparable' => Comparable /\ steady'
      BY <1>3, <2>1, <2>2 DEF Comparable, ClockSteady, StartOfMonth, ToLocal, MonthStart, DatedFrom, Rows
    <3>3. Stored' = Stored
      BY <2>1, <2>2, StoredKept DEF counted
    <3> QED BY <1>1, <1>3, <2>1, <3>2, <3>3 DEF ShownInv, HeldFresh, ClearsOnPoints
  <2>3. CASE now' # now
    <3>1. ~steady' /\ ~Comparable'
      BY <1>3, <2>3 DEF Comparable, ClockSteady
    <3> QED BY <2>1, <3>1 DEF ShownInv, HeldFresh, ClearsOnPoints
  <2> QED BY <2>2, <2>3
<1>4. CASE (ClearAllRaises \/ Crash \/ (~On("points") /\ WriteRaises)) /\ screen' = "first"
  <2>1. ~alive' /\ pc' = "idle"
    BY <1>4 DEF ClearAllRaises, Crash, WriteRaises, Die
  <2> QED BY <1>4, <2>1 DEF ShownInv, HeldFresh, ClearsOnPoints
<1>5. CASE Launch /\ Load /\ UNCHANGED <<screen, points, shared, strings>>
  <2>1. held' = Stored' /\ ~alive /\ pc' = pc
    BY <1>5, LoadMakesHeldFresh DEF Launch
  <2> QED BY <1>5, <2>1 DEF ShownInv, HeldFresh, ClearsOnPoints, Launch
<1>6. CASE UNCHANGED allVars
  <2>1. UNCHANGED <<counted, alive, pc, writing, held, steady, screen, points, strings>>
    BY <1>6 DEF allVars, vars, screenVars, counted
  <2>2. Comparable' => Comparable
    BY <2>1 DEF counted, Comparable, ClockSteady, StartOfMonth, ToLocal, MonthStart, DatedFrom, Rows
  <2> QED BY <1>1, <2>1, <2>2, StoredKept DEF ShownInv, HeldFresh, ClearsOnPoints
<1> QED BY <1>2, <1>3, <1>4, <1>5, <1>6 DEF Meanwhile

(* What the points screen shows after adding to and zeroing the object it  *)
(* was handed is what the store would load: with a steady clock, nothing   *)
(* dated in the future and no write left open.                             *)
THEOREM ShownAlwaysStored == ScreenSpec => []ShownIsStored
<1>1. ScreenInit => ShownInv
  BY LoadedNow, NothingLoaded DEF ScreenInit, Init, ShownInv, HeldFresh, ClearsOnPoints, Stored
<1>2. StoreInv /\ EmptiedInv /\ ShownInv /\ [ScreenNext]_allVars => ShownInv'
  BY ShownElsewhere, ShownOnPoints, ShownCleared, ShownMeanwhile DEF ScreenNext
<1>3. ShownInv => ShownIsStored
  BY LoadedNow DEF ShownInv, ShownIsStored, On, Idle, Comparable, Stored
<1> QED BY <1>1, <1>2, <1>3, ScreenStoreInvariant, PTL DEF ScreenSpec

=============================================================================
