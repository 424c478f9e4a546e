------------------------- MODULE DataManagerProofs -------------------------
(***************************************************************************)
(* Proofs about the store for every set of emergency types and responses,  *)
(* every calendar and every sequence of operations, failed commits,        *)
(* crashes and clock settings: what it keeps of its contents, and that its *)
(* counts of points agree with each other.                                 *)
(***************************************************************************)
EXTENDS DataManager, FiniteSums, FiniteSetTheorems, TLAPS

-----------------------------------------------------------------------------
(* What the operations do to the contents of a Realm *)

(* Deleting, appending and updating keep the contents well-typed.          *)
LEMMA DeleteResponsesTyped ==
    ASSUME NEW s \in Snapshot, NEW R
    PROVE  DeleteResponses(s, R) \in Snapshot
BY DEF Snapshot, DeleteResponses

LEMMA DeleteEmergencyTyped ==
    ASSUME NEW s \in Snapshot, NEW e \in Emergencies
    PROVE  DeleteEmergency(s, e) \in Snapshot
BY DEF Snapshot, DeleteEmergency

LEMMA AppendTyped ==
    ASSUME NEW s \in Snapshot, NEW e \in Emergencies, NEW r \in Responses, NEW d \in Instants
    PROVE  AppendResponse(s, e, r, d) \in Snapshot
<1> DEFINE l == [s.links[e] EXCEPT ![r] = s.links[e][r] + 1]
<1>1. s.links[e] \in [Responses -> Nat]
  BY DEF Snapshot
<1>2. l \in [Responses -> Nat]
  BY <1>1
<1>3. [s.links EXCEPT ![e] = l] \in [Emergencies -> [Responses -> Nat]]
  BY <1>2 DEF Snapshot
<1>4. /\ [s EXCEPT !.date[r] = d] \in Snapshot
      /\ [s EXCEPT !.date[r] = d].links = s.links
  BY DEF Snapshot
<1>5. ASSUME NEW t \in Snapshot, NEW L \in [Emergencies -> [Responses -> Nat]]
      PROVE  [t EXCEPT !.links = L] \in Snapshot
  BY DEF Snapshot
<1>6. AppendResponse(s, e, r, d) = [[s EXCEPT !.date[r] = d] EXCEPT !.links = [s.links EXCEPT ![e] = l]]
  BY <1>4 DEF AppendResponse
<1> QED BY <1>3, <1>4, <1>5, <1>6

LEMMA NamingTyped ==
    ASSUME NEW s \in Snapshot, NEW e \in Emergencies, NEW n \in Names
    PROVE  [s EXCEPT !.type[e] = n] \in Snapshot
BY DEF Snapshot

LEMMA DatingTyped ==
    ASSUME NEW s \in Snapshot, NEW r \in Responses, NEW d \in Instants
    PROVE  [s EXCEPT !.date[r] = d] \in Snapshot
BY DEF Snapshot

LEMMA EmptyRealmTyped == EmptyRealm \in Snapshot
BY DEF EmptyRealm, Snapshot

(* A new type, with its list still empty, and a rename leave every         *)
(* response where it is.                                                   *)
LEMMA NamingKeepsPartition ==
    ASSUME NEW s \in Snapshot, Partitioned(s), NEW e \in Emergencies, NEW n \in Names
    PROVE  Partitioned([s EXCEPT !.type[e] = n])
BY DataManagerAssumption DEF Partitioned, Snapshot, Types, Rows, Linked

LEMMA DatingKeepsPartition ==
    ASSUME NEW s \in Snapshot, Partitioned(s), NEW r \in Rows(s), NEW d \in Instants
    PROVE  Partitioned([s EXCEPT !.date[r] = d])
BY DataManagerAssumption, CalendarAssumption DEF Partitioned, Snapshot, Types, Rows, Linked

(* A response that was nowhere is put into one list, once.                 *)
LEMMA AppendKeepsPartition ==
    ASSUME NEW s \in Snapshot, Partitioned(s), NEW e \in Types(s),
           NEW r \in Responses, r \notin Rows(s), NEW d \in Instants
    PROVE  Partitioned(AppendResponse(s, e, r, d))
<1> DEFINE t == AppendResponse(s, e, r, d)
<1>1. /\ t.type = s.type
      /\ t.date = [s.date EXCEPT ![r] = d]
      /\ t.links = [s.links EXCEPT ![e][r] = @ + 1]
  BY DEF AppendResponse, Snapshot
<1>2. \A f \in Emergencies : s.links[f][r] = 0
  BY DEF Partitioned, Linked, Snapshot
<1>3. \A f \in Emergencies, q \in Responses :
         t.links[f][q] = IF f = e /\ q = r THEN 1 ELSE s.links[f][q]
  BY <1>1, <1>2 DEF Snapshot, Types
<1>4. Types(t) = Types(s) /\ Rows(t) = Rows(s) \cup {r}
  BY <1>1, DataManagerAssumption, CalendarAssumption DEF Types, Rows, Snapshot
<1>5. \A f \in Emergencies : Linked(t, f) = IF f = e THEN Linked(s, f) \cup {r} ELSE Linked(s, f)
  BY <1>3 DEF Linked
<1> QED BY <1>2, <1>3, <1>4, <1>5 DEF Partitioned, Linked, Types

(* Deleting rows clears every list of them, whichever list the caller      *)
(* unlinked them from before.                                              *)
LEMMA DeleteKeepsPartition ==
    ASSUME NEW s \in Snapshot, Partitioned(s), NEW R \in SUBSET Responses
    PROVE  Partitioned(DeleteResponses(s, R))
<1> DEFINE t == DeleteResponses(s, R)
<1>1. /\ t.type = s.type
      /\ t.date = [r \in Responses |-> IF r \in R THEN NoDate ELSE s.date[r]]
      /\ t.links = [e \in Emergencies |->
                      [r \in Responses |-> IF r \in R THEN 0 ELSE s.links[e][r]]]
  BY DEF DeleteResponses, Snapshot
<1>2. Types(t) = Types(s) /\ Rows(t) = Rows(s) \ R
  BY <1>1 DEF Types, Rows
<1>3. \A e \in Emergencies : Linked(t, e) = Linked(s, e) \ R
  BY <1>1 DEF Linked
<1> HIDE DEF t
<1>4. \A e \in Emergencies, r \in Responses : t.links[e][r] \in {0, 1}
  BY <1>1 DEF Partitioned
<1>5. \A r \in Rows(t) : \E e \in Types(t) : r \in Linked(t, e)
  BY <1>2, <1>3 DEF Partitioned, Types
<1>6. \A e \in Emergencies : \A r \in Linked(t, e) :
         /\ e \in Types(t) /\ r \in Rows(t)
         /\ \A f \in Emergencies : r \in Linked(t, f) => f = e
  BY <1>2, <1>3 DEF Partitioned
<1> QED BY <1>4, <1>5, <1>6 DEF Partitioned, t

LEMMA UnlinkThenDelete ==
    ASSUME NEW s \in Snapshot, NEW e \in Emergencies, NEW r \in Responses
    PROVE  DeleteResponses(Unlink(s, e, r), {r}) = DeleteResponses(s, {r})
BY DEF DeleteResponses, Unlink, Snapshot

(* Deleting a type after the responses on its list leaves no orphan.       *)
LEMMA DeleteTypeKeepsPartition ==
    ASSUME NEW s \in Snapshot, Partitioned(s), NEW e \in Emergencies
    PROVE  Partitioned(DeleteEmergency(DeleteResponses(s, Linked(s, e)), e))
<1> DEFINE t == DeleteResponses(s, Linked(s, e))
           u == DeleteEmergency(t, e)
<1>1. t \in Snapshot /\ Partitioned(t)
  BY DeleteResponsesTyped, DeleteKeepsPartition DEF Linked
<1>2. Linked(t, e) = {}
  BY DEF Linked, DeleteResponses, Snapshot
<1> HIDE DEF t
<1>3. /\ u.type = [t.type EXCEPT ![e] = NoName]
      /\ u.date = t.date
      /\ u.links = [t.links EXCEPT ![e] = [r \in Responses |-> 0]]
  BY <1>1 DEF DeleteEmergency, Snapshot
<1>4. Types(u) = Types(t) \ {e} /\ Rows(u) = Rows(t)
  BY <1>1, <1>3 DEF Types, Rows, Snapshot
<1>5. \A f \in Emergencies : Linked(u, f) = Linked(t, f)
  BY <1>1, <1>2, <1>3 DEF Linked, Snapshot
<1>6. \A f \in Emergencies, r \in Responses : u.links[f][r] \in {0, 1}
  BY <1>1, <1>3 DEF Partitioned, Snapshot
<1> HIDE DEF u
<1>7. Partitioned(u)
  BY <1>1, <1>2, <1>4, <1>5, <1>6 DEF Partitioned, Types
<1> QED BY <1>7 DEF u, t

LEMMA EmptyRealmPartitioned == Partitioned(EmptyRealm)
BY DEF EmptyRealm, Partitioned, Types, Rows, Linked

-----------------------------------------------------------------------------
(* The inductive invariant.  ResponsesPartitioned alone is not inductive:  *)
(* a commit makes db the file, so db must be partitioned too, and a crash  *)
(* makes the file db; the operations preserve it only on well-typed        *)
(* contents.  OpenWrite ties the open transaction to the steps that end it.*)
StoreInv == TypeOK /\ OpenWrite /\ ResponsesPartitioned

LEMMA RepliesTyped ==
    /\ Success \in Replies /\ NoReply \in Replies
    /\ \A b \in BOOLEAN, x \in Errors : Reply(b, x) \in Replies
    /\ \A b \in BOOLEAN : \A x \in {"alreadyExists", "errorWritingData", "errorClearData",
                                   "errorChangingName"} : Reply(b, x) \in Replies
BY DEF Success, NoReply, Reply, Replies, Errors

LEMMA ShortSequences ==
    ASSUME NEW S
    PROVE  << >> \in Seq(S) /\ \A x \in S : <<x>> \in Seq(S)
OBVIOUS

LEMMA InitInv == Init => StoreInv
<1> SUFFICES ASSUME Init PROVE StoreInv
  OBVIOUS
<1>1. TypeOK
  BY EmptyRealmTyped, RepliesTyped, ShortSequences DEF Init, TypeOK
<1>2. OpenWrite
  BY DEF Init, OpenWrite
<1>3. ResponsesPartitioned
  BY EmptyRealmPartitioned DEF Init, ResponsesPartitioned
<1> QED BY <1>1, <1>2, <1>3 DEF StoreInv

(* The block of a write, whatever contents it leaves.                      *)
LEMMA WriteInv ==
    ASSUME StoreInv, NEW new \in Snapshot, Partitioned(new),
           NEW reply \in Replies, NEW failure \in Replies, Write(new, reply, failure)
    PROVE  StoreInv'
<1>1. TypeOK'
  BY DEF StoreInv, TypeOK, Write
<1>2. OpenWrite'
  BY DEF Write, OpenWrite, Idle
<1>3. ResponsesPartitioned'
  BY DEF StoreInv, ResponsesPartitioned, Partitioned, Types, Rows, Linked, Write
<1> QED BY <1>1, <1>2, <1>3 DEF StoreInv

LEMMA DieInv ==
    ASSUME StoreInv, Die
    PROVE  StoreInv'
<1>1. TypeOK'
  BY RepliesTyped, ShortSequences DEF StoreInv, TypeOK, Die
<1>2. OpenWrite'
  BY DEF Die, OpenWrite
<1>3. ResponsesPartitioned'
  BY DEF StoreInv, ResponsesPartitioned, Partitioned, Types, Rows, Linked, Die
<1> QED BY <1>1, <1>2, <1>3 DEF StoreInv

(* The operations that write to the Realm: each block leaves well-typed,   *)
(* partitioned contents.                                                   *)
LEMMA NamingOperationInv ==
    ASSUME StoreInv, NEW e \in Emergencies, NEW n \in Names,
           AddEmergency(e, n) \/ UpdateEmergency(e, n)
    PROVE  StoreInv'
<1>1. db \in Snapshot /\ Partitioned(db)
  BY DEF StoreInv, TypeOK, ResponsesPartitioned
<1>2. [db EXCEPT !.type[e] = n] \in Snapshot /\ Partitioned([db EXCEPT !.type[e] = n])
  BY <1>1, NamingTyped, NamingKeepsPartition
<1>3. CASE AddEmergency(e, n) /\ AlreadyExists(db, n)
  BY <1>1, <1>3, WriteInv, RepliesTyped DEF AddEmergency
<1>4. CASE AddEmergency(e, n) /\ ~AlreadyExists(db, n)
  BY <1>2, <1>4, WriteInv, RepliesTyped DEF AddEmergency
<1>5. CASE UpdateEmergency(e, n)
  BY <1>2, <1>5, WriteInv, RepliesTyped DEF UpdateEmergency
<1> QED BY <1>3, <1>4, <1>5

LEMMA AddResponseInv ==
    ASSUME StoreInv, NEW r \in Responses, NEW e \in Emergencies, NEW d \in Instants,
           AddResponse(r, e, d)
    PROVE  StoreInv'
<1>1. db \in Snapshot /\ Partitioned(db)
  BY DEF StoreInv, TypeOK, ResponsesPartitioned
<1>2. r \notin Rows(db) /\ e \in Types(db)
  BY DEF AddResponse
<1>3. AppendResponse(db, e, r, d) \in Snapshot /\ Partitioned(AppendResponse(db, e, r, d))
  BY <1>1, <1>2, AppendTyped, AppendKeepsPartition
<1> QED BY <1>3, WriteInv, RepliesTyped DEF AddResponse

LEMMA RemoveResponseInv ==
    ASSUME StoreInv, NEW r \in Responses, NEW e \in Emergencies, RemoveResponse(r, e)
    PROVE  StoreInv'
<1>1. db \in Snapshot /\ Partitioned(db)
  BY DEF StoreInv, TypeOK, ResponsesPartitioned
<1>2. DeleteResponses(db, {r}) \in Snapshot /\ Partitioned(DeleteResponses(db, {r}))
  BY <1>1, DeleteResponsesTyped, DeleteKeepsPartition
<1> QED BY <1>1, <1>2, UnlinkThenDelete, WriteInv, RepliesTyped DEF RemoveResponse

LEMMA UpdateResponseInv ==
    ASSUME StoreInv, NEW r \in Responses, NEW d \in Instants, UpdateResponse(r, d)
    PROVE  StoreInv'
<1>1. db \in Snapshot /\ Partitioned(db) /\ r \in Rows(db)
  BY DEF StoreInv, TypeOK, ResponsesPartitioned, UpdateResponse
<1>2. [db EXCEPT !.date[r] = d] \in Snapshot /\ Partitioned([db EXCEPT !.date[r] = d])
  BY <1>1, DatingTyped, DatingKeepsPartition
<1> QED BY <1>2, WriteInv, RepliesTyped DEF UpdateResponse

LEMMA RemoveEmergencyInv ==
    ASSUME StoreInv, NEW e \in Emergencies, RemoveEmergency(e)
    PROVE  StoreInv'
<1> DEFINE new == DeleteEmergency(DeleteResponses(db, Linked(db, e)), e)
<1>1. db \in Snapshot /\ Partitioned(db)
  BY DEF StoreInv, TypeOK, ResponsesPartitioned
<1>2. new \in Snapshot /\ Partitioned(new)
  BY <1>1, DeleteResponsesTyped, DeleteEmergencyTyped, DeleteTypeKeepsPartition
<1> QED BY <1>2, WriteInv, RepliesTyped DEF RemoveEmergency

(* The steps that change only UserDefaults, the clock or the process.      *)
LEMMA DefaultsInv ==
    ASSUME StoreInv,
           \/ \E p \in ManualPoints : ManuallyAdd(p)
           \/ ClearPoints \/ ClearAllData \/ ClearPointsDate \/ ClearAllDate
           \/ Launch \/ \E t \in Instants : ClockMoves(t)
    PROVE  StoreInv'
<1>1. UNCHANGED <<db, file>>
  BY DEF ManuallyAdd, ClearPoints, ClearAllData, ClearPointsDate, ClearAllDate, Launch,
         ClockMoves, process
<1>2. ResponsesPartitioned'
  BY <1>1 DEF StoreInv, ResponsesPartitioned, Partitioned, Types, Rows, Linked
<1>3. TypeOK' /\ OpenWrite'
  <2>1. CASE \E p \in ManualPoints : ManuallyAdd(p)
    <3>1. PICK p \in ManualPoints : ManuallyAdd(p)
      BY <2>1
    <3>2. preset' \in Seq([date : Instants, points : ManualPoints])
      BY <3>1 DEF ManuallyAdd, StoreInv, TypeOK
    <3> QED BY <3>1, <3>2 DEF ManuallyAdd, StoreInv, TypeOK, OpenWrite, Idle
  <2>2. CASE ClearPoints \/ ClearAllData
    BY <2>2, ShortSequences DEF ClearPoints, ClearAllData, Idle, StoreInv, TypeOK, OpenWrite
  <2>3. CASE ClearPointsDate \/ ClearAllDate
    BY <2>3 DEF ClearPointsDate, ClearAllDate, StoreInv, TypeOK, OpenWrite
  <2>4. CASE Launch
    BY <2>4 DEF Launch, StoreInv, TypeOK, OpenWrite
  <2>5. CASE \E t \in Instants : ClockMoves(t)
    BY <2>5 DEF ClockMoves, process, defaults, StoreInv, TypeOK, OpenWrite
  <2> QED BY <2>1, <2>2, <2>3, <2>4, <2>5
<1> QED BY <1>2, <1>3 DEF StoreInv

(* The ends of a write and the Realm step of clearAllData.                 *)
LEMMA EndOfWriteInv ==
    ASSUME StoreInv,
           \/ CommitWrite \/ CommitWriteFails
           \/ ClearAllRealm \/ ClearAllCommit \/ ClearAllFails
    PROVE  StoreInv'
<1>1. ResponsesPartitioned'
  BY EmptyRealmPartitioned
     DEF StoreInv, ResponsesPartitioned, Partitioned, Types, Rows, Linked,
         CommitWrite, CommitWriteFails, ClearAllRealm, ClearAllCommit, ClearAllFails
<1>2. CASE CommitWrite \/ ClearAllCommit
  <2>1. TypeOK' /\ OpenWrite'
    BY <1>2, RepliesTyped, ShortSequences DEF CommitWrite, ClearAllCommit, StoreInv, TypeOK, OpenWrite
  <2> QED BY <1>1, <2>1 DEF StoreInv
<1>3. CASE CommitWriteFails \/ ClearAllFails
  <2>1. Append(replies, onFailure) \in Seq(Replies)
    BY DEF StoreInv, TypeOK
  <2>2. TypeOK' /\ OpenWrite'
    BY <1>3, <2>1, RepliesTyped, ShortSequences DEF CommitWriteFails, ClearAllFails, StoreInv, TypeOK, OpenWrite
  <2> QED BY <1>1, <2>2 DEF StoreInv
<1>4. CASE ClearAllRealm
  <2>1. TypeOK' /\ OpenWrite'
    BY <1>4, EmptyRealmTyped DEF ClearAllRealm, StoreInv, TypeOK, OpenWrite
  <2> QED BY <1>1, <2>1 DEF StoreInv
<1> QED BY <1>2, <1>3, <1>4

LEMMA StepInv == StoreInv /\ [Next]_vars => StoreInv'
<1> SUFFICES ASSUME StoreInv, [Next]_vars PROVE StoreInv'
  OBVIOUS
<1>1. CASE Operation
  BY <1>1, NamingOperationInv, AddResponseInv, RemoveResponseInv, UpdateResponseInv,
     RemoveEmergencyInv, DefaultsInv DEF Operation
<1>2. CASE Step
  BY <1>2, EndOfWriteInv, DefaultsInv, DieInv DEF Step, WriteRaises, ClearAllRaises
<1>3. CASE World
  BY <1>3, DefaultsInv, DieInv DEF World, Crash
<1>4. CASE UNCHANGED vars
  BY <1>4 DEF vars, StoreInv, TypeOK, OpenWrite, ResponsesPartitioned, Partitioned,
              Types, Rows, Linked
<1> QED BY <1>1, <1>2, <1>3, <1>4 DEF Next

(* The store's contents and its transaction agree in every state, also     *)
(* when a commit failed and the process goes on, ends or is started again. *)
THEOREM StoreInvariant == Spec => []StoreInv
BY InitInv, StepInv, PTL DEF Spec

(* Every variable always has its type.                                     *)
THEOREM TypeCorrect == Spec => []TypeOK
<1>1. StoreInv => TypeOK
  BY DEF StoreInv
<1> QED BY <1>1, StoreInvariant, PTL

(* What the app shows is what is saved, except inside a write transaction  *)
(* or after its commit failed; and no transaction outlives the process.    *)
THEOREM DivergesOnlyInWrite == Spec => []OpenWrite
<1>1. StoreInv => OpenWrite
  BY DEF StoreInv
<1> QED BY <1>1, StoreInvariant, PTL

(* No operation, failed commit or crash orphans a response or leaves a     *)
(* deleted one on a list: neither in the file nor in what the app shows.   *)
THEOREM NoOrphans == Spec => []ResponsesPartitioned
<1>1. StoreInv => ResponsesPartitioned
  BY DEF StoreInv
<1> QED BY <1>1, StoreInvariant, PTL

(* Once a commit has failed, no step of that process saves, changes or     *)
(* closes what it left open: DataManager.swift's next beginWrite raises.   *)
THEOREM FailedStaysUnsaved == Spec => FailedNeverDurable
<1>1. StoreInv /\ [Next]_vars
      => (WriteLeftOpen => file' = file /\ (alive' => WriteLeftOpen' /\ db' = db))
  <2> SUFFICES ASSUME [Next]_vars, WriteLeftOpen
               PROVE  file' = file /\ (alive' => WriteLeftOpen' /\ db' = db)
    OBVIOUS
  <2> USE DEF WriteLeftOpen, Idle, CanBegin
  <2>1. CASE Operation
    BY <2>1 DEF Operation, AddEmergency, UpdateEmergency, AddResponse, RemoveResponse,
                UpdateResponse, RemoveEmergency, Write, ManuallyAdd, ClearPoints, ClearAllData
  <2>2. CASE Step
    BY <2>2 DEF Step, WriteRaises, CommitWrite, CommitWriteFails, ClearPointsDate, ClearAllDate,
                ClearAllRealm, ClearAllRaises, ClearAllCommit, ClearAllFails, Die
  <2>3. CASE World
    BY <2>3 DEF World, Crash, Launch, ClockMoves, Die, process
  <2>4. CASE UNCHANGED vars
    BY <2>4 DEF vars
  <2> QED BY <2>1, <2>2, <2>3, <2>4 DEF Next
<1> QED BY <1>1, StoreInvariant, PTL DEF Spec, FailedNeverDurable

-----------------------------------------------------------------------------
(* The calendar: a finite set of integers has a maximum, and a year begins *)
(* no later than any month in it.                                          *)
LEMMA MaxFinite ==
    ASSUME NEW S \in SUBSET Int, IsFiniteSet(S), S # {}
    PROVE  Max(S) \in S /\ \A x \in S : x <= Max(S)
<1> DEFINE Top(T) == \E x \in T : \A y \in T : y <= x
           F == {T \in SUBSET S : T # {} => Top(T)}
<1>1. ASSUME NEW T \in SUBSET S, \A U \in SUBSET T : U # T => U \in F
      PROVE  T \in F
  <2> SUFFICES ASSUME T # {} PROVE Top(T)
    OBVIOUS
  <2>1. PICK x \in T : TRUE
    OBVIOUS
  <2>2. CASE T = {x}
    <3>1. x \in Int /\ \A y \in T : y = x
      BY <2>2
    <3>2. \A y \in T : y <= x
      BY <3>1
    <3> QED BY <3>2
  <2>3. CASE T # {x}
    <3>1. Top(T \ {x})
      <4>1. T \ {x} \in SUBSET T /\ T \ {x} # T /\ T \ {x} # {}
        BY <2>1, <2>3
      <4>2. T \ {x} \in F
        BY <1>1, <4>1
      <4> HIDE DEF Top
      <4> QED BY <4>1, <4>2
    <3>2. PICK y \in T \ {x} : \A z \in T \ {x} : z <= y
      BY <3>1
    <3>3. CASE x <= y
      BY <3>2, <3>3
    <3>4. CASE ~(x <= y)
      BY <3>2, <3>4
    <3> QED BY <3>3, <3>4
  <2> QED BY <2>2, <2>3
<1> HIDE DEF F
<1>2. SUBSET S \subseteq F
  BY <1>1, SubsetInduction
<1>3. S \in F
  BY <1>2
<1>4. \E x \in S : \A y \in S : x >= y
  BY <1>3 DEF F
<1>5. Max(S) \in S /\ \A y \in S : Max(S) >= y
  BY <1>4, Zenon DEF Max
<1> QED BY <1>5

LEMMA StartsTyped ==
    ASSUME NEW t \in Instants
    PROVE  /\ MonthStart(t) \in MonthStarts /\ MonthStart(t) <= t
           /\ YearStart(t) \in YearStarts /\ YearStart(t) <= MonthStart(t)
           /\ PreviousMonthStart(t) \in MonthStarts /\ PreviousMonthStart(t) < MonthStart(t)
<1> DEFINE months == {m \in MonthStarts : m <= t}
           years == {y \in YearStarts : y <= t}
           earlier == {m \in MonthStarts : m < MonthStart(t)}
<1>1. /\ months \in SUBSET Int /\ years \in SUBSET months /\ earlier \in SUBSET Int
      /\ IsFiniteSet(months) /\ IsFiniteSet(years) /\ IsFiniteSet(earlier)
      /\ years # {} /\ earlier # {}
  <2>1. months \in SUBSET MonthStarts /\ years \in SUBSET MonthStarts /\ earlier \in SUBSET MonthStarts
    BY CalendarAssumption
  <2>2. IsFiniteSet(months) /\ IsFiniteSet(years) /\ IsFiniteSet(earlier)
    BY <2>1, CalendarAssumption, FS_Subset
  <2> QED BY <2>1, <2>2, CalendarAssumption
<1>2. MonthStart(t) \in months /\ \A m \in months : m <= MonthStart(t)
  <2> HIDE DEF months, years, earlier
  <2>1. Max(months) \in months /\ \A m \in months : m <= Max(months)
    BY <1>1, MaxFinite
  <2> QED BY <2>1 DEF MonthStart, months
<1>3. YearStart(t) \in years
  <2> HIDE DEF months, years, earlier
  <2>1. Max(years) \in years
    BY <1>1, MaxFinite
  <2> QED BY <2>1 DEF YearStart, years
<1>4. PreviousMonthStart(t) \in earlier
  <2> HIDE DEF months, years, earlier
  <2>1. Max(earlier) \in earlier
    BY <1>1, MaxFinite
  <2> QED BY <2>1 DEF PreviousMonthStart, earlier
<1> QED BY <1>1, <1>2, <1>3, <1>4

LEMMA StartsOrdered ==
    ASSUME NEW t \in Instants
    PROVE  /\ StartOfMonth(t) \in Int /\ StartOfYear(t) \in Int /\ StartOfPreviousMonth(t) \in Int
           /\ StartOfYear(t) <= StartOfMonth(t)
           /\ StartOfPreviousMonth(t) < StartOfMonth(t)
<1> DEFINE m == MonthStart(t)
           y == YearStart(t)
           p == PreviousMonthStart(t)
<1>1. m \in MonthStarts /\ y \in MonthStarts /\ p \in MonthStarts /\ y <= m /\ p < m
  BY StartsTyped, CalendarAssumption
<1> HIDE DEF m, y, p
<1>2. m \in Int /\ y \in Int /\ p \in Int
      /\ UtcOffset[m] \in Int /\ UtcOffset[y] \in Int /\ UtcOffset[p] \in Int
  BY <1>1, CalendarAssumption
<1>3. y = m \/ y + UtcOffset[y] < m + UtcOffset[m]
  BY <1>1, <1>2, CalendarAssumption
<1>4. p + UtcOffset[p] < m + UtcOffset[m]
  BY <1>1, CalendarAssumption
<1> QED BY <1>2, <1>3, <1>4 DEF StartOfMonth, StartOfYear, StartOfPreviousMonth, ToLocal, m, y, p

-----------------------------------------------------------------------------
(* The sums of DataManager.swift as sums over finite sets *)

SumOf(p, I) == MapThenSumSet(LAMBDA i : p[i].points, I)

LEMMA SumOfIsSum ==
    ASSUME NEW p, NEW I
    PROVE  SumOf(p, I) = Sum([i \in I |-> p[i].points], I)
<1> DEFINE g == [i \in I |-> p[i].points]
           A(f) == [T \in SUBSET I |-> IF T = {} THEN 0
                       ELSE p[CHOOSE x \in T : TRUE].points + f[T \ {CHOOSE x \in T : TRUE}]]
           B(f) == [T \in SUBSET I |-> IF T = {} THEN 0
                       ELSE g[CHOOSE x \in T : TRUE] + f[T \ {CHOOSE x \in T : TRUE}]]
<1>1. SumOf(p, I) = (CHOOSE f : f = A(f))[I]
  BY DEF SumOf, MapThenSumSet, MapThenFoldSet
<1>2. Sum(g, I) = (CHOOSE f : f = B(f))[I]
  BY DEF Sum, MapThenSumSet, MapThenFoldSet
<1>3. ASSUME NEW T \in SUBSET I, T # {}
      PROVE  p[CHOOSE x \in T : TRUE].points = g[CHOOSE x \in T : TRUE]
  <2>1. (CHOOSE x \in T : TRUE) \in I
    BY <1>3
  <2> QED BY <2>1
<1>4. \A f : A(f) = B(f)
  BY <1>3
<1> HIDE DEF A, B, g
<1>5. (CHOOSE f : f = A(f)) = (CHOOSE f : f = B(f))
  BY <1>4, Zenon
<1> QED BY <1>1, <1>2, <1>5 DEF g

LEMMA SumOfInt ==
    ASSUME NEW p, NEW I, IsFiniteSet(I), \A i \in I : p[i].points \in Int
    PROVE  SumOf(p, I) \in Int
<1> DEFINE g == [i \in I |-> p[i].points]
<1>1. \A i \in I : g[i] \in Int
  OBVIOUS
<1> HIDE DEF g
<1>2. Sum(g, I) \in Int
  BY <1>1, SumInt
<1> QED BY <1>2, SumOfIsSum DEF g

Additions == Seq([date : Instants, points : ManualPoints])

LEMMA AdditionsTyped ==
    ASSUME NEW p \in Additions
    PROVE  /\ Len(p) \in Nat /\ DOMAIN p = 1 .. Len(p) /\ IsFiniteSet(DOMAIN p)
           /\ \A i \in DOMAIN p : p[i].date \in Int /\ p[i].points \in Int
<1>1. Len(p) \in Nat /\ DOMAIN p = 1 .. Len(p)
  BY DEF Additions
<1>2. IsFiniteSet(DOMAIN p)
  BY <1>1, FS_Interval
<1>3. ASSUME NEW i \in DOMAIN p PROVE p[i].date \in Int /\ p[i].points \in Int
  <2> DEFINE A == [date : Instants, points : ManualPoints]
  <2>1. p \in Seq(A)
    BY DEF Additions
  <2> HIDE DEF A
  <2>2. p[i] \in A
    BY <2>1
  <2>3. p[i].date \in Instants /\ p[i].points \in ManualPoints
    BY <2>2 DEF A
  <2> QED BY <2>3, CalendarAssumption, DataManagerAssumption
<1> QED BY <1>1, <1>2, <1>3

LEMMA AdditionsSum ==
    ASSUME NEW p \in Additions, NEW I \in SUBSET DOMAIN p
    PROVE  IsFiniteSet(I) /\ SumOf(p, I) \in Int
<1>1. IsFiniteSet(I) /\ \A i \in I : p[i].points \in Int
  BY AdditionsTyped, FS_Subset
<1> QED BY <1>1, SumOfInt

LEMMA SumOfAgrees ==
    ASSUME NEW p, NEW q, NEW I, \A i \in I : p[i].points = q[i].points
    PROVE  SumOf(p, I) = SumOf(q, I)
<1>1. [i \in I |-> p[i].points] = [i \in I |-> q[i].points]
  OBVIOUS
<1> QED BY <1>1, SumOfIsSum

LEMMA SumOfInsert ==
    ASSUME NEW p, NEW I, IsFiniteSet(I), NEW j, j \notin I,
           \A i \in I \cup {j} : p[i].points \in Int
    PROVE  SumOf(p, I \cup {j}) = p[j].points + SumOf(p, I)
<1> DEFINE J == I \cup {j}
           g == [i \in J |-> p[i].points]
           h == [i \in I |-> p[i].points]
<1>1. IsFiniteSet(J) /\ J \ {j} = I /\ j \in J
  BY FS_AddElement
<1>2. (\A i \in J : g[i] \in Int) /\ (\A i \in I : g[i] = h[i]) /\ g[j] = p[j].points
  OBVIOUS
<1> HIDE DEF J, g, h
<1>3. Sum(g, J) = g[j] + Sum(g, I)
  BY <1>1, <1>2, SumRemove
<1>4. Sum(g, I) = Sum(h, I)
  BY <1>2, SumAgree
<1>5. SumOf(p, J) = Sum(g, J) /\ SumOf(p, I) = Sum(h, I)
  BY SumOfIsSum DEF g, h
<1> QED BY <1>2, <1>3, <1>4, <1>5 DEF J

LEMMA SumOfEmpty == \A p : SumOf(p, {}) = 0
BY SumOfIsSum, SumEmpty

LEMMA ManualIsSumOf == \A I : ManualSum(I) = SumOf(preset, I)
BY DEF ManualSum, SumOf

(* The entries of a list that a set of responses makes up.                 *)
LEMMA ListCountIsSum ==
    ASSUME NEW s, NEW e, NEW R
    PROVE  ListCount(s, e, R) = Sum(s.links[e], R)
BY DEF ListCount, Sum, MapThenSumSet, MapThenFoldSet

(* What all types of a Realm count together: field by field.               *)
TypesSum(field) == MapThenSumSet(LAMBDA e : EmergencyPoints(db, e)[field], Types(db))

LEMMA TypesSumIsSum ==
    ASSUME NEW field
    PROVE  TypesSum(field) = Sum([e \in Types(db) |-> EmergencyPoints(db, e)[field]], Types(db))
<1> DEFINE E == Types(db)
           v(e) == EmergencyPoints(db, e)[field]
           g == [e \in E |-> v(e)]
           A(f) == [T \in SUBSET E |-> IF T = {} THEN 0
                       ELSE v(CHOOSE x \in T : TRUE) + f[T \ {CHOOSE x \in T : TRUE}]]
           B(f) == [T \in SUBSET E |-> IF T = {} THEN 0
                       ELSE g[CHOOSE x \in T : TRUE] + f[T \ {CHOOSE x \in T : TRUE}]]
<1>1. TypesSum(field) = (CHOOSE f : f = A(f))[E]
  BY DEF TypesSum, MapThenSumSet, MapThenFoldSet
<1>2. Sum(g, E) = (CHOOSE f : f = B(f))[E]
  BY DEF Sum, MapThenSumSet, MapThenFoldSet
<1> HIDE DEF E, v
<1>3. ASSUME NEW T \in SUBSET E, T # {}
      PROVE  v(CHOOSE x \in T : TRUE) = g[CHOOSE x \in T : TRUE]
  <2>1. (CHOOSE x \in T : TRUE) \in E
    BY <1>3
  <2> QED BY <2>1
<1>4. \A f : A(f) = B(f)
  BY <1>3
<1> HIDE DEF A, B, g
<1>5. (CHOOSE f : f = A(f)) = (CHOOSE f : f = B(f))
  BY <1>4, Zenon
<1> QED BY <1>1, <1>2, <1>5 DEF g, v, E

(* In partitioned contents the lists of the types hold each of a set of    *)
(* responses once, in one list.                                            *)
LEMMA TypesCountOnce ==
    ASSUME NEW s \in Snapshot, Partitioned(s), NEW R \in SUBSET Rows(s)
    PROVE  Sum([e \in Types(s) |-> ListCount(s, e, R)], Types(s)) = Cardinality(R)
<1>1. IsFiniteSet(Types(s)) /\ IsFiniteSet(R)
  <2>1. Types(s) \subseteq Emergencies /\ R \subseteq Responses
    BY DEF Types, Rows
  <2> QED BY <2>1, DataManagerAssumption, FS_Subset
<1>2. \A e \in Types(s), r \in R : s.links[e][r] \in {0, 1}
  BY DEF Partitioned, Types, Rows
<1>3. ASSUME NEW r \in R
      PROVE  \E e \in Types(s) : /\ s.links[e][r] = 1
                                /\ \A f \in Types(s) : f # e => s.links[f][r] = 0
  <2>1. PICK e \in Types(s) : r \in Linked(s, e)
    BY DEF Partitioned
  <2>2. e \in Emergencies /\ r \in Responses
    BY DEF Types, Rows
  <2>3. s.links[e][r] = 1
    BY <1>2, <2>1, <2>2 DEF Linked
  <2>4. \A f \in Types(s) : f # e => r \notin Linked(s, f)
    BY <2>1, <2>2 DEF Partitioned, Types
  <2>5. \A f \in Types(s) : f # e => s.links[f][r] = 0
    BY <1>2, <2>2, <2>4 DEF Linked
  <2> QED BY <2>3, <2>5
<1>4. Sum([e \in Types(s) |-> Sum(s.links[e], R)], Types(s)) = Cardinality(R)
  BY <1>1, <1>2, <1>3, SharedOutOnce
<1>5. [e \in Types(s) |-> ListCount(s, e, R)] = [e \in Types(s) |-> Sum(s.links[e], R)]
  BY ListCountIsSum
<1> QED BY <1>4, <1>5

(* Only a row of the Realm is on a list.                                   *)
LEMMA ListCountsRows ==
    ASSUME NEW s \in Snapshot, Partitioned(s), NEW e \in Emergencies
    PROVE  ListCount(s, e, Responses) = ListCount(s, e, Rows(s))
<1>1. \A r \in Responses : s.links[e][r] \in Int
  BY DEF Snapshot
<1>2. \A r \in Responses \ Rows(s) : s.links[e][r] = 0
  BY <1>1 DEF Partitioned, Linked
<1>3. Rows(s) \in SUBSET Responses
  BY DEF Rows
<1>4. Sum(s.links[e], Responses) = Sum(s.links[e], Rows(s))
  BY <1>1, <1>2, <1>3, DataManagerAssumption, SumSupport
<1> QED BY <1>4, ListCountIsSum

-----------------------------------------------------------------------------
LEMMA TotalsFollow == StoreInv => TotalsAgree
<1> SUFFICES ASSUME StoreInv PROVE TotalsAgree
  OBVIOUS
<1>1. db \in Snapshot /\ Partitioned(db)
  BY DEF StoreInv, TypeOK, ResponsesPartitioned
<1>2. \A t : DatedFrom(db, t) \in SUBSET Rows(db)
  BY DEF DatedFrom
<1> DEFINE month == NotBefore(StartOfMonth(now))
           year == NotBefore(StartOfYear(now))
<1>3. TypesSum("currentMonth") = Cardinality(DatedFrom(db, month))
  <2>1. [e \in Types(db) |-> EmergencyPoints(db, e)["currentMonth"]]
        = [e \in Types(db) |-> ListCount(db, e, DatedFrom(db, month))]
    BY DEF EmergencyPoints
  <2> QED BY <1>1, <1>2, <2>1, TypesSumIsSum, TypesCountOnce
<1>4. TypesSum("currentYear") = Cardinality(DatedFrom(db, year))
  <2>1. [e \in Types(db) |-> EmergencyPoints(db, e)["currentYear"]]
        = [e \in Types(db) |-> ListCount(db, e, DatedFrom(db, year))]
    BY DEF EmergencyPoints
  <2> QED BY <1>1, <1>2, <2>1, TypesSumIsSum, TypesCountOnce
<1>5. TypesSum("all") = Cardinality(Rows(db))
  <2>1. [e \in Types(db) |-> EmergencyPoints(db, e)["all"]]
        = [e \in Types(db) |-> ListCount(db, e, Rows(db))]
    BY <1>1, ListCountsRows DEF EmergencyPoints, Types
  <2> QED BY <1>1, <2>1, TypesSumIsSum, TypesCountOnce
<1> QED BY <1>3, <1>4, <1>5 DEF TotalsAgree, TypesSum, LoadPoints

(* The points that DataManager counts over the whole Response table are    *)
(* the manual points plus those of the types' own lists, whatever was      *)
(* deleted, renamed, refused or lost on the way.                           *)
THEOREM TotalsAlwaysAgree == Spec => []TotalsAgree
BY StoreInvariant, TotalsFollow, PTL

-----------------------------------------------------------------------------
LEMMA MonthFollows == StoreInv => MonthWithinYear
<1> SUFFICES ASSUME StoreInv PROVE MonthWithinYear
  OBVIOUS
<1> DEFINE month == NotBefore(StartOfMonth(now))
           year == NotBefore(StartOfYear(now))
<1>1. /\ db \in Snapshot /\ now \in Instants /\ lastReset \in Instants \cup {NoDate}
      /\ preset \in Seq([date : Instants, points : ManualPoints])
  BY DEF StoreInv, TypeOK
<1>2. year \in Int /\ month \in Int /\ year <= month
  BY <1>1, StartsOrdered, CalendarAssumption DEF NotBefore
<1> HIDE DEF month, year
<1>3. /\ DatedFrom(db, month) \subseteq DatedFrom(db, year)
      /\ DatedFrom(db, year) \subseteq Responses
      /\ IsFiniteSet(DatedFrom(db, year)) /\ IsFiniteSet(DatedFrom(db, month))
  <2>1. \A r \in Rows(db) : db.date[r] \in Int
    BY <1>1, CalendarAssumption DEF Rows, Snapshot
  <2>2. DatedFrom(db, month) \subseteq DatedFrom(db, year) /\ DatedFrom(db, year) \subseteq Responses
    BY <1>2, <2>1 DEF DatedFrom, Rows
  <2> QED BY <2>2, DataManagerAssumption, FS_Subset
<1>4. LoadPoints(db).currentMonth <= LoadPoints(db).currentYear
  <2>1. Cardinality(DatedFrom(db, month)) <= Cardinality(DatedFrom(db, year))
        /\ Cardinality(DatedFrom(db, month)) \in Nat /\ Cardinality(DatedFrom(db, year)) \in Nat
    BY <1>3, FS_Subset, FS_CardinalityType
  <2>2. ManualSum(ManualFrom(month)) \in Int
    <3>1. ManualFrom(month) \in SUBSET DOMAIN preset
      BY DEF ManualFrom
    <3> QED BY <1>1, <3>1, AdditionsSum, ManualIsSumOf DEF Additions
  <2>3. /\ LoadPoints(db).currentMonth = ManualSum(ManualFrom(month)) + Cardinality(DatedFrom(db, month))
        /\ LoadPoints(db).currentYear = ManualSum(ManualFrom(month)) + Cardinality(DatedFrom(db, year))
    BY DEF LoadPoints, month, year
  <2> QED BY <2>1, <2>2, <2>3
<1>5. ASSUME NEW e \in Types(db)
      PROVE  EmergencyPoints(db, e).currentMonth <= EmergencyPoints(db, e).currentYear
  <2>1. \A r \in DatedFrom(db, year) : db.links[e][r] \in Nat
    BY <1>1, <1>3 DEF Snapshot, Types
  <2>2. Sum(db.links[e], DatedFrom(db, month)) <= Sum(db.links[e], DatedFrom(db, year))
    BY <1>3, <2>1, SumMonotone
  <2> QED BY <2>2, ListCountIsSum DEF EmergencyPoints, month, year
<1> QED BY <1>4, <1>5 DEF MonthWithinYear

(* The points of the month never exceed those of the year, for the store   *)
(* and for each type, wherever a reset and the clock stand.                *)
THEOREM MonthAlwaysWithinYear == Spec => []MonthWithinYear
BY StoreInvariant, MonthFollows, PTL
-----------------------------------------------------------------------------
(* loadPoints with what it reads in its arguments: the Realm, the manual   *)
(* points, the clock and the last reset.                                   *)
After(reset, start) == IF reset = NoDate \/ start > reset THEN start ELSE reset
Added(p, t) == {i \in DOMAIN p : p[i].date >= t}

Loaded(s, p, time, reset) ==
    LET year == After(reset, StartOfYear(time))
        month == After(reset, StartOfMonth(time))
        previous == After(reset, StartOfPreviousMonth(time))
    IN  [currentYear |-> SumOf(p, Added(p, month)) + Cardinality(DatedFrom(s, year)),
         currentMonth |-> SumOf(p, Added(p, month)) + Cardinality(DatedFrom(s, month)),
         previousMonth |->
            SumOf(p, {i \in Added(p, previous) : p[i].date < month})
            + Cardinality({r \in DatedFrom(s, previous) : s.date[r] <= month}),
         all |-> SumOf(p, DOMAIN p) + Cardinality(Rows(s))]

LEMMA LoadedNow == LoadPoints(db) = Loaded(db, preset, now, lastReset)
BY DEF LoadPoints, Loaded, ManualSum, SumOf, ManualFrom, Added, NotBefore, After

LEMMA LoadedNext == LoadPoints(db)' = Loaded(db', preset', now', lastReset')
BY SMT DEF LoadPoints, Loaded, ManualSum, SumOf, ManualFrom, Added, NotBefore, After,
   DatedFrom, Rows, StartOfYear, StartOfMonth, StartOfPreviousMonth, ToLocal,
   MonthStart, YearStart, PreviousMonthStart, MapThenSumSet, MapThenFoldSet
LEMMA RowsTyped ==
    ASSUME NEW s \in Snapshot
    PROVE  /\ Rows(s) \in SUBSET Responses
           /\ \A r \in Rows(s) : s.date[r] \in Int
           /\ \A R \in SUBSET Rows(s) : IsFiniteSet(R) /\ Cardinality(R) \in Nat
<1>1. Rows(s) \in SUBSET Responses /\ \A r \in Rows(s) : s.date[r] \in Int
  BY CalendarAssumption DEF Rows, Snapshot
<1>2. IsFiniteSet(Rows(s))
  BY <1>1, DataManagerAssumption, FS_Subset
<1> QED BY <1>1, <1>2, FS_Subset, FS_CardinalityType

LEMMA LoadedTyped ==
    ASSUME NEW s \in Snapshot, NEW p \in Additions, NEW time, NEW reset
    PROVE  Loaded(s, p, time, reset)
             \in [currentYear : Int, currentMonth : Int, previousMonth : Int, all : Int]
<1>1. \A I \in SUBSET DOMAIN p : SumOf(p, I) \in Int
  BY AdditionsSum
<1>2. \A R \in SUBSET Rows(s) : Cardinality(R) \in Int
  BY RowsTyped
<1>3. ASSUME NEW t, NEW u
      PROVE  /\ Added(p, t) \in SUBSET DOMAIN p
             /\ {i \in Added(p, t) : p[i].date < u} \in SUBSET DOMAIN p
             /\ DatedFrom(s, t) \in SUBSET Rows(s)
             /\ {r \in DatedFrom(s, t) : s.date[r] <= u} \in SUBSET Rows(s)
  BY DEF Added, DatedFrom
<1>4. DOMAIN p \in SUBSET DOMAIN p /\ Rows(s) \in SUBSET Rows(s)
  OBVIOUS
<1>5. ASSUME NEW I \in SUBSET DOMAIN p, NEW R \in SUBSET Rows(s)
      PROVE  SumOf(p, I) + Cardinality(R) \in Int
  BY <1>1, <1>2
<1> QED BY <1>3, <1>4, <1>5 DEF Loaded

(* Without manual points, and without responses, nothing is counted.       *)
LEMMA LoadedWithoutManual ==
    ASSUME NEW s \in Snapshot, NEW time, NEW reset
    PROVE  LET points == Loaded(s, << >>, time, reset)
           IN  /\ points.currentYear = Cardinality(DatedFrom(s, After(reset, StartOfYear(time))))
               /\ points.currentMonth = Cardinality(DatedFrom(s, After(reset, StartOfMonth(time))))
<1>1. \A t : Added(<< >>, t) = {}
  BY DEF Added
<1>2. \A R \in SUBSET Rows(s) : 0 + Cardinality(R) = Cardinality(R)
  BY RowsTyped
<1>3. \A t : DatedFrom(s, t) \in SUBSET Rows(s)
  BY DEF DatedFrom
<1> QED BY <1>1, <1>2, <1>3, SumOfEmpty DEF Loaded

LEMMA LoadedEmpty ==
    ASSUME NEW time, NEW reset
    PROVE  Loaded(EmptyRealm, << >>, time, reset)
             = [currentYear |-> 0, currentMonth |-> 0, previousMonth |-> 0, all |-> 0]
<1>1. Rows(EmptyRealm) = {}
  BY DEF Rows, EmptyRealm
<1>2. \A t, u : /\ Added(<< >>, t) = {} /\ {i \in Added(<< >>, t) : << >>[i].date < u} = {}
              /\ DatedFrom(EmptyRealm, t) = {}
              /\ {r \in DatedFrom(EmptyRealm, t) : EmptyRealm.date[r] <= u} = {}
  BY <1>1 DEF Added, DatedFrom
<1>3. SumOf(<< >>, {}) + Cardinality({}) = 0 /\ DOMAIN << >> = {}
  BY SumOfEmpty, FS_EmptySet
<1> QED BY <1>1, <1>2, <1>3 DEF Loaded

-----------------------------------------------------------------------------
(* While points are reset or everything is cleared the manual points are   *)
(* gone already; at the commit of a clear so is everything else.           *)
EmptiedInv ==
    /\ pc \in {"resetDate", "clearDate", "clearRealm", "clearCommit"} => preset = << >>
    /\ pc = "clearCommit" => db = EmptyRealm

LEMMA EmptiedInitStep ==
    /\ Init => EmptiedInv
    /\ EmptiedInv /\ [Next]_vars => EmptiedInv'
<1>1. Init => EmptiedInv
  BY DEF Init, EmptiedInv
<1> SUFFICES ASSUME EmptiedInv, [Next]_vars PROVE EmptiedInv'
  BY <1>1
<1> USE DEF EmptiedInv, Idle
<1>2. CASE Operation
  BY <1>2 DEF Operation, AddEmergency, UpdateEmergency, AddResponse, RemoveResponse,
              UpdateResponse, RemoveEmergency, Write, ManuallyAdd, ClearPoints, ClearAllData
<1>3. CASE Step
  BY <1>3 DEF Step, WriteRaises, CommitWrite, CommitWriteFails, ClearPointsDate, ClearAllDate,
              ClearAllRealm, ClearAllRaises, ClearAllCommit, ClearAllFails, Die
<1>4. CASE World
  BY <1>4 DEF World, Crash, Launch, ClockMoves, Die, process, defaults
<1>5. CASE UNCHANGED vars
  BY <1>5 DEF vars
<1> QED BY <1>2, <1>3, <1>4, <1>5 DEF Next

(* The steps that end a reset and a clear.                                 *)
LEMMA ResetEnds ==
    ASSUME [Next]_vars, pc = "resetDate", pc' = "idle", alive'
    PROVE  ClearPointsDate
<1> USE DEF Idle
<1>1. ~Operation
  BY DEF Operation, AddEmergency, UpdateEmergency, AddResponse, RemoveResponse,
         UpdateResponse, RemoveEmergency, Write, ManuallyAdd, ClearPoints, ClearAllData
<1>2. CASE Step
  BY <1>2 DEF Step, WriteRaises, CommitWrite, CommitWriteFails, ClearAllDate,
              ClearAllRealm, ClearAllRaises, ClearAllCommit, ClearAllFails, Die
<1>3. ~World
  BY DEF World, Crash, Launch, ClockMoves, Die, process
<1> QED BY <1>1, <1>2, <1>3 DEF Next, vars

LEMMA ClearEnds ==
    ASSUME OpenWrite, [Next]_vars, pc = "clearCommit", pc' = "idle", alive', ~writing'
    PROVE  ClearAllCommit
<1> USE DEF Idle
<1>1. ~Operation
  BY DEF Operation, AddEmergency, UpdateEmergency, AddResponse, RemoveResponse,
         UpdateResponse, RemoveEmergency, Write, ManuallyAdd, ClearPoints, ClearAllData
<1>2. CASE Step
  BY <1>2 DEF OpenWrite, Step, WriteRaises, CommitWrite, CommitWriteFails, ClearPointsDate,
              ClearAllDate, ClearAllRealm, ClearAllRaises, ClearAllFails, Die
<1>3. ~World
  BY DEF World, Crash, Launch, ClockMoves, Die, process
<1> QED BY <1>1, <1>2, <1>3 DEF Next, vars

LEMMA ResetZeroes ==
    ASSUME StoreInv, EmptiedInv, StoreInv', ClearPointsDate
    PROVE  /\ LoadPoints(db)'.currentYear <= Cardinality(DatedFrom(db', now))
           /\ LoadPoints(db)'.currentMonth <= Cardinality(DatedFrom(db', now))
<1>1. /\ preset' = << >> /\ lastReset' = now /\ now' = now
      /\ db' \in Snapshot /\ now \in Instants /\ now # NoDate /\ now \in Int
  BY CalendarAssumption, DataManagerAssumption DEF EmptiedInv, ClearPointsDate, StoreInv, TypeOK
<1> DEFINE year == After(now, StartOfYear(now))
           month == After(now, StartOfMonth(now))
<1>2. year >= now /\ month >= now /\ year \in Int /\ month \in Int
  BY <1>1, StartsOrdered DEF After
<1>3. /\ LoadPoints(db)'.currentYear = Cardinality(DatedFrom(db', year))
      /\ LoadPoints(db)'.currentMonth = Cardinality(DatedFrom(db', month))
  BY <1>1, LoadedNext, LoadedWithoutManual
<1> HIDE DEF year, month
<1>4. ASSUME NEW t \in Int, t >= now
      PROVE  Cardinality(DatedFrom(db', t)) <= Cardinality(DatedFrom(db', now))
  <2>1. /\ DatedFrom(db', t) \subseteq DatedFrom(db', now)
        /\ DatedFrom(db', now) \in SUBSET Rows(db')
    BY <1>1, <1>4, RowsTyped DEF DatedFrom
  <2>2. IsFiniteSet(DatedFrom(db', now))
    BY <1>1, <2>1, RowsTyped
  <2> QED BY <2>1, <2>2, FS_Subset
<1> QED BY <1>2, <1>3, <1>4

LEMMA ClearZeroes ==
    ASSUME EmptiedInv, ClearAllCommit
    PROVE  \A f \in {"currentYear", "currentMonth", "previousMonth", "all"} :
              LoadPoints(db)'[f] = 0
<1>1. preset' = << >> /\ db' = EmptyRealm
  BY DEF EmptiedInv, ClearAllCommit
<1> QED BY <1>1, LoadedNext, LoadedEmpty

(* A finished reset leaves only the points of responses dated from it on,  *)
(* and a finished clear of all data leaves none.                           *)
THEOREM ClearedPointsAreZero == Spec => ClearZeroesPoints
<1>1. Spec => [](StoreInv /\ EmptiedInv)
  BY InitInv, StepInv, EmptiedInitStep, PTL DEF Spec
<1>2. ASSUME StoreInv, EmptiedInv, StoreInv', [Next]_vars
      PROVE  /\ pc = "resetDate" /\ pc' = "idle" /\ alive' =>
                  /\ LoadPoints(db)'.currentYear <= Cardinality(DatedFrom(db', now))
                  /\ LoadPoints(db)'.currentMonth <= Cardinality(DatedFrom(db', now))
             /\ pc = "clearCommit" /\ pc' = "idle" /\ alive' /\ ~writing' =>
                  \A f \in {"currentYear", "currentMonth", "previousMonth", "all"} :
                     LoadPoints(db)'[f] = 0
  <2>1. OpenWrite
    BY <1>2 DEF StoreInv
  <2> QED BY <1>2, <2>1, ResetEnds, ClearEnds, ResetZeroes, ClearZeroes
<1> QED BY <1>1, <1>2, PTL DEF Spec, ClearZeroesPoints

=============================================================================
