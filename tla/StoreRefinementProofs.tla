----------------------- MODULE StoreRefinementProofs -----------------------
(***************************************************************************)
(* That the store implements its ledger, for every set of types, responses *)
(* and names, through failed commits and crashes; and what follows for the *)
(* callers and for the responses a saved change may take away.             *)
(***************************************************************************)
EXTENDS StoreRefinement, DataManagerProofs

-----------------------------------------------------------------------------
(* The ledger's view of a Realm's contents *)

(* In partitioned contents the owner is the one type whose list has the    *)
(* response.                                                               *)
LEMMA OwnerIsTheLinkedType ==
    ASSUME NEW s \in Snapshot, Partitioned(s), NEW r \in Responses, NEW e \in Emergencies
    PROVE  /\ OwnerIn(s, r) = e <=> r \in Linked(s, e)
           /\ (\A f \in Emergencies : r \notin Linked(s, f)) => OwnerIn(s, r) = NoOwner
BY StoreRefinementAssumption DEF OwnerIn, Partitioned

(* Two contents with the same lists have the same owners.                  *)
LEMMA SameLinksSameOwners ==
    ASSUME NEW s, NEW t, s.links = t.links
    PROVE  Owners(s) = Owners(t)
BY DEF Owners, OwnerIn, Linked

LEMMA NamingView ==
    ASSUME NEW s \in Snapshot, NEW e \in Emergencies, NEW n \in Names
    PROVE  View([s EXCEPT !.type[e] = n]) = [View(s) EXCEPT !.name[e] = n]
<1> DEFINE t == [s EXCEPT !.type[e] = n]
<1>1. t.type = [s.type EXCEPT ![e] = n] /\ t.date = s.date /\ t.links = s.links
  BY DEF Snapshot
<1> HIDE DEF t
<1>2. Owners(t) = Owners(s)
  BY <1>1, SameLinksSameOwners
<1>3. View(t) = [View(s) EXCEPT !.name[e] = n]
  BY <1>1, <1>2 DEF View
<1> QED BY <1>3 DEF t

LEMMA DatingView ==
    ASSUME NEW s \in Snapshot, NEW r \in Responses, NEW d \in Instants
    PROVE  View([s EXCEPT !.date[r] = d]) = [View(s) EXCEPT !.date[r] = d]
<1> DEFINE t == [s EXCEPT !.date[r] = d]
<1>1. t.type = s.type /\ t.date = [s.date EXCEPT ![r] = d] /\ t.links = s.links
  BY DEF Snapshot
<1> HIDE DEF t
<1>2. Owners(t) = Owners(s)
  BY <1>1, SameLinksSameOwners
<1>3. View(t) = [View(s) EXCEPT !.date[r] = d]
  BY <1>1, <1>2 DEF View
<1> QED BY <1>3 DEF t

LEMMA AppendView ==
    ASSUME NEW s \in Snapshot, Partitioned(s), NEW e \in Types(s),
           NEW r \in Responses, r \notin Rows(s), NEW d \in Instants
    PROVE  View(AppendResponse(s, e, r, d))
             = [name |-> View(s).name, date |-> [View(s).date EXCEPT ![r] = d],
                owner |-> [View(s).owner EXCEPT ![r] = e]]
<1> DEFINE t == AppendResponse(s, e, r, d)
<1>1. e \in Emergencies
  BY DEF Types
<1>2. t \in Snapshot /\ Partitioned(t)
  BY <1>1, AppendTyped, AppendKeepsPartition
<1>3. /\ t.type = s.type
      /\ t.date = [s.date EXCEPT ![r] = d]
      /\ t.links = [s.links EXCEPT ![e][r] = @ + 1]
  BY DEF AppendResponse, Snapshot
<1>4. \A f \in Emergencies, q \in Responses :
         t.links[f][q] = IF f = e /\ q = r THEN s.links[e][r] + 1 ELSE s.links[f][q]
  BY <1>1, <1>3 DEF Snapshot
<1>5. \A f \in Emergencies, q \in Responses : q # r => (q \in Linked(t, f) <=> q \in Linked(s, f))
  BY <1>4 DEF Linked
<1>6. r \in Linked(t, e)
  BY <1>1, <1>4 DEF Linked, Snapshot
<1> HIDE DEF t
<1>7. OwnerIn(t, r) = e
  BY <1>1, <1>2, <1>6, OwnerIsTheLinkedType
<1>8. ASSUME NEW q \in Responses, q # r PROVE OwnerIn(t, q) = OwnerIn(s, q)
  BY <1>5, <1>8 DEF OwnerIn
<1>9. Owners(t) = [Owners(s) EXCEPT ![r] = e]
  BY <1>7, <1>8 DEF Owners
<1>10. View(t) = [name |-> s.type, date |-> [s.date EXCEPT ![r] = d],
                   owner |-> [Owners(s) EXCEPT ![r] = e]]
  BY <1>3, <1>9 DEF View
<1> QED BY <1>10 DEF t, View

LEMMA DeleteView ==
    ASSUME NEW s \in Snapshot, Partitioned(s), NEW R \in SUBSET Responses
    PROVE  View(DeleteResponses(s, R)) = Ledger!Strike(View(s), R)
<1> DEFINE t == DeleteResponses(s, R)
<1>1. /\ t.type = s.type
      /\ t.date = [r \in Responses |-> IF r \in R THEN NoDate ELSE s.date[r]]
      /\ t.links = [e \in Emergencies |->
                      [r \in Responses |-> IF r \in R THEN 0 ELSE s.links[e][r]]]
  BY DEF DeleteResponses, Snapshot
<1> HIDE DEF t
<1>2. \A f \in Emergencies : Linked(t, f) = Linked(s, f) \ R
  BY <1>1 DEF Linked
<1>3. ASSUME NEW q \in R PROVE OwnerIn(t, q) = NoOwner
  BY <1>2 DEF OwnerIn
<1>4. ASSUME NEW q \in Responses, q \notin R PROVE OwnerIn(t, q) = OwnerIn(s, q)
  BY <1>2, <1>4 DEF OwnerIn
<1>5. Owners(t) = [r \in Responses |-> IF r \in R THEN NoOwner ELSE Owners(s)[r]]
  BY <1>3, <1>4 DEF Owners
<1>6. View(t) = Ledger!Strike(View(s), R)
  BY <1>1, <1>5 DEF View, Ledger!Strike
<1> QED BY <1>6 DEF t

LEMMA RemoveTypeView ==
    ASSUME NEW s \in Snapshot, Partitioned(s), NEW e \in Emergencies
    PROVE  View(DeleteEmergency(DeleteResponses(s, Linked(s, e)), e))
             = [Ledger!Strike(View(s), {r \in Responses : View(s).owner[r] = e}) EXCEPT !.name[e] = NoName]
<1> DEFINE t == DeleteResponses(s, Linked(s, e))
           u == DeleteEmergency(t, e)
<1>1. t \in Snapshot
  BY DeleteResponsesTyped
<1>2. Linked(t, e) = {}
  BY DEF Linked, DeleteResponses, Snapshot
<1>3. {r \in Responses : View(s).owner[r] = e} = Linked(s, e)
  BY OwnerIsTheLinkedType DEF View, Owners, Linked
<1>4. View(t) = Ledger!Strike(View(s), Linked(s, e))
  BY DeleteView DEF Linked
<1> HIDE DEF t
<1>5. /\ u.type = [t.type EXCEPT ![e] = NoName]
      /\ u.date = t.date
      /\ u.links = [t.links EXCEPT ![e] = [r \in Responses |-> 0]]
  BY <1>1 DEF DeleteEmergency, Snapshot
<1>6. \A f \in Emergencies : Linked(u, f) = Linked(t, f)
  BY <1>1, <1>2, <1>5 DEF Linked, Snapshot
<1> HIDE DEF u
<1>7. Owners(u) = Owners(t)
  BY <1>6 DEF Owners, OwnerIn
<1>8. View(u) = [View(t) EXCEPT !.name[e] = NoName]
  BY <1>5, <1>7 DEF View
<1> QED BY <1>3, <1>4, <1>8 DEF t, u

LEMMA EmptyView == View(EmptyRealm) = Ledger!Blank
BY DEF View, EmptyRealm, Owners, OwnerIn, Linked, Ledger!Blank

-----------------------------------------------------------------------------
(* OneChangeAhead is inductive together with the store's invariant: a write*)
(* begins with nothing unsaved, so the change its block makes to what is   *)
(* shown is one change from what is saved.                                 *)
AheadInv == StoreInv /\ OneChangeAhead

(* A block that changes the ledger leaves it one change ahead.             *)
LEMMA WriteAhead ==
    ASSUME StoreInv, NEW new, NEW reply, NEW failure, Write(new, reply, failure),
           View(new) = View(db) \/ Ledger!Change(View(db), View(new))
    PROVE  OneChangeAhead'
<1>1. db = file /\ file' = file /\ db' = new /\ pc' = "commit"
  BY DEF StoreInv, OpenWrite, Write, CanBegin
<1>2. View(db') = View(file') \/ Ledger!Change(View(file'), View(db'))
  BY <1>1
<1> QED BY <1>1, <1>2 DEF OneChangeAhead

(* The steps that do not touch the Realm.                                  *)
LEMMA OtherAhead ==
    ASSUME UNCHANGED <<db, file>>, pc' \in {pc, "idle", "resetDate", "clearDate", "clearRealm"},
           OneChangeAhead
    PROVE  OneChangeAhead'
<1>1. pc' = pc \/ pc' \notin {"commit", "clearCommit"}
  OBVIOUS
<1> QED BY <1>1 DEF OneChangeAhead

LEMMA NamingAhead ==
    ASSUME StoreInv, NEW e \in Emergencies, NEW n \in Names,
           AddEmergency(e, n) \/ UpdateEmergency(e, n)
    PROVE  OneChangeAhead'
<1>1. db \in Snapshot
  BY DEF StoreInv, TypeOK
<1> DEFINE new == [db EXCEPT !.type[e] = n]
<1>2. View(new) = [View(db) EXCEPT !.name[e] = n] /\ View(db).name = db.type
  BY <1>1, NamingView DEF View
<1>3. CASE AddEmergency(e, n) /\ AlreadyExists(db, n)
  BY <1>3, WriteAhead DEF AddEmergency
<1>4. CASE AddEmergency(e, n) /\ ~AlreadyExists(db, n)
  <2>1. db.type[e] = NoName /\ \A f \in Emergencies : db.type[f] # n
    BY <1>4, DataManagerAssumption DEF AddEmergency, AlreadyExists, Types
  <2>2. Ledger!Change(View(db), View(new))
    BY <1>2, <2>1 DEF Ledger!Change, Ledger!AddsType
  <2> QED BY <1>4, <2>2, WriteAhead DEF AddEmergency
<1>5. CASE UpdateEmergency(e, n)
  <2>1. Ledger!Change(View(db), View(new))
    BY <1>2, <1>5 DEF Ledger!Change, Ledger!RenamesType, UpdateEmergency, Types
  <2> QED BY <1>5, <2>1, WriteAhead DEF UpdateEmergency
<1> QED BY <1>3, <1>4, <1>5

LEMMA ResponseAhead ==
    ASSUME StoreInv, NEW r \in Responses,
           \/ \E e \in Emergencies, d \in Instants : AddResponse(r, e, d)
           \/ \E e \in Emergencies : RemoveResponse(r, e)
           \/ \E d \in Instants : UpdateResponse(r, d)
    PROVE  OneChangeAhead'
<1>1. db \in Snapshot /\ Partitioned(db)
  BY DEF StoreInv, TypeOK, ResponsesPartitioned
<1>2. View(db).date = db.date /\ View(db).name = db.type
  BY DEF View
<1>3. ASSUME NEW e \in Emergencies, NEW d \in Instants, AddResponse(r, e, d)
      PROVE  OneChangeAhead'
  <2>1. r \notin Rows(db) /\ e \in Types(db)
    BY <1>3 DEF AddResponse
  <2>2. Ledger!AddsResponse(View(db), View(AppendResponse(db, e, r, d)), r, e, d)
    BY <1>1, <1>2, <2>1, AppendView DEF Ledger!AddsResponse, Rows, Types
  <2>3. Ledger!Change(View(db), View(AppendResponse(db, e, r, d)))
    BY <2>2 DEF Ledger!Change
  <2> QED BY <1>3, <2>3, WriteAhead DEF AddResponse
<1>4. ASSUME NEW e \in Emergencies, RemoveResponse(r, e) PROVE OneChangeAhead'
  <2>1. Ledger!RemovesResponse(View(db), View(DeleteResponses(db, {r})), r)
    BY <1>1, <1>2, <1>4, DeleteView DEF Ledger!RemovesResponse, RemoveResponse, Rows
  <2>2. Ledger!Change(View(db), View(DeleteResponses(db, {r})))
    BY <2>1 DEF Ledger!Change
  <2> QED BY <1>1, <1>4, <2>2, UnlinkThenDelete, WriteAhead DEF RemoveResponse
<1>5. ASSUME NEW d \in Instants, UpdateResponse(r, d) PROVE OneChangeAhead'
  <2>1. Ledger!DatesResponse(View(db), View([db EXCEPT !.date[r] = d]), r, d)
    BY <1>1, <1>2, <1>5, DatingView DEF Ledger!DatesResponse, UpdateResponse, Rows
  <2>2. Ledger!Change(View(db), View([db EXCEPT !.date[r] = d]))
    BY <2>1 DEF Ledger!Change
  <2> QED BY <1>5, <2>2, WriteAhead DEF UpdateResponse
<1> QED BY <1>3, <1>4, <1>5

LEMMA RemoveEmergencyAhead ==
    ASSUME StoreInv, NEW e \in Emergencies, RemoveEmergency(e)
    PROVE  OneChangeAhead'
<1> DEFINE new == DeleteEmergency(DeleteResponses(db, Linked(db, e)), e)
<1>1. db \in Snapshot /\ Partitioned(db)
  BY DEF StoreInv, TypeOK, ResponsesPartitioned
<1>2. View(db).name[e] # NoName
  BY DEF RemoveEmergency, Types, View
<1>3. Ledger!RemovesType(View(db), View(new), e)
  BY <1>1, <1>2, RemoveTypeView DEF Ledger!RemovesType
<1>4. Ledger!Change(View(db), View(new))
  BY <1>3 DEF Ledger!Change
<1> QED BY <1>4, WriteAhead DEF RemoveEmergency

LEMMA StepAhead ==
    ASSUME AheadInv, [Next]_vars
    PROVE  OneChangeAhead'
<1> USE DEF AheadInv
<1>1. CASE Operation
  <2>1. CASE \E p \in ManualPoints : ManuallyAdd(p)
    BY <2>1, OtherAhead DEF ManuallyAdd
  <2>2. CASE ClearPoints \/ ClearAllData
    BY <2>2, OtherAhead DEF ClearPoints, ClearAllData
  <2> QED BY <1>1, <2>1, <2>2, NamingAhead, ResponseAhead, RemoveEmergencyAhead DEF Operation
<1>2. CASE Die
  BY <1>2 DEF Die, OneChangeAhead
<1>3. CASE ClearAllRealm
  BY <1>3, EmptyView DEF ClearAllRealm, OneChangeAhead
<1>4. CASE CommitWrite \/ CommitWriteFails \/ ClearAllCommit \/ ClearAllFails
  BY <1>4 DEF CommitWrite, CommitWriteFails, ClearAllCommit, ClearAllFails, OneChangeAhead
<1>5. CASE ClearPointsDate \/ ClearAllDate \/ Launch \/ \E t \in Instants : ClockMoves(t)
  BY <1>5, OtherAhead DEF ClearPointsDate, ClearAllDate, Launch, ClockMoves, process
<1>6. CASE UNCHANGED vars
  BY <1>6, OtherAhead DEF vars
<1> QED BY <1>1, <1>2, <1>3, <1>4, <1>5, <1>6
        DEF Next, Step, World, WriteRaises, ClearAllRaises, Crash

(* What is shown is never more than one operation ahead of the file.       *)
THEOREM AheadInvariant == Spec => []AheadInv
<1>1. Init => AheadInv
  BY InitInv DEF AheadInv, Init, OneChangeAhead
<1>2. AheadInv /\ [Next]_vars => AheadInv'
  BY StepAhead, StepInv DEF AheadInv
<1> QED BY <1>1, <1>2, PTL DEF Spec

(* Whatever an operation's block does to the accessors, what the app shows *)
(* before the commit is one whole change of the ledger away from the file. *)
THEOREM BlocksMakeOneChange == Spec => []OneChangeAhead
<1>1. AheadInv => OneChangeAhead
  BY DEF AheadInv
<1> QED BY <1>1, AheadInvariant, PTL

(* Commits are the only steps that change the file.                        *)
LEMMA FileSteps ==
    ASSUME AheadInv, [Next]_vars
    PROVE  View(file') = View(file) \/ Ledger!Change(View(file), View(file'))
<1>1. CASE CommitWrite
  BY <1>1 DEF CommitWrite, AheadInv, OneChangeAhead
<1>2. CASE ClearAllCommit
  BY <1>2 DEF ClearAllCommit, AheadInv, OneChangeAhead, Ledger!Change
<1>3. CASE file' = file
  BY <1>3
<1>4. CommitWrite \/ ClearAllCommit \/ file' = file
  BY DEF Next, Operation, Step, World, AddEmergency, UpdateEmergency, AddResponse,
         RemoveResponse, UpdateResponse, RemoveEmergency, Write, ManuallyAdd, ClearPoints,
         ClearAllData, WriteRaises, CommitWriteFails, ClearPointsDate, ClearAllDate,
         ClearAllRealm, ClearAllRaises, ClearAllFails, Crash, Die, Launch, ClockMoves, vars
<1> QED BY <1>1, <1>2, <1>3, <1>4

(* The committed file implements the ledger: Realm.swift's commit is the   *)
(* only step that shows in it, and it shows one whole change.              *)
THEOREM ImplementsLedger == Spec => LedgerSpec
<1>1. Init => View(file) = Ledger!Blank
  BY EmptyView DEF Init
<1>2. AheadInv /\ [Next]_vars => [Ledger!Next]_(View(file))
  BY FileSteps DEF Ledger!Next
<1> QED BY <1>1, <1>2, AheadInvariant, PTL DEF Spec, LedgerSpec, Ledger!Spec
-----------------------------------------------------------------------------
(* What a saved change can take away, read off the ledger's changes        *)

(* Types, rows and lists are what the view says.                           *)
LEMMA ViewTells ==
    ASSUME NEW s \in Snapshot, Partitioned(s)
    PROVE  /\ Types(s) = {e \in Emergencies : View(s).name[e] # NoName}
           /\ Rows(s) = {r \in Responses : View(s).date[r] # NoDate}
           /\ \A e \in Emergencies : Linked(s, e) = {r \in Responses : View(s).owner[r] = e}
           /\ \A r \in Rows(s) : \E e \in Types(s) : r \in Linked(s, e)
           /\ \A e \in Emergencies : Linked(s, e) \subseteq Rows(s)
<1>1. \A e \in Emergencies : Linked(s, e) = {r \in Responses : View(s).owner[r] = e}
  BY OwnerIsTheLinkedType DEF View, Owners, Linked
<1> QED BY <1>1 DEF View, Types, Rows, Partitioned

OwnLost(s, t) ==
    LET gone == Types(s) \ Types(t)
        lost == Rows(s) \ Rows(t)
        owned == UNION {Linked(s, e) : e \in gone}
    IN  IF gone = {} THEN Cardinality(lost) <= 1 ELSE lost = owned

(* No response goes, or one does, and its type is one that stays.          *)
LEMMA FewLost ==
    ASSUME NEW s, NEW t, Types(s) \ Types(t) = {}, NEW r, Rows(s) \ Rows(t) \subseteq {r}
    PROVE  OwnLost(s, t)
<1>1. Rows(s) \ Rows(t) = {} \/ Rows(s) \ Rows(t) = {r}
  OBVIOUS
<1>2. Cardinality({}) = 0 /\ Cardinality({r}) = 1
  BY FS_EmptySet, FS_Singleton, Zenon
<1>3. Cardinality(Rows(s) \ Rows(t)) \in {0, 1}
  BY <1>1, <1>2
<1> QED BY <1>3 DEF OwnLost

LEMMA ChangeTakesOwn ==
    ASSUME NEW s \in Snapshot, Partitioned(s), NEW t \in Snapshot, Partitioned(t),
           View(t) = View(s) \/ Ledger!Change(View(s), View(t))
    PROVE  OwnLost(s, t)
<1> DEFINE l == View(s)  m == View(t)
<1>0. /\ l.name \in [Emergencies -> Names \cup {NoName}]
      /\ l.date \in [Responses -> Instants \cup {NoDate}]
      /\ l.owner = Owners(s) /\ DOMAIN l.owner = Responses
  BY DEF View, Snapshot, Owners
<1>1. /\ Types(s) = {e \in Emergencies : l.name[e] # NoName}
      /\ Rows(s) = {r \in Responses : l.date[r] # NoDate}
      /\ \A e \in Emergencies : Linked(s, e) = {r \in Responses : l.owner[r] = e}
      /\ \A r \in Rows(s) : \E e \in Types(s) : r \in Linked(s, e)
      /\ \A e \in Emergencies : Linked(s, e) \subseteq Rows(s)
      /\ Types(t) = {e \in Emergencies : m.name[e] # NoName}
      /\ Rows(t) = {r \in Responses : m.date[r] # NoDate}
  BY ViewTells
<1> DEFINE gone == Types(s) \ Types(t)  lost == Rows(s) \ Rows(t)
<1> HIDE DEF l, m
<1>2. ASSUME NEW r, gone = {}, lost \subseteq {r} PROVE OwnLost(s, t)
  BY <1>2, FewLost
<1>3. CASE m = l
  <2>1. gone = {} /\ lost = {}
    BY <1>1, <1>3
  <2> QED BY <1>2, <2>1
<1>4. ASSUME NEW e \in Emergencies, NEW n \in Names,
             Ledger!AddsType(l, m, e, n) \/ Ledger!RenamesType(l, m, e, n)
      PROVE  OwnLost(s, t)
  <2>1. m = [l EXCEPT !.name[e] = n]
    BY <1>4 DEF Ledger!AddsType, Ledger!RenamesType
  <2>2. m.name = [l.name EXCEPT ![e] = n] /\ m.date = l.date
    BY <2>1 DEF l, View
  <2>3. gone = {} /\ lost = {}
    BY <1>0, <1>1, <2>2, DataManagerAssumption
  <2> QED BY <1>2, <2>3
<1>5. ASSUME NEW e \in Emergencies, Ledger!RemovesType(l, m, e) PROVE OwnLost(s, t)
  <2> DEFINE k == Ledger!Strike(l, {r \in Responses : l.owner[r] = e})
  <2>1. l.name[e] # NoName /\ m = [k EXCEPT !.name[e] = NoName]
    BY <1>5 DEF Ledger!RemovesType
  <2>2. /\ m.name = [l.name EXCEPT ![e] = NoName]
        /\ m.date = [r \in Responses |-> IF l.owner[r] = e THEN NoDate ELSE l.date[r]]
    BY <2>1 DEF Ledger!Strike
  <2>3. gone = {e}
    BY <1>0, <1>1, <2>1, <2>2
  <2>4. lost = Linked(s, e)
    BY <1>0, <1>1, <2>2
  <2>5. UNION {Linked(s, f) : f \in gone} = Linked(s, e)
    BY <2>3
  <2> QED BY <2>3, <2>4, <2>5 DEF OwnLost
<1>6. ASSUME NEW r \in Responses,
             \/ \E e \in Emergencies, d \in Instants : Ledger!AddsResponse(l, m, r, e, d)
             \/ \E d \in Instants : Ledger!DatesResponse(l, m, r, d)
             \/ Ledger!RemovesResponse(l, m, r)
      PROVE  OwnLost(s, t)
  <2>1. m.name = l.name /\ \A q \in Responses : q # r => m.date[q] = l.date[q]
    <3>1. CASE \E e \in Emergencies, d \in Instants : Ledger!AddsResponse(l, m, r, e, d)
      BY <1>0, <3>1 DEF Ledger!AddsResponse
    <3>2. CASE \E d \in Instants : Ledger!DatesResponse(l, m, r, d)
      BY <1>0, <3>2 DEF Ledger!DatesResponse, l, View
    <3>3. CASE Ledger!RemovesResponse(l, m, r)
      BY <1>0, <3>3 DEF Ledger!RemovesResponse, Ledger!Strike
    <3> QED BY <1>6, <3>1, <3>2, <3>3
  <2>2. gone = {} /\ lost \subseteq {r}
    BY <1>1, <2>1
  <2> QED BY <1>2, <2>2
<1>7. CASE m = Ledger!Blank
  <2>1. gone = Types(s) /\ lost = Rows(s)
    BY <1>1, <1>7 DEF Ledger!Blank
  <2>2. Rows(s) = UNION {Linked(s, e) : e \in Types(s)}
    BY <1>1 DEF Types
  <2>3. CASE Types(s) = {}
    BY <1>2, <2>1, <2>2, <2>3
  <2>4. CASE Types(s) # {}
    BY <2>1, <2>2, <2>4 DEF OwnLost
  <2> QED BY <2>3, <2>4
<1>8. m = l \/ Ledger!Change(l, m)
  BY DEF l, m
<1> QED BY <1>3, <1>4, <1>5, <1>6, <1>7, <1>8 DEF Ledger!Change

(* Removing a type takes its own responses and no others; nothing else     *)
(* takes more than the one response it is about, or all with all types.    *)
THEOREM RemovalsTakeTheirOwn == Spec => OnlyOwnResponsesLost
<1>1. AheadInv /\ AheadInv' /\ [Next]_vars => OwnLost(file, file')
  <2> SUFFICES ASSUME AheadInv, AheadInv', [Next]_vars PROVE OwnLost(file, file')
    OBVIOUS
  <2>1. /\ file \in Snapshot /\ Partitioned(file)
        /\ file' \in Snapshot /\ Partitioned(file')
    BY DEF AheadInv, StoreInv, TypeOK, ResponsesPartitioned
  <2>2. View(file') = View(file) \/ Ledger!Change(View(file), View(file'))
    BY FileSteps
  <2> QED BY <2>1, <2>2, ChangeTakesOwn
<1>2. OwnLost(file, file') <=>
        LET gone == Types(file) \ Types(file')
            lost == Rows(file) \ Rows(file')
            owned == UNION {Linked(file, e) : e \in gone}
        IN  IF gone = {} THEN Cardinality(lost) <= 1 ELSE lost = owned
  BY DEF OwnLost
<1> QED BY <1>1, <1>2, AheadInvariant, PTL DEF Spec, OnlyOwnResponsesLost
-----------------------------------------------------------------------------
(* What callers hear.  While a write is to be committed its callback has   *)
(* been told once, of success or of a name that exists, and what the catch *)
(* clause would say is neither.                                            *)
Told == {"none", "alreadyExists"}
Heard ==
    pc = "commit" =>
       /\ Len(replies) = 1 /\ replies[1].error \in Told
       /\ onFailure.error \notin Told

LEMMA WriteHeard ==
    ASSUME NEW new, NEW reply, NEW failure, Write(new, reply, failure),
           reply.error \in Told, failure.error \notin Told
    PROVE  Heard'
BY DEF Write, Heard

LEMMA OperationHeard ==
    ASSUME Operation
    PROVE  Heard'
<1>1. /\ Success.error \in Told /\ \A b : Reply(b, "alreadyExists").error \in Told
      /\ \A b : \A x \in {"errorWritingData", "errorClearData", "errorChangingName"} :
            Reply(b, x).error \notin Told
  BY DEF Success, Reply, Told
<1>2. CASE \E e \in Emergencies, n \in Names : AddEmergency(e, n) \/ UpdateEmergency(e, n)
  BY <1>1, <1>2, WriteHeard DEF AddEmergency, UpdateEmergency
<1>3. CASE \E r \in Responses, e \in Emergencies, d \in Instants :
              AddResponse(r, e, d) \/ RemoveResponse(r, e) \/ UpdateResponse(r, d)
  BY <1>1, <1>3, WriteHeard DEF AddResponse, RemoveResponse, UpdateResponse
<1>4. CASE \E r \in Responses, e \in Emergencies : RemoveResponse(r, e)
  BY <1>1, <1>4, WriteHeard DEF RemoveResponse
<1>5. CASE \E r \in Responses, d \in Instants : UpdateResponse(r, d)
  BY <1>1, <1>5, WriteHeard DEF UpdateResponse
<1>6. CASE \E e \in Emergencies : RemoveEmergency(e)
  BY <1>1, <1>6, WriteHeard DEF RemoveEmergency
<1>7. CASE (\E p \in ManualPoints : ManuallyAdd(p)) \/ ClearPoints \/ ClearAllData
  BY <1>7 DEF ManuallyAdd, ClearPoints, ClearAllData, Idle, Heard
<1> QED BY <1>2, <1>3, <1>4, <1>5, <1>6, <1>7 DEF Operation

(* A write that is still to be committed has called back once, and does    *)
(* not report the failure it would report before the commit failed.        *)
THEOREM HeardInvariant == Spec => []Heard
<1>1. Init => Heard
  BY DEF Init, Heard
<1>2. Heard /\ [Next]_vars => Heard'
  BY OperationHeard
     DEF Next, Step, World, WriteRaises, CommitWrite, CommitWriteFails, ClearPointsDate,
         ClearAllDate, ClearAllRealm, ClearAllRaises, ClearAllCommit, ClearAllFails, Crash, Die,
         Launch, ClockMoves, process, vars, Heard
<1> QED BY <1>1, <1>2, PTL DEF Spec

(* Callers are told of success inside the write block, and again when the  *)
(* commit fails: the last thing they hear is what became of the change.    *)
THEOREM LastReplyIsTrue == Spec => LastReplyTellsOutcome
<1> DEFINE Outcome ==
             (pc \in {"commit", "clearCommit"} /\ pc' = "idle" /\ alive') =>
               LET last == replies'[Len(replies')]
               IN  writing' <=> last.error \notin {"none", "alreadyExists"}
<1>1. StoreInv /\ Heard /\ [Next]_vars => Outcome
  <2> SUFFICES ASSUME StoreInv, Heard, [Next]_vars,
                      pc \in {"commit", "clearCommit"}, pc' = "idle", alive'
               PROVE  writing' <=> replies'[Len(replies')].error \notin Told
    BY DEF Told
  <2>1. writing /\ replies \in Seq(Replies)
    BY DEF StoreInv, OpenWrite, TypeOK
  <2>2. CommitWrite \/ CommitWriteFails \/ ClearAllCommit \/ ClearAllFails
    BY DEF Next, Operation, Step, World, AddEmergency, UpdateEmergency, AddResponse,
           RemoveResponse, UpdateResponse, RemoveEmergency, Write, Idle, ManuallyAdd, ClearPoints,
           ClearAllData, WriteRaises, ClearPointsDate, ClearAllDate, ClearAllRealm,
           ClearAllRaises, Crash, Die, Launch, ClockMoves, process, vars
  <2>3. CASE CommitWrite
    BY <2>3 DEF CommitWrite, Heard
  <2>4. CASE CommitWriteFails
    <3>1. Len(replies') = 2 /\ replies'[2] = onFailure
      BY <2>1, <2>4 DEF CommitWriteFails, Heard
    <3> QED BY <2>1, <2>4, <3>1 DEF CommitWriteFails, Heard
  <2>5. CASE ClearAllCommit
    BY <2>5 DEF ClearAllCommit, Success, Reply, Told
  <2>6. CASE ClearAllFails
    BY <2>1, <2>6 DEF ClearAllFails, Reply, Told
  <2> QED BY <2>2, <2>3, <2>4, <2>5, <2>6
<1> QED BY <1>1, StoreInvariant, HeardInvariant, PTL DEF Spec, LastReplyTellsOutcome
=============================================================================
