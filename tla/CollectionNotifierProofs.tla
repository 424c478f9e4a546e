---------------------- MODULE CollectionNotifierProofs ----------------------
(***************************************************************************)
(* Proofs about the notifier for any number of callbacks and of versions:  *)
(* its types; that m_have_callbacks, which is cached and not set by every  *)
(* operation that changes the list, says whether there are any; and that a *)
(* callback is told of every change it is to be told of, exactly once.     *)
(***************************************************************************)
EXTENDS CollectionNotifier, SequenceTheorems, TLAPS

-----------------------------------------------------------------------------
(* The list of callbacks *)

Callback == [token : Tokens, accumulated : Changes, deliver : Changes,
             initial : BOOLEAN, skip : BOOLEAN]

LEMMA BetweenTyped ==
    ASSUME NEW v, NEW w
    PROVE  Between(v, w) \in Changes
BY DEF Between, Changes

(* What changes every callback of the list keeps its length.               *)
LEMMA Mapped ==
    ASSUME NEW q \in Seq(Callback), NEW f \in [DOMAIN q -> Callback]
    PROVE  f \in Seq(Callback) /\ Len(f) = Len(q) /\ DOMAIN f = 1 .. Len(q)
<1>1. Len(q) \in Nat /\ DOMAIN q = 1 .. Len(q)
  OBVIOUS
<1>2. f \in [1 .. Len(q) -> Callback]
  BY <1>1
<1>3. f \in Seq(Callback)
  BY <1>1, <1>2, SeqDef
<1>4. DOMAIN f = 1 .. Len(f) /\ Len(f) \in Nat
  BY <1>3
<1> QED BY <1>1, <1>2, <1>3, <1>4

(* Registered callbacks have a place; removing one takes one away.         *)
LEMMA PlaceInList ==
    ASSUME cbs \in Seq(Callback), NEW k \in Registered
    PROVE  Place(k) \in 1 .. Len(cbs)
BY DEF Registered, Place

LEMMA Removed ==
    ASSUME NEW q \in Seq(Callback), NEW i \in 1 .. Len(q)
    PROVE  RemoveAt(q, i) \in Seq(Callback) /\ Len(RemoveAt(q, i)) = Len(q) - 1
<1> DEFINE a == SubSeq(q, 1, i - 1)
           b == SubSeq(q, i + 1, Len(q))
<1>1. a \in Seq(Callback) /\ Len(a) = i - 1
  BY SubSeqProperties
<1>2. b \in Seq(Callback) /\ Len(b) = Len(q) - i
  BY SubSeqProperties
<1>3. RemoveAt(q, i) = a \o b
  BY DEF RemoveAt
<1> HIDE DEF a, b
<1>4. a \o b \in Seq(Callback) /\ Len(a \o b) = Len(a) + Len(b)
  BY <1>1, <1>2, ConcatProperties
<1> QED BY <1>1, <1>2, <1>3, <1>4

-----------------------------------------------------------------------------
(* The inductive invariant: the turn and the number of callbacks the loop  *)
(* is to call stay within the list, so a turn that is given is a callback  *)
(* there is; and a write transaction has a version to commit.              *)
LoopInList == count \in Int /\ count <= Len(cbs)
RoomToWrite == writing => latest < MaxVersion
NotifierInv == TypeOK /\ HaveCallbacks /\ LoopInList /\ RoomToWrite

(* The variables that the list of callbacks has nothing to do with.        *)
OthersOK ==
    /\ latest \in Versions /\ at \in Versions /\ target \in Versions /\ skip \in Versions
    /\ writing \in BOOLEAN
    /\ pc \in {"idle", "delivering", "calling", "refreshing", "beginning"}
    /\ has \in [version : Versions, run : BOOLEAN, listed : BOOLEAN]
    /\ worker \in [at : {"idle", "track", "query", "calculate", "handover"},
                   skip : Versions, target : Versions, tracked : BOOLEAN,
                   seen : -1 .. MaxVersion, changes : Changes]
    /\ woken \in BOOLEAN /\ signal \in {"none", "signalled", "missed"}
    /\ told \in [Tokens -> [changes : Changes, upto : -2 .. MaxVersion]]
    /\ own \in [Tokens -> Changes] /\ disturbed \subseteq Tokens
    /\ RoomToWrite

ListOK ==
    /\ cbs \in Seq(Callback) /\ index \in 0 .. Len(cbs) /\ have \in BOOLEAN
    /\ have <=> cbs # << >>
    /\ LoopInList

LEMMA NotifierInvSplit == NotifierInv <=> OthersOK /\ ListOK
BY DEF NotifierInv, OthersOK, ListOK, TypeOK, HaveCallbacks, Callback

(* A step that keeps the list's length, the turn and the cached answer     *)
(* keeps the list in order, and so does packaging it.                      *)
LEMMA SameLength ==
    ASSUME ListOK, cbs' \in Seq(Callback), Len(cbs') = Len(cbs),
           UNCHANGED <<index, have>>, count' \in {count, Len(cbs)}
    PROVE  ListOK'
<1>1. cbs' = << >> <=> cbs = << >>
  BY EmptySeq DEF ListOK
<1>2. Len(cbs) \in Nat
  BY DEF ListOK
<1> QED BY <1>1, <1>2 DEF ListOK, LoopInList

LEMMA Elements ==
    ASSUME ListOK, NEW i \in DOMAIN cbs
    PROVE  /\ cbs[i] \in Callback /\ i \in 1 .. Len(cbs)
           /\ \A c \in Changes : [cbs[i] EXCEPT !.deliver = c] \in Callback
           /\ \A c \in Changes : [cbs[i] EXCEPT !.accumulated = c] \in Callback
           /\ \A c, d \in Changes : [cbs[i] EXCEPT !.deliver = c, !.accumulated = d] \in Callback
           /\ \A b \in BOOLEAN : [cbs[i] EXCEPT !.skip = b] \in Callback
<1>1. cbs \in Seq(Callback) /\ i \in 1 .. Len(cbs)
  BY DEF ListOK
<1>2. cbs[i] \in Callback
  BY <1>1, ElementOfSeq
<1> QED BY <1>1, <1>2 DEF Callback

LEMMA PackagedTyped ==
    ASSUME ListOK
    PROVE  Packaged \in Seq(Callback) /\ Len(Packaged) = Len(cbs)
<1>1. {} \in Changes /\ \A i \in DOMAIN cbs : cbs[i].accumulated \in Changes
  BY Elements DEF Changes, Callback
<1>2. Packaged \in [DOMAIN cbs -> Callback]
  BY <1>1, Elements DEF Packaged
<1> QED BY <1>2, Mapped DEF ListOK

LEMMA SkippingTyped ==
    ASSUME ListOK, NEW T
    PROVE  Skipping(T) \in Seq(Callback) /\ Len(Skipping(T)) = Len(cbs)
<1>1. \A i \in DOMAIN cbs : (cbs[i].skip \/ cbs[i].token \in T) \in BOOLEAN
  OBVIOUS
<1>2. Skipping(T) \in [DOMAIN cbs -> Callback]
  BY <1>1, Elements DEF Skipping
<1> QED BY <1>2, Mapped DEF ListOK

LEMMA AddChangesTyped ==
    ASSUME ListOK, OthersOK
    PROVE  AddChanges \in Seq(Callback) /\ Len(AddChanges) = Len(cbs)
<1>1. worker.changes \in Changes
  BY DEF OthersOK
<1>3. \A i \in DOMAIN cbs : cbs[i].accumulated \cup worker.changes \in Changes
  BY <1>1, Elements DEF Changes, Callback
<1>2. AddChanges \in [DOMAIN cbs -> Callback]
  BY <1>3, Elements DEF AddChanges
<1> QED BY <1>2, Mapped DEF ListOK

LEMMA TokensOfList ==
    ASSUME ListOK
    PROVE  /\ Registered \subseteq Tokens
           /\ \A i \in 1 .. Len(cbs) : cbs[i] \in Callback /\ cbs[i].token \in Tokens
           /\ DOMAIN cbs = 1 .. Len(cbs)
<1>1. DOMAIN cbs = 1 .. Len(cbs)
  BY DEF ListOK
<1>2. \A i \in DOMAIN cbs : cbs[i] \in Callback /\ cbs[i].token \in Tokens
  BY Elements DEF Callback
<1> QED BY <1>1, <1>2 DEF Registered

LEMMA StillToCallTyped ==
    ASSUME ListOK
    PROVE  StillToCall \subseteq Tokens
<1>1. index + 1 .. count \subseteq 1 .. Len(cbs)
  BY DEF ListOK, LoopInList
<1> QED BY <1>1, TokensOfList DEF StillToCall

-----------------------------------------------------------------------------
LEMMA NotifierInit == Init => OthersOK /\ ListOK
<1> SUFFICES ASSUME Init PROVE OthersOK /\ ListOK
  OBVIOUS
<1> USE CollectionNotifierAssumption
<1>1. 0 \in Versions /\ -1 \in -1 .. MaxVersion /\ {} \in Changes /\ NotTold \in [changes : Changes, upto : -2 .. MaxVersion]
  BY DEF Versions, Changes, NotTold
<1>2. OthersOK
  BY <1>1 DEF Init, OthersOK, RoomToWrite
<1>3. cbs \in Seq(Callback) /\ Len(cbs) = 0
  BY EmptySeq DEF Init
<1>4. ListOK
  <2>1. have \in BOOLEAN /\ (have <=> cbs # << >>)
    BY Zenon DEF Init
  <2>2. index \in 0 .. Len(cbs) /\ LoopInList
    BY <1>3 DEF Init, LoopInList
  <2> QED BY <1>3, <2>1, <2>2 DEF ListOK
<1> QED BY <1>2, <1>4

-----------------------------------------------------------------------------
(* One lemma per operation on the list of callbacks, one for the others.   *)

LEMMA AddKeepsInv ==
    ASSUME OthersOK, ListOK, NEW k \in Tokens, AddCallback(k)
    PROVE  OthersOK' /\ ListOK'
<1> DEFINE c == [token |-> k, accumulated |-> {}, deliver |-> {}, initial |-> FALSE, skip |-> FALSE]
<1>1. c \in Callback
  BY DEF Callback, Changes
<1>2. cbs' = Append(cbs, c)
  BY DEF AddCallback
<1> HIDE DEF c
<1>3. cbs' \in Seq(Callback) /\ Len(cbs') = Len(cbs) + 1
  BY <1>1, <1>2 DEF ListOK
<1>4. cbs' # << >> /\ Len(cbs) \in Nat
  BY <1>3, EmptySeq DEF ListOK
<1>5. index # 0 => cbs # << >>
  BY EmptySeq DEF ListOK
<1>6. have'
  BY <1>5 DEF AddCallback, ListOK
<1>10. woken' \in BOOLEAN
  BY DEF AddCallback, WakeWorker, OthersOK
<1>7. ListOK'
  <2>1. have' \in BOOLEAN /\ (have' <=> cbs' # << >>)
    BY <1>4, <1>6 DEF AddCallback, ListOK
  <2>2. index' \in 0 .. Len(cbs') /\ LoopInList'
    BY <1>3, <1>4 DEF AddCallback, ListOK, LoopInList, loop
  <2> QED BY <1>3, <2>1, <2>2 DEF ListOK
<1>8. disturbed' \subseteq Tokens
  BY DEF AddCallback, AddedLate, OthersOK
<1>9. OthersOK'
  BY <1>8, <1>10 DEF OthersOK, AddCallback, file, RoomToWrite
<1> QED BY <1>7, <1>9

LEMMA RemoveKeepsInv ==
    ASSUME OthersOK, ListOK, NEW k \in Tokens, RemoveCallback(k)
    PROVE  OthersOK' /\ ListOK'
<1>1. Place(k) \in 1 .. Len(cbs)
  BY PlaceInList DEF RemoveCallback, ListOK
<1>2. cbs' \in Seq(Callback) /\ Len(cbs') = Len(cbs) - 1 /\ Len(cbs) \in Nat
  BY <1>1, Removed DEF RemoveCallback, ListOK
<1>3. cbs' = << >> <=> Len(cbs) = 1
  BY <1>2, EmptySeq
<1>4. ListOK'
  <2>1. have' \in BOOLEAN /\ (have' <=> cbs' # << >>)
    BY <1>3 DEF RemoveCallback
  <2>2. index' \in 0 .. Len(cbs')
    BY <1>1, <1>2 DEF RemoveCallback, IndexWithout, ListOK
  <2>3. LoopInList'
    BY <1>2 DEF RemoveCallback, LoopInList, ListOK
  <2> QED BY <1>2, <2>1, <2>2, <2>3 DEF ListOK
<1>5. disturbed' \subseteq Tokens
  BY TokensOfList DEF RemoveCallback, CutShort, OthersOK
<1>6. Gone \in [changes : Changes, upto : -2 .. MaxVersion] /\ {} \in Changes
  BY CollectionNotifierAssumption DEF Gone, Changes
<1>7. told' \in [Tokens -> [changes : Changes, upto : -2 .. MaxVersion]] /\ own' \in [Tokens -> Changes]
  BY <1>6 DEF RemoveCallback, OthersOK
<1>8. OthersOK'
  BY <1>5, <1>7 DEF OthersOK, RemoveCallback, file, background, RoomToWrite
<1> QED BY <1>4, <1>8

LEMMA DeliverKeepsInv ==
    ASSUME OthersOK, ListOK, Deliver
    PROVE  OthersOK' /\ ListOK'
<1> DEFINE cb == cbs[index + 1]
<1>1. index + 1 \in 1 .. Len(cbs) /\ index + 1 \in DOMAIN cbs
  BY DEF Deliver, ListOK, LoopInList
<1>2. cb \in Callback
  BY <1>1, Elements
<1>3. CASE cb.initial /\ cb.deliver = {}
  <2>1. UNCHANGED <<pc, cbs, told, have, count>> /\ index' = index + 1
    BY <1>3 DEF Deliver
  <2>2. ListOK'
    BY <1>1, <2>1 DEF ListOK, LoopInList
  <2>3. OthersOK'
    BY <2>1 DEF OthersOK, Deliver, file, background, RoomToWrite
  <2> QED BY <2>2, <2>3
<1>4. CASE ~(cb.initial /\ cb.deliver = {})
  <2> DEFINE d == [cb EXCEPT !.initial = TRUE, !.deliver = {}]
             m == [changes |-> IF cb.initial THEN told[cb.token].changes \cup cb.deliver ELSE Between(0, at),
                   upto |-> at]
  <2>1. /\ UNCHANGED <<have, count>> /\ index' = index + 1 /\ pc' = "calling"
        /\ cbs' = [cbs EXCEPT ![index + 1] = d]
        /\ told' = [told EXCEPT ![cb.token] = m]
    BY <1>4 DEF Deliver
  <2>2. d \in Callback
    BY <1>2 DEF Callback, Changes
  <2>3. cb.token \in Tokens /\ cb.deliver \in Changes
    BY <1>2 DEF Callback
  <2>4. m \in [changes : Changes, upto : -2 .. MaxVersion]
    <3>1. told[cb.token].changes \in Changes /\ at \in -2 .. MaxVersion
      BY <2>3, CollectionNotifierAssumption DEF OthersOK, Versions
    <3> QED BY <2>3, <3>1, BetweenTyped DEF Changes
  <2> HIDE DEF d, m, cb
  <2>5. cbs' \in Seq(Callback) /\ Len(cbs') = Len(cbs)
    BY <1>1, <2>1, <2>2, ExceptSeq DEF ListOK
  <2>6. cbs' = << >> <=> cbs = << >>
    BY <2>5, EmptySeq DEF ListOK
  <2>7. ListOK'
    BY <1>1, <2>1, <2>5, <2>6 DEF ListOK, LoopInList
  <2>8. told' \in [Tokens -> [changes : Changes, upto : -2 .. MaxVersion]]
    BY <2>1, <2>4 DEF OthersOK
  <2>9. OthersOK'
    BY <2>1, <2>8 DEF OthersOK, Deliver, file, background, RoomToWrite
  <2> QED BY <2>7, <2>9
<1> QED BY <1>3, <1>4

(* Packaging, what the worker finds and the marks of a commit.             *)
LEMMA PackageKeepsList ==
    ASSUME ListOK, cbs' = Packaged, count' = Len(cbs), UNCHANGED <<index, have>>
    PROVE  ListOK'
BY PackagedTyped, SameLength

LEMMA CommitKeepsInv ==
    ASSUME OthersOK, ListOK, NEW T \in SUBSET Registered, Commit(T) \/ CommitFails(T)
    PROVE  OthersOK' /\ ListOK'
<1>1. cbs' = Skipping(T) /\ UNCHANGED <<index, count, have>>
  BY DEF Commit, CommitFails, loop
<1>2. ListOK'
  BY <1>1, SkippingTyped, SameLength
<1>3. T \subseteq Tokens /\ StillToCall \subseteq Tokens
  BY TokensOfList, StillToCallTyped
<1>4. CASE CommitFails(T)
  <2>1. disturbed' \subseteq Tokens
    BY <1>3, <1>4 DEF CommitFails, OthersOK
  <2>2. OthersOK'
    BY <1>4, <2>1 DEF CommitFails, OthersOK, file, background, RoomToWrite
  <2> QED BY <1>2, <2>2
<1>5. CASE Commit(T)
  <2>1. latest + 1 \in Versions /\ latest + 1 \in 1 .. MaxVersion
    BY <1>5, CollectionNotifierAssumption DEF Commit, OthersOK, RoomToWrite, Versions
  <2>2. own' \in [Tokens -> Changes]
    BY <1>5, <2>1 DEF Commit, NotFor, OthersOK, Changes
  <2>3. Behind(T) \subseteq Tokens
    BY TokensOfList DEF Behind, Flagged
  <2>4. disturbed' \subseteq Tokens
    BY <1>3, <1>5, <2>3 DEF Commit, OthersOK
  <2>5. skip' \in Versions
    BY <1>5, <2>1 DEF Commit, OthersOK
  <2>6. OthersOK'
    BY <1>5, <2>1, <2>2, <2>4, <2>5 DEF Commit, WakeWorker, OthersOK, RoomToWrite
  <2> QED BY <1>2, <2>6
<1> QED BY <1>4, <1>5

LEMMA NotifyChangedKeepsInv ==
    ASSUME OthersOK, ListOK, NotifyChanged
    PROVE  OthersOK' /\ ListOK'
<1>1. ListOK'
  <2>1. CASE Packaged = cbs' /\ count' = Len(cbs)
    BY <2>1, PackageKeepsList DEF NotifyChanged
  <2>2. CASE UNCHANGED <<cbs, count>>
    BY <2>2 DEF NotifyChanged, ListOK, LoopInList
  <2> QED BY <2>1, <2>2 DEF NotifyChanged, AdvanceToLatest, AdvanceToReady, DropOutOfDate, Package, NoPackage
<1>2. Dropped \subseteq Tokens
  BY TokensOfList DEF Dropped
<1>3. has.version \in Versions
  BY DEF OthersOK
<1>4. at' \in Versions /\ pc' \in {"idle", "delivering"} \cup {pc} /\ disturbed' \subseteq Tokens
  BY <1>2, <1>3 DEF NotifyChanged, AdvanceToLatest, AdvanceToReady, DropOutOfDate, Package, NoPackage, OthersOK
<1>5. OthersOK'
  BY <1>4 DEF NotifyChanged, Signalled, OthersOK, RoomToWrite
<1> QED BY <1>1, <1>5

LEMMA WaitedKeepsInv ==
    ASSUME OthersOK, ListOK, Waited
    PROVE  OthersOK' /\ ListOK'
<1>1. ListOK'
  <2>1. CASE has.run
    BY <2>1, PackageKeepsList DEF Waited
  <2>2. CASE ~has.run
    BY <2>2 DEF Waited, ListOK, LoopInList
  <2> QED BY <2>1, <2>2
<1>2. has.version \in Versions
  BY DEF OthersOK
<1>3. at' \in Versions /\ pc' \in {"idle", "delivering"}
  BY <1>2 DEF Waited, OthersOK
<1>4. OthersOK'
  BY <1>3, CollectionNotifierAssumption DEF Waited, background, history, OthersOK, RoomToWrite, Versions
<1> QED BY <1>1, <1>4

(* The Realm's other steps.                                                *)
LEMMA RealmKeepsInv ==
    ASSUME OthersOK, ListOK,
           \/ Return \/ Delivered \/ NotifyInWrite \/ Notify \/ Refresh \/ BeginWrite \/ BeginNestedWrite
           \/ Cancel \/ OtherCommits
    PROVE  OthersOK' /\ ListOK'
<1>1. CASE Return
  BY <1>1 DEF Return, file, notifier, background, history, OthersOK, ListOK, RoomToWrite, LoopInList
<1>2. CASE Delivered
  <2>1. ListOK'
    BY <1>2, LenProperties DEF Delivered, ListOK, LoopInList
  <2>2. OthersOK'
    BY <1>2 DEF Delivered, file, background, history, OthersOK, RoomToWrite
  <2> QED BY <2>1, <2>2
<1>3. CASE Notify
  <2>1. ListOK'
    <3>1. CASE Package
      BY <1>3, <3>1, PackageKeepsList DEF Notify, Package
    <3>2. CASE NoPackage
      BY <1>3, <3>2 DEF Notify, NoPackage, ListOK, LoopInList
    <3> QED BY <1>3, <3>1, <3>2 DEF Notify
  <2>2. pc' \in {"delivering", "idle"}
    BY <1>3 DEF Notify, Package, NoPackage
  <2>3. OthersOK'
    BY <1>3, <2>2 DEF Notify, Signalled, file, history, OthersOK, RoomToWrite
  <2> QED BY <2>1, <2>3
<1>9. CASE NotifyInWrite
  BY <1>9 DEF NotifyInWrite, Signalled, file, notifier, history, OthersOK, ListOK, RoomToWrite, LoopInList
<1>4. CASE Refresh
  BY <1>4 DEF Refresh, file, notifier, background, history, OthersOK, ListOK, RoomToWrite, LoopInList
<1>5. CASE BeginWrite
  BY <1>5 DEF BeginWrite, notifier, background, history, OthersOK, ListOK, RoomToWrite, LoopInList
<1>6. CASE BeginNestedWrite
  <2>1. disturbed' \subseteq Tokens
    BY <1>6, StillToCallTyped DEF BeginNestedWrite, OthersOK
  <2>2. OthersOK'
    BY <1>6, <2>1 DEF BeginNestedWrite, notifier, background, OthersOK, RoomToWrite
  <2>3. ListOK'
    BY <1>6 DEF BeginNestedWrite, notifier, ListOK, LoopInList
  <2> QED BY <2>2, <2>3
<1>7. CASE Cancel
  BY <1>7 DEF Cancel, notifier, background, history, OthersOK, ListOK, RoomToWrite, LoopInList
<1>8. CASE OtherCommits
  <2>1. latest + 1 \in Versions
    BY <1>8, CollectionNotifierAssumption DEF OtherCommits, OthersOK, Versions
  <2>2. OthersOK'
    BY <1>8, <2>1 DEF OtherCommits, WakeWorker, notifier, history, OthersOK, RoomToWrite
  <2>3. ListOK'
    BY <1>8 DEF OtherCommits, notifier, ListOK, LoopInList
  <2> QED BY <2>2, <2>3
<1> QED BY <1>1, <1>2, <1>3, <1>4, <1>5, <1>6, <1>7, <1>8, <1>9

LEMMA HandoverKeepsInv ==
    ASSUME OthersOK, ListOK, HandOver
    PROVE  OthersOK' /\ ListOK'
<1>1. cbs' = AddChanges /\ UNCHANGED <<index, count, have>>
  BY DEF HandOver, loop
<1>2. ListOK'
  BY <1>1, AddChangesTyped, SameLength
<1>3. {} \in Changes /\ 0 \in Versions /\ Goal \in Versions
  BY CollectionNotifierAssumption DEF Changes, Versions, Goal, OthersOK
<1>4. has' \in [version : Versions, run : BOOLEAN, listed : BOOLEAN]
  BY <1>3 DEF HandOver, OthersOK
<1>5. /\ worker' \in [at : {"idle", "track", "query", "calculate", "handover"},
                      skip : Versions, target : Versions, tracked : BOOLEAN,
                      seen : -1 .. MaxVersion, changes : Changes]
      /\ signal' \in {"none", "signalled", "missed"}
  BY <1>3 DEF HandOver, OthersOK
<1>6. OthersOK'
  BY <1>4, <1>5 DEF HandOver, file, history, OthersOK, RoomToWrite
<1> QED BY <1>2, <1>6

LEMMA FoundTyped ==
    ASSUME OthersOK
    PROVE  Found \subseteq Changes
BY BetweenTyped DEF Found, Changes

LEMMA RunKeepsInv ==
    ASSUME OthersOK, ListOK, TrackChanges \/ RunQuery \/ CalculateChanges
    PROVE  OthersOK' /\ ListOK'
<1>1. Goal \in -1 .. MaxVersion
  BY CollectionNotifierAssumption DEF Goal, OthersOK, Versions
<1>2. worker' \in [at : {"idle", "track", "query", "calculate", "handover"},
                   skip : Versions, target : Versions, tracked : BOOLEAN,
                   seen : -1 .. MaxVersion, changes : Changes]
  <2>1. CASE TrackChanges
    BY <2>1 DEF TrackChanges, OthersOK, ListOK
  <2>2. CASE RunQuery
    BY <2>2 DEF RunQuery, OthersOK
  <2>3. CASE CalculateChanges
    BY <1>1, <2>3, FoundTyped DEF CalculateChanges, OthersOK
  <2> QED BY <2>1, <2>2, <2>3
<1>3. UNCHANGED <<file, pc, target, notifier, woken, skip, signal, history>>
  BY DEF TrackChanges, RunQuery, CalculateChanges, Working
<1>4. OthersOK'
  BY <1>2, <1>3 DEF OthersOK, file, notifier, history, RoomToWrite
<1>5. ListOK'
  BY <1>3 DEF notifier, ListOK, LoopInList
<1> QED BY <1>4, <1>5

LEMMA WorkerKeepsInv ==
    ASSUME OthersOK, ListOK, StartRun \/ WorkerSteps
    PROVE  OthersOK' /\ ListOK'
<1>1. CASE StartRun
  <2>1. 0 \in Versions
    BY CollectionNotifierAssumption DEF Versions
  <2>2. OthersOK'
    BY <1>1, <2>1 DEF StartRun, OthersOK, file, history, RoomToWrite
  <2>3. ListOK'
    BY <1>1 DEF StartRun, loop, ListOK, LoopInList
  <2> QED BY <2>2, <2>3
<1> QED BY <1>1, RunKeepsInv, HandoverKeepsInv DEF WorkerSteps

LEMMA NotifierNext ==
    ASSUME OthersOK, ListOK, [Next]_vars
    PROVE  OthersOK' /\ ListOK'
<1>1. CASE \E k \in Tokens : AddCallback(k) \/ RemoveCallback(k)
  BY <1>1, AddKeepsInv, RemoveKeepsInv
<1>2. CASE \E T \in SUBSET Registered : Commit(T) \/ CommitFails(T)
  BY <1>2, CommitKeepsInv
<1>3. CASE RealmSteps \/ Notified \/ Refresh \/ BeginWrite \/ BeginNestedWrite
           \/ Cancel \/ OtherCommits
  BY <1>3, DeliverKeepsInv, WaitedKeepsInv, NotifyChangedKeepsInv, RealmKeepsInv DEF RealmSteps, Notified
<1>4. CASE StartRun \/ WorkerSteps
  BY <1>4, WorkerKeepsInv
<1>5. CASE UNCHANGED vars
  BY <1>5 DEF vars, OthersOK, ListOK, RoomToWrite, LoopInList
<1> QED BY <1>1, <1>2, <1>3, <1>4, <1>5 DEF Next

-----------------------------------------------------------------------------
(* Every variable has its type, and the loop over the callbacks stays      *)
(* within their list although they come and go during it.                  *)
THEOREM NotifierInvariant == Spec => []NotifierInv
<1>1. Init => NotifierInv
  BY NotifierInit, NotifierInvSplit
<1>2. NotifierInv /\ [Next]_vars => NotifierInv'
  <2> SUFFICES ASSUME OthersOK, ListOK, [Next]_vars PROVE NotifierInv'
    BY NotifierInvSplit
  <2>1. OthersOK' /\ ListOK'
    BY NotifierNext
  <2> QED BY <2>1 DEF NotifierInv, OthersOK, ListOK, TypeOK, HaveCallbacks, Callback
<1> QED BY <1>1, <1>2, PTL DEF Spec

(* Every variable has its type: in particular m_callback_index never       *)
(* points past the list, although the list shrinks under the loop.         *)
THEOREM NotifierTypes == Spec => []TypeOK
<1>1. NotifierInv => TypeOK
  BY DEF NotifierInv
<1> QED BY <1>1, NotifierInvariant, PTL

(* m_have_callbacks says whether there are callbacks, whenever the         *)
(* notifier's mutex is free, however many come and go during a delivery.   *)
THEOREM HaveCallbacksIsTrue == Spec => []HaveCallbacks
<1>1. NotifierInv => HaveCallbacks
  BY DEF NotifierInv
<1> QED BY <1>1, NotifierInvariant, PTL

-----------------------------------------------------------------------------
(* What each callback is told of.  A callback's changes cover the versions *)
(* from v up to w when they are made in that time and leave out only       *)
(* versions it was not to be told of.                                      *)
Covers(c, o, v, w) == c \subseteq Between(v, w) /\ Between(v, w) \subseteq c \cup o

LEMMA CoversNothing ==
    ASSUME NEW v \in Int, NEW o
    PROVE  Covers({}, o, v, v) /\ Between(v, v) = {}
BY DEF Covers, Between

LEMMA CoversAll ==
    ASSUME NEW v, NEW w, NEW o
    PROVE  Covers(Between(v, w), o, v, w)
BY DEF Covers

LEMMA CoversJoin ==
    ASSUME NEW u \in Int, NEW v \in Int, NEW w \in Int, u <= v, v <= w, NEW o, NEW c, NEW d,
           Covers(c, o, u, v), Covers(d, o, v, w)
    PROVE  Covers(c \cup d, o, u, w)
BY DEF Covers, Between

(* Versions it is not to be told of need not be found.                     *)
LEMMA CoversLeavingOut ==
    ASSUME NEW u \in Int, NEW v \in Int, NEW w \in Int, u <= v, v <= w, NEW o, NEW c,
           Covers(c, o, u, v), Between(v, w) \subseteq o
    PROVE  Covers(c, o, u, w)
BY DEF Covers, Between

LEMMA CoversForFewer ==
    ASSUME NEW v, NEW w, NEW o, NEW p, o \subseteq p, NEW c, Covers(c, o, v, w)
    PROVE  Covers(c, p, v, w)
BY DEF Covers

(* Changes of adjoining spans are different ones.                          *)
LEMMA CoversApart ==
    ASSUME NEW u \in Int, NEW v \in Int, NEW w \in Int, NEW o, NEW c, NEW d,
           Covers(c, o, u, v), Covers(d, o, v, w)
    PROVE  c \cap d = {}
BY DEF Covers, Between

-----------------------------------------------------------------------------
(* The versions the worker goes through: it is on its way from the         *)
(* notifier's version to the goal, and on to the target; a version put     *)
(* down to be skipped is ahead of the notifier and of the run under way.   *)
Orders ==
    /\ has.version <= latest /\ at <= latest /\ worker.target <= latest /\ skip <= latest
    /\ worker.at # "idle" => has.version <= Goal /\ Goal <= worker.target
    /\ skip > 0 => has.version < skip /\ (worker.at # "idle" => worker.target < skip)
    /\ has.run \/ worker.at # "idle" => has.listed

Undisturbed(i) == cbs[i].token \notin disturbed

(* What the worker holds is from a run to its own version, and it is in    *)
(* step as long as a callback counts on it.                                *)
Finds ==
    /\ worker.at # "handover" \/ ~has.run => worker.changes = {}
    /\ (\E i \in DOMAIN cbs : Undisturbed(i)) => InStep

LEMMA WorkerTypes ==
    ASSUME OthersOK
    PROVE  /\ latest \in Nat /\ at \in Nat /\ target \in Nat /\ skip \in Nat
           /\ has.version \in Nat /\ has.run \in BOOLEAN /\ has.listed \in BOOLEAN
           /\ has = [version |-> has.version, run |-> has.run, listed |-> has.listed]
           /\ worker.skip \in Nat /\ worker.target \in Nat /\ Goal \in Nat
           /\ worker.at \in {"idle", "track", "query", "calculate", "handover"}
           /\ worker = [at |-> worker.at, skip |-> worker.skip, target |-> worker.target,
                        tracked |-> worker.tracked, seen |-> worker.seen, changes |-> worker.changes]
<1>1. Versions \subseteq Nat
  BY DEF Versions
<1> QED BY <1>1 DEF OthersOK, Goal

(* The worker's steps, field by field.                                     *)
LEMMA StartRunFields ==
    ASSUME OthersOK, StartRun
    PROVE  /\ worker.at = "idle" /\ worker'.at = "track"
           /\ worker'.skip = skip /\ worker'.target = latest
           /\ worker'.seen = worker.seen /\ worker'.changes = worker.changes
           /\ Goal' = IF skip > 0 THEN skip ELSE latest
           /\ has'.version = has.version /\ has'.run = has.run /\ has'.listed
           /\ skip' = 0 /\ UNCHANGED <<latest, at, pc, cbs, index, count, told, own, disturbed, have>>
BY WorkerTypes DEF StartRun, file, loop, history, Goal

Running == TrackChanges \/ RunQuery \/ CalculateChanges

LEMMA RunFields ==
    ASSUME OthersOK, Running
    PROVE  /\ \/ worker.at = "track" /\ worker'.at = "query" /\ worker'.tracked = (has.run /\ have)
                 /\ worker'.changes = worker.changes /\ worker'.seen = worker.seen
              \/ worker.at = "query"
                 /\ \/ worker'.at = "calculate" /\ worker'.tracked = worker.tracked
                    \/ ~have /\ worker'.at = "handover"
                 /\ worker'.changes = worker.changes /\ worker'.seen = worker.seen
              \/ worker.at = "calculate" /\ worker'.at = "handover"
                 /\ worker'.changes \in Found /\ worker'.seen = Goal
           /\ Goal' = Goal /\ worker'.target = worker.target
           /\ UNCHANGED <<latest, at, pc, cbs, index, count, has, have, skip, told, own, disturbed>>
<1>1. UNCHANGED <<latest, at, pc, cbs, index, count, has, have, skip, told, own, disturbed>>
  BY DEF Running, TrackChanges, RunQuery, CalculateChanges, Working, file, notifier, history
<1>2. CASE TrackChanges
  BY <1>1, <1>2, WorkerTypes DEF TrackChanges, Working, Goal
<1>3. CASE RunQuery
  <2>1. worker.at = "query"
    BY <1>3 DEF RunQuery, Working
  <2>2. CASE worker' = [worker EXCEPT !.at = "calculate"]
    <3>1. /\ worker'.at = "calculate" /\ worker'.tracked = worker.tracked /\ worker'.skip = worker.skip
          /\ worker'.target = worker.target /\ worker'.changes = worker.changes /\ worker'.seen = worker.seen
      BY <2>2, WorkerTypes
    <3>2. Goal' = Goal
      BY <3>1 DEF Goal
    <3> QED BY <1>1, <2>1, <3>1, <3>2
  <2>3. CASE ~have /\ worker' = [worker EXCEPT !.at = "handover", !.tracked = FALSE]
    <3>1. /\ worker'.at = "handover" /\ worker'.skip = worker.skip /\ worker'.target = worker.target
          /\ worker'.changes = worker.changes /\ worker'.seen = worker.seen
      BY <2>3, WorkerTypes
    <3> QED BY <1>1, <2>1, <2>3, <3>1 DEF Goal
  <2> QED BY <1>3, <2>2, <2>3 DEF RunQuery
<1>4. CASE CalculateChanges
  BY <1>1, <1>4, WorkerTypes DEF CalculateChanges, Working, Goal
<1> QED BY <1>2, <1>3, <1>4 DEF Running

LEMMA HandoverFields ==
    ASSUME OthersOK, HandOver
    PROVE  /\ worker.at = "handover" /\ has'.version = Goal
           /\ \/ worker'.at = "track" /\ Goal' = worker.target /\ worker'.target = worker.target
              \/ worker'.at = "idle" /\ worker'.target = 0
           /\ worker'.seen = worker.seen /\ worker'.changes = {}
           /\ has'.run /\ has'.listed = has.listed /\ cbs' = AddChanges
           /\ UNCHANGED <<latest, at, pc, index, count, have, skip, told, own, disturbed>>
BY WorkerTypes DEF HandOver, Goal, file, loop, history

LEMMA OrdersStep ==
    ASSUME OthersOK, OthersOK', Orders, [Next]_vars
    PROVE  Orders'
<1> USE DEF Orders
<1>1. /\ has.version \in Nat /\ latest \in Nat /\ at \in Nat /\ skip \in Nat
      /\ worker.skip \in Nat /\ worker.target \in Nat /\ Goal \in Nat
      /\ worker.at \in {"idle", "track", "query", "calculate", "handover"}
  BY WorkerTypes
<1>2. worker' = worker => Goal' = Goal
  BY DEF Goal
<1>3. CASE \E k \in Tokens : AddCallback(k) \/ RemoveCallback(k)
  BY <1>2, <1>3 DEF AddCallback, RemoveCallback, file, background
<1>4. CASE RealmSteps \/ Notified \/ Refresh \/ BeginWrite \/ BeginNestedWrite \/ Cancel
  <2>1. UNCHANGED <<latest, has, worker, skip>>
    BY <1>4 DEF RealmSteps, Deliver, Return, Delivered, Waited, Notified, NotifyInWrite, Notify, NotifyChanged,
       Signalled, Refresh, BeginWrite, BeginNestedWrite, Cancel, file, notifier, background
  <2>2. at' \in {at, has.version, latest}
    BY <1>4 DEF RealmSteps, Deliver, Return, Delivered, Waited, Notified, NotifyInWrite, Notify, NotifyChanged,
       AdvanceToLatest, AdvanceToReady, DropOutOfDate, Refresh, BeginWrite, BeginNestedWrite, Cancel, file
  <2> QED BY <1>1, <1>2, <2>1, <2>2
<1>5. CASE OtherCommits
  BY <1>1, <1>2, <1>5 DEF OtherCommits, notifier
<1>6. CASE \E T \in SUBSET Registered : Commit(T) \/ CommitFails(T)
  BY <1>1, <1>2, <1>6 DEF Commit, CommitFails, file, background
<1>7. CASE StartRun
  BY <1>1, <1>7, StartRunFields
<1>8. CASE Running
  BY <1>1, <1>8, RunFields
<1>9. CASE HandOver
  BY <1>1, <1>9, HandoverFields
<1>10. CASE UNCHANGED vars
  BY <1>2, <1>10 DEF vars
<1> QED BY <1>3, <1>4, <1>5, <1>6, <1>7, <1>8, <1>9, <1>10 DEF Next, WorkerSteps, Running

-----------------------------------------------------------------------------
(* What the steps make of the list: packaging, marking, handing over and a *)
(* call leave every callback in its place, a removal moves those behind it *)
(* up by one.                                                              *)
SameTokens == DOMAIN cbs' = DOMAIN cbs /\ \A i \in DOMAIN cbs : cbs'[i].token = cbs[i].token

LEMMA PackagedElements ==
    ASSUME ListOK, cbs' = Packaged
    PROVE  /\ SameTokens
           /\ \A i \in DOMAIN cbs :
                 /\ cbs'[i].initial = cbs[i].initial /\ cbs'[i].skip = cbs[i].skip
                 /\ cbs'[i].accumulated = {} /\ cbs'[i].deliver = cbs[i].accumulated
BY Elements DEF Packaged, SameTokens, Callback

LEMMA SkippingElements ==
    ASSUME ListOK, NEW T, cbs' = Skipping(T)
    PROVE  /\ SameTokens
           /\ \A i \in DOMAIN cbs :
                 /\ cbs'[i].initial = cbs[i].initial
                 /\ (cbs'[i].skip <=> cbs[i].skip \/ cbs[i].token \in T)
                 /\ cbs'[i].accumulated = cbs[i].accumulated /\ cbs'[i].deliver = cbs[i].deliver
<1>1. DOMAIN cbs' = DOMAIN cbs
  BY DEF Skipping
<1>2. ASSUME NEW i \in DOMAIN cbs
      PROVE  /\ cbs'[i].token = cbs[i].token /\ cbs'[i].initial = cbs[i].initial
             /\ cbs'[i].accumulated = cbs[i].accumulated /\ cbs'[i].deliver = cbs[i].deliver
             /\ (cbs'[i].skip <=> cbs[i].skip \/ cbs[i].token \in T)
  <2> DEFINE b == cbs[i].skip \/ cbs[i].token \in T
  <2>1. cbs'[i] = [cbs[i] EXCEPT !.skip = b]
    BY DEF Skipping
  <2>2. cbs[i] \in Callback
    BY Elements
  <2> HIDE DEF b
  <2>3. /\ cbs'[i].token = cbs[i].token /\ cbs'[i].initial = cbs[i].initial
        /\ cbs'[i].accumulated = cbs[i].accumulated /\ cbs'[i].deliver = cbs[i].deliver
        /\ cbs'[i].skip = b
    BY <2>1, <2>2 DEF Callback
  <2> QED BY Zenon, <2>3 DEF b
<1> QED BY <1>1, <1>2 DEF SameTokens

LEMMA AddChangesElements ==
    ASSUME ListOK, cbs' = AddChanges
    PROVE  /\ SameTokens
           /\ \A i \in DOMAIN cbs :
                 /\ cbs'[i].initial = cbs[i].initial /\ cbs'[i].skip = FALSE
                 /\ cbs'[i].accumulated = IF cbs[i].skip THEN cbs[i].accumulated
                                          ELSE cbs[i].accumulated \cup worker.changes
                 /\ cbs'[i].deliver = cbs[i].deliver
BY Elements DEF AddChanges, SameTokens, Callback

LEMMA DeliverElements ==
    ASSUME ListOK, Deliver
    PROVE  /\ SameTokens /\ index + 1 \in DOMAIN cbs
           /\ \A i \in DOMAIN cbs : cbs'[i].skip = cbs[i].skip
           /\ \A i \in DOMAIN cbs : i # index + 1 => cbs'[i] = cbs[i]
<1>1. index + 1 \in DOMAIN cbs
  BY DEF Deliver, ListOK, LoopInList
<1>2. cbs[index + 1] \in Callback
  BY <1>1, Elements
<1>3. cbs' = cbs \/ cbs' = [cbs EXCEPT ![index + 1].initial = TRUE, ![index + 1].deliver = {}]
  BY DEF Deliver
<1> QED BY <1>1, <1>2, <1>3 DEF SameTokens, Callback

LEMMA AddedElements ==
    ASSUME ListOK, NEW k, AddCallback(k)
    PROVE  /\ DOMAIN cbs' = 1 .. Len(cbs) + 1 /\ DOMAIN cbs = 1 .. Len(cbs) /\ Len(cbs) \in Nat
           /\ DOMAIN cbs' = DOMAIN cbs \cup {Len(cbs) + 1}
           /\ \A i \in DOMAIN cbs : cbs'[i] = cbs[i] /\ i # Len(cbs) + 1
           /\ cbs'[Len(cbs) + 1].token = k
           /\ ~cbs'[Len(cbs) + 1].skip /\ ~cbs'[Len(cbs) + 1].initial
           /\ cbs'[Len(cbs) + 1] = [token |-> k, accumulated |-> {}, deliver |-> {},
                                    initial |-> FALSE, skip |-> FALSE]
<1> DEFINE c == [token |-> k, accumulated |-> {}, deliver |-> {}, initial |-> FALSE, skip |-> FALSE]
<1>1. cbs' = Append(cbs, c)
  BY DEF AddCallback
<1> HIDE DEF c
<1>2. Len(cbs) \in Nat /\ DOMAIN cbs = 1 .. Len(cbs)
  BY DEF ListOK
<1>3. /\ DOMAIN cbs' = 1 .. Len(cbs) + 1 /\ cbs'[Len(cbs) + 1] = c
      /\ \A i \in 1 .. Len(cbs) : cbs'[i] = cbs[i]
  BY <1>1 DEF ListOK
<1>4. 1 .. Len(cbs) + 1 = (1 .. Len(cbs)) \cup {Len(cbs) + 1} /\ Len(cbs) + 1 \notin 1 .. Len(cbs)
  BY <1>2
<1>5. c.token = k /\ ~c.skip /\ ~c.initial
  BY DEF c
<1>6. cbs'[Len(cbs) + 1] = c /\ DOMAIN cbs' = DOMAIN cbs \cup {Len(cbs) + 1}
  BY <1>2, <1>3, <1>4
<1>7. cbs'[Len(cbs) + 1].token = k /\ ~cbs'[Len(cbs) + 1].skip /\ ~cbs'[Len(cbs) + 1].initial
  BY <1>5, <1>6
<1> QED BY <1>2, <1>3, <1>4, <1>6, <1>7 DEF c

LEMMA RemovedElements ==
    ASSUME NEW q \in Seq(Callback), NEW p \in 1 .. Len(q)
    PROVE  /\ DOMAIN RemoveAt(q, p) = 1 .. Len(q) - 1 /\ Len(q) \in Nat
           /\ \A j \in 1 .. Len(q) - 1 :
                 RemoveAt(q, p)[j] = IF j < p THEN q[j] ELSE q[j + 1]
<1> DEFINE a == SubSeq(q, 1, p - 1)
           b == SubSeq(q, p + 1, Len(q))
<1>1. a \in Seq(Callback) /\ Len(a) = p - 1 /\ \A j \in 1 .. p - 1 : a[j] = q[j]
  BY SubSeqProperties
<1>2. b \in Seq(Callback) /\ Len(b) = Len(q) - p /\ \A j \in 1 .. Len(q) - p : b[j] = q[p + j]
  BY SubSeqProperties
<1>3. RemoveAt(q, p) = a \o b
  BY DEF RemoveAt
<1> HIDE DEF a, b
<1>4. /\ Len(a \o b) = Len(q) - 1 /\ a \o b \in Seq(Callback)
      /\ \A j \in 1 .. Len(q) - 1 : (a \o b)[j] = IF j <= p - 1 THEN a[j] ELSE b[j - (p - 1)]
  BY <1>1, <1>2, ConcatProperties
<1>5. DOMAIN (a \o b) = 1 .. Len(q) - 1
  BY <1>4
<1>6. ASSUME NEW j \in 1 .. Len(q) - 1
      PROVE  (a \o b)[j] = IF j < p THEN q[j] ELSE q[j + 1]
  <2>1. CASE j < p
    BY <1>1, <1>4, <2>1
  <2>2. CASE ~(j < p)
    <3>1. j - (p - 1) \in 1 .. Len(q) - p /\ p + (j - (p - 1)) = j + 1
      BY <2>2
    <3> QED BY <1>2, <1>4, <2>2, <3>1
  <2> QED BY <2>1, <2>2
<1> QED BY <1>3, <1>5, <1>6

-----------------------------------------------------------------------------
(* Callbacks are told apart by their tokens, those that are not registered *)
(* are told nothing, and outside a delivery no callback has its turn.      *)
Distinct == \A i, j \in DOMAIN cbs : cbs[i].token = cbs[j].token => i = j
OnlyRegisteredTold == \A k \in Tokens \ Registered : told[k].upto < 0
Rests == pc \notin {"delivering", "calling"} => index = 0
ListInv == Distinct /\ OnlyRegisteredTold /\ Rests

(* The place a callback had before the one at p went.                      *)
Before(p, j) == IF j < p THEN j ELSE j + 1

LEMMA Leaving ==
    ASSUME OthersOK, ListOK, Distinct, NEW k \in Tokens, RemoveCallback(k)
    PROVE  /\ Place(k) \in DOMAIN cbs /\ cbs[Place(k)].token = k
           /\ DOMAIN cbs = 1 .. Len(cbs) /\ Len(cbs) \in Nat
           /\ DOMAIN cbs' = 1 .. Len(cbs) - 1
           /\ \A j \in DOMAIN cbs' :
                 /\ Before(Place(k), j) \in DOMAIN cbs
                 /\ cbs'[j] = cbs[Before(Place(k), j)] /\ cbs'[j].token # k
                 /\ told'[cbs'[j].token] = told[cbs'[j].token]
                 /\ own'[cbs'[j].token] = own[cbs'[j].token]
                 /\ cbs'[j].token \notin disturbed' => cbs'[j].token \notin disturbed
           /\ Registered' = Registered \ {k}
<1> DEFINE p == Place(k)
<1>1. p \in 1 .. Len(cbs) /\ p \in DOMAIN cbs /\ cbs[p].token = k
  BY DEF RemoveCallback, ListOK, Registered, Place
<1>2. DOMAIN cbs = 1 .. Len(cbs) /\ Len(cbs) \in Nat
  BY DEF ListOK
<1> HIDE DEF p
<1>3. cbs' = RemoveAt(cbs, p)
  BY DEF RemoveCallback, p
<1>4. DOMAIN cbs' = 1 .. Len(cbs) - 1
  BY <1>1, <1>3, RemovedElements DEF ListOK
<1>5. ASSUME NEW j \in DOMAIN cbs'
      PROVE  Before(p, j) \in DOMAIN cbs /\ cbs'[j] = cbs[Before(p, j)] /\ cbs'[j].token # k
  <2>1. Before(p, j) \in DOMAIN cbs /\ Before(p, j) # p
    BY <1>1, <1>2, <1>4 DEF Before
  <2>2. cbs'[j] = cbs[Before(p, j)]
    BY <1>1, <1>3, <1>4, RemovedElements DEF Before, ListOK
  <2> QED BY <1>1, <2>1, <2>2 DEF Distinct
<1>6. \A t \in Tokens \ {k} : told'[t] = told[t] /\ own'[t] = own[t]
                            /\ (t \notin disturbed' => t \notin disturbed)
  BY DEF RemoveCallback, OthersOK
<1>7. \A i \in DOMAIN cbs : cbs[i].token \in Tokens
  BY TokensOfList DEF Registered
<1>8. ASSUME NEW i \in DOMAIN cbs, cbs[i].token # k
      PROVE  \E j \in DOMAIN cbs' : cbs'[j] = cbs[i]
  <2>1. i # p
    BY <1>1, <1>8
  <2>2. PICK j \in DOMAIN cbs' : Before(p, j) = i
    <3> DEFINE h == IF i < p THEN i ELSE i - 1
    <3>1. h \in DOMAIN cbs' /\ Before(p, h) = i
      BY <1>1, <1>2, <1>4, <2>1 DEF Before
    <3> QED BY <3>1
  <2> QED BY <1>5, <2>2
<1>9. Registered' = Registered \ {k}
  BY <1>5, <1>8 DEF Registered
<1> QED BY <1>1, <1>2, <1>4, <1>5, <1>6, <1>7, <1>9 DEF p

(* Steps that leave every callback in its place.                           *)
LEMMA InPlace ==
    ASSUME OthersOK, ListOK, [Next]_vars,
           ~\E k \in Tokens : AddCallback(k) \/ RemoveCallback(k)
    PROVE  /\ SameTokens /\ disturbed \subseteq disturbed'
           /\ \A t \in Tokens \ Registered : told'[t] = told[t]
<1>1. CASE UNCHANGED <<cbs, told, disturbed>>
  BY <1>1 DEF SameTokens
<1>2. CASE Deliver
  <2>1. SameTokens /\ cbs[index + 1].token \in Registered
    BY <1>2, DeliverElements DEF Registered
  <2> QED BY <1>2, <2>1 DEF Deliver, OthersOK
<1>3. CASE cbs' = Packaged /\ told' = told /\ disturbed \subseteq disturbed'
  BY <1>3, PackagedElements
<1>4. CASE Waited \/ Notified
  BY <1>1, <1>3, <1>4 DEF Waited, Notified, NotifyInWrite, Notify, NotifyChanged, AdvanceToLatest,
     AdvanceToReady, DropOutOfDate, Package, NoPackage, notifier, history
<1>5. CASE BeginNestedWrite
  BY <1>5 DEF BeginNestedWrite, notifier, SameTokens
<1>6. CASE \E T \in SUBSET Registered : Commit(T) \/ CommitFails(T)
  BY <1>6, SkippingElements DEF Commit, CommitFails
<1>7. CASE HandOver
  BY <1>7, HandoverFields, AddChangesElements
<1>8. CASE Return \/ Delivered \/ Refresh \/ BeginWrite \/ Cancel \/ OtherCommits \/ UNCHANGED vars
  BY <1>1, <1>8 DEF Return, Delivered, Refresh, BeginWrite, Cancel, OtherCommits, notifier, history, vars
<1>9. CASE StartRun \/ Running
  BY <1>1, <1>9, StartRunFields, RunFields
<1> QED BY <1>2, <1>4, <1>5, <1>6, <1>7, <1>8, <1>9 DEF Next, RealmSteps, WorkerSteps, Running

LEMMA RestsStep ==
    ASSUME OthersOK, ListOK, Rests, [Next]_vars
    PROVE  Rests'
<1> USE DEF Rests
<1>1. CASE \E k \in Tokens : AddCallback(k) \/ RemoveCallback(k)
  <2>1. index = 0 => index' = 0
    BY <1>1 DEF AddCallback, RemoveCallback, IndexWithout, loop
  <2> QED BY <1>1, <2>1 DEF AddCallback, RemoveCallback
<1>2. CASE RealmSteps
  BY <1>2 DEF RealmSteps, Deliver, Return, Delivered, Waited, notifier
<1>3. CASE Notified \/ Refresh \/ BeginWrite \/ BeginNestedWrite \/ Cancel \/ OtherCommits
  BY <1>3 DEF Notified, NotifyInWrite, Notify, NotifyChanged, Signalled, AdvanceToLatest, AdvanceToReady,
     DropOutOfDate, Package, NoPackage, Refresh, BeginWrite, BeginNestedWrite, Cancel, OtherCommits, notifier
<1>4. CASE \E T \in SUBSET Registered : Commit(T) \/ CommitFails(T)
  BY <1>4 DEF Commit, CommitFails, loop
<1>5. CASE StartRun \/ WorkerSteps
  BY <1>5, StartRunFields, RunFields, HandoverFields DEF WorkerSteps, Running
<1>6. CASE UNCHANGED vars
  BY <1>6 DEF vars
<1> QED BY <1>1, <1>2, <1>3, <1>4, <1>5, <1>6 DEF Next

LEMMA ListStep ==
    ASSUME OthersOK, ListOK, ListInv, [Next]_vars
    PROVE  ListInv'
<1> USE DEF ListInv
<1>1. Rests'
  BY RestsStep
<1>2. ASSUME NEW k \in Tokens, AddCallback(k)
      PROVE  Distinct' /\ OnlyRegisteredTold'
  <2>1. k \notin Registered /\ told' = told
    BY <1>2 DEF AddCallback, New
  <2>2. Distinct'
    <3>1. \A i \in DOMAIN cbs : cbs[i].token # k
      BY <2>1 DEF Registered
    <3>2. ASSUME NEW n, DOMAIN cbs' = DOMAIN cbs \cup {n}, cbs'[n].token = k,
                 \A i \in DOMAIN cbs : cbs'[i] = cbs[i]
          PROVE  Distinct'
      BY <3>1, <3>2 DEF Distinct
    <3> QED BY <1>2, <3>2, AddedElements
  <2>3. Registered \subseteq Registered'
    BY <1>2, AddedElements DEF Registered
  <2> QED BY <2>1, <2>2, <2>3 DEF OnlyRegisteredTold
<1>3. ASSUME NEW k \in Tokens, RemoveCallback(k)
      PROVE  Distinct' /\ OnlyRegisteredTold'
  <2>1. \A t \in Tokens : told'[t] = IF t = k THEN Gone ELSE told[t]
    BY <1>3 DEF RemoveCallback, OthersOK
  <2>2. Distinct'
    <3>1. \A i, j \in DOMAIN cbs' : Before(Place(k), i) = Before(Place(k), j) => i = j
      BY <1>3, Leaving DEF Before
    <3>2. ASSUME NEW i \in DOMAIN cbs', NEW j \in DOMAIN cbs', cbs'[i].token = cbs'[j].token
          PROVE  i = j
      BY <1>3, <3>1, <3>2, Leaving DEF Distinct
    <3> QED BY <3>2 DEF Distinct
  <2>3. Registered' = Registered \ {k} /\ Gone.upto < 0
    BY <1>3, Leaving DEF Gone
  <2> QED BY <2>1, <2>2, <2>3 DEF OnlyRegisteredTold
<1>4. CASE ~\E k \in Tokens : AddCallback(k) \/ RemoveCallback(k)
  <2>1. SameTokens /\ \A t \in Tokens \ Registered : told'[t] = told[t]
    BY <1>4, InPlace
  <2>2. Registered' = Registered
    BY <2>1 DEF SameTokens, Registered
  <2>3. Distinct'
    BY <2>1 DEF SameTokens, Distinct
  <2>4. OnlyRegisteredTold'
    BY <2>1, <2>2 DEF OnlyRegisteredTold
  <2> QED BY <1>1, <2>3, <2>4
<1> QED BY <1>1, <1>2, <1>3, <1>4

-----------------------------------------------------------------------------
(* What is undisturbed after a step was undisturbed before it, or is new.  *)
LEMMA UndisturbedBefore ==
    ASSUME OthersOK, ListOK, ListInv, [Next]_vars, ~\E k \in Tokens : AddCallback(k),
           \E i \in DOMAIN cbs' : Undisturbed(i)'
    PROVE  \E i \in DOMAIN cbs : Undisturbed(i)
<1> USE DEF Undisturbed
<1>1. ASSUME NEW k \in Tokens, RemoveCallback(k)
      PROVE  \E i \in DOMAIN cbs : Undisturbed(i)
  BY <1>1, Leaving DEF ListInv
<1>2. CASE ~\E k \in Tokens : RemoveCallback(k)
  BY <1>2, InPlace DEF SameTokens
<1> QED BY <1>1, <1>2

(* Steps of the Realm leave the worker and its notifier alone.             *)
LEMMA WorkerUntouched ==
    ASSUME [Next]_vars, ~StartRun, ~WorkerSteps
    PROVE  UNCHANGED <<worker, has>>
<1>1. CASE \E k \in Tokens : AddCallback(k) \/ RemoveCallback(k)
  BY <1>1 DEF AddCallback, RemoveCallback, background
<1>2. CASE RealmSteps
  BY <1>2 DEF RealmSteps, Deliver, Return, Delivered, Waited, notifier, background
<1>3. CASE Notified \/ Refresh \/ BeginWrite \/ BeginNestedWrite \/ Cancel \/ OtherCommits
  BY <1>3 DEF Notified, NotifyInWrite, Notify, NotifyChanged, Signalled, Refresh, BeginWrite,
     BeginNestedWrite, Cancel, OtherCommits, notifier, background
<1>4. CASE \E T \in SUBSET Registered : Commit(T) \/ CommitFails(T)
  BY <1>4 DEF Commit, CommitFails, background
<1>5. CASE UNCHANGED vars
  BY <1>5 DEF vars
<1> QED BY <1>1, <1>2, <1>3, <1>4, <1>5 DEF Next

(* While a callback is there the worker finds one each time it asks, and   *)
(* stays in step; one that comes when it is not in step is disturbed.      *)
LEMMA FindsStep ==
    ASSUME OthersOK, ListOK, ListInv, Finds, [Next]_vars
    PROVE  Finds'
<1> DEFINE Someone == \E i \in DOMAIN cbs : Undisturbed(i)
<1>1. Someone => have
  BY EmptySeq DEF ListOK
<1>2. (~\E k \in Tokens : AddCallback(k)) /\ Someone' => Someone
  BY UndisturbedBefore
<1>3. ASSUME UNCHANGED <<worker, has>>
      PROVE  Finds'
  <2>1. InStep' = InStep
    BY <1>3 DEF InStep, Goal
  <2>2. ASSUME NEW k \in Tokens, AddCallback(k), Someone', ~InStep
        PROVE  Someone
    <3>1. disturbed' = disturbed \cup {k}
      BY <2>2 DEF AddCallback, AddedLate
    <3>2. PICK i \in DOMAIN cbs' : cbs'[i].token \notin disturbed'
      BY <2>2 DEF Undisturbed
    <3>3. i \in DOMAIN cbs /\ cbs'[i] = cbs[i]
      BY <2>2, <3>1, <3>2, AddedElements
    <3> QED BY <3>1, <3>2, <3>3 DEF Undisturbed
  <2>3. Someone' => InStep
    BY <1>2, <2>2 DEF Finds
  <2> QED BY <1>3, <2>1, <2>3 DEF Finds
<1> HIDE DEF Someone
<1>4. CASE StartRun
  <2>1. Someone' => Someone
    BY <1>4, StartRunFields DEF Someone, Undisturbed
  <2>2. worker.changes = {} /\ (Someone /\ has.run => worker.seen = has.version)
    BY <1>4, StartRunFields DEF Finds, Someone, InStep
  <2>3. Someone' => InStep'
    BY <1>4, <2>1, <2>2, StartRunFields DEF InStep
  <2> QED BY <1>4, <2>2, <2>3, StartRunFields DEF Finds, Someone
<1>5. CASE Running
  <2>1. (Someone' <=> Someone) /\ has' = has /\ Goal' = Goal
    BY <1>5, RunFields DEF Someone, Undisturbed
  <2>2. worker.changes = {} /\ worker.at \in {"track", "query", "calculate"}
    BY <1>5, RunFields DEF Finds
  <2>3. Someone /\ has.run => worker.seen = has.version
    BY <2>2 DEF Finds, Someone, InStep
  <2>4. Someone /\ has.run /\ worker.at \in {"query", "calculate"} => worker.tracked
    BY <2>2 DEF Finds, Someone, InStep
  <2>5. ~has.run => Found = {{}}
    BY DEF Found
  <2>6. Someone /\ has.run /\ worker.at = "calculate" => Found = {Between(has.version, Goal)}
    BY <1>1, <2>3, <2>4 DEF Found
  <2>7. (worker'.at # "handover" \/ ~has'.run) => worker'.changes = {}
    BY <1>5, <2>1, <2>2, <2>5, RunFields
  <2>8. ASSUME Someone PROVE InStep'
    <3>1. CASE worker.at = "track"
      BY <1>1, <1>5, <2>1, <2>3, <2>8, <3>1, RunFields DEF InStep
    <3>2. CASE worker.at = "query"
      BY <1>1, <1>5, <2>1, <2>3, <2>4, <2>8, <3>2, RunFields DEF InStep
    <3>3. CASE worker.at = "calculate"
      BY <1>5, <2>1, <2>6, <2>8, <3>3, RunFields DEF InStep
    <3> QED BY <2>2, <3>1, <3>2, <3>3
  <2> QED BY <2>1, <2>7, <2>8 DEF Finds, Someone
<1>6. CASE HandOver
  <2>1. SameTokens /\ disturbed' = disturbed
    BY <1>6, HandoverFields, AddChangesElements
  <2>2. Someone' => Someone
    BY <2>1 DEF Someone, Undisturbed, SameTokens
  <2>3. Someone => worker.seen = Goal
    BY <1>6, HandoverFields DEF Finds, InStep, Someone
  <2>4. Someone => InStep'
    BY <1>6, <2>3, HandoverFields DEF InStep
  <2> QED BY <1>6, <2>2, <2>4, HandoverFields DEF Finds, Someone
<1> QED BY <1>3, <1>4, <1>5, <1>6, WorkerUntouched DEF WorkerSteps, Running

-----------------------------------------------------------------------------
(* The version of the handover that comes next, and what a flag left by    *)
(* suppressNextNotification stands for until then: the callback is not to  *)
(* be told of any version the worker will have found.                      *)
NextHandover == IF worker.at = "idle" THEN skip ELSE Goal

FlagStands(i) ==
    /\ has.run /\ (worker.at = "idle" => skip > 0)
    /\ Between(has.version, NextHandover) \subseteq own[cbs[i].token]
Flags == \A i \in DOMAIN cbs : Undisturbed(i) /\ cbs[i].skip => FlagStands(i)

LEMMA FlagStandsStill ==
    ASSUME NEW i, NEW j, FlagStands(i), UNCHANGED <<has, worker, skip>>,
           own[cbs[i].token] \subseteq own'[cbs'[j].token]
    PROVE  FlagStands(j)'
<1>1. NextHandover' = NextHandover
  BY DEF NextHandover, Goal
<1> QED BY <1>1 DEF FlagStands

(* Steps that touch neither the worker, nor a flag, nor what callbacks are *)
(* not to be told of.                                                      *)
FlagsUntouched ==
    /\ SameTokens /\ UNCHANGED <<has, worker, skip, own>> /\ disturbed \subseteq disturbed'
    /\ \A i \in DOMAIN cbs : cbs'[i].skip = cbs[i].skip

LEMMA FlagsKept ==
    ASSUME Flags, FlagsUntouched
    PROVE  Flags'
<1> SUFFICES ASSUME NEW i \in DOMAIN cbs', Undisturbed(i)', cbs'[i].skip
             PROVE  FlagStands(i)'
  BY DEF Flags
<1>1. i \in DOMAIN cbs /\ Undisturbed(i) /\ cbs[i].skip /\ cbs'[i].token = cbs[i].token
  BY DEF FlagsUntouched, SameTokens, Undisturbed
<1>2. FlagStands(i)
  BY <1>1 DEF Flags
<1> QED BY <1>1, <1>2, FlagStandsStill DEF FlagsUntouched

LEMMA RealmTouchesNoFlags ==
    ASSUME OthersOK, ListOK,
           \/ RealmSteps \/ Notified \/ Refresh \/ BeginWrite \/ BeginNestedWrite
           \/ Cancel \/ OtherCommits \/ UNCHANGED vars
    PROVE  FlagsUntouched
<1>1. CASE UNCHANGED <<cbs, has, worker, skip, own>> /\ disturbed \subseteq disturbed'
  BY <1>1 DEF FlagsUntouched, SameTokens
<1>2. CASE cbs' = Packaged /\ UNCHANGED <<has, worker, skip, own>> /\ disturbed \subseteq disturbed'
  BY <1>2, PackagedElements DEF FlagsUntouched
<1>3. CASE Deliver
  BY <1>3, DeliverElements DEF FlagsUntouched, Deliver, background
<1>4. CASE Waited \/ Notified
  BY <1>1, <1>2, <1>4 DEF Waited, Notified, NotifyInWrite, Notify, NotifyChanged, Signalled, AdvanceToLatest,
     AdvanceToReady, DropOutOfDate, Package, NoPackage, notifier, background, history
<1>5. CASE \/ Return \/ Delivered \/ Refresh \/ BeginWrite \/ BeginNestedWrite \/ Cancel \/ OtherCommits
           \/ UNCHANGED vars
  BY <1>1, <1>5 DEF Return, Delivered, Refresh, BeginWrite, BeginNestedWrite, Cancel, OtherCommits,
     notifier, background, history, vars
<1> QED BY <1>3, <1>4, <1>5 DEF RealmSteps

(* A commit's flags go with its version, if the notifier had reached the   *)
(* version before; otherwise their callbacks are disturbed.  A flag of an  *)
(* earlier commit has then nothing more to stand for.                      *)
LEMMA CommitFlags ==
    ASSUME OthersOK, OthersOK', ListOK, Orders, Flags, NEW T \in SUBSET Registered, Commit(T)
    PROVE  Flags'
<1> SUFFICES ASSUME NEW i \in DOMAIN cbs', Undisturbed(i)', cbs'[i].skip
             PROVE  FlagStands(i)'
  BY DEF Flags
<1> DEFINE t == cbs[i].token
<1>1. /\ i \in DOMAIN cbs /\ cbs'[i].token = t
      /\ (cbs'[i].skip <=> cbs[i].skip \/ t \in T)
  BY SkippingElements DEF Commit, SameTokens
<1>2. t \in Tokens /\ t \notin disturbed'
  BY <1>1, TokensOfList DEF Undisturbed
<1>3. Skipping(T)[i].skip
  BY DEF Commit
<1>4. has.run /\ has.version = latest
  BY <1>1, <1>2, <1>3 DEF Commit, Behind, Flagged
<1>5. /\ skip' = latest + 1 /\ latest' = latest + 1 /\ UNCHANGED <<has, worker>>
      /\ own'[t] = IF t \in T THEN own[t] \cup {latest + 1} ELSE own[t]
  BY <1>2, <1>4 DEF Commit, NotFor, Orders
<1>6. latest \in Nat /\ worker.target \in Nat /\ Goal \in Nat
  BY WorkerTypes
<1>7. CASE worker.at = "idle"
  <2>1. t \in T
    <3>1. Undisturbed(i)
      BY <1>1, <1>2 DEF Commit, Undisturbed
    <3>2. cbs[i].skip => skip > 0
      BY <1>1, <1>7, <3>1 DEF Flags, FlagStands
    <3>3. ~cbs[i].skip
      BY <1>4, <3>2, WorkerTypes DEF Orders
    <3> QED BY <1>1, <3>3
  <2>2. NextHandover' = latest + 1 /\ Between(latest, latest + 1) \subseteq {latest + 1}
    BY <1>5, <1>6, <1>7 DEF NextHandover, Between
  <2> QED BY <1>1, <1>4, <1>5, <1>6, <2>1, <2>2 DEF FlagStands
<1>8. CASE worker.at # "idle"
  <2>1. Goal = latest
    BY <1>4, <1>6, <1>8 DEF Orders
  <2>2. NextHandover' = latest
    BY <1>5, <1>8, <2>1 DEF NextHandover, Goal
  <2>3. Between(latest, latest) = {}
    BY <1>6 DEF Between
  <2> QED BY <1>4, <1>5, <1>8, <2>2, <2>3 DEF FlagStands
<1> QED BY <1>7, <1>8

LEMMA FlagsStep ==
    ASSUME OthersOK, OthersOK', ListOK, ListInv, Orders, Flags, [Next]_vars
    PROVE  Flags'
<1>1. ASSUME NEW k \in Tokens, AddCallback(k)
      PROVE  Flags'
  <2> SUFFICES ASSUME NEW i \in DOMAIN cbs', Undisturbed(i)', cbs'[i].skip
               PROVE  FlagStands(i)'
    BY DEF Flags
  <2>1. i \in DOMAIN cbs /\ cbs'[i] = cbs[i]
    <3>1. ~cbs'[Len(cbs) + 1].skip
      BY <1>1, AddedElements
    <3>2. i # Len(cbs) + 1
      BY <3>1
    <3>3. DOMAIN cbs' = DOMAIN cbs \cup {Len(cbs) + 1} /\ \A j \in DOMAIN cbs : cbs'[j] = cbs[j]
      BY <1>1, AddedElements
    <3> QED BY <3>2, <3>3
  <2>2. UNCHANGED <<has, worker, skip, own>> /\ disturbed \subseteq disturbed'
    BY <1>1 DEF AddCallback
  <2>3. FlagStands(i)
    BY <2>1, <2>2 DEF Flags, Undisturbed
  <2> QED BY <2>1, <2>2, <2>3, FlagStandsStill
<1>2. ASSUME NEW k \in Tokens, RemoveCallback(k)
      PROVE  Flags'
  <2> SUFFICES ASSUME NEW j \in DOMAIN cbs', Undisturbed(j)', cbs'[j].skip
               PROVE  FlagStands(j)'
    BY DEF Flags
  <2> DEFINE i == Before(Place(k), j)
  <2>1. /\ i \in DOMAIN cbs /\ cbs'[j] = cbs[i] /\ own'[cbs'[j].token] = own[cbs'[j].token]
        /\ (cbs'[j].token \notin disturbed' => cbs'[j].token \notin disturbed)
    BY <1>2, Leaving DEF ListInv
  <2> HIDE DEF i
  <2>2. UNCHANGED <<has, worker, skip>>
    BY <1>2 DEF RemoveCallback, background
  <2>3. FlagStands(i)
    BY <2>1 DEF Flags, Undisturbed
  <2> QED BY <2>1, <2>2, <2>3, FlagStandsStill
<1>3. ASSUME NEW T \in SUBSET Registered, CommitFails(T)
      PROVE  Flags'
  <2> SUFFICES ASSUME NEW i \in DOMAIN cbs', Undisturbed(i)', cbs'[i].skip
               PROVE  FlagStands(i)'
    BY DEF Flags
  <2>1. UNCHANGED <<has, worker, skip, own>> /\ disturbed' = disturbed \cup T
    BY <1>3 DEF CommitFails, background
  <2>2. /\ i \in DOMAIN cbs /\ cbs'[i].token = cbs[i].token
        /\ (cbs[i].skip \/ cbs[i].token \in T)
    BY <1>3, SkippingElements DEF CommitFails, SameTokens
  <2>3. FlagStands(i)
    BY <2>1, <2>2 DEF Flags, Undisturbed
  <2> QED BY <2>1, <2>2, <2>3, FlagStandsStill
<1>4. CASE StartRun
  <2> SUFFICES ASSUME NEW i \in DOMAIN cbs', Undisturbed(i)', cbs'[i].skip
               PROVE  FlagStands(i)'
    BY DEF Flags
  <2>1. FlagStands(i)
    BY <1>4, StartRunFields DEF Flags, Undisturbed
  <2>2. worker.at = "idle" /\ worker'.at = "track" /\ Goal' = skip
    BY <1>4, <2>1, StartRunFields DEF FlagStands
  <2>3. NextHandover' = NextHandover
    BY <2>2 DEF NextHandover
  <2> QED BY <1>4, <2>1, <2>2, <2>3, StartRunFields DEF FlagStands
<1>5. CASE Running
  <2>1. NextHandover' = NextHandover /\ worker'.at # "idle"
    BY <1>5, RunFields DEF NextHandover
  <2> QED BY <1>5, <2>1, RunFields DEF Flags, FlagStands, Undisturbed
<1>6. CASE HandOver
  <2>1. \A i \in DOMAIN cbs' : cbs'[i].skip = FALSE
    BY <1>6, HandoverFields, AddChangesElements DEF SameTokens
  <2> QED BY <2>1 DEF Flags
<1> QED BY <1>1, <1>2, <1>3, <1>4, <1>5, <1>6, CommitFlags, RealmTouchesNoFlags, FlagsKept
        DEF Next, WorkerSteps, Running

-----------------------------------------------------------------------------
(* What a callback cb knows that was told t and is not to be told of o,    *)
(* while the Realm is at a and the notifier, which has run or not, at v.   *)
(* What it was told covers the versions up to the one it was called at;    *)
(* what is packaged for a callback whose turn is to come covers those from *)
(* there to the Realm's; and what is kept for it, those to the notifier's. *)
KnowsIn(cb, t, o, awaits, run, a, v) ==
    /\ ~cb.initial => t.upto < 0
    /\ cb.initial => run /\ 0 <= t.upto /\ t.upto <= v /\ Covers(t.changes, o, 0, t.upto)
    /\ awaits => /\ run /\ a <= v /\ Covers(cb.accumulated, o, a, v)
                 /\ cb.initial => t.upto <= a /\ Covers(cb.deliver, o, t.upto, a)
    /\ cb.initial /\ ~awaits => cb.deliver = {} /\ Covers(cb.accumulated, o, t.upto, v)

Awaits(i) == pc \in {"delivering", "calling"} /\ index < i /\ i <= count
Knows(i) == KnowsIn(cbs[i], told[cbs[i].token], own[cbs[i].token], Awaits(i), has.run, at, has.version)
AllKnow == \A i \in DOMAIN cbs : Undisturbed(i) => Knows(i)

(* Without a turn to come it does not matter where the Realm is, and a     *)
(* callback that has not been called waits for a notifier that has run.    *)
LEMMA KnowsAnywhere ==
    ASSUME NEW cb, NEW t, NEW o, NEW run, NEW a, NEW b, NEW v,
           KnowsIn(cb, t, o, FALSE, run, a, v)
    PROVE  KnowsIn(cb, t, o, FALSE, run, b, v)
BY DEF KnowsIn

LEMMA KnowsOwn ==
    ASSUME NEW cb, NEW d, NEW t, NEW o, NEW p, NEW awaits \in BOOLEAN, NEW run, NEW a, NEW v,
           o \subseteq p, d.initial = cb.initial, d.accumulated = cb.accumulated, d.deliver = cb.deliver,
           KnowsIn(cb, t, o, awaits, run, a, v)
    PROVE  KnowsIn(d, t, p, awaits, run, a, v)
BY CoversForFewer DEF KnowsIn

(* Packaging at the notifier's version.                                    *)
LEMMA KnowsPackaged ==
    ASSUME NEW cb, NEW d, NEW t, NEW o, NEW a, NEW v \in Nat,
           d.initial = cb.initial, d.accumulated = {}, d.deliver = cb.accumulated,
           KnowsIn(cb, t, o, FALSE, TRUE, a, v)
    PROVE  KnowsIn(d, t, o, TRUE, TRUE, v, v)
BY CoversNothing DEF KnowsIn

(* A turn, with a call or without one.                                     *)
LEMMA KnowsPassedOver ==
    ASSUME NEW cb, NEW t, t.upto \in Int, NEW o, NEW run, NEW a \in Nat, NEW v \in Nat,
           cb.initial, cb.deliver = {}, KnowsIn(cb, t, o, TRUE, run, a, v)
    PROVE  KnowsIn(cb, t, o, FALSE, run, a, v)
<1>1. /\ run /\ 0 <= t.upto /\ t.upto <= a /\ a <= v /\ Covers(t.changes, o, 0, t.upto)
      /\ Covers(cb.accumulated, o, a, v) /\ Covers(cb.deliver, o, t.upto, a)
  BY DEF KnowsIn
<1>2. Covers(cb.deliver \cup cb.accumulated, o, t.upto, v)
  BY <1>1, CoversJoin
<1>3. cb.deliver \cup cb.accumulated = cb.accumulated
  OBVIOUS
<1>4. t.upto <= v
  BY <1>1
<1> QED BY <1>1, <1>2, <1>3, <1>4 DEF KnowsIn

LEMMA KnowsCalled ==
    ASSUME NEW cb, NEW d, NEW t, t.upto \in Int, NEW u, NEW o, NEW run, NEW a \in Nat, NEW v \in Nat,
           d.initial, d.accumulated = cb.accumulated, d.deliver = {},
           u.upto = a, u.changes = IF cb.initial THEN t.changes \cup cb.deliver ELSE Between(0, a),
           KnowsIn(cb, t, o, TRUE, run, a, v)
    PROVE  KnowsIn(d, u, o, FALSE, run, a, v)
<1>1. run /\ a <= v /\ Covers(cb.accumulated, o, a, v)
  BY DEF KnowsIn
<1>2. Covers(u.changes, o, 0, a)
  <2>1. CASE cb.initial
    <3>1. /\ 0 <= t.upto /\ t.upto <= a /\ Covers(t.changes, o, 0, t.upto)
          /\ Covers(cb.deliver, o, t.upto, a)
      BY <2>1 DEF KnowsIn
    <3>2. Covers(t.changes \cup cb.deliver, o, 0, a)
      BY <3>1, CoversJoin
    <3> QED BY <2>1, <3>2
  <2>2. CASE ~cb.initial
    BY <2>2, CoversAll
  <2> QED BY <2>1, <2>2
<1> QED BY <1>1, <1>2 DEF KnowsIn

(* A handover, from v to w: of everything between, or of nothing to a      *)
(* callback that is not to be told of any of it.                           *)
LEMMA KnowsHandedOver ==
    ASSUME NEW cb, NEW d, NEW t, t.upto \in Int, NEW o, NEW awaits \in BOOLEAN,
           NEW a \in Nat, NEW v \in Nat, NEW w \in Nat, v <= w,
           d.initial = cb.initial, d.deliver = cb.deliver,
           \/ d.accumulated = cb.accumulated \cup Between(v, w)
           \/ d.accumulated = cb.accumulated /\ Between(v, w) \subseteq o,
           KnowsIn(cb, t, o, awaits, TRUE, a, v)
    PROVE  KnowsIn(d, t, o, awaits, TRUE, a, w)
<1>1. ASSUME NEW u \in Int, u <= v, Covers(cb.accumulated, o, u, v)
      PROVE  Covers(d.accumulated, o, u, w)
  <2>1. CASE d.accumulated = cb.accumulated \cup Between(v, w)
    <3>1. Covers(Between(v, w), o, v, w)
      BY CoversAll
    <3> QED BY <1>1, <2>1, <3>1, CoversJoin
  <2>2. CASE d.accumulated = cb.accumulated /\ Between(v, w) \subseteq o
    <3>1. Covers(cb.accumulated, o, u, w)
      BY <1>1, <2>2, CoversLeavingOut
    <3> QED BY <2>2, <3>1
  <2> QED BY <2>1, <2>2
<1>2. awaits => a <= w /\ Covers(d.accumulated, o, a, w)
  BY <1>1 DEF KnowsIn
<1>3. cb.initial => t.upto <= w
  BY DEF KnowsIn
<1>4. cb.initial /\ ~awaits => Covers(d.accumulated, o, t.upto, w)
  BY <1>1 DEF KnowsIn
<1> QED BY <1>2, <1>3, <1>4 DEF KnowsIn

(* A callback that stays as it is, perhaps at another place, still knows   *)
(* what it knew.                                                           *)
SameCallback(i, j) ==
    /\ cbs'[j].token = cbs[i].token /\ cbs'[j].initial = cbs[i].initial
    /\ cbs'[j].accumulated = cbs[i].accumulated /\ cbs'[j].deliver = cbs[i].deliver

LEMMA KnowsStill ==
    ASSUME NEW i, NEW j, Knows(i), SameCallback(i, j),
           told'[cbs[i].token] = told[cbs[i].token], own[cbs[i].token] \subseteq own'[cbs[i].token],
           has'.run = has.run, has'.version = has.version,
           Awaits(j)' <=> Awaits(i), Awaits(i) => at' = at
    PROVE  Knows(j)'
<1> DEFINE t == told[cbs[i].token]
           o == own[cbs[i].token]
           p == own'[cbs[i].token]
           u == told'[cbs[i].token]
           r == has'.run
           v == has'.version
<1>1. KnowsIn(cbs[i], t, o, Awaits(i), has.run, at, has.version)
  BY DEF Knows
<1>2. CASE Awaits(i)
  <2>1. KnowsIn(cbs[i], t, o, TRUE, has.run, at, has.version)
    BY <1>1, <1>2 DEF KnowsIn
  <2>2. KnowsIn(cbs'[j], t, p, TRUE, has.run, at, has.version)
    BY <2>1, KnowsOwn DEF SameCallback
  <2>3. KnowsIn(cbs'[j], u, p, TRUE, r, at', v)
    BY <1>2, <2>2
  <2> QED BY <1>2, <2>3 DEF Knows, KnowsIn, SameCallback
<1>3. CASE ~Awaits(i)
  <2>1. KnowsIn(cbs[i], t, o, FALSE, has.run, at, has.version)
    BY <1>1, <1>3 DEF KnowsIn
  <2>2. KnowsIn(cbs'[j], t, p, FALSE, has.run, at, has.version)
    BY <2>1, KnowsOwn DEF SameCallback
  <2>3. KnowsIn(cbs'[j], t, p, FALSE, has.run, at', has.version)
    BY <2>2, KnowsAnywhere
  <2>4. KnowsIn(cbs'[j], u, p, FALSE, r, at', v)
    BY <2>3
  <2> QED BY <1>3, <2>4 DEF Knows, KnowsIn, SameCallback
<1> QED BY <1>2, <1>3

LEMMA KnowsTypes ==
    ASSUME OthersOK, ListOK, NEW i \in DOMAIN cbs
    PROVE  /\ cbs[i].token \in Tokens /\ told[cbs[i].token].upto \in Int
           /\ cbs[i].initial \in BOOLEAN /\ Awaits(i) \in BOOLEAN
           /\ i \in 1 .. Len(cbs) /\ Len(cbs) \in Nat /\ count \in Int /\ count <= Len(cbs)
<1>1. cbs[i] \in Callback
  BY Elements
<1>2. told[cbs[i].token].upto \in -2 .. MaxVersion
  BY <1>1 DEF Callback, OthersOK
<1>3. -2 .. MaxVersion \subseteq Int
  OBVIOUS
<1> QED BY <1>1, <1>2, <1>3 DEF Callback, Awaits, ListOK, LoopInList

LEMMA AddKnows ==
    ASSUME OthersOK, ListOK, AllKnow, NEW k \in Tokens, AddCallback(k)
    PROVE  AllKnow'
<1> SUFFICES ASSUME NEW i \in DOMAIN cbs', Undisturbed(i)' PROVE Knows(i)'
  BY DEF AllKnow
<1>1. UNCHANGED <<at, pc, index, count, has, told, own>> /\ disturbed \subseteq disturbed'
  BY DEF AddCallback, file, loop
<1>2. DOMAIN cbs' = DOMAIN cbs \cup {Len(cbs) + 1} /\ \A j \in DOMAIN cbs : cbs'[j] = cbs[j]
  BY AddedElements
<1>3. CASE i = Len(cbs) + 1
  <2>1. cbs'[i].token = k /\ ~cbs'[i].initial
    BY <1>3, AddedElements
  <2>2. told'[k].upto < 0
    BY DEF AddCallback, New, NotTold
  <2>3. ~Awaits(i)'
    BY <1>1, <1>3 DEF Awaits, ListOK, LoopInList
  <2> QED BY <2>1, <2>2, <2>3 DEF Knows, KnowsIn
<1>4. CASE i \in DOMAIN cbs
  <2>1. Knows(i)
    BY <1>1, <1>2, <1>4 DEF AllKnow, Undisturbed
  <2>2. SameCallback(i, i) /\ (Awaits(i)' <=> Awaits(i))
    BY <1>1, <1>2, <1>4 DEF SameCallback, Awaits
  <2> QED BY <1>1, <2>1, <2>2, KnowsStill
<1> QED BY <1>2, <1>3, <1>4

(* A callback that goes while others are being called takes one off the    *)
(* number of calls: if its own would have been one of them, the others     *)
(* keep theirs.                                                            *)
LEMMA RemoveKnows ==
    ASSUME OthersOK, ListOK, ListInv, AllKnow, NEW k \in Tokens, RemoveCallback(k)
    PROVE  AllKnow'
<1> SUFFICES ASSUME NEW j \in DOMAIN cbs', Undisturbed(j)' PROVE Knows(j)'
  BY DEF AllKnow
<1> DEFINE p == Place(k)
           i == Before(p, j)
<1>1. /\ p \in 1 .. Len(cbs) /\ Len(cbs) \in Nat /\ j \in 1 .. Len(cbs) - 1
      /\ i \in DOMAIN cbs /\ cbs'[j] = cbs[i] /\ cbs'[j].token # k
      /\ told'[cbs'[j].token] = told[cbs'[j].token] /\ own'[cbs'[j].token] = own[cbs'[j].token]
      /\ (cbs'[j].token \notin disturbed' => cbs'[j].token \notin disturbed)
  BY Leaving DEF ListInv
<1>2. Knows(i)
  BY <1>1 DEF AllKnow, Undisturbed
<1>3. /\ UNCHANGED <<at, pc, has>> /\ index' = IndexWithout(p) /\ count' = count - 1
      /\ disturbed' = (disturbed \cup CutShort(k)) \ {k}
  BY DEF RemoveCallback, file, background
<1>4. pc \in {"calling", "delivering"} => p <= count
  <2>1. cbs[i].token \in Registered /\ cbs[i].token \notin disturbed' /\ cbs[i].token # k
    BY <1>1 DEF Registered, Undisturbed
  <2>2. cbs[i].token \notin CutShort(k)
    BY <1>3, <2>1
  <2> QED BY <1>1, <2>1, <2>2 DEF CutShort, ListOK, LoopInList
<1>6. index \in Nat /\ count \in Int
  BY DEF ListOK, LoopInList
<1>7. i = IF j < p THEN j ELSE j + 1
  BY DEF Before
<1> HIDE DEF p, i
<1>8. pc \in {"calling", "delivering"} => (index' < j /\ j <= count' <=> index < i /\ i <= count)
  BY <1>1, <1>3, <1>4, <1>6, <1>7 DEF IndexWithout
<1>9. Awaits(j)' <=> Awaits(i)
  BY <1>3, <1>8 DEF Awaits
<1>10. SameCallback(i, j)
  BY <1>1 DEF SameCallback
<1> QED BY <1>1, <1>2, <1>3, <1>9, <1>10, KnowsStill

LEMMA DeliverKnows ==
    ASSUME OthersOK, ListOK, ListInv, AllKnow, Deliver
    PROVE  AllKnow'
<1> SUFFICES ASSUME NEW i \in DOMAIN cbs', Undisturbed(i)' PROVE Knows(i)'
  BY DEF AllKnow
<1> DEFINE n == index + 1
           t == told[cbs[n].token]
           o == own[cbs[n].token]
<1>1. /\ UNCHANGED <<at, count, has, own, disturbed>> /\ pc = "delivering" /\ index < count
      /\ index' = index + 1 /\ pc' \in {"delivering", "calling"}
  BY DEF Deliver, file
<1>2. /\ n \in DOMAIN cbs /\ i \in DOMAIN cbs /\ cbs'[i].token = cbs[i].token
      /\ (i # n => cbs'[i] = cbs[i])
  BY DeliverElements DEF SameTokens
<1>3. index \in Nat /\ i \in Int /\ count \in Int /\ at \in Nat /\ has.version \in Nat
  BY <1>2, KnowsTypes, WorkerTypes DEF ListOK
<1>4. Knows(i)
  BY <1>1, <1>2 DEF AllKnow, Undisturbed
<1>5. CASE i # n
  <2>1. cbs[i].token # cbs[n].token
    BY <1>2, <1>5 DEF ListInv, Distinct
  <2>2. told'[cbs[i].token] = told[cbs[i].token]
    BY <1>2, <2>1, KnowsTypes DEF Deliver, OthersOK
  <2>3. Awaits(i)' <=> Awaits(i)
    BY <1>1, <1>3, <1>5 DEF Awaits
  <2>4. SameCallback(i, i)
    BY <1>2, <1>5 DEF SameCallback
  <2> QED BY <1>1, <1>4, <2>2, <2>3, <2>4, KnowsStill
<1>6. CASE i = n
  <2>1. Awaits(i) /\ ~Awaits(i)'
    BY <1>1, <1>3, <1>6 DEF Awaits
  <2>2. KnowsIn(cbs[i], t, o, TRUE, has.run, at, has.version)
    BY <1>4, <1>6, <2>1 DEF Knows, KnowsIn
  <2>3. cbs[i].token \in Tokens /\ t.upto \in Int
    BY <1>2, <1>6, KnowsTypes
  <2>4. CASE cbs[n].initial /\ cbs[n].deliver = {}
    <3>1. cbs' = cbs /\ told' = told
      BY <2>4 DEF Deliver
    <3>2. KnowsIn(cbs[i], t, o, FALSE, has.run, at, has.version)
      BY <1>3, <1>6, <2>2, <2>3, <2>4, KnowsPassedOver
    <3> QED BY <1>1, <1>6, <2>1, <3>1, <3>2 DEF Knows, KnowsIn
  <2>5. CASE ~(cbs[n].initial /\ cbs[n].deliver = {})
    <3> DEFINE u == [changes |-> IF cbs[n].initial THEN t.changes \cup cbs[n].deliver ELSE Between(0, at),
                     upto |-> at]
               d == [cbs[n] EXCEPT !.initial = TRUE, !.deliver = {}]
    <3>1. cbs' = [cbs EXCEPT ![n] = d] /\ told' = [told EXCEPT ![cbs[n].token] = u]
      BY <2>5 DEF Deliver
    <3>2. cbs'[i] = d /\ told'[cbs[i].token] = u
      BY <1>2, <1>6, <2>3, <3>1 DEF OthersOK
    <3>3. d.initial /\ d.accumulated = cbs[n].accumulated /\ d.deliver = {} /\ d.token = cbs[n].token
      BY <1>2, Elements DEF Callback
    <3>4. KnowsIn(d, u, o, FALSE, has.run, at, has.version)
      BY <1>3, <1>6, <2>2, <2>3, <3>3, KnowsCalled
    <3> HIDE DEF d, u
    <3> QED BY <1>1, <1>2, <1>6, <2>1, <3>2, <3>4 DEF Knows, KnowsIn
  <2> QED BY <2>4, <2>5
<1> QED BY <1>5, <1>6

(* Delivering starts: the Realm is at the notifier's version, nobody is    *)
(* being called, and everybody is to be.                                   *)
LEMMA PackageKnows ==
    ASSUME OthersOK, ListOK, ListInv, AllKnow, pc \notin {"delivering", "calling"},
           cbs' = Packaged, count' = Len(cbs), pc' = "delivering", index' = index,
           has.run, has' = has, at' = has.version, UNCHANGED <<told, own, disturbed>>
    PROVE  AllKnow'
<1> SUFFICES ASSUME NEW i \in DOMAIN cbs', Undisturbed(i)' PROVE Knows(i)'
  BY DEF AllKnow
<1>1. /\ i \in DOMAIN cbs /\ cbs'[i].token = cbs[i].token /\ cbs'[i].initial = cbs[i].initial
      /\ cbs'[i].accumulated = {} /\ cbs'[i].deliver = cbs[i].accumulated
  BY PackagedElements DEF SameTokens
<1>2. Knows(i) /\ ~Awaits(i)
  BY <1>1 DEF AllKnow, Undisturbed, Awaits
<1>3. Awaits(i)'
  BY <1>1, KnowsTypes DEF ListInv, Rests, Awaits
<1>4. has.version \in Nat
  BY WorkerTypes
<1>5. KnowsIn(cbs[i], told[cbs[i].token], own[cbs[i].token], FALSE, TRUE, at, has.version)
  BY <1>2 DEF Knows, KnowsIn
<1>6. KnowsIn(cbs'[i], told[cbs[i].token], own[cbs[i].token], TRUE, TRUE, has.version, has.version)
  BY <1>1, <1>4, <1>5, KnowsPackaged
<1>7. KnowsIn(cbs'[i], told'[cbs'[i].token], own'[cbs'[i].token], TRUE, has'.run, at', has'.version)
  BY <1>1, <1>6
<1> QED BY <1>3, <1>7 DEF Knows, KnowsIn

(* Steps that leave the callbacks, and what they were told, alone.         *)
LEMMA UntouchedKnows ==
    ASSUME AllKnow, UNCHANGED <<cbs, told, own>>, disturbed \subseteq disturbed',
           has'.run = has.run, has'.version = has.version,
           \A i \in DOMAIN cbs : Undisturbed(i)' =>
              (Awaits(i)' <=> Awaits(i)) /\ (Awaits(i) => at' = at)
    PROVE  AllKnow'
<1> SUFFICES ASSUME NEW i \in DOMAIN cbs', Undisturbed(i)' PROVE Knows(i)'
  BY DEF AllKnow
<1>1. Knows(i) /\ SameCallback(i, i)
  BY DEF AllKnow, Undisturbed, SameCallback
<1> QED BY <1>1, KnowsStill

LEMMA NotifyChangedKnows ==
    ASSUME OthersOK, ListOK, ListInv, AllKnow, NotifyChanged
    PROVE  AllKnow'
<1>1. pc = "idle" /\ UNCHANGED <<index, has, told, own>>
  BY DEF NotifyChanged, Signalled
<1>2. \A i : ~Awaits(i)
  BY <1>1 DEF Awaits
<1>3. CASE AdvanceToLatest
  <2>1. UNCHANGED <<cbs, count, disturbed>> /\ pc' = "idle"
    BY <1>3 DEF AdvanceToLatest, NoPackage
  <2>2. \A i : ~Awaits(i)'
    BY <2>1 DEF Awaits
  <2> QED BY <1>1, <1>2, <2>1, <2>2, UntouchedKnows
<1>4. CASE AdvanceToReady
  BY <1>1, <1>4, PackageKnows DEF AdvanceToReady, Package
<1>5. CASE DropOutOfDate
  <2>1. /\ cbs' = Packaged /\ disturbed' = disturbed \cup Dropped /\ UNCHANGED <<at, pc>>
    BY <1>5 DEF DropOutOfDate
  <2> SUFFICES ASSUME NEW i \in DOMAIN cbs', Undisturbed(i)' PROVE Knows(i)'
    BY DEF AllKnow
  <2>2. /\ i \in DOMAIN cbs /\ cbs'[i].token = cbs[i].token /\ cbs'[i].initial = cbs[i].initial
        /\ cbs'[i].accumulated = {} /\ cbs'[i].deliver = cbs[i].accumulated
    BY <2>1, PackagedElements DEF SameTokens
  <2>3. Knows(i)
    BY <2>1, <2>2 DEF AllKnow, Undisturbed
  <2>4. cbs[i].accumulated = {}
    BY <2>1, <2>2 DEF Dropped, Undisturbed
  <2>5. ~Awaits(i)'
    BY <1>1, <2>1 DEF Awaits
  <2>6. UNCHANGED has /\ told'[cbs'[i].token] = told[cbs[i].token] /\ own'[cbs'[i].token] = own[cbs[i].token]
    BY <1>1, <2>2
  <2> QED BY <1>2, <2>2, <2>3, <2>4, <2>5, <2>6 DEF Knows, KnowsIn
<1> QED BY <1>3, <1>4, <1>5 DEF NotifyChanged

LEMMA WaitedKnows ==
    ASSUME OthersOK, ListOK, ListInv, AllKnow, Waited
    PROVE  AllKnow'
<1>1. pc \in {"refreshing", "beginning"} /\ UNCHANGED <<index, has, told, own, disturbed>>
  BY DEF Waited, history
<1>2. CASE has.run /\ has.version >= target
  BY <1>1, <1>2, PackageKnows DEF Waited
<1>3. CASE ~(has.run /\ has.version >= target)
  <2>1. cbs = << >>
    BY <1>3 DEF Waited, Ready, ListOK
  <2>2. DOMAIN cbs = {}
    BY <2>1, EmptySeq
  <2>3. DOMAIN cbs' = {}
    BY <2>2, PackagedElements DEF Waited, SameTokens
  <2> QED BY <2>3 DEF AllKnow
<1> QED BY <1>2, <1>3

LEMMA RealmKnows ==
    ASSUME OthersOK, ListOK, ListInv, Orders, AllKnow,
           \/ Return \/ Delivered \/ NotifyInWrite \/ Notify \/ Refresh \/ BeginWrite \/ BeginNestedWrite
           \/ Cancel \/ OtherCommits \/ UNCHANGED vars
    PROVE  AllKnow'
<1>1. CASE Notify /\ Package
  BY <1>1, PackageKnows DEF Notify, NoPackage, Signalled, Package, history, file
<1>5. CASE Notify /\ ~Package
  <2>1. UNCHANGED <<cbs, told, own, has, at, disturbed, index, count, pc>>
    BY <1>5 DEF Notify, NoPackage, Signalled, history, file
  <2>2. \A i \in DOMAIN cbs : Awaits(i)' <=> Awaits(i)
    BY <2>1 DEF Awaits
  <2> QED BY <2>1, <2>2, UntouchedKnows
<1>2. CASE Return \/ NotifyInWrite \/ Cancel \/ OtherCommits \/ UNCHANGED vars
  <2>1. UNCHANGED <<cbs, told, own, has, at, disturbed, index, count>>
    BY <1>2 DEF Return, NotifyInWrite, Cancel, OtherCommits, vars, file, notifier, history
  <2>2. pc' \in {"delivering", "calling"} <=> pc \in {"delivering", "calling"}
    BY <1>2 DEF Return, NotifyInWrite, Cancel, OtherCommits, vars
  <2>3. \A i \in DOMAIN cbs : Awaits(i)' <=> Awaits(i)
    BY <2>1, <2>2 DEF Awaits
  <2> QED BY <2>1, <2>3, UntouchedKnows
<1>3. CASE Delivered \/ Refresh \/ BeginWrite
  <2>1. UNCHANGED <<cbs, told, own, has, at, disturbed, count>> /\ pc' \notin {"delivering", "calling"}
    BY <1>3 DEF Delivered, Refresh, BeginWrite, file, notifier, history
  <2>2. pc \in {"delivering", "calling"} => index >= count
    BY <1>3 DEF Delivered, Refresh, BeginWrite
  <2>3. \A i \in DOMAIN cbs : ~Awaits(i) /\ ~Awaits(i)'
    BY <2>1, <2>2, KnowsTypes DEF Awaits, ListOK
  <2> QED BY <2>1, <2>3, UntouchedKnows
<1>4. CASE BeginNestedWrite
  <2>1. /\ UNCHANGED <<pc, cbs, index, count, has, told, own>> /\ at' = latest /\ pc = "calling"
        /\ disturbed' = IF at < latest THEN disturbed \cup StillToCall ELSE disturbed
    BY <1>4 DEF BeginNestedWrite, notifier
  <2>2. ASSUME NEW i \in DOMAIN cbs, Undisturbed(i)', Awaits(i)
        PROVE  at' = at
    <3>1. cbs[i].token \in StillToCall
      <4>1. i \in index + 1 .. count
        BY <2>2, KnowsTypes DEF Awaits, ListOK
      <4> QED BY <2>1, <4>1 DEF StillToCall
    <3>2. ~(at < latest)
      BY <2>1, <2>2, <3>1 DEF Undisturbed
    <3> QED BY <2>1, <3>2, WorkerTypes DEF Orders
  <2>3. \A i \in DOMAIN cbs : Awaits(i)' <=> Awaits(i)
    BY <2>1 DEF Awaits
  <2> QED BY <2>1, <2>2, <2>3, UntouchedKnows
<1> QED BY <1>1, <1>2, <1>3, <1>4, <1>5

LEMMA CommitKnows ==
    ASSUME OthersOK, ListOK, AllKnow, NEW T \in SUBSET Registered, Commit(T) \/ CommitFails(T)
    PROVE  AllKnow'
<1> SUFFICES ASSUME NEW i \in DOMAIN cbs', Undisturbed(i)' PROVE Knows(i)'
  BY DEF AllKnow
<1>1. i \in DOMAIN cbs /\ SameCallback(i, i)
  BY SkippingElements DEF Commit, CommitFails, SameTokens, SameCallback
<1>2. UNCHANGED <<pc, index, count, has, told>> /\ disturbed \subseteq disturbed'
  BY DEF Commit, CommitFails, loop
<1>3. Knows(i)
  BY <1>1, <1>2 DEF AllKnow, Undisturbed, SameCallback
<1>4. Awaits(i)' <=> Awaits(i)
  BY <1>2 DEF Awaits
<1>5. own[cbs[i].token] \subseteq own'[cbs[i].token]
  BY <1>1, KnowsTypes DEF Commit, CommitFails, NotFor
<1>6. Awaits(i) => at' = at
  <2>1. CASE CommitFails(T)
    BY <2>1 DEF CommitFails, file
  <2>2. CASE Commit(T)
    <3>1. cbs[i].token \notin StillToCall /\ pc \in {"idle", "calling"}
      BY <1>1, <2>2 DEF Commit, Undisturbed, SameCallback, UserCode
    <3>2. pc = "calling" => i \notin index + 1 .. count
      BY <1>1, <3>1 DEF StillToCall
    <3> QED BY <1>1, <3>1, <3>2, KnowsTypes DEF Awaits, ListOK
  <2> QED BY <2>1, <2>2
<1> QED BY <1>1, <1>2, <1>3, <1>4, <1>5, <1>6, KnowsStill

LEMMA HandoverKnows ==
    ASSUME OthersOK, ListOK, Orders, Finds, Flags, AllKnow, HandOver
    PROVE  AllKnow'
<1> SUFFICES ASSUME NEW i \in DOMAIN cbs', Undisturbed(i)' PROVE Knows(i)'
  BY DEF AllKnow
<1> DEFINE v == has.version
           w == has'.version
           o == own[cbs[i].token]
           t == told[cbs[i].token]
<1>1. /\ UNCHANGED <<at, pc, index, count, told, own, disturbed>> /\ has'.run
      /\ cbs' = AddChanges
  BY HandoverFields
<1>2. /\ i \in DOMAIN cbs /\ cbs'[i].token = cbs[i].token
      /\ cbs'[i].initial = cbs[i].initial /\ cbs'[i].deliver = cbs[i].deliver
      /\ cbs'[i].accumulated = IF cbs[i].skip THEN cbs[i].accumulated
                               ELSE cbs[i].accumulated \cup worker.changes
  BY <1>1, AddChangesElements DEF SameTokens
<1>3. Undisturbed(i) /\ Knows(i)
  BY <1>1, <1>2 DEF AllKnow, Undisturbed
<1>4. v \in Nat /\ w \in Nat /\ v <= w /\ at \in Nat /\ has.run \in BOOLEAN
  BY HandoverFields, WorkerTypes DEF Orders
<1>5. has.run => worker.changes = Between(v, w)
  BY <1>2, <1>3, HandoverFields DEF Finds, InStep
<1>6. cbs[i].skip => Between(v, w) \subseteq o
  <2>1. NextHandover = w
    BY HandoverFields DEF NextHandover
  <2> QED BY <1>2, <1>3, <2>1 DEF Flags, FlagStands
<1>7. Awaits(i)' <=> Awaits(i)
  BY <1>1 DEF Awaits
<1>8. KnowsIn(cbs[i], t, o, Awaits(i), has.run, at, v)
  BY <1>3 DEF Knows
<1>9. t.upto \in Int /\ Awaits(i) \in BOOLEAN
  BY <1>2, KnowsTypes
<1>10. KnowsIn(cbs'[i], t, o, Awaits(i), TRUE, at, w)
  <2>1. CASE ~has.run
    <3>1. ~cbs[i].initial /\ t.upto < 0 /\ ~Awaits(i)
      BY <1>8, <1>9, <2>1 DEF KnowsIn
    <3> QED BY <1>2, <3>1 DEF KnowsIn
  <2>2. CASE has.run
    <3>1. KnowsIn(cbs[i], t, o, Awaits(i), TRUE, at, v)
      BY <1>8, <2>2 DEF KnowsIn
    <3>2. \/ cbs'[i].accumulated = cbs[i].accumulated \cup Between(v, w)
          \/ cbs'[i].accumulated = cbs[i].accumulated /\ Between(v, w) \subseteq o
      BY <1>2, <1>5, <1>6, <2>2
    <3>3. CASE Awaits(i)
      <4>1. KnowsIn(cbs[i], t, o, TRUE, TRUE, at, v)
        BY <3>1, <3>3 DEF KnowsIn
      <4>2. KnowsIn(cbs'[i], t, o, TRUE, TRUE, at, w)
        BY <1>2, <1>4, <1>9, <3>2, <4>1, KnowsHandedOver
      <4> QED BY <3>3, <4>2 DEF KnowsIn
    <3>4. CASE ~Awaits(i)
      <4>1. KnowsIn(cbs[i], t, o, FALSE, TRUE, at, v)
        BY <3>1, <3>4 DEF KnowsIn
      <4>2. KnowsIn(cbs'[i], t, o, FALSE, TRUE, at, w)
        BY <1>2, <1>4, <1>9, <3>2, <4>1, KnowsHandedOver
      <4> QED BY <3>4, <4>2 DEF KnowsIn
    <3> QED BY <3>3, <3>4
  <2> QED BY <2>1, <2>2
<1>11. told'[cbs'[i].token] = t /\ own'[cbs'[i].token] = o
  BY <1>1, <1>2
<1> QED BY <1>1, <1>7, <1>10, <1>11 DEF Knows, KnowsIn

LEMMA KnowsStep ==
    ASSUME OthersOK, ListOK, ListInv, Orders, Finds, Flags, AllKnow, [Next]_vars
    PROVE  AllKnow'
<1>1. CASE StartRun \/ Running
  <2>1. /\ UNCHANGED <<cbs, told, own, disturbed, at, pc, index, count>>
        /\ has'.run = has.run /\ has'.version = has.version
    BY <1>1, StartRunFields, RunFields
  <2>2. \A i \in DOMAIN cbs : Awaits(i)' <=> Awaits(i)
    BY <2>1 DEF Awaits
  <2> QED BY <2>1, <2>2, UntouchedKnows
<1>2. CASE HandOver
  BY <1>2, HandoverKnows
<1>3. CASE \E k \in Tokens : AddCallback(k) \/ RemoveCallback(k)
  BY <1>3, AddKnows, RemoveKnows
<1>4. CASE \E T \in SUBSET Registered : Commit(T) \/ CommitFails(T)
  BY <1>4, CommitKnows
<1> QED BY <1>1, <1>2, <1>3, <1>4, DeliverKnows, WaitedKnows, RealmKnows, NotifyChangedKnows
        DEF Next, RealmSteps, WorkerSteps, Notified, Running

-----------------------------------------------------------------------------
(* The inductive invariant behind what callbacks are told.                 *)
ToldInv == NotifierInv /\ ListInv /\ Orders /\ Finds /\ Flags /\ AllKnow

LEMMA ToldInit == Init => ToldInv
<1> SUFFICES ASSUME Init PROVE ToldInv
  OBVIOUS
<1>1. NotifierInv
  BY NotifierInit, NotifierInvSplit
<1>2. cbs = << >> /\ DOMAIN cbs = {}
  BY EmptySeq DEF Init
<1>3. ListInv
  BY <1>2 DEF Init, ListInv, Distinct, OnlyRegisteredTold, Rests, NotTold
<1>4. Orders /\ Finds
  BY <1>2 DEF Init, Orders, Finds
<1>5. Flags /\ AllKnow
  BY <1>2 DEF Flags, AllKnow
<1> QED BY <1>1, <1>3, <1>4, <1>5 DEF ToldInv

LEMMA ToldStep == ToldInv /\ [Next]_vars => ToldInv'
<1> SUFFICES ASSUME OthersOK, ListOK, ListInv, Orders, Finds, Flags, AllKnow, [Next]_vars
             PROVE  ToldInv'
  BY NotifierInvSplit DEF ToldInv
<1>1. OthersOK' /\ ListOK'
  BY NotifierNext
<1>2. NotifierInv'
  BY <1>1 DEF NotifierInv, OthersOK, ListOK, TypeOK, HaveCallbacks, Callback
<1> QED BY <1>1, <1>2, ListStep, OrdersStep, FindsStep, FlagsStep, KnowsStep DEF ToldInv

(* What callbacks know, in whatever order the Realm, the worker, the       *)
(* callbacks and other writers take their steps.                           *)
THEOREM ToldInvariant == Spec => []ToldInv
BY ToldInit, ToldStep, PTL DEF Spec

(* A callback knows of exactly the changes up to the version it was last   *)
(* called at, and is left out of at most the writes that were to leave it  *)
(* out: a registered one by what the invariant says of it, one that is not *)
(* because it was told nothing.                                            *)
THEOREM ToldAlwaysExactly == Spec => []ToldExactly
<1>1. ToldInv => ToldExactly
  <2> SUFFICES ASSUME ToldInv, NEW k \in Tokens \ disturbed, told[k].upto >= 0
               PROVE  /\ told[k].changes \subseteq Between(0, told[k].upto)
                      /\ Between(0, told[k].upto) \subseteq told[k].changes \cup own[k]
    BY DEF ToldExactly
  <2>1. OthersOK /\ ListOK
    BY NotifierInvSplit DEF ToldInv
  <2>2. told[k].upto \in Int
    BY <2>1 DEF OthersOK
  <2>3. k \in Registered
    BY <2>2 DEF ToldInv, ListInv, OnlyRegisteredTold
  <2>4. PICK i \in DOMAIN cbs : cbs[i].token = k
    BY <2>3 DEF Registered
  <2>5. Knows(i)
    BY <2>4 DEF ToldInv, AllKnow, Undisturbed
  <2>6. Covers(told[k].changes, own[k], 0, told[k].upto)
    BY <2>2, <2>4, <2>5 DEF Knows, KnowsIn
  <2> QED BY <2>6 DEF Covers
<1> QED BY <1>1, ToldInvariant, PTL

(* Nobody is told of a change twice: what a call brings is about versions  *)
(* after the one the callback was last called at.                          *)
THEOREM ToldOnlyOnce == Spec => ToldOnce
<1> DEFINE Once == pc = "delivering" /\ pc' = "calling" =>
                     LET cb == cbs[index']
                     IN  cb.initial /\ cb.token \notin disturbed =>
                           cb.deliver \cap told[cb.token].changes = {}
<1>1. ToldInv /\ [Next]_vars => [Once]_vars
  <2> SUFFICES ASSUME ToldInv, Next, pc = "delivering", pc' = "calling",
                      cbs[index'].initial, cbs[index'].token \notin disturbed
               PROVE  cbs[index'].deliver \cap told[cbs[index'].token].changes = {}
    OBVIOUS
  <2>1. OthersOK /\ ListOK /\ AllKnow
    BY NotifierInvSplit DEF ToldInv
  <2>2. Deliver
    <3>1. \A k \in Tokens : ~AddCallback(k) /\ ~RemoveCallback(k)
      BY DEF AddCallback, RemoveCallback, UserCode
    <3>2. \A T \in SUBSET Registered : ~Commit(T) /\ ~CommitFails(T)
      BY DEF Commit, CommitFails, UserCode
    <3>3. ~StartRun /\ ~WorkerSteps
      BY <2>1, StartRunFields, RunFields, HandoverFields DEF WorkerSteps, Running
    <3> QED BY <3>1, <3>2, <3>3 DEF Next, RealmSteps, Return, Delivered, Waited, Notified, NotifyInWrite,
            Notify, NotifyChanged, Signalled, Refresh, BeginWrite, BeginNestedWrite, Cancel, OtherCommits
  <2>3. index' = index + 1 /\ index' \in DOMAIN cbs /\ index < count
    BY <2>1, <2>2, DeliverElements DEF Deliver
  <2>4. Awaits(index') /\ Knows(index')
    BY <2>1, <2>3, KnowsTypes DEF Awaits, AllKnow, Undisturbed, ListOK
  <2> DEFINE t == told[cbs[index'].token]
             o == own[cbs[index'].token]
  <2>5. t.upto \in Int /\ at \in Int
    BY <2>1, <2>3, KnowsTypes, WorkerTypes
  <2>6. Covers(t.changes, o, 0, t.upto) /\ Covers(cbs[index'].deliver, o, t.upto, at)
    BY <2>4 DEF Knows, KnowsIn
  <2>7. t.changes \cap cbs[index'].deliver = {}
    BY <2>5, <2>6, CoversApart
  <2> QED BY <2>7
<1> QED BY <1>1, ToldInvariant, PTL DEF Spec, ToldOnce
=============================================================================
