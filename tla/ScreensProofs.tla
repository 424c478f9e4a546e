--------------------------- MODULE ScreensProofs ---------------------------
(***************************************************************************)
(* The screens never show, and no handler uses, what is gone: proved for   *)
(* every set of types, responses, names and instants, when alerts appear   *)
(* before the next touch (TouchWindow is FALSE).                           *)
(***************************************************************************)
EXTENDS Screens, DataManagerProofs, FiniteSetTheorems

-----------------------------------------------------------------------------
(* The inductive invariant.  The stack has one of five shapes, and what it *)
(* shows is in the store.                                                  *)

ScreenRec == [screen : ScreenTypes, of : Emergencies \cup {NoType},
              response : Responses \cup {NoResponse}, row : Nat,
              rows : {"unloaded", "empty", "responses"}]
AlertRec == [kind : AlertKinds, of : Emergencies \cup {NoType}, from : Nat]

NavShape ==
    /\ Len(nav) \in 1 .. 3 /\ nav[1] = TypesScreen
    /\ Len(nav) = 2 => nav[2].screen \in {"points", "details", "response"}
    /\ Len(nav) >= 2 => nav[2].response = NoResponse
    /\ Len(nav) = 3 =>
          /\ nav[2].screen = "details" /\ nav[3].screen = "response"
          /\ nav[3].response # NoResponse
          /\ nav[3].of = nav[2].of /\ nav[3].row = nav[2].row

OnPoints == Len(nav) = 2 /\ nav[2].screen = "points"

NavLive ==
    /\ Len(nav) >= 2 /\ ~OnPoints => Live(nav[2].of)
    /\ Len(nav) = 3 => nav[3].response \in Linked(db, nav[3].of)

(* Except on the points screen and on the way back to the list, the list   *)
(* has a row for each type, and the row that led to a type's screen is one *)
(* of them, whatever type it is that has the row by now.                   *)
ListInv ==
    /\ (Len(nav) = 1 /\ moving) \/ OnPoints
       \/ shown \in [1 .. Cardinality(Types(db)) -> Types(db)]
    /\ Len(nav) >= 2 /\ nav[2].screen = "details" => nav[2].row \in 1 .. Cardinality(Types(db))
    /\ Len(nav) = 1 /\ ~moving => shown \in Listings(db)

NavInv == NavShape /\ NavLive /\ ListInv

(* One alert at most asks something; the screen that asked for it is still *)
(* on top, and what it asks about is there.                                *)
PointsKinds == {"add points", "reset sheet", "confirm reset", "confirm clear"}
Fits(a) ==
    /\ a.from = Len(nav) /\ ~moving
    /\ a.kind \in {"responded", "details", "add type"} => Len(nav) = 1
    /\ a.kind \in {"responded", "details"} => Live(a.of)
    /\ a.kind \in {"delete type", "rename type"} =>
          Len(nav) = 2 /\ nav[2].screen = "details" /\ a.of = nav[2].of
    /\ a.kind = "delete response" => Len(nav) = 3
    /\ a.kind \in PointsKinds => OnPoints

Quiet(s) == \A i \in DOMAIN s : s[i].kind = "message"
OneAsks(s) == \E k \in DOMAIN s : Fits(s[k]) /\ \A i \in DOMAIN s \ {k} : s[i].kind = "message"

AlertInv ==
    \/ Quiet(queue) /\ Quiet(alerts)
    \/ OneAsks(queue) /\ Quiet(alerts)
    \/ Quiet(queue) /\ OneAsks(alerts)

(* The steps of a reset or a clear are taken on the points screen.         *)
ClearInv == pc \notin {"idle", "commit"} => OnPoints /\ ~moving /\ Quiet(queue) /\ Quiet(alerts)

UiInv == ScreensTypeOK /\ NavInv /\ AlertInv /\ ClearInv /\ NoInvalidAccess

ScreensInv == StoreInv /\ UiInv

-----------------------------------------------------------------------------
(* Sequences                                                               *)

LEMMA AppendFacts ==
    ASSUME NEW S, NEW s \in Seq(S), NEW x \in S
    PROVE  /\ Append(s, x) \in Seq(S) /\ Len(Append(s, x)) = Len(s) + 1
           /\ Append(s, x)[Len(s) + 1] = x
           /\ \A i \in 1 .. Len(s) : Append(s, x)[i] = s[i]
           /\ DOMAIN Append(s, x) = 1 .. Len(s) + 1 /\ DOMAIN s = 1 .. Len(s)
OBVIOUS

LEMMA FrontFacts ==
    ASSUME NEW S, NEW s \in Seq(S), s # << >>
    PROVE  /\ Front(s) \in Seq(S) /\ Len(Front(s)) = Len(s) - 1
           /\ \A i \in 1 .. Len(s) - 1 : Front(s)[i] = s[i]
           /\ DOMAIN Front(s) = 1 .. Len(s) - 1
           /\ Len(s) \in Nat \ {0} /\ DOMAIN s = 1 .. Len(s)
           /\ Last(s) = s[Len(s)] /\ Last(s) \in S
<1>1. Len(s) \in Nat \ {0} /\ DOMAIN s = 1 .. Len(s)
  OBVIOUS
<1>2. Last(s) = s[Len(s)] /\ s[Len(s)] \in S
  BY <1>1 DEF Last
<1>3. /\ SubSeq(s, 1, Len(s) - 1) \in Seq(S) /\ Len(SubSeq(s, 1, Len(s) - 1)) = Len(s) - 1
      /\ \A i \in 1 .. Len(s) - 1 : SubSeq(s, 1, Len(s) - 1)[i] = s[i]
  BY <1>1
<1> QED BY <1>1, <1>2, <1>3 DEF Front

LEMMA TailFacts ==
    ASSUME NEW S, NEW s \in Seq(S), s # << >>
    PROVE  /\ Tail(s) \in Seq(S) /\ Len(Tail(s)) = Len(s) - 1
           /\ \A i \in 1 .. Len(s) - 1 : Tail(s)[i] = s[i + 1]
           /\ DOMAIN Tail(s) = 1 .. Len(s) - 1
           /\ Len(s) \in Nat \ {0} /\ DOMAIN s = 1 .. Len(s)
           /\ Head(s) = s[1] /\ Head(s) \in S
OBVIOUS

LEMMA FunctionIsSeq ==
    ASSUME NEW S, NEW n \in Nat, NEW u \in [1 .. n -> S]
    PROVE  u \in Seq(S) /\ Len(u) = n
<1>1. u \in Seq(S)
  OBVIOUS
<1>2. DOMAIN u = 1 .. n /\ DOMAIN u = 1 .. Len(u) /\ Len(u) \in Nat
  BY <1>1
<1> QED BY <1>1, <1>2

LEMMA SecondReplaced ==
    ASSUME NEW S, NEW s \in Seq(S), Len(s) = 2, NEW x \in S
    PROVE  LET t == [s EXCEPT ![2] = x]
           IN  t \in Seq(S) /\ Len(t) = 2 /\ t[1] = s[1] /\ t[2] = x
<1> DEFINE t == [s EXCEPT ![2] = x]
<1>1. DOMAIN s = 1 .. 2 /\ s[1] \in S /\ s[2] \in S
  OBVIOUS
<1>2. DOMAIN t = 1 .. 2 /\ t[1] = s[1] /\ t[2] = x
  BY <1>1
<1>3. t \in [1 .. 2 -> S]
  BY <1>1
<1>4. t \in Seq(S) /\ Len(t) = 2
  <2>1. 2 \in Nat
    OBVIOUS
  <2> QED BY <1>3, <2>1, FunctionIsSeq
<1> QED BY <1>2, <1>4

LEMMA ForgetFacts ==
    ASSUME NEW s \in Seq(AlertRec), NEW n
    PROVE  Forget(s, n) \in Seq(AlertRec) /\ (Quiet(s) => Quiet(Forget(s, n)))
<1>1. DOMAIN s = 1 .. Len(s) /\ Len(s) \in Nat /\ \A i \in DOMAIN s : s[i] \in AlertRec
  OBVIOUS
<1>2. \A i \in DOMAIN s : Forget(s, n)[i] \in AlertRec /\ Forget(s, n)[i].kind = s[i].kind
  BY <1>1 DEF Forget, AlertRec
<1>3. DOMAIN Forget(s, n) = DOMAIN s
  BY DEF Forget
<1>4. Forget(s, n) \in [1 .. Len(s) -> AlertRec]
  BY <1>1, <1>2, <1>3 DEF Forget
<1> QED BY <1>1, <1>2, <1>3, <1>4 DEF Quiet

LEMMA QuietEmpty == Quiet(<< >>)
BY DEF Quiet

LEMMA QuietFacts ==
    ASSUME NEW s \in Seq(AlertRec), NEW a \in AlertRec
    PROVE  /\ Quiet(<< >>)
           /\ Quiet(s) /\ a.kind = "message" => Quiet(Append(s, a))
           /\ Quiet(s) /\ s # << >> => Quiet(Front(s)) /\ Quiet(Tail(s)) /\ Last(s).kind = "message"
<1>1. Quiet(<< >>)
  BY DEF Quiet
<1>2. ASSUME Quiet(s), a.kind = "message" PROVE Quiet(Append(s, a))
  BY <1>2, AppendFacts DEF Quiet
<1>3. ASSUME Quiet(s), s # << >> PROVE Quiet(Front(s)) /\ Quiet(Tail(s)) /\ Last(s).kind = "message"
  <2>1. Quiet(Front(s))
    <3>1. /\ DOMAIN Front(s) = 1 .. Len(s) - 1 /\ DOMAIN s = 1 .. Len(s) /\ Len(s) \in Nat
          /\ \A i \in 1 .. Len(s) - 1 : Front(s)[i] = s[i]
      BY <1>3, FrontFacts
    <3>2. \A i \in 1 .. Len(s) - 1 : i \in 1 .. Len(s)
      BY <3>1
    <3> QED BY <1>3, <3>1, <3>2 DEF Quiet
  <2>3. Last(s).kind = "message"
    <3>1. Len(s) \in Nat \ {0} /\ DOMAIN s = 1 .. Len(s) /\ Last(s) = s[Len(s)]
      BY <1>3, FrontFacts
    <3>2. Len(s) \in DOMAIN s
      BY <3>1
    <3> QED BY <1>3, <3>1, <3>2 DEF Quiet
  <2>2. Quiet(Tail(s))
    <3>1. /\ DOMAIN Tail(s) = 1 .. Len(s) - 1 /\ DOMAIN s = 1 .. Len(s) /\ Len(s) \in Nat
          /\ \A i \in 1 .. Len(s) - 1 : Tail(s)[i] = s[i + 1]
      BY <1>3, TailFacts
    <3>2. \A i \in 1 .. Len(s) - 1 : i + 1 \in 1 .. Len(s)
      BY <3>1
    <3> QED BY <1>3, <3>1, <3>2 DEF Quiet
  <2> QED BY <2>1, <2>2, <2>3
<1> QED BY <1>1, <1>2, <1>3

-----------------------------------------------------------------------------
(* The list of types                                                       *)

LEMMA Perms ==
    ASSUME NEW T \in SUBSET Emergencies
    PROVE  /\ Cardinality(T) \in Nat
           /\ SetToSeqs(T) \subseteq [1 .. Cardinality(T) -> T]
           /\ \A l \in [1 .. Cardinality(T) -> T] : l \in Seq(Emergencies) /\ DOMAIN l = 1 .. Cardinality(T)
<1>1. Cardinality(T) \in Nat
  BY DataManagerAssumption, FS_Subset, FS_CardinalityType
<1>2. SetToSeqs(T) \subseteq [1 .. Cardinality(T) -> T]
  BY DEF SetToSeqs
<1>3. ASSUME NEW l \in [1 .. Cardinality(T) -> T]
      PROVE  l \in Seq(Emergencies) /\ DOMAIN l = 1 .. Cardinality(T)
  BY <1>1
<1> QED BY <1>1, <1>2, <1>3

LEMMA ListingIs ==
    ASSUME NEW s
    PROVE  Listings(s) \subseteq [1 .. Cardinality(Types(s)) -> Types(s)]
<1>1. Types(s) \in SUBSET Emergencies
  BY DEF Types
<1> QED BY <1>1, Perms DEF Listings

(* Reload reads the store as it now is, with the clock and the reset as    *)
(* they are.                                                               *)
LEMMA ListingsNext ==
    ASSUME UNCHANGED <<now, lastReset>>
    PROVE  Listings(db)' = Listings(db')
BY DEF Listings, EmergencyPoints, NotBefore, StartOfMonth

LEMMA ReloadFacts ==
    ASSUME Reload, UNCHANGED <<now, lastReset>>
    PROVE  /\ shown' \in Listings(db)'
           /\ shown' \in [1 .. Cardinality(Types(db')) -> Types(db')]
           /\ shown' \in Seq(Emergencies)
<1>1. shown' \in Listings(db')
  BY DEF Reload
<1>2. shown' \in [1 .. Cardinality(Types(db')) -> Types(db')]
  BY <1>1, ListingIs
<1>3. Types(db') \in SUBSET Emergencies
  BY DEF Types
<1> QED BY <1>1, <1>2, <1>3, Perms, ListingsNext

-----------------------------------------------------------------------------
(* The stack and the list, by what a step does to them                     *)

LEMMA RootNav ==
    ASSUME nav' = <<TypesScreen>>, moving'
    PROVE  NavInv' /\ nav' \in Seq(ScreenRec) /\ nav' # << >> /\ Head(nav') = TypesScreen
<1>1. TypesScreen \in ScreenRec
  BY DEF TypesScreen, ScreenRec, ScreenTypes
<1>2. Len(nav') = 1 /\ nav'[1] = TypesScreen
  OBVIOUS
<1>3. ~(Len(nav') >= 2) /\ Len(nav') # 2 /\ Len(nav') # 3
  BY <1>2
<1> QED BY <1>1, <1>2, <1>3 DEF NavInv, NavShape, NavLive, ListInv, OnPoints

LEMMA SameNav ==
    ASSUME NavInv, UNCHANGED <<nav, moving, shown, db, now, lastReset>>
    PROVE  NavInv'
<1>1. Listings(db)' = Listings(db)
  BY ListingsNext
<1> QED BY <1>1 DEF NavInv, NavShape, NavLive, ListInv, OnPoints, Live

(* Deeper in the stack only the types there are matter.                    *)
LEMMA DeepNav ==
    ASSUME NavInv, UNCHANGED <<nav, moving, shown>>, Types(db') = Types(db), Len(nav) = 2
    PROVE  NavInv'
BY DEF NavInv, NavShape, NavLive, ListInv, OnPoints, Live

LEMMA ReloadedNav ==
    ASSUME NavInv, UNCHANGED <<nav, moving>>, Len(nav) = 1, Reload, UNCHANGED <<now, lastReset>>
    PROVE  NavInv'
BY ReloadFacts DEF NavInv, NavShape, NavLive, ListInv, OnPoints

LEMMA PointsNav ==
    ASSUME NavInv, UNCHANGED <<nav, moving>>, OnPoints
    PROVE  NavInv'
BY DEF NavInv, NavShape, NavLive, ListInv, OnPoints

LEMMA PushNav ==
    ASSUME NavInv, nav \in Seq(ScreenRec), nav # << >>, Head(nav) = TypesScreen, ~moving,
           NEW x \in ScreenRec, Push(x), UNCHANGED <<db, shown>>,
           \/ /\ Len(nav) = 1 /\ x.response = NoResponse
              /\ \/ x.screen = "points"
                 \/ x.screen = "response" /\ Live(x.of)
                 \/ x.screen = "details" /\ Live(x.of) /\ x.row \in 1 .. Cardinality(Types(db))
           \/ /\ Len(nav) = 2 /\ nav[2].screen = "details"
              /\ x.screen = "response" /\ x.of = nav[2].of /\ x.row = nav[2].row
              /\ x.response # NoResponse /\ x.response \in Linked(db, x.of)
    PROVE  NavInv' /\ nav' \in Seq(ScreenRec) /\ nav' # << >> /\ Head(nav') = TypesScreen
<1>1. /\ nav' \in Seq(ScreenRec) /\ Len(nav') = Len(nav) + 1 /\ nav'[Len(nav) + 1] = x
      /\ \A i \in 1 .. Len(nav) : nav'[i] = nav[i]
  BY AppendFacts DEF Push
<1>2. nav[1] = TypesScreen /\ nav'[1] = TypesScreen /\ nav' # << >> /\ Head(nav') = TypesScreen
  BY <1>1 DEF NavInv, NavShape
<1>3. CASE Len(nav) = 1
  <2>1. nav'[2] = x /\ Len(nav') = 2
    BY <1>1, <1>3
  <2>2. shown \in [1 .. Cardinality(Types(db)) -> Types(db)]
    BY <1>3, ListingIs DEF NavInv, ListInv
  <2> QED BY <1>1, <1>2, <1>3, <2>1, <2>2
          DEF NavInv, NavShape, NavLive, ListInv, OnPoints, Live
<1>4. CASE Len(nav) = 2 /\ nav[2].screen = "details"
  <2>1. nav'[2] = nav[2] /\ nav'[3] = x /\ Len(nav') = 3
    BY <1>1, <1>4
  <2> QED BY <1>1, <1>2, <1>4, <2>1
          DEF NavInv, NavShape, NavLive, ListInv, OnPoints, Live
<1> QED BY <1>3, <1>4

(* The screen below, if it is a type's, finds its type and its row.        *)
LEMMA PopNav ==
    ASSUME NavInv, nav \in Seq(ScreenRec), Len(nav) > 1, nav' = Front(nav), moving',
           Len(nav) = 3 => /\ Types(db') = Types(db)
                           /\ shown' \in [1 .. Cardinality(Types(db')) -> Types(db')]
    PROVE  NavInv' /\ nav' \in Seq(ScreenRec) /\ nav' # << >> /\ Head(nav') = TypesScreen
<1>1. /\ nav' \in Seq(ScreenRec) /\ Len(nav') = Len(nav) - 1
      /\ \A i \in 1 .. Len(nav) - 1 : nav'[i] = nav[i]
  BY FrontFacts
<1>2. nav'[1] = TypesScreen /\ nav' # << >> /\ Head(nav') = TypesScreen
  BY <1>1 DEF NavInv, NavShape
<1>3. CASE Len(nav) = 2
  BY <1>1, <1>2, <1>3 DEF NavInv, NavShape, NavLive, ListInv, OnPoints
<1>4. CASE Len(nav) = 3
  <2>1. nav'[2] = nav[2] /\ Len(nav') = 2
    BY <1>1, <1>4
  <2> QED BY <1>1, <1>2, <1>4, <2>1
          DEF NavInv, NavShape, NavLive, ListInv, OnPoints, Live
<1> QED BY <1>3, <1>4 DEF NavInv, NavShape

-----------------------------------------------------------------------------
(* Alerts, by what a step does to them                                     *)

LEMMA SameAlerts ==
    ASSUME AlertInv, UNCHANGED <<nav, moving, queue, alerts>>, Types(db') = Types(db)
    PROVE  AlertInv'
BY DEF AlertInv, OneAsks, Quiet, Fits, OnPoints, Live

LEMMA MessageAlerts ==
    ASSUME AlertInv, queue \in Seq(AlertRec), UNCHANGED <<nav, moving, alerts>>,
           Types(db') = Types(db), NEW m \in AlertRec, m.kind = "message", queue' = Append(queue, m)
    PROVE  AlertInv'
<1>1. /\ DOMAIN queue' = 1 .. Len(queue) + 1 /\ DOMAIN queue = 1 .. Len(queue)
      /\ queue'[Len(queue) + 1] = m /\ \A i \in 1 .. Len(queue) : queue'[i] = queue[i]
  BY AppendFacts
<1>2. Quiet(queue) => Quiet(queue')
  BY QuietFacts
<1>3. CASE OneAsks(queue) /\ Quiet(alerts)
  <2>1. PICK k \in DOMAIN queue : Fits(queue[k]) /\ \A i \in DOMAIN queue \ {k} : queue[i].kind = "message"
    BY <1>3 DEF OneAsks
  <2>2. k \in DOMAIN queue' /\ queue'[k] = queue[k]
    BY <1>1, <2>1
  <2>3. \A i \in DOMAIN queue' \ {k} : queue'[i].kind = "message"
    BY <1>1, <2>1
  <2>4. OneAsks(queue)'
    BY <2>1, <2>2, <2>3 DEF OneAsks, Fits, OnPoints, Live
  <2> QED BY <1>3, <2>4 DEF AlertInv, Quiet
<1>4. CASE Quiet(queue) /\ Quiet(alerts)
  BY <1>2, <1>4 DEF AlertInv, Quiet
<1>5. CASE Quiet(queue) /\ OneAsks(alerts)
  <2>1. PICK k \in DOMAIN alerts : Fits(alerts[k]) /\ \A i \in DOMAIN alerts \ {k} : alerts[i].kind = "message"
    BY <1>5 DEF OneAsks
  <2>2. OneAsks(alerts)'
    BY <2>1 DEF OneAsks, Fits, OnPoints, Live
  <2> QED BY <1>2, <1>5, <2>2 DEF AlertInv, Quiet
<1> QED BY <1>3, <1>4, <1>5 DEF AlertInv

(* A message is dismissed, and what it was over is on top again.           *)
LEMMA DismissedMessage ==
    ASSUME AlertInv, alerts \in Seq(AlertRec), alerts # << >>, Last(alerts).kind = "message",
           UNCHANGED <<nav, moving, queue>>, Types(db') = Types(db), alerts' = Front(alerts)
    PROVE  AlertInv'
<1>1. /\ DOMAIN alerts' = 1 .. Len(alerts) - 1 /\ DOMAIN alerts = 1 .. Len(alerts)
      /\ \A i \in 1 .. Len(alerts) - 1 : alerts'[i] = alerts[i]
      /\ Len(alerts) \in Nat \ {0} /\ alerts[Len(alerts)].kind = "message"
  BY FrontFacts
<1>2. Quiet(alerts) => Quiet(alerts')
  BY <1>1 DEF Quiet
<1>3. CASE Quiet(queue) /\ OneAsks(alerts)
  <2>1. PICK k \in DOMAIN alerts : Fits(alerts[k]) /\ \A i \in DOMAIN alerts \ {k} : alerts[i].kind = "message"
    BY <1>3 DEF OneAsks
  <2>2. CASE k = Len(alerts)
    <3>1. Quiet(alerts')
      BY <1>1, <2>1, <2>2 DEF Quiet
    <3> QED BY <1>3, <3>1 DEF AlertInv, Quiet
  <2>3. CASE k # Len(alerts)
    <3>1. k \in DOMAIN alerts' /\ alerts'[k] = alerts[k]
      BY <1>1, <2>1, <2>3
    <3>2. \A i \in DOMAIN alerts' \ {k} : alerts'[i].kind = "message"
      BY <1>1, <2>1
    <3>3. OneAsks(alerts)'
      BY <2>1, <3>1, <3>2 DEF OneAsks, Fits, OnPoints, Live
    <3> QED BY <1>3, <3>3 DEF AlertInv, Quiet
  <2> QED BY <2>2, <2>3
<1>4. CASE Quiet(queue) /\ Quiet(alerts)
  BY <1>2, <1>4 DEF AlertInv, Quiet
<1>5. CASE OneAsks(queue) /\ Quiet(alerts)
  <2>1. PICK k \in DOMAIN queue : Fits(queue[k]) /\ \A i \in DOMAIN queue \ {k} : queue[i].kind = "message"
    BY <1>5 DEF OneAsks
  <2>2. OneAsks(queue)'
    BY <2>1 DEF OneAsks, Fits, OnPoints, Live
  <2> QED BY <1>2, <1>5, <2>2 DEF AlertInv, Quiet
<1> QED BY <1>3, <1>4, <1>5 DEF AlertInv

(* The alert that is answered is the only one that asks something.         *)
LEMMA AnsweredAlert ==
    ASSUME AlertInv, queue \in Seq(AlertRec), alerts \in Seq(AlertRec),
           alerts # << >>, Last(alerts).kind # "message"
    PROVE  Fits(Last(alerts)) /\ Quiet(queue) /\ Quiet(Front(alerts))
<1>1. /\ DOMAIN Front(alerts) = 1 .. Len(alerts) - 1 /\ DOMAIN alerts = 1 .. Len(alerts)
      /\ \A i \in 1 .. Len(alerts) - 1 : Front(alerts)[i] = alerts[i]
      /\ Len(alerts) \in Nat \ {0} /\ Last(alerts) = alerts[Len(alerts)]
  BY FrontFacts
<1>2. Len(alerts) \in DOMAIN alerts
  BY <1>1
<1>3. Quiet(queue) /\ OneAsks(alerts)
  BY <1>1, <1>2 DEF AlertInv, Quiet
<1>4. PICK k \in DOMAIN alerts : Fits(alerts[k]) /\ \A i \in DOMAIN alerts \ {k} : alerts[i].kind = "message"
  BY <1>3 DEF OneAsks
<1>5. k = Len(alerts)
  BY <1>1, <1>2, <1>4
<1> QED BY <1>1, <1>3, <1>4, <1>5 DEF Quiet

(* Something is asked when nothing was.                                    *)
LEMMA NewAsk ==
    ASSUME UNCHANGED <<nav, moving>>, Types(db') = Types(db), NEW a \in AlertRec,
           a.kind = "message" \/ Fits(a),
           \/ Quiet(queue) /\ queue \in Seq(AlertRec) /\ queue' = Append(queue, a) /\ Quiet(alerts')
           \/ Quiet(queue') /\ alerts' = <<a>>
    PROVE  AlertInv'
<1>1. CASE a.kind = "message"
  <2>1. Quiet(<<a>>)
    BY <1>1 DEF Quiet
  <2>2. Quiet(queue') /\ Quiet(alerts')
    BY <1>1, <2>1, QuietFacts
  <2> QED BY <2>2 DEF AlertInv, Quiet
<1>2. CASE Fits(a) /\ Quiet(queue') /\ alerts' = <<a>>
  <2>1. DOMAIN alerts' = {1} /\ alerts'[1] = a
    BY <1>2
  <2>2. OneAsks(alerts)'
    BY <1>2, <2>1 DEF OneAsks, Fits, OnPoints, Live
  <2> QED BY <1>2, <2>2 DEF AlertInv, Quiet
<1>3. CASE /\ Fits(a) /\ Quiet(queue) /\ queue \in Seq(AlertRec)
           /\ queue' = Append(queue, a) /\ Quiet(alerts')
  <2>1. /\ DOMAIN queue' = 1 .. Len(queue) + 1 /\ DOMAIN queue = 1 .. Len(queue) /\ Len(queue) \in Nat
        /\ queue'[Len(queue) + 1] = a /\ \A i \in 1 .. Len(queue) : queue'[i] = queue[i]
    BY <1>3, AppendFacts
  <2>2. Len(queue) + 1 \in DOMAIN queue'
    BY <2>1
  <2>3. \A i \in DOMAIN queue' \ {Len(queue) + 1} : queue'[i].kind = "message"
    BY <1>3, <2>1 DEF Quiet
  <2>4. PICK k \in DOMAIN queue' : queue'[k] = a /\ \A i \in DOMAIN queue' \ {k} : queue'[i].kind = "message"
    BY <2>1, <2>2, <2>3
  <2>5. OneAsks(queue)'
    BY <1>3, <2>4 DEF OneAsks, Fits, OnPoints, Live
  <2> QED BY <1>3, <2>5 DEF AlertInv, Quiet
<1> QED BY <1>1, <1>2, <1>3

LEMMA QuietAlerts ==
    ASSUME Quiet(queue'), Quiet(alerts') PROVE AlertInv'
BY DEF AlertInv, Quiet

-----------------------------------------------------------------------------
(* What each kind of handler leaves                                        *)

NavOK == nav \in Seq(ScreenRec) /\ nav # << >> /\ Head(nav) = TypesScreen
AlertsOK == queue \in Seq(AlertRec) /\ alerts \in Seq(AlertRec)
EndedOK == ended \in {"not yet", "killed", "open write"}

LEMMA UiParts ==
    /\ UiInv => /\ NavOK /\ moving \in BOOLEAN /\ shown \in Seq(Emergencies) /\ AlertsOK /\ EndedOK
                /\ NavInv /\ AlertInv /\ ClearInv
    /\ NavOK /\ moving \in BOOLEAN /\ shown \in Seq(Emergencies) /\ AlertsOK /\ EndedOK
       /\ NavInv /\ AlertInv /\ ClearInv => UiInv
BY DEF UiInv, ScreensTypeOK, NoInvalidAccess, NavOK, AlertsOK, EndedOK, ScreenRec, AlertRec

LEMMA UiPartsNext ==
    ASSUME NavOK', moving' \in BOOLEAN, shown' \in Seq(Emergencies), AlertsOK', EndedOK',
           NavInv', AlertInv', ClearInv'
    PROVE  UiInv'
<1>1. ScreensTypeOK'
  BY DEF ScreensTypeOK, NavOK, AlertsOK, EndedOK, ScreenRec, AlertRec
<1>2. NoInvalidAccess'
  BY DEF NoInvalidAccess, EndedOK
<1> QED BY <1>1, <1>2 DEF UiInv

(* No clear is under way after this step.                                  *)
LEMMA NoClear ==
    ASSUME pc' \in {"idle", "commit"} PROVE ClearInv'
BY DEF ClearInv

(* A process that ends leaves nothing on any screen.                       *)
LEMMA EndUi ==
    ASSUME NEW why \in {"killed", "open write"}, End(why)
    PROVE  UiInv'
<1>1. nav' = <<TypesScreen>> /\ moving' /\ moving' \in BOOLEAN
  BY DEF End
<1>2. NavInv' /\ NavOK'
  BY <1>1, RootNav DEF NavOK
<1>3. shown' = << >> /\ queue' = << >> /\ alerts' = << >>
  BY DEF End
<1>4. Quiet(queue') /\ Quiet(alerts')
  BY <1>3, QuietEmpty
<1>5. AlertsOK' /\ shown' \in Seq(Emergencies)
  BY <1>3, ShortSequences DEF AlertsOK
<1>6. EndedOK' /\ pc' = "idle"
  BY DEF End, Die, EndedOK
<1>7. AlertInv' /\ ClearInv'
  BY <1>4, <1>6, QuietAlerts, NoClear
<1> QED BY <1>1, <1>2, <1>5, <1>6, <1>7, UiPartsNext

LEMMA InitUi == AppInit => UiInv
<1> SUFFICES ASSUME AppInit PROVE UiInv
  OBVIOUS
<1>1. nav = <<TypesScreen>> /\ moving /\ moving \in BOOLEAN
  BY DEF AppInit
<1>2. /\ Len(nav) = 1 /\ nav[1] = TypesScreen
      /\ nav \in Seq(ScreenRec) /\ nav # << >> /\ Head(nav) = TypesScreen
  <2>1. TypesScreen \in ScreenRec
    BY DEF TypesScreen, ScreenRec, ScreenTypes
  <2>2. <<TypesScreen>> \in Seq(ScreenRec)
    BY <2>1, ShortSequences
  <2>3. Len(<<TypesScreen>>) = 1 /\ <<TypesScreen>>[1] = TypesScreen
        /\ Head(<<TypesScreen>>) = TypesScreen /\ <<TypesScreen>> # << >>
    OBVIOUS
  <2> QED BY <1>1, <2>2, <2>3
<1>3. ~(Len(nav) >= 2) /\ Len(nav) # 2 /\ Len(nav) # 3
  BY <1>2
<1>4. NavInv /\ NavOK
  BY <1>1, <1>2, <1>3 DEF NavInv, NavShape, NavLive, ListInv, OnPoints, NavOK
<1>5. shown = << >> /\ queue = << >> /\ alerts = << >>
  BY DEF AppInit
<1>6. Quiet(queue) /\ Quiet(alerts)
  BY <1>5 DEF Quiet
<1>7. AlertsOK /\ shown \in Seq(Emergencies)
  BY <1>5, ShortSequences DEF AlertsOK
<1>8. EndedOK /\ pc = "idle"
  BY DEF AppInit, Init, EndedOK
<1>9. AlertInv /\ ClearInv
  BY <1>6, <1>8 DEF AlertInv, ClearInv
<1> QED BY <1>1, <1>4, <1>7, <1>8, <1>9, UiParts

(* A step that changes neither the stack nor anything the stack shows.     *)
LEMMA StayUi ==
    ASSUME UiInv, UNCHANGED <<nav, moving, shown, db, now, lastReset, ended>>,
           AlertsOK', AlertInv', ClearInv'
    PROVE  UiInv'
<1>1. NavOK' /\ moving' \in BOOLEAN /\ shown' \in Seq(Emergencies) /\ EndedOK' /\ NavInv
  BY UiParts DEF NavOK, EndedOK
<1>2. NavInv'
  BY <1>1, SameNav
<1> QED BY <1>1, <1>2, UiPartsNext

(* Touches: nothing is asked or presented before them.                     *)
LEMMA Untouched ==
    ASSUME UiInv, Touch, TouchWindow = FALSE
    PROVE  /\ queue = << >> /\ alerts = << >> /\ ~moving /\ pc = "idle"
           /\ Quiet(queue) /\ Quiet(alerts) /\ AlertsOK
BY UiParts DEF Touch, Idle, Quiet

LEMMA DepthNat == UiInv => Len(nav) \in Nat
BY UiParts DEF NavOK

Suits(a) == a.kind = "message" \/ Fits(a)

LEMMA AskUi ==
    ASSUME UiInv, Touch, TouchWindow = FALSE, NEW a \in AlertRec, Suits(a),
           UNCHANGED <<vars, nav, moving, shown, ended>>, Request(a), UNCHANGED alerts
    PROVE  UiInv'
<1>1. UNCHANGED <<db, now, lastReset, pc>> /\ pc = "idle"
  BY Untouched DEF vars
<1>2. Types(db') = Types(db)
  BY <1>1
<1>3. queue' = Append(queue, a) /\ Quiet(queue) /\ Quiet(alerts') /\ queue \in Seq(AlertRec)
  BY Untouched DEF Request, AlertsOK
<1>4. AlertInv'
  BY <1>2, <1>3, NewAsk DEF Suits
<1>5. AlertsOK'
  BY <1>3, Untouched, AppendFacts DEF AlertsOK
<1>6. ClearInv'
  BY <1>1, NoClear
<1> QED BY <1>1, <1>4, <1>5, <1>6, StayUi

LEMMA SheetUi ==
    ASSUME UiInv, Touch, TouchWindow = FALSE, NEW a \in AlertRec, Suits(a),
           UNCHANGED <<vars, nav, moving, shown, ended>>, alerts' = <<a>>, UNCHANGED queue
    PROVE  UiInv'
<1>1. UNCHANGED <<db, now, lastReset, pc>> /\ pc = "idle"
  BY Untouched DEF vars
<1>2. Types(db') = Types(db) /\ Quiet(queue')
  BY <1>1, Untouched
<1>3. AlertInv'
  BY <1>2, NewAsk DEF Suits
<1>4. <<a>> \in Seq(AlertRec)
  OBVIOUS
<1>5. AlertsOK'
  BY <1>4, Untouched DEF AlertsOK
<1>6. ClearInv'
  BY <1>1, NoClear
<1> QED BY <1>1, <1>3, <1>5, <1>6, StayUi

(* Pushing a screen, from a touch or from the choice of an alert.          *)
LEMMA PushUi ==
    ASSUME UiInv, ~moving, pc = "idle", AlertsOK', Quiet(queue'), Quiet(alerts'),
           NEW x \in ScreenRec, Push(x), UNCHANGED <<vars, shown, ended>>,
           \/ /\ Len(nav) = 1 /\ x.response = NoResponse
              /\ \/ x.screen = "points"
                 \/ x.screen = "response" /\ Live(x.of)
                 \/ x.screen = "details" /\ Live(x.of) /\ x.row \in 1 .. Cardinality(Types(db))
           \/ /\ Len(nav) = 2 /\ nav[2].screen = "details"
              /\ x.screen = "response" /\ x.of = nav[2].of /\ x.row = nav[2].row
              /\ x.response # NoResponse /\ x.response \in Linked(db, x.of)
    PROVE  UiInv'
<1>1. NavOK /\ NavInv /\ EndedOK /\ shown \in Seq(Emergencies)
  BY UiParts
<1>2. UNCHANGED <<db, shown, ended>> /\ pc' = "idle"
  BY DEF vars
<1>3. NavInv' /\ NavOK'
  BY <1>1, <1>2, PushNav DEF NavOK
<1>4. AlertInv' /\ ClearInv'
  BY <1>2, QuietAlerts, NoClear
<1>5. shown' \in Seq(Emergencies) /\ moving' \in BOOLEAN /\ EndedOK'
  BY <1>1, <1>2 DEF Push, EndedOK
<1> QED BY <1>3, <1>4, <1>5, UiPartsNext

(* Going back, whatever the handler does to the store.                     *)
LEMMA PopUi ==
    ASSUME UiInv, Len(nav) > 1, nav' = Front(nav), moving' = TRUE, pc' \in {"idle", "commit"},
           AlertsOK', Quiet(queue'), Quiet(alerts'), shown' \in Seq(Emergencies), ended' = ended,
           Len(nav) = 3 => /\ Types(db') = Types(db)
                           /\ shown' \in [1 .. Cardinality(Types(db')) -> Types(db')]
    PROVE  UiInv'
<1>1. NavOK /\ NavInv /\ EndedOK
  BY UiParts
<1>2. NavInv' /\ NavOK'
  BY <1>1, PopNav DEF NavOK
<1>3. AlertInv' /\ ClearInv' /\ EndedOK'
  BY <1>1, QuietAlerts, NoClear DEF EndedOK
<1> QED BY <1>2, <1>3, UiPartsNext

(* A write from an alert whose screen stays.                               *)
LEMMA WriteUi ==
    ASSUME UiInv, UNCHANGED <<nav, moving, ended>>, NavInv', shown' \in Seq(Emergencies),
           pc' \in {"idle", "commit"}, AlertsOK', Quiet(queue'), Quiet(alerts')
    PROVE  UiInv'
<1>1. NavOK' /\ moving' \in BOOLEAN /\ EndedOK'
  BY UiParts DEF NavOK, EndedOK
<1>2. AlertInv' /\ ClearInv'
  BY QuietAlerts, NoClear
<1> QED BY <1>1, <1>2, UiPartsNext

(* A step on the points screen.                                            *)
LEMMA PointsUi ==
    ASSUME UiInv, OnPoints, ~moving, UNCHANGED <<nav, moving, ended>>, shown' \in Seq(Emergencies),
           AlertsOK', Quiet(queue'), Quiet(alerts')
    PROVE  UiInv'
<1>1. NavOK' /\ moving' \in BOOLEAN /\ EndedOK' /\ NavInv
  BY UiParts DEF NavOK, EndedOK
<1>2. NavInv' /\ AlertInv'
  BY <1>1, PointsNav, QuietAlerts
<1>3. ClearInv'
  BY DEF ClearInv, OnPoints, Quiet
<1> QED BY <1>1, <1>2, <1>3, UiPartsNext

-----------------------------------------------------------------------------
(* What the writes do to the set of types                                  *)

LEMMA TypesAfter ==
    ASSUME db \in Snapshot
    PROVE  /\ \A r \in Responses, e \in Emergencies, d \in Instants :
                 AddResponse(r, e, d) => Types(db') = Types(db)
           /\ \A r \in Responses, d \in Instants : UpdateResponse(r, d) => Types(db') = Types(db)
           /\ \A r \in Responses, e \in Emergencies : RemoveResponse(r, e) => Types(db') = Types(db)
           /\ \A e \in Emergencies, n \in Names : UpdateEmergency(e, n) => Types(db') = Types(db)
<1>1. ASSUME NEW r \in Responses, NEW e \in Emergencies, NEW d \in Instants, AddResponse(r, e, d)
      PROVE  Types(db') = Types(db)
  BY <1>1 DEF AddResponse, Write, AppendResponse, Snapshot, Types
<1>2. ASSUME NEW r \in Responses, NEW d \in Instants, UpdateResponse(r, d)
      PROVE  Types(db') = Types(db)
  BY <1>2 DEF UpdateResponse, Write, Snapshot, Types
<1>3. ASSUME NEW r \in Responses, NEW e \in Emergencies, RemoveResponse(r, e)
      PROVE  Types(db') = Types(db)
  <2>1. db' = DeleteResponses(db, {r})
    BY <1>3, UnlinkThenDelete DEF RemoveResponse, Write
  <2> QED BY <2>1 DEF DeleteResponses, Snapshot, Types
<1>4. ASSUME NEW e \in Emergencies, NEW n \in Names, UpdateEmergency(e, n)
      PROVE  Types(db') = Types(db)
  <2>1. db' = [db EXCEPT !.type[e] = n] /\ e \in Types(db)
    BY <1>4 DEF UpdateEmergency, Write
  <2>2. \A f \in Emergencies : db'.type[f] = IF f = e THEN n ELSE db.type[f]
    BY <2>1 DEF Snapshot
  <2> QED BY <2>1, <2>2, DataManagerAssumption DEF Types
<1> QED BY <1>1, <1>2, <1>3, <1>4

-----------------------------------------------------------------------------
(* Touches *)

LEMMA ScreenNames ==
    ASSUME UiInv, NEW name \in ScreenTypes, OnScreen(name)
    PROVE  /\ Touch /\ Top.screen = name /\ Top = nav[Len(nav)] /\ Top \in ScreenRec
           /\ name = "types" => Len(nav) = 1 /\ shown \in Listings(db)
           /\ name = "points" => OnPoints
           /\ name = "details" => Len(nav) = 2 /\ nav[2].screen = "details" /\ Live(Top.of)
           /\ name = "response" =>
                 \/ Len(nav) = 2 /\ Top.response = NoResponse /\ Live(Top.of)
                 \/ /\ Len(nav) = 3 /\ Top.response # NoResponse
                    /\ Top.response \in Linked(db, Top.of) /\ Live(Top.of)
<1>1. NavOK /\ NavShape /\ NavLive /\ ListInv
  BY UiParts DEF NavInv
<1>2. Touch /\ Top.screen = name /\ ~moving
  BY DEF OnScreen, Touch
<1>3. Top = nav[Len(nav)] /\ Top \in ScreenRec
  BY <1>1, FrontFacts DEF Top, NavOK
<1>4. TypesScreen.screen = "types" /\ TypesScreen.response = NoResponse
  BY DEF TypesScreen
<1>5. CASE Len(nav) = 1
  BY <1>1, <1>2, <1>3, <1>4, <1>5 DEF NavShape, ListInv, OnPoints
<1>6. CASE Len(nav) = 2
  BY <1>1, <1>2, <1>3, <1>6 DEF NavShape, NavLive, OnPoints
<1>7. CASE Len(nav) = 3
  BY <1>1, <1>2, <1>3, <1>7 DEF NavShape, NavLive, OnPoints
<1> QED BY <1>1, <1>5, <1>6, <1>7 DEF NavShape

(* A row of the list the user can touch is a type that is there.           *)
LEMMA RowIsLive ==
    ASSUME UiInv, OnScreen("types"), NEW row \in DOMAIN shown
    PROVE  Live(shown[row]) /\ shown[row] \in Emergencies /\ row \in 1 .. Cardinality(Types(db))
<1>1. shown \in [1 .. Cardinality(Types(db)) -> Types(db)]
  BY ScreenNames, ListingIs DEF ScreenTypes
<1> QED BY <1>1 DEF Live, Types

LEMMA TypesTouches ==
    ASSUME UiInv, TouchWindow = FALSE,
           \/ \E row \in 1 .. Cardinality(Emergencies) : OnResponded(row) \/ SelectType(row)
           \/ OnAddCall \/ OnShowPoints
    PROVE  UiInv'
<1>1. OnScreen("types") /\ Touch /\ Len(nav) = 1
  BY ScreenNames DEF OnResponded, SelectType, OnAddCall, OnShowPoints, ScreenTypes
<1>2. ~moving /\ pc = "idle" /\ AlertsOK /\ Quiet(queue) /\ Quiet(alerts)
  BY <1>1, Untouched
<1>3. ASSUME NEW row \in 1 .. Cardinality(Emergencies), OnResponded(row)
      PROVE  UiInv'
  <2>1. Live(shown[row]) /\ shown[row] \in Emergencies
    BY <1>1, <1>3, RowIsLive DEF OnResponded
  <2>2a. /\ Alert("responded", shown[row]) \in AlertRec /\ Alert("responded", shown[row]).kind = "responded"
        /\ Alert("responded", shown[row]).of = shown[row]
        /\ Alert("responded", shown[row]).from = Len(nav)
    BY <2>1, DepthNat DEF Alert, AlertRec, AlertKinds
  <2>2. PICK a \in AlertRec : /\ a = Alert("responded", shown[row])
                             /\ a.kind = "responded" /\ a.of = shown[row] /\ a.from = Len(nav)
    BY <2>2a
  <2>3. Suits(a)
    BY <1>1, <1>2, <2>1, <2>2 DEF Suits, Fits, PointsKinds
  <2> QED BY <1>1, <1>3, <2>1, <2>2, <2>3, AskUi DEF OnResponded, StoreUntouched
<1>4. ASSUME NEW row \in 1 .. Cardinality(Emergencies), SelectType(row)
      PROVE  UiInv'
  <2> DEFINE x == DetailsScreen(shown[row], row)
  <2>1. Live(shown[row]) /\ shown[row] \in Emergencies /\ row \in 1 .. Cardinality(Types(db))
        /\ row \in Nat
    BY <1>1, <1>4, RowIsLive DEF SelectType
  <2>2. /\ x \in ScreenRec /\ x.screen = "details" /\ x.of = shown[row] /\ x.row = row
        /\ x.response = NoResponse
    BY <2>1 DEF DetailsScreen, TypesScreen, ScreenRec, ScreenTypes
  <2>3. Push(x) /\ UNCHANGED <<vars, shown, ended, queue, alerts>>
    BY <1>4 DEF SelectType, StoreUntouched
  <2>4. AlertsOK' /\ Quiet(queue') /\ Quiet(alerts')
    BY <1>2, <2>3 DEF AlertsOK
  <2> HIDE DEF x
  <2> QED BY <1>1, <1>2, <2>1, <2>2, <2>3, <2>4, PushUi
<1>5. CASE OnAddCall
  <2>1a. /\ Alert("add type", NoType) \in AlertRec /\ Alert("add type", NoType).kind = "add type"
        /\ Alert("add type", NoType).of = NoType
        /\ Alert("add type", NoType).from = Len(nav)
    BY DepthNat DEF Alert, AlertRec, AlertKinds
  <2>1. PICK a \in AlertRec : /\ a = Alert("add type", NoType)
                             /\ a.kind = "add type" /\ a.of = NoType /\ a.from = Len(nav)
    BY <2>1a
  <2>2. Suits(a)
    BY <1>1, <1>2, <2>1 DEF Suits, Fits, PointsKinds
  <2> QED BY <1>1, <1>5, <2>1, <2>2, AskUi DEF OnAddCall, StoreUntouched
<1>6. CASE OnShowPoints
  <2>1. PointsScreen \in ScreenRec /\ PointsScreen.screen = "points" /\ PointsScreen.response = NoResponse
    BY DEF PointsScreen, TypesScreen, ScreenRec, ScreenTypes
  <2>2. Push(PointsScreen) /\ UNCHANGED <<vars, shown, ended, queue, alerts>>
    BY <1>6 DEF OnShowPoints, StoreUntouched
  <2>3. AlertsOK' /\ Quiet(queue') /\ Quiet(alerts')
    BY <1>2, <2>2 DEF AlertsOK
  <2> QED BY <1>1, <1>2, <2>1, <2>2, <2>3, PushUi
<1> QED BY <1>3, <1>4, <1>5, <1>6

LEMMA DetailsTouches ==
    ASSUME UiInv, TouchWindow = FALSE, OnDeleteType \/ OnEditType \/ SelectResponse
    PROVE  UiInv'
<1>1. /\ Touch /\ Len(nav) = 2 /\ nav[2].screen = "details" /\ Live(Top.of)
      /\ Top = nav[2] /\ Top \in ScreenRec
  BY ScreenNames DEF OnDeleteType, OnEditType, SelectResponse, ScreenTypes
<1>2. ~moving /\ pc = "idle" /\ AlertsOK /\ Quiet(queue) /\ Quiet(alerts)
  BY <1>1, Untouched
<1>3. ASSUME NEW kind \in {"delete type", "rename type"},
             Request(Alert(kind, Top.of)) /\ UNCHANGED <<nav, moving>> /\ StoreUntouched
      PROVE  UiInv'
  <2>1. Top.of \in Emergencies \cup {NoType}
    BY <1>1 DEF ScreenRec
  <2>2a. /\ Alert(kind, Top.of) \in AlertRec /\ Alert(kind, Top.of).kind = kind
        /\ Alert(kind, Top.of).of = Top.of
        /\ Alert(kind, Top.of).from = Len(nav)
    BY <2>1, DepthNat DEF Alert, AlertRec, AlertKinds
  <2>2. PICK a \in AlertRec : /\ a = Alert(kind, Top.of)
                             /\ a.kind = kind /\ a.of = Top.of /\ a.from = Len(nav)
    BY <2>2a
  <2>3. Suits(a)
    BY <1>1, <1>2, <2>2 DEF Suits, Fits, PointsKinds
  <2> QED BY <1>1, <1>3, <2>2, <2>3, AskUi DEF StoreUntouched
<1>4. CASE OnDeleteType \/ OnEditType
  BY <1>1, <1>3, <1>4 DEF OnDeleteType, OnEditType
<1>5. CASE SelectResponse
  <2>1. PICK r \in Linked(db, Top.of) : Push(ResponseScreen(Top.of, r, Top.row))
    BY <1>1, <1>5 DEF SelectResponse
  <2> DEFINE x == ResponseScreen(Top.of, r, Top.row)
  <2>2. UNCHANGED <<vars, shown, ended, queue, alerts>>
    BY <1>1, <1>5 DEF SelectResponse, StoreUntouched
  <2>3. r \in Responses /\ r # NoResponse
    BY <2>1, ScreensAssumption DEF Linked
  <2>4. /\ x \in ScreenRec /\ x.screen = "response" /\ x.of = Top.of /\ x.row = Top.row
        /\ x.response = r
    BY <1>1, <2>3 DEF ResponseScreen, TypesScreen, ScreenRec, ScreenTypes
  <2>5. AlertsOK' /\ Quiet(queue') /\ Quiet(alerts')
    BY <1>2, <2>2 DEF AlertsOK
  <2>6. Push(x)
    BY <2>1
  <2> HIDE DEF x
  <2> QED BY <1>1, <1>2, <2>1, <2>2, <2>3, <2>4, <2>5, <2>6, PushUi
<1> QED BY <1>4, <1>5

LEMMA PointsTouches ==
    ASSUME UiInv, TouchWindow = FALSE, OnAddPoints \/ OnExportData \/ OnResetSettings
    PROVE  UiInv'
<1>1. Touch /\ OnPoints
  BY ScreenNames DEF OnAddPoints, OnExportData, OnResetSettings, ScreenTypes
<1>2. ~moving
  BY <1>1, Untouched
<1>3. CASE OnAddPoints
  <2>1. /\ Alert("add points", NoType) \in AlertRec /\ Alert("add points", NoType).kind = "add points"
        /\ Alert("add points", NoType).from = Len(nav)
    BY DepthNat DEF Alert, AlertRec, AlertKinds
  <2>2. PICK a \in AlertRec : a = Alert("add points", NoType) /\ a.kind = "add points" /\ a.from = Len(nav)
    BY <2>1
  <2>3. Suits(a)
    BY <1>1, <1>2, <2>2 DEF Suits, Fits
  <2> QED BY <1>1, <1>3, <2>2, <2>3, AskUi DEF OnAddPoints, StoreUntouched
<1>4. CASE OnExportData
  <2>1. Message \in AlertRec /\ Message.kind = "message"
    BY DepthNat DEF Message, Alert, AlertRec, AlertKinds
  <2>2. PICK a \in AlertRec : a = Message /\ a.kind = "message"
    BY <2>1
  <2>3. Suits(a)
    BY <2>2 DEF Suits
  <2> QED BY <1>1, <1>4, <2>2, <2>3, AskUi DEF OnExportData, StoreUntouched
<1>5. CASE OnResetSettings
  <2>1. /\ Alert("reset sheet", NoType) \in AlertRec /\ Alert("reset sheet", NoType).kind = "reset sheet"
        /\ Alert("reset sheet", NoType).from = Len(nav)
    BY DepthNat DEF Alert, AlertRec, AlertKinds
  <2>2. PICK a \in AlertRec : a = Alert("reset sheet", NoType) /\ a.kind = "reset sheet" /\ a.from = Len(nav)
    BY <2>1
  <2>3. Suits(a)
    BY <1>1, <1>2, <2>2 DEF Suits, Fits
  <2> QED BY <1>1, <1>5, <2>2, <2>3, SheetUi DEF OnResetSettings
<1> QED BY <1>3, <1>4, <1>5

(* Going back to the list with the list as it was: it is loaded again when *)
(* the screen appears.  Going back to a type's screen: the list was not    *)
(* touched since it led there.                                             *)
LEMMA ListUnderResponse ==
    ASSUME UiInv, Len(nav) = 3
    PROVE  shown \in [1 .. Cardinality(Types(db)) -> Types(db)]
<1>1. nav[2].screen = "details" /\ ListInv
  BY UiParts DEF NavInv, NavShape
<1> QED BY <1>1 DEF ListInv, OnPoints

LEMMA ForgetEmpty == ASSUME NEW n PROVE Forget(<< >>, n) \in Seq(AlertRec) /\ Quiet(Forget(<< >>, n))
BY QuietEmpty, ForgetFacts, ShortSequences

LEMMA PopQuiet ==
    ASSUME Pop, queue = << >>, alerts = << >>
    PROVE  AlertsOK' /\ Quiet(queue') /\ Quiet(alerts') /\ nav' = Front(nav) /\ moving' = TRUE
<1>1. AlertsOK' /\ Quiet(queue') /\ Quiet(alerts')
  BY ForgetEmpty DEF Pop, AlertsOK
<1> QED BY <1>1 DEF Pop

(* A response of a type that is there has its row.                         *)
LEMMA LinkedHasRow ==
    ASSUME StoreInv, NEW e, Live(e), NEW r \in Linked(db, e)
    PROVE  r \in Rows(db) /\ r \in Responses
BY DEF StoreInv, ResponsesPartitioned, Partitioned, Live, Types, Rows

LEMMA BackTouch ==
    ASSUME UiInv, TouchWindow = FALSE, Back
    PROVE  UiInv'
<1>1. Touch /\ Len(nav) > 1 /\ Pop /\ UNCHANGED <<vars, shown, ended>>
  BY DEF Back
<1>2. queue = << >> /\ alerts = << >> /\ pc = "idle"
  BY <1>1, Untouched
<1>3. AlertsOK' /\ Quiet(queue') /\ Quiet(alerts')
  BY <1>1, <1>2, PopQuiet
<1>4. nav' = Front(nav) /\ moving' = TRUE /\ pc' = "idle" /\ db' = db /\ shown' = shown /\ ended' = ended
  BY <1>1, <1>2 DEF Pop, vars
<1>5. Len(nav) = 3 => shown' \in [1 .. Cardinality(Types(db')) -> Types(db')]
  BY <1>4, ListUnderResponse
<1>6. shown' \in Seq(Emergencies)
  BY <1>4, UiParts
<1> QED BY <1>1, <1>3, <1>4, <1>5, <1>6, PopUi

LEMMA ResponseTouches ==
    ASSUME StoreInv, UiInv, TouchWindow = FALSE,
           \/ \E d \in Instants : OnSaveChanged(d) \/ \E r \in Responses : OnSaveNew(r, d)
           \/ OnDeleteResponse
    PROVE  UiInv'
<1>1. OnScreen("response") /\ Touch /\ Len(nav) > 1
  <2>1. OnScreen("response")
    BY DEF OnSaveChanged, OnSaveNew, OnDeleteResponse
  <2>2. Len(nav) = 2 \/ Len(nav) = 3
    BY <2>1, ScreenNames DEF ScreenTypes
  <2> QED BY <2>1, <2>2 DEF OnScreen
<1>2. queue = << >> /\ alerts = << >> /\ ~moving /\ pc = "idle"
  BY <1>1, Untouched
<1>3. db \in Snapshot
  BY DEF StoreInv, TypeOK
<1>4. ASSUME NEW d \in Instants, OnSaveChanged(d)
      PROVE  UiInv'
  <2>1. Len(nav) = 3 /\ Top.response \in Linked(db, Top.of) /\ Live(Top.of)
    BY <1>1, <1>4, ScreenNames DEF OnSaveChanged, ScreenTypes
  <2>2. Top.response \in Rows(db) /\ Top.response \in Responses
    BY <2>1, LinkedHasRow
  <2>3. CASE End("open write")
    BY <2>3, EndUi
  <2>4. CASE UpdateResponse(Top.response, d) /\ Pop /\ UNCHANGED <<shown, ended>>
    <3>1. Types(db') = Types(db) /\ pc' = "commit"
      BY <1>3, <2>2, <2>4, TypesAfter DEF UpdateResponse, Write
    <3>2. /\ AlertsOK' /\ Quiet(queue') /\ Quiet(alerts') /\ nav' = Front(nav) /\ moving' = TRUE
          /\ shown' = shown /\ ended' = ended
      BY <1>2, <2>4, PopQuiet
    <3>3. shown' \in Seq(Emergencies) /\ shown' \in [1 .. Cardinality(Types(db')) -> Types(db')]
      BY <2>1, <3>1, <3>2, UiParts, ListUnderResponse
    <3> QED BY <1>1, <3>1, <3>2, <3>3, PopUi
  <2> QED BY <1>4, <2>2, <2>3, <2>4 DEF OnSaveChanged, Call
<1>5. ASSUME NEW d \in Instants, NEW r \in Responses, OnSaveNew(r, d)
      PROVE  UiInv'
  <2>1. Len(nav) = 2 /\ Live(Top.of)
    BY <1>1, <1>5, ScreenNames DEF OnSaveNew, ScreenTypes
  <2>2. CASE End("open write")
    BY <2>2, EndUi
  <2>3. CASE AddResponse(r, Top.of, d) /\ Pop /\ Reload /\ UNCHANGED ended
    <3>1. pc' = "commit" /\ UNCHANGED <<now, lastReset>>
      BY <2>3 DEF AddResponse, Write
    <3>2. /\ AlertsOK' /\ Quiet(queue') /\ Quiet(alerts') /\ nav' = Front(nav) /\ moving' = TRUE
          /\ ended' = ended
      BY <1>2, <2>3, PopQuiet
    <3>3. shown' \in Seq(Emergencies)
      BY <2>3, <3>1, ReloadFacts
    <3> QED BY <1>1, <2>1, <3>1, <3>2, <3>3, PopUi
  <2> QED BY <1>5, <2>1, <2>2, <2>3 DEF OnSaveNew, Call
<1>6. CASE OnDeleteResponse
  <2>1. Len(nav) = 3 /\ Top \in ScreenRec
    BY <1>1, <1>6, ScreenNames DEF OnDeleteResponse, ScreenTypes
  <2>2. Top.of \in Emergencies \cup {NoType}
    BY <2>1 DEF ScreenRec
  <2>3. /\ Alert("delete response", Top.of) \in AlertRec
        /\ Alert("delete response", Top.of).kind = "delete response"
        /\ Alert("delete response", Top.of).from = Len(nav)
    BY <2>2, DepthNat DEF Alert, AlertRec, AlertKinds
  <2>4. PICK a \in AlertRec : /\ a = Alert("delete response", Top.of)
                             /\ a.kind = "delete response" /\ a.from = Len(nav)
    BY <2>3
  <2>5. Suits(a)
    BY <1>2, <2>1, <2>4 DEF Suits, Fits, PointsKinds
  <2> QED BY <1>1, <1>6, <2>4, <2>5, AskUi DEF OnDeleteResponse, StoreUntouched
<1> QED BY <1>4, <1>5, <1>6

-----------------------------------------------------------------------------
(* Answers to alerts *)

(* The alert that is answered, when it asks something.                     *)
LEMMA Answered ==
    ASSUME UiInv, NEW kind, kind # "message", Pressed(kind)
    PROVE  /\ ~moving /\ pc = "idle" /\ Last(alerts).kind = kind
           /\ Fits(Last(alerts)) /\ Last(alerts).of \in Emergencies \cup {NoType}
           /\ Quiet(queue) /\ queue \in Seq(AlertRec)
           /\ Front(alerts) \in Seq(AlertRec) /\ Quiet(Front(alerts))
<1>1. alerts # << >> /\ Last(alerts).kind = kind /\ ~moving /\ pc = "idle"
  BY DEF Pressed, Idle
<1>2. AlertInv /\ AlertsOK
  BY UiParts
<1>3. Last(alerts) \in AlertRec /\ Front(alerts) \in Seq(AlertRec)
  BY <1>1, <1>2, FrontFacts DEF AlertsOK
<1>4. Last(alerts).of \in Emergencies \cup {NoType}
  BY <1>3 DEF AlertRec
<1> QED BY <1>1, <1>2, <1>3, <1>4, AnsweredAlert DEF AlertsOK

(* An answer that only dismisses, or is followed by another alert.         *)
LEMMA DismissUi ==
    ASSUME UiInv, NEW kind, kind # "message", Pressed(kind), OnlyDismissed,
           UNCHANGED queue \/ \E a \in AlertRec : Suits(a) /\ Request(a)
    PROVE  UiInv'
<1>1. UNCHANGED <<nav, moving, shown, db, now, lastReset, pc, ended>> /\ alerts' = Front(alerts)
  BY DEF OnlyDismissed, Dismiss, vars
<1>2. /\ Quiet(queue) /\ queue \in Seq(AlertRec) /\ Quiet(alerts') /\ alerts' \in Seq(AlertRec)
      /\ pc' = "idle" /\ Types(db') = Types(db)
  BY <1>1, Answered
<1>3. ClearInv'
  BY <1>2, NoClear
<1>4. CASE UNCHANGED queue
  <2>1. AlertsOK' /\ AlertInv'
    BY <1>2, <1>4, QuietAlerts DEF AlertsOK
  <2> QED BY <1>1, <1>3, <2>1, StayUi
<1>5. CASE \E a \in AlertRec : Suits(a) /\ Request(a)
  <2>1. PICK a \in AlertRec : Suits(a) /\ Request(a)
    BY <1>5
  <2>2. queue' = Append(queue, a)
    BY <2>1 DEF Request
  <2>3. AlertInv'
    BY <1>1, <1>2, <2>1, <2>2, NewAsk DEF Suits
  <2>4. AlertsOK'
    BY <1>2, <2>2, AppendFacts DEF AlertsOK
  <2> QED BY <1>1, <1>3, <2>3, <2>4, StayUi
<1> QED BY <1>4, <1>5

LEMMA CancelPress ==
    ASSUME UiInv, Cancel
    PROVE  UiInv'
<1>1. PICK kind : Pressed(kind)
  BY DEF Cancel
<1>2. OnlyDismissed /\ UNCHANGED queue
  BY DEF Cancel
<1>3. CASE kind # "message"
  BY <1>1, <1>2, <1>3, DismissUi
<1>4. CASE kind = "message"
  <2>1. alerts # << >> /\ Last(alerts).kind = "message" /\ pc = "idle"
    BY <1>1, <1>4 DEF Pressed, Idle
  <2>2. UNCHANGED <<nav, moving, shown, db, now, lastReset, pc, ended, queue>> /\ alerts' = Front(alerts)
    BY <1>2 DEF OnlyDismissed, Dismiss, vars
  <2>3. AlertInv /\ AlertsOK
    BY UiParts
  <2>4. AlertInv'
    BY <2>1, <2>2, <2>3, DismissedMessage DEF AlertsOK
  <2>5. AlertsOK'
    BY <2>1, <2>2, <2>3, FrontFacts DEF AlertsOK
  <2>6. ClearInv'
    BY <2>1, <2>2, NoClear
  <2> QED BY <2>2, <2>4, <2>5, <2>6, StayUi
<1> QED BY <1>3, <1>4

LEMMA NextAlertPresses ==
    ASSUME UiInv,
           ConfirmResponded \/ EmptyTypeName \/ \E kind \in {"confirm reset", "confirm clear"} : ChooseReset(kind)
    PROVE  UiInv'
<1>1. CASE ConfirmResponded
  <2>1. Pressed("responded")
    BY <1>1 DEF ConfirmResponded
  <2>2. Fits(Last(alerts)) /\ Last(alerts).kind = "responded" /\ Of \in Emergencies \cup {NoType}
        /\ ~moving
    BY <2>1, Answered DEF Of
  <2>3. Live(Of) /\ Len(nav) = 1
    BY <2>2 DEF Fits, Of
  <2>4. /\ Alert("details", Of) \in AlertRec /\ Alert("details", Of).kind = "details"
        /\ Alert("details", Of).of = Of /\ Alert("details", Of).from = Len(nav)
    BY <2>2, DepthNat DEF Alert, AlertRec, AlertKinds
  <2>5. PICK a \in AlertRec : /\ a = Alert("details", Of) /\ a.kind = "details"
                             /\ a.of = Of /\ a.from = Len(nav)
    BY <2>4
  <2>6. Suits(a)
    BY <2>2, <2>3, <2>5 DEF Suits, Fits, PointsKinds
  <2> QED BY <1>1, <2>1, <2>3, <2>5, <2>6, DismissUi DEF ConfirmResponded
<1>2. CASE EmptyTypeName
  <2>1. Message \in AlertRec /\ Message.kind = "message"
    BY DepthNat DEF Message, Alert, AlertRec, AlertKinds
  <2>2. Suits(Message)
    BY <2>1 DEF Suits
  <2>3. Pressed("add type")
    BY <1>2 DEF EmptyTypeName
  <2> QED BY <1>2, <2>1, <2>2, <2>3, DismissUi DEF EmptyTypeName
<1>3. ASSUME NEW kind \in {"confirm reset", "confirm clear"}, ChooseReset(kind)
      PROVE  UiInv'
  <2>1. Pressed("reset sheet") /\ OnlyDismissed
    BY <1>3 DEF ChooseReset
  <2>2. Fits(Last(alerts)) /\ Last(alerts).kind = "reset sheet" /\ ~moving
    BY <2>1, Answered
  <2>3. OnPoints
    BY <2>2 DEF Fits, PointsKinds
  <2>4. /\ Alert(kind, NoType) \in AlertRec /\ Alert(kind, NoType).kind = kind
        /\ Alert(kind, NoType).from = Len(nav)
    BY DepthNat DEF Alert, AlertRec, AlertKinds
  <2>5. PICK a \in AlertRec : a = Alert(kind, NoType) /\ a.kind = kind /\ a.from = Len(nav)
    BY <2>4
  <2>6. Suits(a)
    BY <2>2, <2>3, <2>5 DEF Suits, Fits
  <2> QED BY <1>3, <2>1, <2>5, <2>6, DismissUi DEF ChooseReset
<1> QED BY <1>1, <1>2, <1>3

(* The choice under "Confirm you responded", on the list of types.         *)
LEMMA DetailsChosen ==
    ASSUME UiInv, Pressed("details")
    PROVE  /\ Live(Of) /\ Of \in Emergencies /\ Len(nav) = 1 /\ ~moving /\ pc = "idle"
           /\ Quiet(queue) /\ queue \in Seq(AlertRec)
           /\ Dismiss => alerts' \in Seq(AlertRec) /\ Quiet(alerts')
<1>1. /\ Fits(Last(alerts)) /\ Last(alerts).kind = "details" /\ ~moving /\ pc = "idle"
      /\ Quiet(queue) /\ queue \in Seq(AlertRec)
      /\ Front(alerts) \in Seq(AlertRec) /\ Quiet(Front(alerts))
  BY Answered
<1>2. Live(Of) /\ Len(nav) = 1
  BY <1>1 DEF Fits, Of
<1>3. Of \in Emergencies
  BY <1>2 DEF Live, Types
<1> QED BY <1>1, <1>2, <1>3 DEF Dismiss

LEMMA DetailsPresses ==
    ASSUME UiInv, PressDetails \/ \E r \in Responses : PressDone(r)
    PROVE  UiInv'
<1>1. Pressed("details")
  BY DEF PressDetails, PressDone
<1>2. CASE PressDetails
  <2> DEFINE x == ResponseScreen(Of, NoResponse, 0)
  <2>1. x \in ScreenRec /\ x.screen = "response" /\ x.of = Of /\ x.response = NoResponse
    BY <1>1, DetailsChosen DEF ResponseScreen, TypesScreen, ScreenRec, ScreenTypes
  <2>2. Push(x) /\ Dismiss /\ UNCHANGED <<vars, shown, ended>> /\ queue' = queue
    BY <1>2 DEF PressDetails
  <2>3. AlertsOK' /\ Quiet(queue') /\ Quiet(alerts')
    BY <1>1, <2>2, DetailsChosen DEF AlertsOK
  <2> HIDE DEF x
  <2>4. Len(nav) = 1 /\ Live(x.of) /\ ~moving /\ pc = "idle"
    BY <1>1, <2>1, DetailsChosen
  <2> QED BY <2>1, <2>2, <2>3, <2>4, PushUi
<1>3. ASSUME NEW r \in Responses, PressDone(r)
      PROVE  UiInv'
  <2>1. Live(Of)
    BY <1>1, DetailsChosen
  <2>2. CASE End("open write")
    BY <2>2, EndUi
  <2>3. CASE AddResponse(r, Of, now) /\ Reload /\ Dismiss /\ UNCHANGED <<nav, moving, queue>> /\ UNCHANGED ended
    <3>1. pc' = "commit" /\ UNCHANGED <<now, lastReset>>
      BY <2>3 DEF AddResponse, Write
    <3>2. AlertsOK' /\ Quiet(queue') /\ Quiet(alerts')
      BY <1>1, <2>3, DetailsChosen DEF AlertsOK
    <3>3. shown' \in Seq(Emergencies)
      BY <2>3, <3>1, ReloadFacts
    <3>4. NavInv'
      BY <1>1, <2>3, <3>1, DetailsChosen, UiParts, ReloadedNav
    <3> QED BY <2>3, <3>1, <3>2, <3>3, <3>4, WriteUi
  <2> QED BY <1>3, <2>1, <2>2, <2>3 DEF PressDone, Call
<1> QED BY <1>2, <1>3

LEMMA AddTypePress ==
    ASSUME UiInv, NEW e \in Emergencies, NEW name \in Names, ConfirmAddType(e, name)
    PROVE  UiInv'
<1>1. Pressed("add type")
  BY DEF ConfirmAddType
<1>2. /\ Fits(Last(alerts)) /\ Last(alerts).kind = "add type" /\ ~moving /\ pc = "idle"
      /\ Quiet(queue) /\ queue \in Seq(AlertRec)
      /\ Front(alerts) \in Seq(AlertRec) /\ Quiet(Front(alerts))
  BY <1>1, Answered
<1>3. Len(nav) = 1
  BY <1>2 DEF Fits
<1>4. CASE End("open write")
  BY <1>4, EndUi
<1>5. CASE /\ AddEmergency(e, name) /\ AlreadyExists(db, name) /\ Request(Message) /\ UNCHANGED shown
           /\ Dismiss /\ UNCHANGED <<nav, moving>> /\ UNCHANGED ended
  <2>1. pc' = "commit" /\ UNCHANGED <<now, lastReset, db>>
    BY <1>5 DEF AddEmergency, Write
  <2>2. Message \in AlertRec /\ Message.kind = "message"
    BY DepthNat DEF Message, Alert, AlertRec, AlertKinds
  <2>3. queue' = Append(queue, Message) /\ alerts' = Front(alerts)
    BY <1>5 DEF Request, Dismiss
  <2>4. AlertsOK' /\ Quiet(queue') /\ Quiet(alerts')
    BY <1>2, <2>2, <2>3, AppendFacts, QuietFacts DEF AlertsOK
  <2>5. NavInv' /\ shown' \in Seq(Emergencies)
    BY <1>5, <2>1, UiParts, SameNav
  <2> QED BY <1>5, <2>1, <2>4, <2>5, WriteUi
<1>6. CASE /\ AddEmergency(e, name) /\ Reload /\ UNCHANGED queue
           /\ Dismiss /\ UNCHANGED <<nav, moving>> /\ UNCHANGED ended
  <2>1. pc' = "commit" /\ UNCHANGED <<now, lastReset>>
    BY <1>6 DEF AddEmergency, Write
  <2>2. AlertsOK' /\ Quiet(queue') /\ Quiet(alerts')
    BY <1>2, <1>6 DEF AlertsOK, Dismiss
  <2>3. shown' \in Seq(Emergencies)
    BY <1>6, <2>1, ReloadFacts
  <2>4. NavInv'
    BY <1>3, <1>6, <2>1, UiParts, ReloadedNav
  <2> QED BY <1>6, <2>1, <2>2, <2>3, <2>4, WriteUi
<1> QED BY <1>4, <1>5, <1>6 DEF ConfirmAddType, Call

LEMMA TypeScreenLive ==
    ASSUME UiInv, Len(nav) = 2, nav[2].screen = "details"
    PROVE  Live(nav[2].of)
<1>1. NavLive
  BY UiParts DEF NavInv
<1> QED BY <1>1 DEF NavLive, OnPoints

(* A type's own alerts, on its screen.                                     *)
LEMMA TypeAnswered ==
    ASSUME UiInv, Pressed("delete type") \/ Pressed("rename type")
    PROVE  /\ Len(nav) = 2 /\ Live(Of) /\ Of \in Emergencies /\ AlertOwner = 2 /\ pc = "idle"
           /\ Quiet(queue) /\ queue \in Seq(AlertRec)
           /\ Front(alerts) \in Seq(AlertRec) /\ Quiet(Front(alerts))
<1>1. /\ Fits(Last(alerts)) /\ Last(alerts).kind \in {"delete type", "rename type"} /\ pc = "idle"
      /\ Quiet(queue) /\ queue \in Seq(AlertRec)
      /\ Front(alerts) \in Seq(AlertRec) /\ Quiet(Front(alerts))
  BY Answered
<1>2. Len(nav) = 2 /\ AlertOwner = 2
  BY <1>1 DEF Fits, AlertOwner
<1>3. nav[2].screen = "details" /\ Of = nav[2].of
  BY <1>1 DEF Fits, Of
<1>4. Live(nav[2].of)
  BY <1>2, <1>3, TypeScreenLive
<1>5. Of \in Emergencies
  BY <1>3, <1>4 DEF Live, Types
<1> QED BY <1>1, <1>2, <1>3, <1>4, <1>5

LEMMA RenamePress ==
    ASSUME StoreInv, UiInv, NEW name \in Names, ConfirmRename(name)
    PROVE  UiInv'
<1>1. Pressed("rename type")
  BY DEF ConfirmRename
<1>2. /\ Len(nav) = 2 /\ Live(Of) /\ Of \in Emergencies
      /\ Quiet(queue) /\ queue \in Seq(AlertRec)
      /\ Front(alerts) \in Seq(AlertRec) /\ Quiet(Front(alerts))
  BY <1>1, TypeAnswered
<1>3. CASE End("open write")
  BY <1>3, EndUi
<1>4. CASE UpdateEmergency(Of, name) /\ Dismiss /\ UNCHANGED <<nav, moving, shown, queue>> /\ UNCHANGED ended
  <2>1. Types(db') = Types(db) /\ pc' = "commit"
    BY <1>2, <1>4, TypesAfter DEF StoreInv, TypeOK, UpdateEmergency, Write
  <2>2. AlertsOK' /\ Quiet(queue') /\ Quiet(alerts')
    BY <1>2, <1>4 DEF AlertsOK, Dismiss
  <2>3. NavInv' /\ shown' \in Seq(Emergencies)
    BY <1>2, <1>4, <2>1, UiParts, DeepNav
  <2> QED BY <1>4, <2>1, <2>2, <2>3, WriteUi
<1> QED BY <1>2, <1>3, <1>4 DEF ConfirmRename, Call

(* The alert goes and so does the screen that asked for it.                *)
LEMMA LeavesQuiet ==
    ASSUME queue \in Seq(AlertRec), Quiet(queue), Front(alerts) \in Seq(AlertRec), Quiet(Front(alerts)),
           queue' = Forget(queue, Len(nav)), alerts' = Forget(Front(alerts), Len(nav))
    PROVE  AlertsOK' /\ Quiet(queue') /\ Quiet(alerts')
BY ForgetFacts DEF AlertsOK

LEMMA DeleteTypePress ==
    ASSUME UiInv, ConfirmDeleteType
    PROVE  UiInv'
<1>1. Pressed("delete type")
  BY DEF ConfirmDeleteType
<1>2. /\ Len(nav) = 2 /\ Live(Of) /\ Of \in Emergencies /\ AlertOwner = 2
      /\ Quiet(queue) /\ queue \in Seq(AlertRec)
      /\ Front(alerts) \in Seq(AlertRec) /\ Quiet(Front(alerts))
  BY <1>1, TypeAnswered
<1>3. CASE End("open write")
  BY <1>3, EndUi
<1>4. CASE /\ RemoveEmergency(Of) /\ UNCHANGED shown /\ UNCHANGED ended
           /\ nav' = Front(nav) /\ moving' = TRUE
           /\ queue' = Forget(queue, Len(nav)) /\ alerts' = Forget(Front(alerts), Len(nav))
  <2>1. pc' = "commit"
    BY <1>4 DEF RemoveEmergency, Write
  <2>2. AlertsOK' /\ Quiet(queue') /\ Quiet(alerts')
    BY <1>2, <1>4, LeavesQuiet
  <2>3. shown' \in Seq(Emergencies)
    BY <1>4, UiParts
  <2> QED BY <1>2, <1>4, <2>1, <2>2, <2>3, PopUi
<1>5. AlertOwner # 0
  BY <1>2
<1> QED BY <1>2, <1>3, <1>4, <1>5, Zenon DEF ConfirmDeleteType, Call

LEMMA DeleteResponsePress ==
    ASSUME StoreInv, UiInv, ConfirmDeleteResponse
    PROVE  UiInv'
<1>1. Pressed("delete response")
  BY DEF ConfirmDeleteResponse
<1>2. /\ Fits(Last(alerts)) /\ Last(alerts).kind = "delete response"
      /\ Quiet(queue) /\ queue \in Seq(AlertRec)
      /\ Front(alerts) \in Seq(AlertRec) /\ Quiet(Front(alerts))
  BY <1>1, Answered
<1>3. Len(nav) = 3 /\ AlertOwner = 3
  BY <1>2 DEF Fits, AlertOwner
<1>4. NavShape /\ NavLive /\ ListInv
  BY UiParts DEF NavInv
<1>5. /\ nav[3].of = nav[2].of /\ nav[3].row = nav[2].row /\ nav[2].screen = "details"
      /\ ~OnPoints /\ nav[3].response \in Linked(db, nav[3].of)
  BY <1>3, <1>4 DEF NavShape, NavLive, OnPoints
<1>6. Live(nav[3].of)
  BY <1>3, <1>4, <1>5 DEF NavLive
<1>7. nav[3].response \in Rows(db) /\ nav[3].response \in Responses
  BY <1>5, <1>6, LinkedHasRow
<1>8. shown \in [1 .. Cardinality(Types(db)) -> Types(db)]
  BY <1>3, ListUnderResponse
<1>9. nav[3].row \in DOMAIN shown
  BY <1>3, <1>4, <1>5, <1>8 DEF ListInv
<1>10. Live(shown[nav[3].row]) /\ shown[nav[3].row] \in Emergencies
  BY <1>8, <1>9 DEF Live, Types
<1>11. CASE End("open write")
  BY <1>11, EndUi
<1>12. CASE /\ RemoveResponse(nav[3].response, shown[nav[3].row]) /\ Reload
            /\ nav' = Front(nav) /\ moving' = TRUE
            /\ queue' = Forget(queue, Len(nav)) /\ alerts' = Forget(Front(alerts), Len(nav))
            /\ UNCHANGED ended
  <2>1. Types(db') = Types(db) /\ pc' = "commit" /\ UNCHANGED <<now, lastReset>>
    BY <1>7, <1>10, <1>12, TypesAfter DEF StoreInv, TypeOK, RemoveResponse, Write
  <2>2. AlertsOK' /\ Quiet(queue') /\ Quiet(alerts')
    BY <1>2, <1>12, LeavesQuiet
  <2>3. shown' \in Seq(Emergencies) /\ shown' \in [1 .. Cardinality(Types(db')) -> Types(db')]
    BY <1>12, <2>1, ReloadFacts
  <2> QED BY <1>3, <1>12, <2>1, <2>2, <2>3, PopUi
<1>13. AlertOwner # 0 /\ nav[AlertOwner] = nav[3]
  BY <1>3
<1> QED BY <1>7, <1>9, <1>10, <1>11, <1>12, <1>13, Zenon DEF ConfirmDeleteResponse, Call

(* Answers on the points screen.                                           *)
LEMMA PointsPresses ==
    ASSUME UiInv, ConfirmReset \/ ConfirmClear \/ \E p \in ManualPoints : ConfirmAddPoints(p)
    PROVE  UiInv'
<1>1. PICK kind \in {"confirm reset", "confirm clear", "add points"} : Pressed(kind)
  BY DEF ConfirmReset, ConfirmClear, ConfirmAddPoints
<1>2. /\ Fits(Last(alerts)) /\ Last(alerts).kind = kind /\ ~moving
      /\ Quiet(queue) /\ queue \in Seq(AlertRec)
      /\ Front(alerts) \in Seq(AlertRec) /\ Quiet(Front(alerts))
  BY <1>1, Answered
<1>3. OnPoints
  BY <1>2 DEF Fits, PointsKinds
<1>4. Dismiss /\ UNCHANGED <<nav, moving, shown, queue, ended>>
  BY DEF ConfirmReset, ConfirmClear, ConfirmAddPoints
<1>5. AlertsOK' /\ Quiet(queue') /\ Quiet(alerts')
  BY <1>2, <1>4 DEF AlertsOK, Dismiss
<1>6. shown' \in Seq(Emergencies)
  BY <1>4, UiParts
<1> QED BY <1>2, <1>3, <1>4, <1>5, <1>6, PointsUi

-----------------------------------------------------------------------------
(* The main loop *)

LEMMA CommitSteps ==
    ASSUME UiInv, Commits \/ CommitFails
    PROVE  UiInv'
<1>1. /\ UNCHANGED <<nav, moving, shown, alerts, ended, db, now, lastReset>> /\ pc' = "idle"
  BY DEF Commits, CommitFails, CommitWrite, CommitWriteFails, UiUnchanged, uiVars
<1>2. Types(db') = Types(db) /\ AlertInv /\ AlertsOK
  BY <1>1, UiParts
<1>3. ClearInv'
  BY <1>1, NoClear
<1>4. CASE Commits
  <2>1. UNCHANGED queue
    BY <1>4 DEF Commits, UiUnchanged, uiVars
  <2>2. AlertInv' /\ AlertsOK'
    BY <1>1, <1>2, <2>1, SameAlerts DEF AlertsOK
  <2> QED BY <1>1, <1>3, <2>2, StayUi
<1>5. CASE CommitFails
  <2>1. queue' = Append(queue, Message)
    BY <1>5 DEF CommitFails
  <2>2. Message \in AlertRec /\ Message.kind = "message"
    BY DepthNat DEF Message, Alert, AlertRec, AlertKinds
  <2>3. PICK m \in AlertRec : m = Message /\ m.kind = "message"
    BY <2>2
  <2>4. AlertInv'
    BY <1>1, <1>2, <2>1, <2>3, MessageAlerts DEF AlertsOK
  <2>5. AlertsOK'
    BY <1>1, <1>2, <2>1, <2>3, AppendFacts DEF AlertsOK
  <2> QED BY <1>1, <1>3, <2>4, <2>5, StayUi
<1> QED BY <1>4, <1>5

LEMMA ClearSteps ==
    ASSUME UiInv, ClearProceeds \/ ClearRaises \/ ClearCommits \/ ClearFails
    PROVE  UiInv'
<1>1. CASE ClearRaises
  BY <1>1, EndUi DEF ClearRaises
<1>2. CASE ClearProceeds \/ ClearCommits \/ ClearFails
  <2>1. pc \notin {"idle", "commit"}
    BY <1>2 DEF ClearProceeds, ClearCommits, ClearFails, ClearPointsDate, ClearAllDate, ClearAllRealm,
                ClearAllCommit, ClearAllFails
  <2>2. OnPoints /\ ~moving /\ Quiet(queue) /\ Quiet(alerts) /\ AlertsOK
    BY <2>1, UiParts DEF ClearInv
  <2>3. UNCHANGED <<nav, moving, alerts, ended>>
    BY <1>2 DEF ClearProceeds, ClearCommits, ClearFails, UiUnchanged, uiVars
  <2>4. shown' \in Seq(Emergencies)
    <3>1. CASE ClearCommits
      BY <3>1, ReloadFacts DEF ClearCommits, ClearAllCommit
    <3>2. CASE ClearProceeds \/ ClearFails
      BY <3>2, UiParts DEF ClearProceeds, ClearFails, UiUnchanged, uiVars
    <3> QED BY <1>2, <3>1, <3>2
  <2>5. AlertsOK' /\ Quiet(queue') /\ Quiet(alerts')
    <3>1. queue' = queue \/ queue' = Append(queue, Message)
      BY <1>2 DEF ClearProceeds, ClearCommits, ClearFails, UiUnchanged, uiVars
    <3>2. Message \in AlertRec /\ Message.kind = "message"
      BY DepthNat DEF Message, Alert, AlertRec, AlertKinds
    <3>3. queue \in Seq(AlertRec) /\ alerts \in Seq(AlertRec)
      BY <2>2 DEF AlertsOK
    <3>4. Append(queue, Message) \in Seq(AlertRec) /\ Quiet(Append(queue, Message))
      BY <2>2, <3>2, <3>3, QuietFacts, AppendFacts
    <3>5. queue' \in Seq(AlertRec) /\ Quiet(queue')
      BY <2>2, <3>1, <3>3, <3>4
    <3> QED BY <2>2, <2>3, <3>3, <3>5 DEF AlertsOK
  <2> QED BY <2>2, <2>3, <2>4, <2>5, PointsUi
<1> QED BY <1>1, <1>2

(* A presentation that reaches the screen, or that UIKit refuses.          *)
LEMMA PresentedAlerts ==
    ASSUME AlertInv, queue \in Seq(AlertRec), alerts \in Seq(AlertRec), queue # << >>,
           UNCHANGED <<nav, moving>>, Types(db') = Types(db), queue' = Tail(queue),
           alerts' = Append(alerts, Head(queue)) \/ alerts' = alerts
    PROVE  AlertInv'
<1>1. /\ DOMAIN queue' = 1 .. Len(queue) - 1 /\ DOMAIN queue = 1 .. Len(queue)
      /\ Len(queue) \in Nat \ {0} /\ Head(queue) = queue[1] /\ Head(queue) \in AlertRec
      /\ \A i \in 1 .. Len(queue) - 1 : queue'[i] = queue[i + 1]
  BY TailFacts
<1>2. /\ DOMAIN Append(alerts, Head(queue)) = 1 .. Len(alerts) + 1 /\ DOMAIN alerts = 1 .. Len(alerts)
      /\ Append(alerts, Head(queue))[Len(alerts) + 1] = queue[1] /\ Len(alerts) \in Nat
      /\ \A i \in 1 .. Len(alerts) : Append(alerts, Head(queue))[i] = alerts[i]
  BY <1>1, AppendFacts
<1>3. Quiet(queue) => Quiet(queue') /\ Head(queue).kind = "message"
  BY <1>1, QuietFacts DEF Quiet
<1>4. Quiet(alerts) /\ Head(queue).kind = "message" => Quiet(alerts')
  BY <1>1, QuietFacts
<1>5. CASE Quiet(queue) /\ Quiet(alerts)
  BY <1>3, <1>4, <1>5, QuietAlerts
<1>6. CASE OneAsks(queue) /\ Quiet(alerts)
  <2>1. PICK k \in DOMAIN queue : Fits(queue[k]) /\ \A i \in DOMAIN queue \ {k} : queue[i].kind = "message"
    BY <1>6 DEF OneAsks
  <2>2. CASE k = 1
    <3>1. Quiet(queue')
      BY <1>1, <2>1, <2>2 DEF Quiet
    <3>2. CASE alerts' = alerts
      BY <1>6, <3>1, <3>2, QuietAlerts
    <3>3. CASE alerts' = Append(alerts, Head(queue))
      <4>1. PICK n \in DOMAIN alerts' : /\ alerts'[n] = queue[1]
                                        /\ \A i \in DOMAIN alerts' \ {n} : alerts'[i].kind = "message"
        <5>1. Len(alerts) + 1 \in DOMAIN alerts' /\ alerts'[Len(alerts) + 1] = queue[1]
          BY <1>2, <3>3
        <5>2. \A i \in DOMAIN alerts' \ {Len(alerts) + 1} : alerts'[i].kind = "message"
          BY <1>2, <1>6, <3>3 DEF Quiet
        <5> QED BY <5>1, <5>2
      <4>2. OneAsks(alerts)'
        BY <2>1, <2>2, <4>1 DEF OneAsks, Fits, OnPoints, Live
      <4> QED BY <3>1, <4>2 DEF AlertInv, Quiet
    <3> QED BY <3>2, <3>3
  <2>3. CASE k # 1
    <3>1. PICK n \in DOMAIN queue' : /\ queue'[n] = queue[k]
                                     /\ \A i \in DOMAIN queue' \ {n} : queue'[i].kind = "message"
      <4>1. k - 1 \in DOMAIN queue' /\ queue'[k - 1] = queue[k]
        BY <1>1, <2>1, <2>3
      <4>2. \A i \in DOMAIN queue' \ {k - 1} : queue'[i].kind = "message"
        BY <1>1, <2>1, <2>3
      <4> QED BY <4>1, <4>2
    <3>2. OneAsks(queue)'
      BY <2>1, <3>1 DEF OneAsks, Fits, OnPoints, Live
    <3>3. Quiet(alerts')
      BY <1>1, <1>4, <1>6, <2>1, <2>3
    <3> QED BY <3>2, <3>3 DEF AlertInv, Quiet
  <2> QED BY <2>2, <2>3
<1>7. CASE Quiet(queue) /\ OneAsks(alerts)
  <2>1. PICK k \in DOMAIN alerts : Fits(alerts[k]) /\ \A i \in DOMAIN alerts \ {k} : alerts[i].kind = "message"
    BY <1>7 DEF OneAsks
  <2>2. k \in DOMAIN alerts' /\ alerts'[k] = alerts[k]
    BY <1>2, <2>1
  <2>3. \A i \in DOMAIN alerts' \ {k} : alerts'[i].kind = "message"
    <3>1. CASE alerts' = alerts
      BY <2>1, <3>1
    <3>2. CASE alerts' = Append(alerts, Head(queue))
      <4>1. Head(queue).kind = "message"
        BY <1>3, <1>7
      <4>2. /\ DOMAIN alerts' = DOMAIN alerts \cup {Len(alerts) + 1}
            /\ alerts'[Len(alerts) + 1] = Head(queue)
            /\ \A i \in DOMAIN alerts : alerts'[i] = alerts[i]
        BY <1>2, <3>2
      <4> QED BY <2>1, <4>1, <4>2
    <3> QED BY <1>1, <3>1, <3>2
  <2>4. OneAsks(alerts)'
    BY <2>1, <2>2, <2>3 DEF OneAsks, Fits, OnPoints, Live
  <2> QED BY <1>3, <1>7, <2>4 DEF AlertInv, Quiet
<1> QED BY <1>5, <1>6, <1>7 DEF AlertInv

LEMMA PresentStep ==
    ASSUME UiInv, Present
    PROVE  UiInv'
<1>1. /\ UNCHANGED <<nav, moving, shown, db, now, lastReset, pc, ended>> /\ pc = "idle"
      /\ queue # << >> /\ queue' = Tail(queue)
      /\ alerts' = Append(alerts, Head(queue)) \/ alerts' = alerts
  BY DEF Present, Idle, vars
<1>2. queue \in Seq(AlertRec) /\ alerts \in Seq(AlertRec) /\ AlertInv /\ Types(db') = Types(db)
  BY <1>1, UiParts DEF AlertsOK
<1>3. AlertInv'
  BY <1>1, <1>2, PresentedAlerts
<1>4. AlertsOK'
  BY <1>1, <1>2, TailFacts, AppendFacts DEF AlertsOK
<1>5. ClearInv'
  BY <1>1, NoClear
<1> QED BY <1>1, <1>3, <1>4, <1>5, StayUi

(* The screen that settles finds what it reads, and only notes how many    *)
(* rows it lists.                                                          *)
LEMMA SettleFinds ==
    ASSUME StoreInv, UiInv
    PROVE  /\ Top = nav[Len(nav)] /\ Len(nav) \in 1 .. 3
           /\ Top.screen \in {"details", "response"} => Len(nav) # 1 /\ Live(Top.of)
           /\ Top.screen = "response" => Top.response \in Rows(db) \cup {NoResponse}
           /\ Top.screen = "types" => Len(nav) = 1
           /\ Top.screen = "details" => Len(nav) = 2
           /\ Len(nav) = 1 => Top.screen = "types"
<1>1. NavOK /\ NavShape /\ NavLive
  BY UiParts DEF NavInv
<1>2. Top = nav[Len(nav)] /\ Len(nav) \in 1 .. 3
  BY <1>1, FrontFacts DEF Top, NavOK, NavShape
<1>3. CASE Len(nav) = 1
  BY <1>1, <1>2, <1>3 DEF NavShape, TypesScreen
<1>4. CASE Len(nav) = 2
  BY <1>1, <1>2, <1>4 DEF NavShape, NavLive, OnPoints
<1>5. CASE Len(nav) = 3
  <2>1. Live(nav[2].of) /\ nav[3].of = nav[2].of /\ nav[3].screen = "response"
        /\ nav[3].response \in Linked(db, nav[3].of)
    BY <1>1, <1>5 DEF NavShape, NavLive, OnPoints
  <2>2. Top = nav[3]
    BY <1>2, <1>5
  <2>3. Live(nav[3].of)
    BY <2>1
  <2>4. nav[3].response \in Rows(db)
    BY <2>1, <2>3, LinkedHasRow
  <2> QED BY <1>2, <1>5, <2>1, <2>2, <2>3, <2>4
<1> QED BY <1>2, <1>3, <1>4, <1>5

LEMMA SettleStep ==
    ASSUME StoreInv, UiInv, Settle
    PROVE  UiInv'
<1>1. moving /\ pc = "idle"
  BY DEF Settle, Idle
<1>2. /\ moving' = FALSE /\ UNCHANGED <<vars, queue, alerts, ended>>
      /\ IF Top.screen = "types" THEN Reload ELSE UNCHANGED shown
      /\ nav' = IF Top.screen = "details" /\ Top.rows = "unloaded"
                THEN [nav EXCEPT ![Len(nav)].rows =
                        IF Linked(db, Top.of) = {} THEN "empty" ELSE "responses"]
                ELSE nav
  BY SettleFinds, Zenon DEF Settle
<1>3. NavOK /\ NavShape /\ NavLive /\ ListInv /\ AlertInv /\ AlertsOK /\ shown \in Seq(Emergencies)
  BY UiParts DEF NavInv
<1>4. UNCHANGED <<db, now, lastReset, pc, queue, alerts, ended>> /\ ~moving' /\ moving' \in BOOLEAN
  BY <1>2 DEF vars
<1>5. Quiet(queue) /\ Quiet(alerts)
  BY <1>1, <1>3 DEF AlertInv, OneAsks, Fits
<1>6. AlertInv' /\ AlertsOK' /\ ClearInv'
  <2>1. Quiet(queue') /\ Quiet(alerts')
    BY <1>4, <1>5
  <2> QED BY <1>1, <1>3, <1>4, <2>1, QuietAlerts, NoClear DEF AlertsOK
<1>7. /\ nav' \in Seq(ScreenRec) /\ Len(nav') = Len(nav) /\ nav'[1] = TypesScreen
      /\ \A i \in 1 .. Len(nav) :
            /\ nav'[i].screen = nav[i].screen /\ nav'[i].of = nav[i].of
            /\ nav'[i].response = nav[i].response /\ nav'[i].row = nav[i].row
  <2>1. CASE nav' = nav
    BY <1>3, <2>1 DEF NavOK, NavShape
  <2>2. CASE Top.screen = "details" /\ Top.rows = "unloaded"
    <3>1. Len(nav) = 2 /\ nav \in Seq(ScreenRec) /\ nav[1] = TypesScreen
      BY <1>3, <2>2, SettleFinds DEF NavOK, NavShape
    <3>2. PICK rows \in {"empty", "responses"} : nav' = [nav EXCEPT ![2].rows = rows]
      BY <1>2, <2>2, <3>1
    <3>3. nav[1] \in ScreenRec /\ nav[2] \in ScreenRec /\ DOMAIN nav = 1 .. 2
      BY <3>1
    <3>4. [nav[2] EXCEPT !.rows = rows] \in ScreenRec
      BY <3>2, <3>3 DEF ScreenRec
    <3>5. nav' = [nav EXCEPT ![2] = [nav[2] EXCEPT !.rows = rows]]
      BY <3>2
    <3>6. nav' \in Seq(ScreenRec) /\ Len(nav') = 2 /\ nav'[1] = nav[1]
          /\ nav'[2] = [nav[2] EXCEPT !.rows = rows]
      BY <3>1, <3>4, <3>5, SecondReplaced
    <3>7. /\ nav'[2].screen = nav[2].screen /\ nav'[2].of = nav[2].of
          /\ nav'[2].response = nav[2].response /\ nav'[2].row = nav[2].row
      BY <3>3, <3>6 DEF ScreenRec
    <3>8. \A i \in 1 .. Len(nav) : i = 1 \/ i = 2
      BY <3>1
    <3> QED BY <3>1, <3>6, <3>7, <3>8
  <2> QED BY <1>2, <2>1, <2>2
<1>8. NavOK'
  BY <1>3, <1>7 DEF NavOK, NavShape
<1>9. Len(nav) = 1 => shown' \in Listings(db)' /\ shown' \in [1 .. Cardinality(Types(db')) -> Types(db')]
  BY <1>2, <1>4, SettleFinds, ReloadFacts
<1>10. Len(nav) # 1 => shown' = shown
  BY <1>2, SettleFinds
<1>11. shown' \in Seq(Emergencies)
  BY <1>2, <1>3, <1>4, ReloadFacts
<1>12. NavShape'
  BY <1>3, <1>7 DEF NavShape
<1>13. NavLive'
  BY <1>3, <1>4, <1>7, <1>12 DEF NavShape, NavLive, OnPoints, Live
<1>14. ListInv'
  <2>1. CASE Len(nav) = 1
    BY <1>7, <1>9, <2>1 DEF ListInv, OnPoints
  <2>2. CASE Len(nav) # 1
    BY <1>3, <1>4, <1>7, <1>10, <2>2 DEF ListInv, OnPoints
  <2> QED BY <2>1, <2>2
<1> QED BY <1>3, <1>4, <1>6, <1>8, <1>11, <1>12, <1>13, <1>14, UiParts, UiPartsNext DEF NavInv, EndedOK

LEMMA OpenedStep ==
    ASSUME UiInv, Opened
    PROVE  UiInv'
<1>1. UNCHANGED <<nav, moving, shown, queue, alerts, ended, db, now, lastReset, pc>>
  BY DEF Opened, Launch, UiUnchanged, uiVars
<1>2. AlertInv /\ AlertsOK /\ ClearInv
  BY UiParts
<1>3. AlertInv' /\ AlertsOK'
  BY <1>1, <1>2, SameAlerts DEF AlertsOK
<1>4. ClearInv'
  BY <1>1, <1>2 DEF ClearInv, OnPoints, Quiet
<1> QED BY <1>1, <1>3, <1>4, StayUi

LEMMA StutterUi ==
    ASSUME UiInv, UNCHANGED appVars
    PROVE  UiInv'
<1>1. UNCHANGED <<nav, moving, shown, queue, alerts, ended, db, now, lastReset, pc>>
  BY DEF appVars, uiVars, vars
<1>2. AlertInv /\ AlertsOK /\ ClearInv
  BY UiParts
<1>3. AlertInv' /\ AlertsOK'
  BY <1>1, <1>2, SameAlerts DEF AlertsOK
<1>4. ClearInv'
  BY <1>1, <1>2 DEF ClearInv, OnPoints, Quiet
<1> QED BY <1>1, <1>3, <1>4, StayUi

-----------------------------------------------------------------------------
(* Every step of the app is a step of the store, or leaves it alone.       *)

LEMMA EndIsStoreStep ==
    ASSUME NEW why, End(why), alive
    PROVE  [Next]_vars
BY DEF End, Next, World, Crash

LEMMA TouchesAreStoreSteps ==
    ASSUME StoreInv, Touches
    PROVE  [Next]_vars
<1>1. Touch /\ alive
  BY DEF Touches, OnResponded, SelectType, OnAddCall, OnShowPoints, OnDeleteType, OnEditType,
         SelectResponse, Back, OnSaveChanged, OnSaveNew, OnDeleteResponse, OnAddPoints,
         OnExportData, OnResetSettings, OnScreen, Touch, Idle
<1>2. CASE \/ \E row \in 1 .. Cardinality(Emergencies) : OnResponded(row) \/ SelectType(row)
           \/ OnAddCall \/ OnShowPoints \/ OnDeleteType \/ OnEditType \/ SelectResponse
           \/ Back \/ OnDeleteResponse \/ OnAddPoints \/ OnExportData \/ OnResetSettings
  BY <1>1, <1>2, EndIsStoreStep
     DEF OnResponded, SelectType, OnAddCall, OnShowPoints, OnDeleteType, OnEditType,
         SelectResponse, Back, OnDeleteResponse, OnAddPoints, OnExportData, OnResetSettings,
         StoreUntouched
<1>3. ASSUME NEW d \in Instants, OnSaveChanged(d)
      PROVE  [Next]_vars
  <2>1. CASE UpdateResponse(Top.response, d)
    BY <2>1 DEF Next, Operation, UpdateResponse, Rows
  <2> QED BY <1>1, <1>3, <2>1, EndIsStoreStep DEF OnSaveChanged, Call
<1>4. ASSUME NEW d \in Instants, NEW r \in Responses, OnSaveNew(r, d)
      PROVE  [Next]_vars
  <2>1. CASE AddResponse(r, Top.of, d)
    BY <2>1 DEF Next, Operation, AddResponse, Types
  <2> QED BY <1>1, <1>4, <2>1, EndIsStoreStep DEF OnSaveNew, Call
<1> QED BY <1>2, <1>3, <1>4 DEF Touches

LEMMA PressesAreStoreSteps ==
    ASSUME StoreInv, Presses
    PROVE  [Next]_vars
<1>1. alive
  BY DEF Presses, Cancel, ConfirmResponded, PressDetails, PressDone, EmptyTypeName, ConfirmRename,
         ConfirmAddType, ConfirmDeleteType, ConfirmDeleteResponse, ConfirmAddPoints, ChooseReset,
         ConfirmReset, ConfirmClear, Pressed, Idle
<1>2. CASE \/ Cancel \/ ConfirmResponded \/ PressDetails \/ EmptyTypeName
           \/ \E kind \in {"confirm reset", "confirm clear"} : ChooseReset(kind)
  BY <1>1, <1>2, EndIsStoreStep
     DEF Cancel, ConfirmResponded, PressDetails, EmptyTypeName, ChooseReset, OnlyDismissed
<1>3. ASSUME NEW r \in Responses, PressDone(r)
      PROVE  [Next]_vars
  <2>1. CASE AddResponse(r, Of, now)
    BY <2>1 DEF Next, Operation, AddResponse, Types, StoreInv, TypeOK
  <2> QED BY <1>1, <1>3, <2>1, EndIsStoreStep DEF PressDone, Call
<1>4. ASSUME NEW name \in Names, ConfirmRename(name)
      PROVE  [Next]_vars
  <2>1. CASE UpdateEmergency(Of, name)
    BY <2>1 DEF Next, Operation, UpdateEmergency, Types
  <2> QED BY <1>1, <1>4, <2>1, EndIsStoreStep DEF ConfirmRename, Call
<1>5. ASSUME NEW name \in Names, NEW e \in Emergencies, ConfirmAddType(e, name)
      PROVE  [Next]_vars
  <2>1. CASE AddEmergency(e, name)
    BY <2>1 DEF Next, Operation
  <2> QED BY <1>1, <1>5, <2>1, EndIsStoreStep DEF ConfirmAddType, Call
<1>6. CASE ConfirmDeleteType
  <2>1. CASE RemoveEmergency(Of)
    BY <2>1 DEF Next, Operation, RemoveEmergency, Types
  <2> QED BY <1>1, <1>6, <2>1, EndIsStoreStep DEF ConfirmDeleteType, Call
<1>7. CASE ConfirmDeleteResponse
  <2>1. CASE RemoveResponse(nav[AlertOwner].response, shown[nav[AlertOwner].row])
    BY <2>1 DEF Next, Operation, RemoveResponse, Types, Rows
  <2> QED BY <1>1, <1>7, <2>1, EndIsStoreStep DEF ConfirmDeleteResponse, Call, OnlyDismissed
<1>8. CASE ConfirmReset \/ ConfirmClear \/ \E p \in ManualPoints : ConfirmAddPoints(p)
  BY <1>8 DEF ConfirmReset, ConfirmClear, ConfirmAddPoints, Next, Operation
<1> QED BY <1>2, <1>3, <1>4, <1>5, <1>6, <1>7, <1>8 DEF Presses

LEMMA AppStepIsStoreStep ==
    ASSUME StoreInv, [AppNext]_appVars
    PROVE  [Next]_vars
<1>1. CASE MainLoop
  <2>1. pc # "idle" => alive
    BY DEF StoreInv, OpenWrite
  <2>2. CASE Commits \/ CommitFails \/ ClearProceeds \/ ClearCommits \/ ClearFails
    BY <2>2 DEF Commits, CommitFails, ClearProceeds, ClearCommits, ClearFails, Next, Step
  <2>3. CASE ClearRaises
    BY <2>1, <2>3, EndIsStoreStep DEF ClearRaises
  <2>4. CASE Present \/ Settle
    BY <2>4, EndIsStoreStep DEF Present, Settle, Idle
  <2> QED BY <1>1, <2>2, <2>3, <2>4 DEF MainLoop
<1>2. CASE Killed
  BY <1>2, EndIsStoreStep DEF Killed
<1>3. CASE Opened
  BY <1>3 DEF Opened, Next, World
<1>4. CASE UNCHANGED appVars
  BY <1>4 DEF appVars
<1> QED BY <1>1, <1>2, <1>3, <1>4, TouchesAreStoreSteps, PressesAreStoreSteps DEF AppNext

LEMMA ScreensStep ==
    ASSUME TouchWindow = FALSE
    PROVE  ScreensInv /\ [AppNext]_appVars => ScreensInv'
<1> SUFFICES ASSUME StoreInv, UiInv, [AppNext]_appVars
             PROVE  StoreInv' /\ UiInv'
  BY DEF ScreensInv
<1>1. StoreInv'
  BY AppStepIsStoreStep, StepInv
<1>2. CASE Touches
  BY <1>1, <1>2, TypesTouches, DetailsTouches, PointsTouches, BackTouch, ResponseTouches DEF Touches
<1>3. CASE Presses
  BY <1>1, <1>3, CancelPress, NextAlertPresses, DetailsPresses, AddTypePress, RenamePress,
     DeleteTypePress, DeleteResponsePress, PointsPresses DEF Presses
<1>4. CASE MainLoop
  BY <1>1, <1>4, CommitSteps, ClearSteps, PresentStep, SettleStep DEF MainLoop
<1>5. CASE Killed
  BY <1>1, <1>5, EndUi DEF Killed
<1>6. CASE Opened
  BY <1>1, <1>6, OpenedStep
<1>7. CASE UNCHANGED appVars
  BY <1>1, <1>7, StutterUi
<1> QED BY <1>1, <1>2, <1>3, <1>4, <1>5, <1>6, <1>7 DEF AppNext

-----------------------------------------------------------------------------
(* Whatever the user touches, presses and interrupts, the screens use the  *)
(* store as its specification allows: what is proved of it holds in the    *)
(* app, also when a touch comes between a request and its alert.           *)
THEOREM AppUsesStore == AppSpec => Spec
<1>1. AppInit => Init
  BY DEF AppInit
<1>2. StoreInv /\ [AppNext]_appVars => [Next]_vars /\ StoreInv'
  BY AppStepIsStoreStep, StepInv
<1>3. Init => StoreInv
  BY InitInv
<1> QED BY <1>1, <1>2, <1>3, PTL DEF AppSpec, Spec

(* What the screens keep true of themselves and of the store, in every     *)
(* state: the stack, the list, the alerts and the confirmation of a clear. *)
THEOREM ScreensInvariant ==
    ASSUME TouchWindow = FALSE
    PROVE  AppSpec => []ScreensInv
<1>1. AppInit => ScreensInv
  BY InitUi, InitInv DEF AppInit, ScreensInv
<1>2. ScreensInv /\ [AppNext]_appVars => ScreensInv'
  BY ScreensStep
<1> QED BY <1>1, <1>2, PTL DEF AppSpec

(* Every variable always has its type, and the list of types is the root.  *)
THEOREM ScreensTypeCorrect ==
    ASSUME TouchWindow = FALSE
    PROVE  AppSpec => []ScreensTypeOK
<1>1. ScreensInv => ScreensTypeOK
  BY DEF ScreensInv, UiInv
<1> QED BY <1>1, ScreensInvariant, PTL

(* No handler, callback or row number uses what has been deleted meanwhile.*)
THEOREM NothingInvalidUsed ==
    ASSUME TouchWindow = FALSE
    PROVE  AppSpec => []NoInvalidAccess
<1>1. ScreensInv => NoInvalidAccess
  BY DEF ScreensInv, UiInv
<1> QED BY <1>1, ScreensInvariant, PTL

(* The list of types, settled, is the store's in the order of the month.   *)
THEOREM ListStaysFresh ==
    ASSUME TouchWindow = FALSE
    PROVE  AppSpec => []ListFresh
<1>1. ScreensInv => ListFresh
  <2> SUFFICES ASSUME ScreensInv, ~moving, Top.screen = "types" PROVE shown \in Listings(db)
    BY DEF ListFresh
  <2>1. Len(nav) = 1
    BY SettleFinds DEF ScreensInv
  <2>2. ListInv
    BY UiParts DEF ScreensInv, NavInv
  <2> QED BY <2>1, <2>2 DEF ListInv
<1> QED BY <1>1, ScreensInvariant, PTL

(* A screen that can be touched shows a type, and a response of that type, *)
(* that the store still has.                                               *)
THEOREM WhatIsShownIsThere ==
    ASSUME TouchWindow = FALSE
    PROVE  AppSpec => []ScreensShowLive
<1>1. ScreensInv => ScreensShowLive
  <2> SUFFICES ASSUME ScreensInv, NEW i \in DOMAIN nav
               PROVE  /\ nav[i].screen \in {"details", "response"} => Live(nav[i].of)
                      /\ nav[i].response # NoResponse => nav[i].response \in Linked(db, nav[i].of)
    BY DEF ScreensShowLive
  <2>1. NavShape /\ NavLive /\ NavOK
    BY UiParts DEF ScreensInv, NavInv
  <2>2. i \in 1 .. Len(nav) /\ Len(nav) \in 1 .. 3
    BY <2>1 DEF NavOK, NavShape
  <2>3. CASE i = 1
    BY <2>1, <2>3 DEF NavShape, TypesScreen
  <2>4. CASE i = 2
    BY <2>1, <2>2, <2>4 DEF NavShape, NavLive, OnPoints
  <2>5. CASE i = 3
    <3>1. Len(nav) = 3
      BY <2>2, <2>5
    <3> QED BY <2>1, <2>5, <3>1 DEF NavShape, NavLive, OnPoints
  <2> QED BY <2>2, <2>3, <2>4, <2>5
<1> QED BY <1>1, ScreensInvariant, PTL

=============================================================================
