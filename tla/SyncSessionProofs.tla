------------------------- MODULE SyncSessionProofs -------------------------
(***************************************************************************)
(* Proofs about the sessions for any number of sessions, threads, waiters  *)
(* and operations: their types, the session of the map, and that no        *)
(* completion callback is called twice, dropped but from the list of a     *)
(* session that was let go of or resynced, or, before any client resync,   *)
(* left with no wait operation that will call it.                          *)
(***************************************************************************)
EXTENDS SyncSession, SequenceTheorems, TLAPS

Session == [state : {"unborn", "inactive", "waiting", "active", "dying"},
            policy : StopPolicies \cup {"Immediately"}, session : BOOLEAN,
            close : BOOLEAN, deaths : Nat, resyncs : Nat, queue : SUBSET Waiters]

-----------------------------------------------------------------------------
(* What the threads have yet to do *)

TodoTyped == todo \in [Threads -> Seq(Steps)]

(* A thread leaves the step it is at, if any, and has more to do first.    *)
Rest(q) == IF q = << >> THEN << >> ELSE Tail(q)
Advance(t, more) == todo' = [todo EXCEPT ![t] = more \o Rest(todo[t])]

LEMMA RestTyped ==
    ASSUME NEW q \in Seq(Steps)
    PROVE  /\ Rest(q) \in Seq(Steps)
           /\ Len(Rest(q)) = IF q = << >> THEN 0 ELSE Len(q) - 1
           /\ \A i \in 1 .. Len(Rest(q)) : i + 1 \in 1 .. Len(q) /\ Rest(q)[i] = q[i + 1]
<1>1. CASE q = << >>
  BY <1>1, EmptySeq DEF Rest
<1>2. CASE q # << >>
  BY <1>2, HeadTailProperties DEF Rest
<1> QED BY <1>1, <1>2

(* Each step a thread then has to do is a new one or one it had, later     *)
(* than the step it has left.                                              *)
LEMMA AdvancePlaces ==
    ASSUME TodoTyped, NEW t \in Threads, NEW more \in Seq(Steps), Advance(t, more)
    PROVE  /\ TodoTyped'
           /\ \A u \in Threads \ {t} : todo'[u] = todo[u]
           /\ \A i \in 1 .. Len(todo'[t]) :
                 \/ i \in 1 .. Len(more) /\ todo'[t][i] = more[i]
                 \/ /\ i > Len(more)
                    /\ i - Len(more) + 1 \in 2 .. Len(todo[t])
                    /\ todo'[t][i] = todo[t][i - Len(more) + 1]
<1> DEFINE r == Rest(todo[t])
<1>1. todo[t] \in Seq(Steps)
  BY DEF TodoTyped
<1>2. /\ r \in Seq(Steps)
      /\ \A i \in 1 .. Len(r) : i + 1 \in 2 .. Len(todo[t]) /\ r[i] = todo[t][i + 1]
  BY <1>1, RestTyped
<1>3. todo' = [todo EXCEPT ![t] = more \o r]
  BY DEF Advance
<1> HIDE DEF r
<1>4. /\ more \o r \in Seq(Steps) /\ Len(more \o r) = Len(more) + Len(r)
      /\ \A i \in 1 .. Len(more) + Len(r) :
            (more \o r)[i] = IF i <= Len(more) THEN more[i] ELSE r[i - Len(more)]
  BY <1>2, ConcatProperties
<1>5. todo'[t] = more \o r /\ \A u \in Threads \ {t} : todo'[u] = todo[u]
  BY <1>3 DEF TodoTyped
<1>6. TodoTyped'
  BY <1>3, <1>4 DEF TodoTyped
<1>7. Len(more) \in Nat /\ Len(r) \in Nat
  BY <1>2
<1>8. ASSUME NEW i \in 1 .. Len(todo'[t])
      PROVE  \/ i \in 1 .. Len(more) /\ todo'[t][i] = more[i]
             \/ /\ i > Len(more)
                /\ i - Len(more) + 1 \in 2 .. Len(todo[t])
                /\ todo'[t][i] = todo[t][i - Len(more) + 1]
  <2>1. CASE i <= Len(more)
    BY <1>4, <1>5, <1>7, <2>1
  <2>2. CASE i > Len(more)
    <3>1. i - Len(more) \in 1 .. Len(r) /\ todo'[t][i] = r[i - Len(more)]
      BY <1>4, <1>5, <1>7, <2>2
    <3>2. r[i - Len(more)] = todo[t][i - Len(more) + 1] /\ i - Len(more) + 1 \in 2 .. Len(todo[t])
      BY <1>2, <3>1
    <3> QED BY <2>2, <3>1, <3>2
  <2> QED BY <1>7, <2>1, <2>2
<1> QED BY <1>5, <1>6, <1>8

(* At most one of the steps to do is one of those in P.                     *)
AtMostOne(P) ==
    \A t, u \in Threads : \A i \in 1 .. Len(todo[t]), j \in 1 .. Len(todo[u]) :
       todo[t][i] \in P /\ todo[u][j] \in P => t = u /\ i = j

(* A step of a kind there is at most one of may be done, or become another *)
(* one of that kind, or be added when there is none.                       *)
LEMMA StillAtMostOne ==
    ASSUME TodoTyped, NEW t \in Threads, NEW more \in Seq(Steps), Advance(t, more),
           NEW P, AtMostOne(P),
           \A i, j \in 1 .. Len(more) : more[i] \in P /\ more[j] \in P => i = j,
           \/ \A i \in 1 .. Len(more) : more[i] \notin P
           \/ todo[t] # << >> /\ Head(todo[t]) \in P
           \/ \A u \in Threads : \A i \in 1 .. Len(todo[u]) : todo[u][i] \notin P
    PROVE  AtMostOne(P)'
<1> DEFINE Old(i) == i > Len(more) /\ i - Len(more) + 1 \in 2 .. Len(todo[t])
                     /\ todo'[t][i] = todo[t][i - Len(more) + 1]
           Added(i) == i \in 1 .. Len(more) /\ todo'[t][i] = more[i]
<1>1. /\ \A u \in Threads \ {t} : todo'[u] = todo[u]
      /\ \A i \in 1 .. Len(todo'[t]) : Added(i) \/ Old(i)
  BY AdvancePlaces
<1>2. \A u \in Threads : Len(todo[u]) \in Nat
  BY DEF TodoTyped
<1>3. Len(more) \in Nat
  OBVIOUS
<1>4. todo[t] # << >> => 1 \in 1 .. Len(todo[t]) /\ todo[t][1] = Head(todo[t])
  BY DEF TodoTyped
<1>5. ASSUME NEW i \in 1 .. Len(todo'[t]), Added(i), todo'[t][i] \in P,
             NEW u \in Threads, NEW j \in 1 .. Len(todo[u]), todo[u][j] \in P,
             u # t \/ j # 1
      PROVE  FALSE
  <2>1. more[i] \in P
    BY <1>5
  <2>2. CASE todo[t] # << >> /\ Head(todo[t]) \in P
    BY <1>4, <1>5, <2>2 DEF AtMostOne
  <2> QED BY <1>5, <2>1, <2>2
<1> SUFFICES ASSUME NEW u \in Threads, NEW v \in Threads,
                    NEW i \in 1 .. Len(todo'[u]), NEW j \in 1 .. Len(todo'[v]),
                    todo'[u][i] \in P, todo'[v][j] \in P
             PROVE  u = v /\ i = j
  BY DEF AtMostOne
<1>6. CASE u # t /\ v # t
  BY <1>1, <1>6 DEF AtMostOne
<1>7. CASE u = t /\ v = t
  <2>1. CASE Old(i) /\ Old(j)
    <3> DEFINE x == i - Len(more) + 1
               y == j - Len(more) + 1
    <3>1. x \in 1 .. Len(todo[t]) /\ y \in 1 .. Len(todo[t])
      BY <1>2, <2>1
    <3>2. todo[t][x] \in P /\ todo[t][y] \in P
      BY <1>7, <2>1
    <3>3. x = y
      BY <3>1, <3>2 DEF AtMostOne
    <3>4. i \in Int /\ j \in Int
      OBVIOUS
    <3> QED BY <1>3, <1>7, <3>3, <3>4
  <2>2. CASE Added(i) /\ Added(j)
    BY <1>7, <2>2
  <2>3. CASE Added(i) /\ Old(j)
    BY <1>2, <1>3, <1>5, <1>7, <2>3
  <2>4. CASE Old(i) /\ Added(j)
    BY <1>2, <1>3, <1>5, <1>7, <2>4
  <2> QED BY <1>1, <1>7, <2>1, <2>2, <2>3, <2>4
<1>8. CASE u = t /\ v # t
  <2>1. j \in 1 .. Len(todo[v]) /\ todo[v][j] \in P
    BY <1>1, <1>8
  <2>2. CASE Old(i)
    BY <1>2, <1>3, <1>8, <2>1, <2>2 DEF AtMostOne
  <2>3. CASE Added(i)
    BY <1>5, <1>8, <2>1, <2>3
  <2> QED BY <1>1, <1>8, <2>2, <2>3
<1>9. CASE u # t /\ v = t
  <2>1. i \in 1 .. Len(todo[u]) /\ todo[u][i] \in P
    BY <1>1, <1>9
  <2>2. CASE Old(j)
    BY <1>2, <1>3, <1>9, <2>1, <2>2 DEF AtMostOne
  <2>3. CASE Added(j)
    BY <1>5, <1>9, <2>1, <2>3
  <2> QED BY <1>1, <1>9, <2>2, <2>3
<1> QED BY <1>6, <1>7, <1>8, <1>9

(* What a step leaves a thread to do, whether it was idle or not.          *)
LEMMA BeginAdvances ==
    ASSUME TypeOK, NEW t \in Threads, NEW steps \in Seq(Steps), Begin(t, steps)
    PROVE  Advance(t, steps) /\ TodoTyped' /\ running' \in BOOLEAN /\ left' \in 0 .. MaxOperations
<1>1. TodoTyped /\ Rest(todo[t]) = << >>
  BY DEF TypeOK, TodoTyped, Begin, Rest
<1>2. steps \o << >> = steps
  BY ConcatEmptySeq
<1>3. Advance(t, steps)
  BY <1>1, <1>2 DEF Begin, Advance
<1>4. TodoTyped'
  BY <1>1, <1>3, AdvancePlaces
<1>5. running' \in BOOLEAN /\ left' \in 0 .. MaxOperations
  BY SyncSessionAssumption DEF TypeOK, Begin
<1> QED BY <1>3, <1>4, <1>5

LEMMA GoesAdvances ==
    ASSUME TypeOK, NEW t \in Threads, NEW more \in Seq(Steps), todo[t] # << >>, Goes(t, more)
    PROVE  Advance(t, more) /\ TodoTyped' /\ running' \in BOOLEAN
<1>1. TodoTyped /\ Rest(todo[t]) = Tail(todo[t])
  BY DEF TypeOK, TodoTyped, Rest
<1>2. Advance(t, more)
  BY <1>1 DEF Goes, Advance
<1>3. TodoTyped'
  BY <1>1, <1>2, AdvancePlaces
<1> QED BY <1>2, <1>3 DEF TypeOK, Goes

(* The steps that a thread takes while it holds m_session_mutex.           *)
Holding == {x \in Steps : x.do \in {"take_reference", "unlock_map", "end_look"}}
(* The steps that carry no waiters and are not taken with the mutex held.  *)
Plain == {x \in Steps : x.with = {} /\ x \notin Holding}

PlainNames == {"register", "unregister", "did_drop", "log_out", "park", "revive", "bind", "update",
               "invalidate"}
ErrorNames == {"handle_error", "apply_error"}

LEMMA DoPlain ==
    /\ \A o \in Sessions : \A name \in PlainNames : Do(name, o) \in Plain
    /\ \A o \in Sessions, k \in ErrorKinds : \A name \in ErrorNames : Error(name, o, k) \in Plain
<1>1. ASSUME NEW o \in Sessions, NEW name \in PlainNames
      PROVE  Do(name, o) \in Plain
  BY DEF Do, Plain, Holding, Steps, PlainNames
<1>2. ASSUME NEW o \in Sessions, NEW k \in ErrorKinds, NEW name \in ErrorNames
      PROVE  Error(name, o, k) \in Plain
  <2>1. Error(name, o, k) = [do |-> name, of |-> o, with |-> {}, kind |-> k]
    BY DEF Error, Do
  <2>2. [do |-> name, of |-> o, with |-> {}, kind |-> k] \in Steps
    BY DEF Steps, ErrorNames
  <2> QED BY <2>1, <2>2 DEF Plain, Holding, ErrorNames
<1> QED BY <1>1, <1>2

LEMMA DoHolding ==
    \A o \in Sessions : \A name \in {"take_reference", "unlock_map", "end_look"} :
       /\ Do(name, o) \in Holding /\ Do(name, o) \in Steps
       /\ Do(name, o).with = {} /\ Do(name, o).of = o /\ Do(name, o).do = name
BY DEF Do, Holding, Steps

LEMMA DoCarrying ==
    ASSUME NEW o \in Sessions, NEW W \in SUBSET Waiters
    PROVE  /\ CallEach(o, W) \in Steps \ Holding /\ CallEach(o, W).with = W
           /\ Restore(o, W) \in Steps \ Holding /\ Restore(o, W).with = W
BY DEF CallEach, Restore, Do, Holding, Steps

LEMMA PlainLists ==
    /\ << >> \in Seq(Plain) /\ << >> \in Seq(Steps)
    /\ \A x \in Plain : <<x>> \in Seq(Plain)
    /\ \A x \in Steps : <<x>> \in Seq(Steps)
    /\ \A x, y \in Plain : <<x, y>> \in Seq(Plain)
    /\ \A x, y \in Steps : <<x, y>> \in Seq(Steps)
    /\ \A x, y, z \in Steps : <<x, y, z>> \in Seq(Steps)
    /\ Seq(Plain) \subseteq Seq(Steps)
    /\ Plain \subseteq Steps
<1>1. Plain \subseteq Steps
  BY DEF Plain
<1>2. Seq(Plain) \subseteq Seq(Steps)
  BY <1>1, SeqMonotonic
<1> QED BY <1>1, <1>2

-----------------------------------------------------------------------------
(* Types *)

WaitOperation == [of : Sessions, kind : Directions \cup {"dying"}, mark : Nat]

LEMMA SessionTyped ==
    ASSUME TypeOK, NEW o \in Sessions
    PROVE  /\ s[o] \in Session
           /\ ToInactive(o) \in Session /\ ToWaiting(o) \in Session
           /\ ToActive(o) \in Session /\ ToDying(o) \in Session
           /\ [ToInactive(o) EXCEPT !.resyncs = @ + 1] \in Session
           /\ [s[o] EXCEPT !.close = TRUE] \in Session
           /\ [s[o] EXCEPT !.close = FALSE] \in Session
           /\ \A p \in StopPolicies : [s[o] EXCEPT !.policy = p] \in Session
           /\ \A p \in StopPolicies : [s[o] EXCEPT !.state = "inactive", !.policy = p] \in Session
           /\ \A W \in SUBSET Waiters : [s[o] EXCEPT !.queue = W] \in Session
           /\ \A W \in SUBSET Waiters : TakenOffList(o, W) \in Session
<1>1. s[o] \in Session
  BY DEF TypeOK, Session
<1>2. /\ ToInactive(o) \in Session /\ ToWaiting(o) \in Session
      /\ ToActive(o) \in Session
  BY <1>1 DEF Session, ToInactive, ToWaiting, ToActive
<1>4. ToDying(o) \in Session
  <2>1. \A x \in Session, n \in Nat :
           [x EXCEPT !.state = "dying", !.session = TRUE, !.deaths = n] \in Session
    BY DEF Session
  <2>2. s[o].deaths + 1 \in Nat
    BY <1>1 DEF Session
  <2> QED BY <1>1, <2>1, <2>2 DEF ToDying
<1>5. \A x \in Session : [x EXCEPT !.resyncs = @ + 1] \in Session
  BY DEF Session
<1>3. /\ [s[o] EXCEPT !.close = TRUE] \in Session
      /\ [s[o] EXCEPT !.close = FALSE] \in Session
      /\ \A p \in StopPolicies : [s[o] EXCEPT !.policy = p] \in Session
      /\ \A p \in StopPolicies : [s[o] EXCEPT !.state = "inactive", !.policy = p] \in Session
      /\ \A W \in SUBSET Waiters : [s[o] EXCEPT !.queue = W] \in Session
      /\ \A W \in SUBSET Waiters : TakenOffList(o, W) \in Session
  BY <1>1 DEF Session, TakenOffList
<1> QED BY <1>1, <1>2, <1>3, <1>4, <1>5

LEMMA WaitTyped ==
    ASSUME TypeOK, NEW o \in Sessions
    PROVE  ActiveWaits(o) \subseteq WaitOperation /\ DyingWait(o) \in WaitOperation
<1>1. s[o].resyncs \in Nat /\ s[o].deaths \in Nat
  BY DEF TypeOK
<1> QED BY <1>1 DEF ActiveWaits, DyingWait, Wait, WaitOperation, Waiting

LEMMA AfterInactiveTyped ==
    ASSUME TypeOK, NEW o \in Sessions
    PROVE  /\ AfterInactive(o) \in Seq(Steps)
           /\ AfterInactive(o) \o <<Do("update", o)>>
                = <<Do("unregister", o), CallEach(o, s[o].queue), Do("update", o)>>
           /\ AfterInactive(o) \o <<Do("update", o)>> \in Seq(Steps)
<1>1. s[o].queue \in SUBSET Waiters
  BY DEF TypeOK
<1>2. /\ Do("unregister", o) \in Steps /\ Do("update", o) \in Steps
      /\ CallEach(o, s[o].queue) \in Steps
  BY <1>1, DoPlain, DoCarrying DEF Plain, PlainNames
<1>3. ASSUME NEW x \in Steps, NEW y \in Steps, NEW z \in Steps
      PROVE  <<x, y>> \o <<z>> = <<x, y, z>>
  <2> DEFINE a == <<x, y>>
             b == <<z>>
             c == <<x, y, z>>
  <2>1. /\ a \in Seq(Steps) /\ Len(a) = 2 /\ a[1] = x /\ a[2] = y
        /\ b \in Seq(Steps) /\ Len(b) = 1 /\ b[1] = z
        /\ c \in Seq(Steps) /\ Len(c) = 3 /\ c[1] = x /\ c[2] = y /\ c[3] = z
    OBVIOUS
  <2> HIDE DEF a, b, c
  <2>5. /\ a \o b \in Seq(Steps) /\ Len(a \o b) = Len(a) + Len(b)
        /\ \A i \in 1 .. Len(a) + Len(b) :
              (a \o b)[i] = IF i <= Len(a) THEN a[i] ELSE b[i - Len(a)]
    BY <2>1, ConcatProperties
  <2>2. /\ Len(a \o b) = 3
        /\ \A i \in 1 .. 3 : (a \o b)[i] = IF i <= 2 THEN a[i] ELSE b[i - 2]
    BY <2>1, <2>5
  <2>3. \A i \in 1 .. 3 : (a \o b)[i] = c[i]
    BY <2>1, <2>2
  <2>4. a \o b = c
    BY <2>1, <2>2, <2>3, <2>5, SeqEqual
  <2> QED BY <2>4 DEF a, b, c
<1>4. AfterInactive(o) = <<Do("unregister", o), CallEach(o, s[o].queue)>>
  BY DEF AfterInactive
<1> HIDE DEF AfterInactive
<1>5. /\ AfterInactive(o) \in Seq(Steps)
      /\ AfterInactive(o) \o <<Do("update", o)>>
           = <<Do("unregister", o), CallEach(o, s[o].queue), Do("update", o)>>
  BY <1>2, <1>3, <1>4, PlainLists
<1> QED BY <1>2, <1>5, PlainLists

(* The parts of the type invariant.                                        *)
SessionsTyped == s \in [Sessions -> Session]
TablesTyped ==
    /\ entry \in Sessions \cup {None}
    /\ refs \in [Sessions -> SUBSET (Threads \cup {App})]
    /\ user \in [state : {"Active", "LoggedOut", "Error"},
                 sessions : Sessions \cup {None}, waiting : Sessions \cup {None}]
    /\ lock \in [{"map", "user"} -> Threads \cup {None}]
OthersTyped ==
    /\ asks \subseteq Sessions /\ waits \subseteq WaitOperation
    /\ calls \in [Waiters -> Nat] /\ waiters \subseteq Waiters
ProcessTyped == TodoTyped /\ running \in BOOLEAN /\ left \in 0 .. MaxOperations

LEMMA TypeOKParts == TypeOK <=> SessionsTyped /\ TablesTyped /\ OthersTyped /\ ProcessTyped
BY DEF TypeOK, SessionsTyped, TablesTyped, OthersTyped, ProcessTyped, Session, WaitOperation, TodoTyped

LEMMA TypeOKPartsNext == TypeOK' <=> SessionsTyped' /\ TablesTyped' /\ OthersTyped' /\ ProcessTyped'
BY DEF TypeOK, SessionsTyped, TablesTyped, OthersTyped, ProcessTyped, Session, WaitOperation, TodoTyped

LEMMA BecomesTyped ==
    ASSUME TypeOK, NEW o \in Sessions, NEW r \in Session, Becomes(o, r)
    PROVE  SessionsTyped'
BY TypeOKParts DEF SessionsTyped, Becomes

LEMMA TypeOKInit == Init => TypeOK
<1> SUFFICES ASSUME Init PROVE TypeOK
  OBVIOUS
<1>1. SessionsTyped
  <2>1. Fresh \in Session
    BY DEF Fresh, Session
  <2> QED BY <2>1 DEF Init, SessionsTyped
<1>2. TablesTyped
  BY DEF Init, TablesTyped
<1>3. OthersTyped
  BY DEF Init, OthersTyped
<1>4. ProcessTyped
  BY EmptySeq, SyncSessionAssumption DEF Init, ProcessTyped, TodoTyped
<1> QED BY <1>1, <1>2, <1>3, <1>4, TypeOKParts

(* A thread that goes on, or begins, with typed steps and leaves typed     *)
(* sessions and tables keeps the types.                                    *)
LEMMA TypedStep ==
    ASSUME TypeOK, NEW t \in Threads, NEW more \in Seq(Steps),
           \/ todo[t] # << >> /\ Goes(t, more) /\ UNCHANGED left
           \/ Begin(t, more)
    PROVE  ProcessTyped'
BY TypeOKParts, BeginAdvances, GoesAdvances DEF ProcessTyped

LEMMA AtFacts ==
    ASSUME TypeOK, NEW t \in Threads, NEW o, NEW name, At(t, name, o)
    PROVE  /\ todo[t] # << >> /\ UNCHANGED left /\ Head(todo[t]) \in Steps
           /\ Head(todo[t]).do = name /\ Head(todo[t]).of = o /\ o \in Sessions
           /\ Head(todo[t]).with \in SUBSET Waiters /\ running
<1>1. todo[t] # << >> /\ UNCHANGED left /\ Head(todo[t]).do = name /\ Head(todo[t]).of = o /\ running
  BY DEF At
<1>2. Head(todo[t]) \in Steps
  BY <1>1, HeadTailProperties DEF TypeOK
<1> QED BY <1>1, <1>2 DEF Steps

LEMMA PlainSteps ==
    ASSUME NEW o \in Sessions
    PROVE  /\ \A name \in PlainNames : <<Do(name, o)>> \in Seq(Plain) /\ <<Do(name, o)>> \in Seq(Steps)
           /\ \A a, b \in PlainNames : <<Do(a, o), Do(b, o)>> \in Seq(Plain)
                                       /\ <<Do(a, o), Do(b, o)>> \in Seq(Steps)
           /\ << >> \in Seq(Plain) /\ << >> \in Seq(Steps)
<1>1. \A name \in PlainNames : Do(name, o) \in Plain /\ Do(name, o) \in Steps
  BY DoPlain, PlainLists
<1> QED BY <1>1, PlainLists

(* What each operation of the manager and the user leaves to do: plain     *)
(* steps, unless it takes or gives back m_session_mutex.                   *)
LEMMA GetSessionLists ==
    ASSUME NEW o \in Sessions
    PROVE  /\ <<Do("register", o), Do("take_reference", o)>> \in Seq(Steps)
           /\ <<Do("end_look", o)>> \in Seq(Steps)
           /\ <<Do("unlock_map", o)>> \in Seq(Steps)
           /\ <<Do("did_drop", o), Do("unlock_map", o)>> \in Seq(Steps)
<1>1. Do("register", o) \in Steps /\ Do("did_drop", o) \in Steps
  BY DoPlain, PlainLists DEF PlainNames
<1>2. Do("take_reference", o) \in Steps /\ Do("end_look", o) \in Steps /\ Do("unlock_map", o) \in Steps
  BY DoHolding
<1> QED BY <1>1, <1>2, PlainLists

LEMMA GetSessionTyped ==
    ASSUME TypeOK, NEW t \in Threads, GetSession(t)
    PROVE  TypeOK'
<1> USE TypeOKParts, TypeOKPartsNext DEF OthersTyped, answers
<1>1. lock' \in [{"map", "user"} -> Threads \cup {None}]
  BY DEF GetSession, TablesTyped
<1>2. CASE entry # None
  <2>1. entry \in Sessions
    BY <1>2 DEF TablesTyped
  <2>2. CASE Begin(t, <<Do("register", entry), Do("take_reference", entry)>>) /\ UNCHANGED <<s, entry, refs>>
    <3>1. ProcessTyped'
      BY <2>1, <2>2, GetSessionLists, TypedStep
    <3> QED BY <1>1, <2>2, <3>1 DEF GetSession, SessionsTyped, TablesTyped
  <2> QED BY <1>2, <2>2 DEF GetSession
<1>3. CASE entry = None
  <2>1. PICK o \in Sessions, p \in StopPolicies :
           /\ Becomes(o, [s[o] EXCEPT !.state = "inactive", !.policy = p])
           /\ entry' = o /\ refs' = [refs EXCEPT ![o] = {t}]
           /\ Begin(t, <<Do("register", o), Do("take_reference", o)>>)
    BY <1>3 DEF GetSession
  <2>2. ProcessTyped'
    BY <2>1, GetSessionLists, TypedStep
  <2>3. SessionsTyped'
    BY <2>1, SessionTyped, BecomesTyped
  <2>4. TablesTyped'
    BY <1>1, <2>1 DEF GetSession, TablesTyped
  <2> QED BY <2>2, <2>3, <2>4 DEF GetSession
<1> QED BY <1>2, <1>3

LEMMA ManagerTyped ==
    ASSUME TypeOK, NEW t \in Threads, NEW o \in Sessions,
           \/ TakeReference(t, o) \/ UnlockMap(t, o) \/ Unregister(t, o) \/ EndLook(t, o)
    PROVE  TypeOK'
<1> USE TypeOKParts, TypeOKPartsNext DEF OthersTyped, answers
<1>1. CASE TakeReference(t, o)
  <2>1. ProcessTyped'
    BY <1>1, AtFacts, PlainLists, TypedStep DEF TakeReference
  <2> QED BY <1>1, <2>1 DEF TakeReference, SessionsTyped, TablesTyped
<1>2. CASE UnlockMap(t, o)
  <2>1. ProcessTyped'
    BY <1>2, AtFacts, PlainLists, TypedStep DEF UnlockMap
  <2> QED BY <1>2, <2>1 DEF UnlockMap, SessionsTyped, TablesTyped
<1>3. CASE Unregister(t, o)
  <2>0. At(t, "unregister", o) /\ todo[t] # << >> /\ UNCHANGED <<left, s, user, asks, waits, calls, waiters>>
    BY <1>3, AtFacts DEF Unregister
  <2>1. CASE AssertFails
    <3>1. ProcessTyped'
      BY <2>0, <2>1 DEF AssertFails, ProcessTyped, TodoTyped
    <3> QED BY <2>0, <2>1, <3>1 DEF AssertFails, SessionsTyped, TablesTyped
  <2>2. CASE entry' = None /\ Goes(t, << >>) /\ UNCHANGED <<refs, lock>>
    <3>1. ProcessTyped'
      BY <2>0, <2>2, PlainLists, TypedStep
    <3> QED BY <2>0, <2>2, <3>1 DEF SessionsTyped, TablesTyped
  <2>3. CASE /\ entry # None
             /\ refs' = [refs EXCEPT ![entry] = @ \cup {t}]
             /\ lock' = [lock EXCEPT !["map"] = t]
             /\ Goes(t, <<Do("end_look", entry)>>) /\ UNCHANGED entry
    <3>1. entry \in Sessions
      BY <2>3 DEF TablesTyped
    <3>2. ProcessTyped'
      BY <2>0, <2>3, <3>1, GetSessionLists, TypedStep
    <3> QED BY <2>0, <2>3, <3>1, <3>2 DEF SessionsTyped, TablesTyped
  <2> QED BY <1>3, <2>1, <2>2, <2>3 DEF Unregister
<1>4. CASE EndLook(t, o)
  <2> DEFINE more == (IF refs[o] = {t} THEN <<Do("did_drop", o)>> ELSE << >>) \o <<Do("unlock_map", o)>>
  <2>1. more \in Seq(Steps)
    <3>1. Do("did_drop", o) \in Steps /\ Do("unlock_map", o) \in Steps
      BY DoPlain, DoHolding, PlainLists DEF PlainNames
    <3>2. <<Do("did_drop", o)>> \in Seq(Steps) /\ <<Do("unlock_map", o)>> \in Seq(Steps) /\ << >> \in Seq(Steps)
      BY <3>1, PlainLists
    <3> QED BY <3>2, ConcatProperties
  <2>2. Goes(t, more)
    BY <1>4 DEF EndLook
  <2> HIDE DEF more
  <2>3. ProcessTyped'
    BY <1>4, <2>1, <2>2, AtFacts, TypedStep DEF EndLook
  <2> QED BY <1>4, <2>3 DEF EndLook, SessionsTyped, TablesTyped
<1> QED BY <1>1, <1>2, <1>3, <1>4

-----------------------------------------------------------------------------
(* What the other operations do to waiters, and to the map: a calm one     *)
(* leaves the waiters where they are, a moving one takes some of those of  *)
(* one session into one step, and neither has to do with the map.          *)

Bare == {x \in Steps : x.with = {}}
Leaves(t, S) == \E more \in Seq(S) : Advance(t, more)
SameQueues == \A p \in Sessions : s'[p].queue = s[p].queue

Calm(t) == Leaves(t, Bare) /\ SameQueues /\ UNCHANGED <<calls, waiters>>

OneCarries(more, W) ==
    /\ \A i \in 1 .. Len(more) : more[i].with \in {{}, W}
    /\ \A i, j \in 1 .. Len(more) : more[i].with # {} /\ more[j].with # {} => i = j
    /\ \E i \in 1 .. Len(more) : more[i].with = W
Moves(t, o, W) ==
    /\ \E more \in Seq(Steps) : Advance(t, more) /\ OneCarries(more, W)
    /\ W \subseteq s[o].queue
    /\ \A p \in Sessions : s'[p].queue = IF p = o THEN s[p].queue \ W ELSE s[p].queue
    /\ UNCHANGED <<calls, waiters>>

OffMap(t) ==
    /\ Leaves(t, Steps \ Holding)
    /\ UNCHANGED entry /\ lock'["map"] = lock["map"]
    /\ \A p \in Sessions : refs'[p] # {} => refs[p] # {} \/ p = entry

LEMMA PlainAdvance ==
    ASSUME TypeOK, NEW t \in Threads, NEW more \in Seq(Plain),
           \/ todo[t] # << >> /\ Goes(t, more) /\ UNCHANGED left
           \/ Begin(t, more)
    PROVE  ProcessTyped' /\ Leaves(t, Bare) /\ Leaves(t, Steps \ Holding)
<1>1. more \in Seq(Steps) /\ more \in Seq(Bare) /\ more \in Seq(Steps \ Holding)
  <2>1. Plain \subseteq Bare /\ Plain \subseteq Steps \ Holding /\ Plain \subseteq Steps
    BY DEF Plain, Bare
  <2> QED BY <2>1, SeqMonotonic
<1>2. ProcessTyped'
  BY <1>1, TypedStep
<1>3. Advance(t, more)
  BY <1>1, BeginAdvances, GoesAdvances
<1> QED BY <1>1, <1>2, <1>3 DEF Leaves

(* An idle thread that is given nothing to do.                             *)
LEMMA StayingIdle ==
    ASSUME TypeOK, NEW t \in Threads, todo[t] = << >>, UNCHANGED <<todo, running, left>>
    PROVE  ProcessTyped' /\ Leaves(t, Bare) /\ Leaves(t, Steps \ Holding)
<1>1. << >> \o Rest(todo[t]) = << >>
  BY EmptySeq, ConcatEmptySeq DEF Rest
<1>2. Advance(t, << >>)
  BY <1>1, TypeOKParts DEF Advance, ProcessTyped, TodoTyped
<1>3. ProcessTyped'
  BY TypeOKParts DEF ProcessTyped, TodoTyped
<1> QED BY <1>2, <1>3, EmptySeq DEF Leaves

LEMMA QueuesKept ==
    ASSUME TypeOK, NEW o \in Sessions, NEW r \in Session, r.queue = s[o].queue, Becomes(o, r)
    PROVE  SessionsTyped' /\ SameQueues
<1>1. SessionsTyped'
  BY BecomesTyped
<1> QED BY <1>1, TypeOKParts DEF SameQueues, Becomes, SessionsTyped

LEMMA QueueSame ==
    ASSUME TypeOK, NEW o \in Sessions
    PROVE  /\ ToWaiting(o).queue = s[o].queue /\ ToActive(o).queue = s[o].queue
           /\ ToDying(o).queue = s[o].queue
           /\ [s[o] EXCEPT !.close = TRUE].queue = s[o].queue
           /\ [s[o] EXCEPT !.close = FALSE].queue = s[o].queue
           /\ \A p \in StopPolicies : [s[o] EXCEPT !.policy = p].queue = s[o].queue
<1>1. s[o] \in Session
  BY SessionTyped
<1> QED BY <1>1 DEF Session, ToWaiting, ToActive, ToDying

LEMMA UserCalm ==
    ASSUME TypeOK, NEW t \in Threads, NEW o \in Sessions,
           Register(t, o) \/ Park(t, o) \/ Invalidate(t, o) \/ Bind(t, o)
    PROVE  TypeOK' /\ Calm(t) /\ OffMap(t)
<1> USE TypeOKParts, TypeOKPartsNext DEF OthersTyped, answers, tables
<1>1. CASE Register(t, o)
  <2>1. /\ todo[t] # << >> /\ UNCHANGED left
        /\ Goes(t, IF user.state = "Active" THEN <<Do("revive", o)>> ELSE << >>)
    BY <1>1, AtFacts DEF Register
  <2>2. (IF user.state = "Active" THEN <<Do("revive", o)>> ELSE << >>) \in Seq(Plain)
    BY PlainSteps DEF PlainNames
  <2>3. ProcessTyped' /\ Leaves(t, Bare) /\ Leaves(t, Steps \ Holding)
    BY <2>1, <2>2, PlainAdvance
  <2> QED BY <1>1, <2>3 DEF Register, SessionsTyped, TablesTyped, Calm, OffMap, SameQueues
<1>2. CASE Park(t, o)
  <2>1. ProcessTyped' /\ Leaves(t, Bare) /\ Leaves(t, Steps \ Holding)
    BY <1>2, AtFacts, PlainSteps, PlainAdvance DEF Park
  <2> QED BY <1>2, <2>1 DEF Park, SessionsTyped, TablesTyped, Calm, OffMap, SameQueues
<1>3. CASE Invalidate(t, o)
  <2>1. ProcessTyped' /\ Leaves(t, Bare) /\ Leaves(t, Steps \ Holding)
    BY <1>3, AtFacts, PlainSteps, PlainAdvance DEF Invalidate
  <2> QED BY <1>3, <2>1 DEF Invalidate, SessionsTyped, TablesTyped, Calm, OffMap, SameQueues
<1>4. CASE Bind(t, o)
  <2>1. ProcessTyped' /\ Leaves(t, Bare) /\ Leaves(t, Steps \ Holding)
    BY <1>4, AtFacts, PlainSteps, PlainAdvance DEF Bind
  <2> QED BY <1>4, <2>1 DEF Bind, SessionsTyped, TablesTyped, Calm, OffMap, SameQueues
<1> QED BY <1>1, <1>2, <1>3, <1>4

LEMMA CallsCalm ==
    ASSUME TypeOK, NEW t \in Threads,
           GetExistingSession(t) \/ Reconnect(t) \/ LogOut(t) \/ LogIn(t)
    PROVE  TypeOK' /\ Calm(t) /\ OffMap(t)
<1> USE TypeOKParts, TypeOKPartsNext DEF OthersTyped, answers, tables
<1>1. CASE GetExistingSession(t)
  <2>1. ProcessTyped' /\ Leaves(t, Bare) /\ Leaves(t, Steps \ Holding)
    BY <1>1, EmptySeq, PlainAdvance DEF GetExistingSession
  <2> QED BY <1>1, <2>1 DEF GetExistingSession, SessionsTyped, TablesTyped, Calm, OffMap, SameQueues
<1>2. CASE Reconnect(t)
  <2>1. ProcessTyped' /\ Leaves(t, Bare) /\ Leaves(t, Steps \ Holding)
    BY <1>2, EmptySeq, PlainAdvance DEF Reconnect
  <2> QED BY <1>2, <2>1 DEF Reconnect, SessionsTyped, TablesTyped, Calm, OffMap, SameQueues
<1>3. CASE LogOut(t)
  <2>1. UNCHANGED <<s, entry, refs, asks, waits, calls, waiters>>
    BY <1>3 DEF LogOut
  <2>2. CASE user.sessions # None /\ Exists(user.sessions)
    <3>1. user.sessions \in Sessions
      BY <2>2 DEF TablesTyped
    <3>2. ProcessTyped' /\ Leaves(t, Bare) /\ Leaves(t, Steps \ Holding)
      BY <1>3, <2>2, <3>1, PlainSteps, PlainAdvance DEF LogOut, PlainNames
    <3> QED BY <1>3, <2>1, <2>2, <3>2 DEF LogOut, SessionsTyped, TablesTyped, Calm, OffMap, SameQueues
  <2>3. CASE ~(user.sessions # None /\ Exists(user.sessions))
    <3>1. ProcessTyped' /\ Leaves(t, Bare) /\ Leaves(t, Steps \ Holding)
      BY <1>3, <2>3, EmptySeq, PlainAdvance DEF LogOut
    <3> QED BY <1>3, <2>1, <2>3, <3>1 DEF LogOut, SessionsTyped, TablesTyped, Calm, OffMap, SameQueues
  <2> QED BY <2>2, <2>3
<1>4. CASE LogIn(t)
  <2>1. UNCHANGED <<s, entry, refs, lock, asks, waits, calls, waiters>>
    BY <1>4 DEF LogIn
  <2>2. CASE user.waiting # None /\ Exists(user.waiting)
    <3>1. user.waiting \in Sessions
      BY <2>2 DEF TablesTyped
    <3>2. ProcessTyped' /\ Leaves(t, Bare) /\ Leaves(t, Steps \ Holding)
      BY <1>4, <2>2, <3>1, PlainSteps, PlainAdvance DEF LogIn, PlainNames
    <3> QED BY <1>4, <2>1, <2>2, <3>2 DEF LogIn, SessionsTyped, TablesTyped, Calm, OffMap, SameQueues
  <2>3. CASE ~(user.waiting # None /\ Exists(user.waiting))
    <3>1. ProcessTyped' /\ Leaves(t, Bare) /\ Leaves(t, Steps \ Holding)
      BY <1>4, <2>3, EmptySeq, PlainAdvance DEF LogIn
    <3> QED BY <1>4, <2>1, <2>3, <3>1 DEF LogIn, SessionsTyped, TablesTyped, Calm, OffMap, SameQueues
  <2> QED BY <2>2, <2>3
<1> QED BY <1>1, <1>2, <1>3, <1>4

LEMMA ReviveCalm ==
    ASSUME TypeOK, NEW t \in Threads, NEW o \in Sessions, ReviveIfNeeded(t, o)
    PROVE  TypeOK' /\ Calm(t) /\ OffMap(t)
<1> USE TypeOKParts, TypeOKPartsNext DEF OthersTyped, answers, tables
<1>1. /\ todo[t] # << >> /\ UNCHANGED <<left, entry, refs, user, lock, asks, calls, waiters>>
  BY AtFacts DEF ReviveIfNeeded
<1>2. /\ Goes(t, << >>) \/ Goes(t, <<Do("bind", o)>>)
      /\ UNCHANGED s \/ \E r \in Session : r.queue = s[o].queue /\ Becomes(o, r)
      /\ waits' \in {waits, waits \cup ActiveWaits(o)}
  BY SessionTyped, QueueSame DEF ReviveIfNeeded
<1>3. ProcessTyped' /\ Leaves(t, Bare) /\ Leaves(t, Steps \ Holding)
  BY <1>1, <1>2, PlainSteps, PlainAdvance DEF PlainNames
<1>4. SessionsTyped' /\ SameQueues
  BY <1>2, QueuesKept DEF SessionsTyped, SameQueues
<1>5. waits' \subseteq WaitOperation
  BY <1>2, WaitTyped
<1> QED BY <1>1, <1>3, <1>4, <1>5 DEF TablesTyped, Calm, OffMap

LEMMA TokenCalm ==
    ASSUME TypeOK, NEW t \in Threads, NEW o \in Sessions,
           RefreshAccessToken(t, o) \/ TokenFails(t, o)
    PROVE  TypeOK' /\ Calm(t) /\ OffMap(t)
<1> USE TypeOKParts, TypeOKPartsNext DEF OthersTyped, answers, tables
<1>1. CASE RefreshAccessToken(t, o)
  <2>1. /\ todo[t] = << >> /\ asks' = asks \ {o}
        /\ UNCHANGED <<todo, running, left, entry, refs, user, lock, calls, waiters>>
    BY <1>1 DEF RefreshAccessToken
  <2>2. /\ UNCHANGED s \/ \E r \in Session : r.queue = s[o].queue /\ Becomes(o, r)
        /\ waits' \in {waits, waits \cup ActiveWaits(o), waits \cup ActiveWaits(o) \cup {DyingWait(o)}}
    BY <1>1, SessionTyped, QueueSame DEF RefreshAccessToken
  <2>3. ProcessTyped' /\ Leaves(t, Bare) /\ Leaves(t, Steps \ Holding)
    BY <2>1, StayingIdle
  <2>4. SessionsTyped' /\ SameQueues
    BY <2>2, QueuesKept DEF SessionsTyped, SameQueues
  <2>5. waits' \subseteq WaitOperation
    BY <2>2, WaitTyped
  <2> QED BY <2>1, <2>3, <2>4, <2>5 DEF TablesTyped, Calm, OffMap
<1>2. CASE TokenFails(t, o)
  <2>1. PICK steps \in {<< >>, <<Do("log_out", o)>>} : todo' = [todo EXCEPT ![t] = steps]
    BY <1>2 DEF TokenFails
  <2>2. /\ todo[t] = << >> /\ asks' = asks \ {o}
        /\ UNCHANGED <<s, running, left, entry, refs, user, lock, waits, calls, waiters>>
    BY <1>2 DEF TokenFails
  <2>3. steps \in Seq(Plain) /\ steps \in Seq(Steps) /\ steps \in Seq(Bare) /\ steps \in Seq(Steps \ Holding)
    <3>1. steps \in Seq(Plain) /\ steps \in Seq(Steps)
      BY PlainSteps DEF PlainNames
    <3>2. Plain \subseteq Bare /\ Plain \subseteq Steps \ Holding
      BY DEF Plain, Bare
    <3> QED BY <3>1, <3>2, SeqMonotonic
  <2>4. steps \o Rest(todo[t]) = steps
    BY <2>2, <2>3, ConcatEmptySeq DEF Rest
  <2>5. Advance(t, steps)
    BY <2>1, <2>4 DEF Advance
  <2>6. ProcessTyped'
    BY <2>2, <2>3, <2>5, AdvancePlaces DEF ProcessTyped
  <2> QED BY <2>2, <2>3, <2>5, <2>6 DEF SessionsTyped, TablesTyped, Calm, OffMap, SameQueues, Leaves
<1> QED BY <1>1, <1>2

LEMMA SessionCallsCalm ==
    ASSUME TypeOK, NEW t \in Threads, NEW o \in Sessions,
           LogOutSession(t, o) \/ DropReference(t, o) \/ BeginUpdate(t, o)
    PROVE  TypeOK' /\ Calm(t) /\ OffMap(t)
<1> USE TypeOKParts, TypeOKPartsNext DEF OthersTyped, answers, tables
<1>1. CASE LogOutSession(t, o)
  <2>1. ProcessTyped' /\ Leaves(t, Bare) /\ Leaves(t, Steps \ Holding)
    BY <1>1, PlainSteps, PlainAdvance DEF LogOutSession, PlainNames
  <2> QED BY <1>1, <2>1 DEF LogOutSession, SessionsTyped, TablesTyped, Calm, OffMap, SameQueues
<1>2. CASE DropReference(t, o)
  <2>1. (IF refs[o] = {App} THEN <<Do("did_drop", o)>> ELSE << >>) \in Seq(Plain)
    BY PlainSteps DEF PlainNames
  <2>2. ProcessTyped' /\ Leaves(t, Bare) /\ Leaves(t, Steps \ Holding)
    BY <1>2, <2>1, PlainAdvance DEF DropReference
  <2> QED BY <1>2, <2>2 DEF DropReference, SessionsTyped, TablesTyped, Calm, OffMap, SameQueues
<1>3. CASE BeginUpdate(t, o)
  <2>1. ProcessTyped' /\ Leaves(t, Bare) /\ Leaves(t, Steps \ Holding)
    BY <1>3, PlainSteps, PlainAdvance DEF BeginUpdate, PlainNames
  <2> QED BY <1>3, <2>1 DEF BeginUpdate, SessionsTyped, TablesTyped, Calm, OffMap, SameQueues
<1> QED BY <1>1, <1>2, <1>3

LEMMA ReportCalm ==
    ASSUME TypeOK, NEW o \in Sessions, NEW k \in ErrorKinds, ReportError(o, k)
    PROVE  TypeOK' /\ Calm(Client) /\ OffMap(Client)
<1> USE TypeOKParts, TypeOKPartsNext DEF OthersTyped, answers, tables
<1>1. <<Error("handle_error", o, k)>> \in Seq(Plain)
  BY DoPlain, PlainLists DEF ErrorNames
<1>2. Client \in Threads
  BY DEF Threads
<1>3. ProcessTyped' /\ Leaves(Client, Bare) /\ Leaves(Client, Steps \ Holding)
  BY <1>1, <1>2, PlainAdvance DEF ReportError
<1> QED BY <1>3 DEF ReportError, SessionsTyped, TablesTyped, Calm, OffMap, SameQueues

-----------------------------------------------------------------------------
(* Entering the inactive state: the waiters go from the list into the step *)
(* that will call them.                                                    *)

LEMMA CarryingAdvance ==
    ASSUME TypeOK, NEW t \in Threads, NEW more \in Seq(Steps), NEW W, OneCarries(more, W),
           \A i \in 1 .. Len(more) : more[i] \notin Holding,
           \/ todo[t] # << >> /\ Goes(t, more) /\ UNCHANGED left
           \/ Begin(t, more)
           \/ todo[t] = << >> /\ todo' = [todo EXCEPT ![t] = more] /\ UNCHANGED <<running, left>>
    PROVE  /\ ProcessTyped' /\ Leaves(t, Steps \ Holding)
           /\ \E m \in Seq(Steps) : Advance(t, m) /\ OneCarries(m, W)
<1>1. Advance(t, more)
  <2>1. CASE todo[t] = << >> /\ todo' = [todo EXCEPT ![t] = more] /\ UNCHANGED <<running, left>>
    <3>1. more \o Rest(todo[t]) = more
      BY <2>1, ConcatEmptySeq DEF Rest
    <3> QED BY <2>1, <3>1 DEF Advance
  <2> QED BY <2>1, BeginAdvances, GoesAdvances
<1>2. ProcessTyped'
  <2>1. CASE UNCHANGED <<running, left>>
    BY <1>1, <2>1, AdvancePlaces, TypeOKParts DEF ProcessTyped
  <2> QED BY <2>1, TypedStep
<1>3. more \in Seq(Steps \ Holding)
  <2>1. Len(more) \in Nat /\ more \in [1 .. Len(more) -> Steps]
    BY LenProperties
  <2>2. more \in [1 .. Len(more) -> Steps \ Holding]
    BY <2>1
  <2> QED BY <2>1, <2>2, SeqDef
<1> QED BY <1>1, <1>2, <1>3 DEF Leaves

LEMMA OneCarriesLists ==
    ASSUME NEW W \in SUBSET Waiters, NEW x \in Bare, NEW y \in Bare, NEW c \in Steps, c.with = W
    PROVE  /\ OneCarries(<<c>>, W) /\ OneCarries(<<x, c>>, W) /\ OneCarries(<<c, x>>, W)
           /\ OneCarries(<<x, c, y>>, W)
<1>1. OneCarries(<<c>>, W)
  BY DEF OneCarries
<1>2. OneCarries(<<x, c>>, W)
  <2>1. <<x, c>>[1].with = {} /\ <<x, c>>[2].with = W
    BY DEF Bare
  <2> QED BY <2>1 DEF OneCarries
<1>3. OneCarries(<<c, x>>, W)
  <2>1. <<c, x>>[1].with = W /\ <<c, x>>[2].with = {}
    BY DEF Bare
  <2> QED BY <2>1 DEF OneCarries
<1>4. OneCarries(<<x, c, y>>, W)
  <2>1. <<x, c, y>>[1].with = {} /\ <<x, c, y>>[2].with = W /\ <<x, c, y>>[3].with = {}
    BY DEF Bare
  <2> QED BY <2>1 DEF OneCarries
<1> QED BY <1>1, <1>2, <1>3, <1>4

LEMMA QueuesMoved ==
    ASSUME TypeOK, NEW o \in Sessions, NEW r \in Session, NEW W, r.queue = s[o].queue \ W, Becomes(o, r)
    PROVE  SessionsTyped' /\ \A p \in Sessions : s'[p].queue = IF p = o THEN s[p].queue \ W ELSE s[p].queue
<1>1. SessionsTyped'
  BY BecomesTyped
<1> QED BY <1>1, TypeOKParts DEF Becomes, SessionsTyped

(* The lists of steps that take all waiters of a session along.            *)
LEMMA InactiveLists ==
    ASSUME TypeOK, NEW o \in Sessions,
           NEW more \in {AfterInactive(o), AfterInactive(o) \o <<Do("update", o)>>,
                         <<Do("unregister", o), Restore(o, s[o].queue)>>}
    PROVE  /\ more \in Seq(Steps) /\ OneCarries(more, s[o].queue)
           /\ \A i \in 1 .. Len(more) : more[i] \notin Holding
<1> DEFINE W == s[o].queue
<1>1. W \in SUBSET Waiters
  BY DEF TypeOK
<1>2. \A name \in PlainNames : Do(name, o) \in Bare /\ Do(name, o) \in Steps /\ Do(name, o) \notin Holding
  BY DoPlain, PlainLists DEF Plain, Bare
<1>3. /\ CallEach(o, W) \in Steps \ Holding /\ CallEach(o, W).with = W
      /\ Restore(o, W) \in Steps \ Holding /\ Restore(o, W).with = W
  BY <1>1, DoCarrying
<1>4. \/ more = <<Do("unregister", o), CallEach(o, W)>>
      \/ more = <<Do("unregister", o), CallEach(o, W), Do("update", o)>>
      \/ more = <<Do("unregister", o), Restore(o, W)>>
  BY AfterInactiveTyped DEF AfterInactive
<1>5. more \in Seq(Steps)
  BY <1>2, <1>3, <1>4, PlainLists DEF PlainNames
<1>6. OneCarries(more, W)
  BY <1>1, <1>2, <1>3, <1>4, OneCarriesLists DEF PlainNames
<1>7. \A i \in 1 .. Len(more) : more[i] \notin Holding
  BY <1>2, <1>3, <1>4 DEF PlainNames
<1> QED BY <1>5, <1>6, <1>7

Inactivated(o) == {ToInactive(o), [ToInactive(o) EXCEPT !.resyncs = @ + 1]}

LEMMA InactivatedQueue ==
    ASSUME TypeOK, NEW o \in Sessions, NEW r \in Inactivated(o)
    PROVE  r \in Session /\ r.queue = s[o].queue \ s[o].queue
<1>1. s[o] \in Session
  BY SessionTyped
<1>2. ToInactive(o) \in Session /\ ToInactive(o).queue = {}
  <2>1. ToInactive(o) \in Session
    BY SessionTyped
  <2>2. ToInactive(o).queue = {}
    BY <1>1 DEF ToInactive, Session
  <2> QED BY <2>1, <2>2
<1>3. [ToInactive(o) EXCEPT !.resyncs = @ + 1].queue = {}
  BY <1>2 DEF Session
<1> QED BY <1>2, <1>3, SessionTyped DEF Inactivated

LEMMA InactiveMoves ==
    ASSUME TypeOK, NEW t \in Threads, NEW o \in Sessions, NEW r \in Inactivated(o), Becomes(o, r),
           NEW more \in {AfterInactive(o), AfterInactive(o) \o <<Do("update", o)>>,
                         <<Do("unregister", o), Restore(o, s[o].queue)>>},
           \/ todo[t] # << >> /\ Goes(t, more) /\ UNCHANGED left
           \/ todo[t] = << >> /\ todo' = [todo EXCEPT ![t] = more] /\ UNCHANGED <<running, left>>,
           UNCHANGED <<entry, refs, user, lock, asks, calls, waiters>>, waits' \subseteq waits
    PROVE  TypeOK' /\ OffMap(t) /\ Moves(t, o, s[o].queue)
<1> USE TypeOKParts, TypeOKPartsNext DEF OthersTyped
<1>1. /\ SessionsTyped'
      /\ \A p \in Sessions : s'[p].queue = IF p = o THEN s[p].queue \ s[o].queue ELSE s[p].queue
  <2>1. r \in Session /\ r.queue = s[o].queue \ s[o].queue
    BY InactivatedQueue
  <2> DEFINE W == s[o].queue
  <2>2. r.queue = s[o].queue \ W
    BY <2>1
  <2> HIDE DEF W
  <2>3. SessionsTyped' /\ \A p \in Sessions : s'[p].queue = IF p = o THEN s[p].queue \ W ELSE s[p].queue
    BY <2>1, <2>2, QueuesMoved
  <2> QED BY <2>3 DEF W
<1>2. /\ more \in Seq(Steps) /\ OneCarries(more, s[o].queue)
      /\ \A i \in 1 .. Len(more) : more[i] \notin Holding
  BY InactiveLists
<1>3. /\ ProcessTyped' /\ Leaves(t, Steps \ Holding)
      /\ \E m \in Seq(Steps) : Advance(t, m) /\ OneCarries(m, s[o].queue)
  BY <1>2, CarryingAdvance
<1>4. TypeOK'
  BY <1>1, <1>3 DEF TablesTyped
<1> QED BY <1>1, <1>3, <1>4 DEF OffMap, Moves

Settled(t, o) == OffMap(t) /\ (Calm(t) \/ \E W \in SUBSET Waiters : Moves(t, o, W))

LEMMA LogOutMoves ==
    ASSUME TypeOK, NEW t \in Threads, NEW o \in Sessions, SessionLogOut(t, o)
    PROVE  TypeOK' /\ Settled(t, o)
<1> USE TypeOKParts, TypeOKPartsNext DEF answers, tables
<1>1. todo[t] # << >> /\ UNCHANGED <<left, entry, refs, user, lock, asks, waits, calls, waiters>>
  BY AtFacts DEF SessionLogOut
<1>2. CASE s[o].state = "inactive"
  <2>1. ProcessTyped' /\ Leaves(t, Bare) /\ Leaves(t, Steps \ Holding)
    BY <1>1, <1>2, EmptySeq, PlainAdvance DEF SessionLogOut
  <2> QED BY <1>1, <1>2, <2>1
          DEF SessionLogOut, SessionsTyped, TablesTyped, OthersTyped, Calm, OffMap, SameQueues, Settled
<1>3. CASE s[o].state # "inactive"
  <2>1. Becomes(o, ToInactive(o)) /\ Goes(t, AfterInactive(o))
    BY <1>3 DEF SessionLogOut
  <2>2. TypeOK' /\ OffMap(t) /\ Moves(t, o, s[o].queue)
    BY <1>1, <2>1, InactiveMoves DEF Inactivated
  <2> QED BY <2>2, SessionTyped DEF Settled, Session
<1> QED BY <1>2, <1>3

LEMMA UpdateMoves ==
    ASSUME TypeOK, NEW t \in Threads, NEW o \in Sessions, UpdateConfiguration(t, o)
    PROVE  TypeOK' /\ Settled(t, o)
<1> USE TypeOKParts, TypeOKPartsNext DEF answers, tables
<1>1. todo[t] # << >> /\ UNCHANGED <<left, entry, refs, user, lock, asks, waits, calls, waiters>>
  BY AtFacts DEF UpdateConfiguration
<1>2. CASE s[o].state = "inactive"
  <2>1. ProcessTyped' /\ Leaves(t, Bare) /\ Leaves(t, Steps \ Holding)
    BY <1>1, <1>2, PlainSteps, PlainAdvance DEF UpdateConfiguration, PlainNames
  <2>2. SessionsTyped' /\ SameQueues
    BY <1>2, SessionTyped, QueueSame, QueuesKept DEF UpdateConfiguration
  <2> QED BY <1>1, <2>1, <2>2 DEF TablesTyped, OthersTyped, Calm, OffMap, Settled
<1>3. CASE s[o].state # "inactive"
  <2>1. Becomes(o, ToInactive(o)) /\ Goes(t, AfterInactive(o) \o <<Do("update", o)>>)
    BY <1>3 DEF UpdateConfiguration
  <2>2. TypeOK' /\ OffMap(t) /\ Moves(t, o, s[o].queue)
    BY <1>1, <2>1, InactiveMoves DEF Inactivated
  <2> QED BY <2>2, SessionTyped DEF Settled, Session
<1> QED BY <1>2, <1>3

LEMMA DidDropMoves ==
    ASSUME TypeOK, NEW t \in Threads, NEW o \in Sessions, DidDropExternalReference(t, o)
    PROVE  TypeOK' /\ Settled(t, o)
<1> USE TypeOKParts, TypeOKPartsNext DEF answers, tables
<1>1. todo[t] # << >> /\ UNCHANGED <<left, entry, refs, user, lock, asks, calls, waiters>>
  BY AtFacts DEF DidDropExternalReference
<1>2. \/ /\ Becomes(o, ToInactive(o)) /\ Goes(t, AfterInactive(o)) /\ UNCHANGED waits
      \/ /\ Goes(t, << >>) \/ Goes(t, <<Do("unregister", o)>>)
         /\ UNCHANGED s \/ \E r \in Session : r.queue = s[o].queue /\ Becomes(o, r)
         /\ waits' \in {waits, waits \cup {DyingWait(o)}}
  BY SessionTyped, QueueSame DEF DidDropExternalReference
<1>3. CASE Becomes(o, ToInactive(o)) /\ Goes(t, AfterInactive(o)) /\ UNCHANGED waits
  <2>1. TypeOK' /\ OffMap(t) /\ Moves(t, o, s[o].queue)
    BY <1>1, <1>3, InactiveMoves DEF Inactivated
  <2> QED BY <2>1, SessionTyped DEF Settled, Session
<1>4. CASE /\ Goes(t, << >>) \/ Goes(t, <<Do("unregister", o)>>)
           /\ UNCHANGED s \/ \E r \in Session : r.queue = s[o].queue /\ Becomes(o, r)
           /\ waits' \in {waits, waits \cup {DyingWait(o)}}
  <2>1. ProcessTyped' /\ Leaves(t, Bare) /\ Leaves(t, Steps \ Holding)
    BY <1>1, <1>4, PlainSteps, PlainAdvance DEF PlainNames
  <2>2. SessionsTyped' /\ SameQueues
    BY <1>4, QueuesKept DEF SessionsTyped, SameQueues
  <2>3. waits' \subseteq WaitOperation
    BY <1>4, WaitTyped DEF OthersTyped
  <2> QED BY <1>1, <2>1, <2>2, <2>3 DEF TablesTyped, OthersTyped, Calm, OffMap, Settled
<1> QED BY <1>2, <1>3, <1>4

LEMMA TakenSteps ==
    ASSUME TypeOK, NEW o \in Sessions, NEW W \in SUBSET Waiters
    PROVE  /\ <<CallEach(o, W)>> \in Seq(Steps) /\ OneCarries(<<CallEach(o, W)>>, W)
           /\ <<CallEach(o, W), Do("invalidate", o)>> \in Seq(Steps)
           /\ OneCarries(<<CallEach(o, W), Do("invalidate", o)>>, W)
           /\ \A i \in 1 .. Len(<<CallEach(o, W)>>) : <<CallEach(o, W)>>[i] \notin Holding
           /\ \A i \in 1 .. Len(<<CallEach(o, W), Do("invalidate", o)>>) :
                 <<CallEach(o, W), Do("invalidate", o)>>[i] \notin Holding
           /\ TakenOffList(o, W) \in Session /\ TakenOffList(o, W).queue = s[o].queue \ W
<1>1. CallEach(o, W) \in Steps \ Holding /\ CallEach(o, W).with = W
  BY DoCarrying
<1>2. Do("invalidate", o) \in Bare /\ Do("invalidate", o) \in Steps /\ Do("invalidate", o) \notin Holding
  BY DoPlain, PlainLists DEF Plain, Bare, PlainNames
<1>3. <<CallEach(o, W)>> \in Seq(Steps) /\ <<CallEach(o, W), Do("invalidate", o)>> \in Seq(Steps)
  BY <1>1, <1>2, PlainLists
<1>4. OneCarries(<<CallEach(o, W)>>, W) /\ OneCarries(<<CallEach(o, W), Do("invalidate", o)>>, W)
  BY <1>1, <1>2, OneCarriesLists
<1>5. /\ \A i \in 1 .. Len(<<CallEach(o, W)>>) : <<CallEach(o, W)>>[i] \notin Holding
      /\ \A i \in 1 .. Len(<<CallEach(o, W), Do("invalidate", o)>>) :
            <<CallEach(o, W), Do("invalidate", o)>>[i] \notin Holding
  BY <1>1, <1>2
<1>6. TakenOffList(o, W) \in Session
  BY SessionTyped
<1>7. TakenOffList(o, W).queue = s[o].queue \ W
  <2>1. s[o] \in Session
    BY SessionTyped
  <2> QED BY <2>1 DEF TakenOffList, Session
<1> QED BY <1>3, <1>4, <1>5, <1>6, <1>7

(* Some waiters taken off the list, and called.                            *)
LEMMA TakenMoves ==
    ASSUME TypeOK, NEW t \in Threads, NEW o \in Sessions, NEW W \in SUBSET s[o].queue,
           Becomes(o, TakenOffList(o, W)),
           NEW more \in {<<CallEach(o, W)>>, <<CallEach(o, W), Do("invalidate", o)>>},
           \/ todo[t] # << >> /\ Goes(t, more) /\ UNCHANGED left
           \/ todo[t] = << >> /\ todo' = [todo EXCEPT ![t] = more] /\ UNCHANGED <<running, left>>,
           UNCHANGED <<entry, refs, user, lock, asks, calls, waiters>>, waits' \subseteq waits
    PROVE  TypeOK' /\ OffMap(t) /\ Moves(t, o, W)
<1> USE TypeOKParts, TypeOKPartsNext DEF OthersTyped
<1>1. W \in SUBSET Waiters
  <2>1. s[o] \in Session
    BY SessionTyped
  <2> QED BY <2>1 DEF Session
<1>2. TakenOffList(o, W) \in Session /\ TakenOffList(o, W).queue = s[o].queue \ W
  BY <1>1, TakenSteps
<1>3. /\ SessionsTyped'
      /\ \A p \in Sessions : s'[p].queue = IF p = o THEN s[p].queue \ W ELSE s[p].queue
  BY <1>2, QueuesMoved
<1>4. /\ more \in Seq(Steps) /\ OneCarries(more, W)
      /\ \A i \in 1 .. Len(more) : more[i] \notin Holding
  <2>1. CASE more = <<CallEach(o, W)>>
    BY <1>1, <2>1, TakenSteps
  <2>2. CASE more = <<CallEach(o, W), Do("invalidate", o)>>
    BY <1>1, <2>2, TakenSteps
  <2> QED BY <2>1, <2>2
<1>5. /\ ProcessTyped' /\ Leaves(t, Steps \ Holding)
      /\ \E m \in Seq(Steps) : Advance(t, m) /\ OneCarries(m, W)
  BY <1>4, CarryingAdvance
<1>6. TypeOK'
  BY <1>3, <1>5 DEF TablesTyped
<1> QED BY <1>3, <1>5, <1>6 DEF OffMap, Moves

LEMMA HandleMoves ==
    ASSUME TypeOK, NEW o \in Sessions, HandleError(o)
    PROVE  TypeOK' /\ Settled(Client, o)
<1> USE TypeOKParts, TypeOKPartsNext DEF answers, tables
<1> DEFINE k == Head(todo[Client]).kind
<1>1. /\ Client \in Threads /\ todo[Client] # << >>
      /\ UNCHANGED <<left, entry, refs, user, lock, asks, waits, calls, waiters>>
  BY AtFacts DEF HandleError, Threads
<1>2. \/ Goes(Client, <<Error("apply_error", o, k)>>) /\ UNCHANGED s /\ s[o].state # "dying"
      \/ Goes(Client, << >>) /\ UNCHANGED s
      \/ Becomes(o, ToInactive(o)) /\ Goes(Client, AfterInactive(o))
  BY DEF HandleError
<1>3. k \in ErrorKinds
  <2>1. Head(todo[Client]) \in Steps /\ Head(todo[Client]).do = "handle_error"
    BY <1>1, AtFacts DEF HandleError
  <2> QED BY <2>1 DEF Steps
<1>4. <<Error("apply_error", o, k)>> \in Seq(Plain)
  BY <1>3, DoPlain, PlainLists DEF ErrorNames
<1> HIDE DEF k
<1>5. CASE UNCHANGED s /\ (Goes(Client, <<Error("apply_error", o, k)>>) \/ Goes(Client, << >>))
  <2>1. ProcessTyped' /\ Leaves(Client, Bare) /\ Leaves(Client, Steps \ Holding)
    BY <1>1, <1>4, <1>5, EmptySeq, PlainAdvance
  <2> QED BY <1>1, <1>5, <2>1 DEF SessionsTyped, TablesTyped, OthersTyped, Calm, OffMap, SameQueues, Settled
<1>6. CASE Becomes(o, ToInactive(o)) /\ Goes(Client, AfterInactive(o))
  <2>1. TypeOK' /\ OffMap(Client) /\ Moves(Client, o, s[o].queue)
    BY <1>1, <1>6, InactiveMoves DEF Inactivated
  <2> QED BY <2>1, SessionTyped DEF Settled, Session
<1> QED BY <1>2, <1>5, <1>6

(* The process may end on the way: everything stays where it is.           *)
Stopped == UNCHANGED <<s, entry, refs, user, lock, todo, asks, waits, calls, waiters, left>>

LEMMA StoppedTyped ==
    ASSUME TypeOK, Stopped, running' = FALSE
    PROVE  TypeOK'
BY TypeOKParts, TypeOKPartsNext
   DEF Stopped, SessionsTyped, TablesTyped, OthersTyped, ProcessTyped, TodoTyped

LEMMA ApplyMoves ==
    ASSUME TypeOK, NEW o \in Sessions, ApplyError(o)
    PROVE  TypeOK' /\ (Stopped \/ Settled(Client, o))
<1> USE TypeOKParts, TypeOKPartsNext DEF answers, tables
<1> DEFINE W == s[o].queue
<1>1. /\ Client \in Threads /\ todo[Client] # << >>
      /\ UNCHANGED <<left, entry, refs, user, lock, asks, waits, calls, waiters>>
  BY AtFacts DEF ApplyError, Threads
<1>2. W \in SUBSET Waiters
  BY SessionTyped DEF Session
<1>3. \/ AssertFails
      \/ Goes(Client, << >>) /\ UNCHANGED s
      \/ Becomes(o, ToWaiting(o)) /\ Goes(Client, <<Do("bind", o)>>)
      \/ /\ Becomes(o, TakenOffList(o, W))
         /\ \/ Goes(Client, <<CallEach(o, W)>>)
            \/ Goes(Client, <<CallEach(o, W), Do("invalidate", o)>>)
      \/ Becomes(o, ToInactive(o)) /\ Goes(Client, AfterInactive(o))
      \/ /\ Becomes(o, [ToInactive(o) EXCEPT !.resyncs = @ + 1])
         /\ Goes(Client, <<Do("unregister", o), Restore(o, W)>>)
  <2>1. Head(todo[Client]) \in Steps /\ Head(todo[Client]).do = "apply_error"
    BY <1>1, AtFacts DEF ApplyError
  <2>2. Head(todo[Client]).kind \in ErrorKinds
    BY <2>1 DEF Steps
  <2> QED BY <2>2 DEF ApplyError, ErrorKinds
<1>4. CASE AssertFails
  <2>1. Stopped /\ running' = FALSE
    BY <1>1, <1>4 DEF AssertFails, Stopped
  <2> QED BY <2>1, StoppedTyped
<1>5. CASE Goes(Client, << >>) /\ UNCHANGED s
  <2>1. ProcessTyped' /\ Leaves(Client, Bare) /\ Leaves(Client, Steps \ Holding)
    BY <1>1, <1>5, EmptySeq, PlainAdvance
  <2> QED BY <1>1, <1>5, <2>1 DEF SessionsTyped, TablesTyped, OthersTyped, Calm, OffMap, SameQueues, Settled
<1>6. CASE Becomes(o, ToWaiting(o)) /\ Goes(Client, <<Do("bind", o)>>)
  <2>1. ProcessTyped' /\ Leaves(Client, Bare) /\ Leaves(Client, Steps \ Holding)
    BY <1>1, <1>6, PlainSteps, PlainAdvance DEF PlainNames
  <2>2. SessionsTyped' /\ SameQueues
    BY <1>6, SessionTyped, QueueSame, QueuesKept
  <2> QED BY <1>1, <2>1, <2>2 DEF TablesTyped, OthersTyped, Calm, OffMap, Settled
<1>7. CASE /\ Becomes(o, TakenOffList(o, W))
           /\ \/ Goes(Client, <<CallEach(o, W)>>)
              \/ Goes(Client, <<CallEach(o, W), Do("invalidate", o)>>)
  <2>1. TypeOK' /\ OffMap(Client) /\ Moves(Client, o, W)
    BY <1>1, <1>7, TakenMoves
  <2> QED BY <1>2, <2>1 DEF Settled
<1>8. CASE \/ Becomes(o, ToInactive(o)) /\ Goes(Client, AfterInactive(o))
           \/ /\ Becomes(o, [ToInactive(o) EXCEPT !.resyncs = @ + 1])
              /\ Goes(Client, <<Do("unregister", o), Restore(o, W)>>)
  <2>1. TypeOK' /\ OffMap(Client) /\ Moves(Client, o, W)
    BY <1>1, <1>8, InactiveMoves DEF Inactivated
  <2> QED BY <1>2, <2>1 DEF Settled
<1> QED BY <1>3, <1>4, <1>5, <1>6, <1>7, <1>8

LEMMA CompletesMoves ==
    ASSUME TypeOK, NEW x \in waits, Completes(x)
    PROVE  TypeOK' /\ Settled(Client, x.of)
<1> USE TypeOKParts, TypeOKPartsNext DEF answers, tables
<1> DEFINE o == x.of
           W == s[o].queue \cap InDirection(x.kind)
<1>1. /\ Client \in Threads /\ todo[Client] = << >> /\ waits' \subseteq waits
      /\ UNCHANGED <<running, left, entry, refs, user, lock, asks, calls, waiters>>
  BY DEF Completes, Threads
<1>2. o \in Sessions
  BY DEF OthersTyped, WaitOperation
<1>3. \/ Becomes(o, ToInactive(o)) /\ todo' = [todo EXCEPT ![Client] = AfterInactive(o)]
      \/ Becomes(o, TakenOffList(o, W)) /\ todo' = [todo EXCEPT ![Client] = <<CallEach(o, W)>>]
      \/ UNCHANGED <<s, todo>>
  BY DEF Completes
<1> HIDE DEF o
<1>4. s[o].queue \in SUBSET Waiters /\ W \in SUBSET s[o].queue
  BY <1>2, SessionTyped DEF Session
<1> HIDE DEF W
<1>5. CASE Becomes(o, ToInactive(o)) /\ todo' = [todo EXCEPT ![Client] = AfterInactive(o)]
  <2>1. TypeOK' /\ OffMap(Client) /\ Moves(Client, o, s[o].queue)
    BY <1>1, <1>2, <1>5, InactiveMoves DEF Inactivated
  <2> QED BY <1>4, <2>1 DEF Settled, o
<1>6. CASE Becomes(o, TakenOffList(o, W)) /\ todo' = [todo EXCEPT ![Client] = <<CallEach(o, W)>>]
  <2>1. TypeOK' /\ OffMap(Client) /\ Moves(Client, o, W)
    BY <1>1, <1>2, <1>4, <1>6, TakenMoves
  <2> QED BY <1>4, <2>1 DEF Settled, o
<1>7. CASE UNCHANGED <<s, todo>>
  <2>1. ProcessTyped' /\ Leaves(Client, Bare) /\ Leaves(Client, Steps \ Holding)
    BY <1>1, <1>7, StayingIdle
  <2> QED BY <1>1, <1>7, <2>1 DEF SessionsTyped, TablesTyped, OthersTyped, Calm, OffMap, SameQueues, Settled
<1> QED BY <1>3, <1>5, <1>6, <1>7

-----------------------------------------------------------------------------
(* The operations on waiters, and what the steps of the map do to them.    *)

LEMMA WaitersTyped ==
    ASSUME TypeOK, NEW t \in Threads, NEW o \in Sessions,
           \/ \E w \in Waiters : WaitForCompletion(t, o, w)
           \/ CallWaiters(t, o)
           \/ t = Client /\ RestoreWaiters(o)
    PROVE  TypeOK' /\ OffMap(t) /\ Leaves(t, Bare)
<1> USE TypeOKParts, TypeOKPartsNext DEF answers, tables
<1>1. ASSUME NEW w \in Waiters, WaitForCompletion(t, o, w) PROVE TypeOK' /\ OffMap(t) /\ Leaves(t, Bare)
  <2>1. ProcessTyped' /\ Leaves(t, Bare) /\ Leaves(t, Steps \ Holding)
    BY <1>1, EmptySeq, PlainAdvance DEF WaitForCompletion
  <2>2. s[o].queue \cup {w} \in SUBSET Waiters
    <3>1. s[o] \in Session
      BY SessionTyped
    <3> QED BY <3>1 DEF Session
  <2>3. SessionsTyped'
    <3>1. [s[o] EXCEPT !.queue = s[o].queue \cup {w}] \in Session
      BY <2>2, SessionTyped
    <3> QED BY <1>1, <3>1, BecomesTyped DEF WaitForCompletion
  <2>4. waits' \subseteq WaitOperation
    <3>1. s[o].resyncs \in Nat
      BY DEF TypeOK
    <3> QED BY <1>1, <3>1 DEF WaitForCompletion, OthersTyped, WaitOperation, Wait
  <2> QED BY <1>1, <2>1, <2>3, <2>4 DEF WaitForCompletion, TablesTyped, OthersTyped, OffMap
<1>2. CASE CallWaiters(t, o)
  <2>1. ProcessTyped' /\ Leaves(t, Bare) /\ Leaves(t, Steps \ Holding)
    BY <1>2, AtFacts, EmptySeq, PlainAdvance DEF CallWaiters
  <2>2. calls' \in [Waiters -> Nat]
    BY <1>2 DEF CallWaiters, OthersTyped
  <2> QED BY <1>2, <2>1, <2>2 DEF CallWaiters, SessionsTyped, TablesTyped, OthersTyped, OffMap
<1>3. CASE t = Client /\ RestoreWaiters(o)
  <2>1. ProcessTyped' /\ Leaves(t, Bare) /\ Leaves(t, Steps \ Holding)
    BY <1>3, AtFacts, PlainSteps, PlainAdvance DEF RestoreWaiters, PlainNames
  <2>2. Head(todo[Client]).with \in SUBSET Waiters
    BY <1>3, AtFacts DEF RestoreWaiters
  <2>3. SessionsTyped'
    BY <1>3, <2>2, SessionTyped, BecomesTyped DEF RestoreWaiters
  <2> QED BY <1>3, <2>1, <2>3 DEF RestoreWaiters, TablesTyped, OthersTyped, OffMap
<1> QED BY <1>1, <1>2, <1>3

LEMMA BareLists ==
    ASSUME NEW o \in Sessions
    PROVE  /\ <<Do("register", o), Do("take_reference", o)>> \in Seq(Bare)
           /\ <<Do("end_look", o)>> \in Seq(Bare)
           /\ <<Do("did_drop", o)>> \in Seq(Bare)
           /\ << >> \in Seq(Bare) /\ <<Do("unlock_map", o)>> \in Seq(Bare)
<1>1. Do("register", o) \in Bare /\ Do("did_drop", o) \in Bare
  BY DoPlain DEF Plain, Bare, PlainNames
<1>2. Do("take_reference", o) \in Bare /\ Do("end_look", o) \in Bare /\ Do("unlock_map", o) \in Bare
  BY DoHolding DEF Bare
<1> QED BY <1>1, <1>2

LEMMA BareAdvance ==
    ASSUME TypeOK, NEW t \in Threads, NEW more \in Seq(Bare),
           (todo[t] # << >> /\ Goes(t, more)) \/ Begin(t, more)
    PROVE  more \in Seq(Steps) /\ Advance(t, more) /\ Leaves(t, Bare)
<1>1. more \in Seq(Steps)
  <2>1. Bare \subseteq Steps
    BY DEF Bare
  <2> QED BY <2>1, SeqMonotonic
<1>2. Advance(t, more)
  BY <1>1, BeginAdvances, GoesAdvances
<1> QED BY <1>1, <1>2 DEF Leaves

(* Under m_session_mutex, too, nothing happens to the waiters.             *)
LEMMA MapCalm ==
    ASSUME TypeOK, NEW t \in Threads, NEW o \in Sessions,
           \/ GetSession(t) \/ TakeReference(t, o) \/ UnlockMap(t, o) \/ Unregister(t, o)
           \/ EndLook(t, o)
    PROVE  Calm(t) \/ Stopped
<1> USE DEF answers, tables
<1>1. CASE GetSession(t)
  <2>1. CASE entry # None
    <3>1. entry \in Sessions
      BY <2>1, TypeOKParts DEF TablesTyped
    <3>2. Begin(t, <<Do("register", entry), Do("take_reference", entry)>>) /\ UNCHANGED s
      BY <1>1, <2>1 DEF GetSession
    <3>3. Leaves(t, Bare)
      BY <3>1, <3>2, BareLists, BareAdvance
    <3> QED BY <1>1, <3>2, <3>3 DEF GetSession, Calm, SameQueues
  <2>2. CASE entry = None
    <3>1. PICK p \in Sessions, q \in StopPolicies :
             /\ Becomes(p, [s[p] EXCEPT !.state = "inactive", !.policy = q])
             /\ Begin(t, <<Do("register", p), Do("take_reference", p)>>)
      BY <1>1, <2>2 DEF GetSession
    <3>2. Leaves(t, Bare)
      BY <3>1, BareLists, BareAdvance
    <3>3. SameQueues
      <4>1. s[p] \in Session
        BY SessionTyped
      <4>2. [s[p] EXCEPT !.state = "inactive", !.policy = q].queue = s[p].queue
        BY <4>1 DEF Session
      <4>3. [s[p] EXCEPT !.state = "inactive", !.policy = q] \in Session
        BY SessionTyped
      <4> QED BY <3>1, <4>2, <4>3, QueuesKept
    <3> QED BY <1>1, <3>2, <3>3 DEF GetSession, Calm
  <2> QED BY <2>1, <2>2
<1>2. CASE TakeReference(t, o) \/ UnlockMap(t, o)
  <2>1. todo[t] # << >> /\ Goes(t, << >>) /\ UNCHANGED <<s, calls, waiters>>
    BY <1>2, AtFacts DEF TakeReference, UnlockMap
  <2>2. Leaves(t, Bare)
    BY <2>1, BareLists, BareAdvance
  <2> QED BY <2>1, <2>2 DEF Calm, SameQueues
<1>3. CASE Unregister(t, o)
  <2>1. todo[t] # << >> /\ UNCHANGED <<left, s, user, asks, waits, calls, waiters>>
    BY <1>3, AtFacts DEF Unregister
  <2>2. AssertFails \/ Goes(t, << >>) \/ (entry # None /\ Goes(t, <<Do("end_look", entry)>>))
    BY <1>3 DEF Unregister
  <2>3. CASE AssertFails
    BY <2>1, <2>3 DEF AssertFails, Stopped
  <2>4. CASE Goes(t, << >>)
    BY <2>1, <2>4, BareLists, BareAdvance DEF Calm, SameQueues
  <2>5. CASE entry # None /\ Goes(t, <<Do("end_look", entry)>>)
    <3>1. entry \in Sessions
      BY <2>5, TypeOKParts DEF TablesTyped
    <3>2. Leaves(t, Bare)
      BY <2>1, <2>5, <3>1, BareLists, BareAdvance
    <3> QED BY <2>1, <3>2 DEF Calm, SameQueues
  <2> QED BY <2>2, <2>3, <2>4, <2>5
<1>4. CASE EndLook(t, o)
  <2> DEFINE a == IF refs[o] = {t} THEN <<Do("did_drop", o)>> ELSE << >>
             b == <<Do("unlock_map", o)>>
  <2>1. a \in Seq(Bare) /\ b \in Seq(Bare)
    BY BareLists
  <2>2. Goes(t, a \o b)
    BY <1>4 DEF EndLook
  <2> HIDE DEF a, b
  <2>3. a \o b \in Seq(Bare)
    BY <2>1, ConcatProperties
  <2>4. todo[t] # << >> /\ UNCHANGED <<s, calls, waiters>>
    BY <1>4, AtFacts DEF EndLook
  <2>5. Leaves(t, Bare)
    BY <2>2, <2>3, <2>4, BareAdvance
  <2> QED BY <2>4, <2>5 DEF Calm, SameQueues
<1> QED BY <1>1, <1>2, <1>3, <1>4

-----------------------------------------------------------------------------
(* Each waiter is at one place: on one list, in one step of one thread, or *)
(* called.                                                                 *)

Carrying(w) == {x \in Steps : w \in x.with}
Carried(w) == \E t \in Threads : \E i \in 1 .. Len(todo[t]) : todo[t][i] \in Carrying(w)
AtOnePlace(w) ==
    /\ AtMostOne(Carrying(w))
    /\ \A o, p \in Sessions : w \in s[o].queue /\ w \in s[p].queue => o = p
    /\ \A o \in Sessions : w \in s[o].queue => ~Carried(w) /\ calls[w] = 0 /\ w \in waiters
    /\ Carried(w) => calls[w] = 0 /\ w \in waiters
    /\ calls[w] <= 1 /\ (w \notin waiters => calls[w] = 0)
WaitersInv == \A w \in Waiters : AtOnePlace(w)

(* Steps that carry no w add none.                                         *)
LEMMA NoneAdded ==
    ASSUME TypeOK, NEW w, AtMostOne(Carrying(w)),
           NEW t \in Threads, NEW more \in Seq(Steps), Advance(t, more),
           \A i \in 1 .. Len(more) : w \notin more[i].with
    PROVE  AtMostOne(Carrying(w))' /\ (Carried(w)' => Carried(w))
<1>1. \A i \in 1 .. Len(more) : more[i] \notin Carrying(w)
  BY DEF Carrying
<1>2. TodoTyped
  BY TypeOKParts DEF ProcessTyped
<1>3. AtMostOne(Carrying(w))'
  BY <1>1, <1>2, StillAtMostOne
<1>4. ASSUME NEW u \in Threads, NEW i \in 1 .. Len(todo'[u]), todo'[u][i] \in Carrying(w)
      PROVE  Carried(w)
  <2>1. CASE u # t
    BY <1>2, <1>4, <2>1, AdvancePlaces DEF Carried
  <2>2. CASE u = t
    <3>1. /\ i - Len(more) + 1 \in 2 .. Len(todo[t])
          /\ todo'[t][i] = todo[t][i - Len(more) + 1]
      BY <1>1, <1>2, <1>4, <2>2, AdvancePlaces
    <3>2. i - Len(more) + 1 \in 1 .. Len(todo[t])
      BY <3>1
    <3> QED BY <1>4, <2>2, <3>1, <3>2 DEF Carried
  <2> QED BY <2>1, <2>2
<1>5. Carried(w)' => Carried(w)
  BY <1>4 DEF Carried, Carrying
<1> QED BY <1>3, <1>5

LEMMA CalmKeepsWaiters ==
    ASSUME TypeOK, WaitersInv, NEW t \in Threads, Calm(t)
    PROVE  WaitersInv'
<1> SUFFICES ASSUME NEW w \in Waiters PROVE AtOnePlace(w)'
  BY DEF WaitersInv
<1>1. AtOnePlace(w)
  BY DEF WaitersInv
<1>2. PICK more \in Seq(Bare) : Advance(t, more)
  BY DEF Calm, Leaves
<1>3. more \in Seq(Steps) /\ \A i \in 1 .. Len(more) : w \notin more[i].with
  <2>1. \A i \in 1 .. Len(more) : more[i] \in Bare
    BY ElementOfSeq
  <2>2. Bare \subseteq Steps
    BY DEF Bare
  <2> QED BY <2>1, <2>2, SeqMonotonic DEF Bare
<1>4. AtMostOne(Carrying(w))' /\ (Carried(w)' => Carried(w))
  BY <1>1, <1>2, <1>3, NoneAdded DEF AtOnePlace
<1>5. /\ \A o \in Sessions : s'[o].queue = s[o].queue
      /\ calls' = calls /\ waiters' = waiters
  BY DEF Calm, SameQueues
<1> QED BY <1>1, <1>4, <1>5 DEF AtOnePlace

LEMMA MovesKeepWaiters ==
    ASSUME TypeOK, WaitersInv, NEW t \in Threads, NEW o \in Sessions, NEW W \in SUBSET Waiters,
           Moves(t, o, W)
    PROVE  WaitersInv'
<1> SUFFICES ASSUME NEW w \in Waiters PROVE AtOnePlace(w)'
  BY DEF WaitersInv
<1>1. AtOnePlace(w)
  BY DEF WaitersInv
<1>2. PICK more \in Seq(Steps) : Advance(t, more) /\ OneCarries(more, W)
  BY DEF Moves
<1>3. /\ \A p \in Sessions : s'[p].queue = IF p = o THEN s[p].queue \ W ELSE s[p].queue
      /\ W \subseteq s[o].queue /\ calls' = calls /\ waiters' = waiters
  BY DEF Moves
<1>4. CASE w \notin W
  <2>1. \A i \in 1 .. Len(more) : w \notin more[i].with
    BY <1>2, <1>4 DEF OneCarries
  <2>2. AtMostOne(Carrying(w))' /\ (Carried(w)' => Carried(w))
    BY <1>1, <1>2, <2>1, NoneAdded DEF AtOnePlace
  <2>3. \A p \in Sessions : w \in s'[p].queue <=> w \in s[p].queue
    BY <1>3, <1>4
  <2> QED BY <1>1, <1>3, <2>2, <2>3 DEF AtOnePlace
<1>5. CASE w \in W
  <2>1. ~Carried(w) /\ calls[w] = 0 /\ w \in waiters
    BY <1>1, <1>3, <1>5 DEF AtOnePlace
  <2>2. \A i, j \in 1 .. Len(more) : more[i] \in Carrying(w) /\ more[j] \in Carrying(w) => i = j
    BY <1>2 DEF OneCarries, Carrying
  <2>3. TodoTyped
    BY TypeOKParts DEF ProcessTyped
  <2>4. \A u \in Threads : \A i \in 1 .. Len(todo[u]) : todo[u][i] \notin Carrying(w)
    BY <2>1 DEF Carried
  <2>5. AtMostOne(Carrying(w))
    BY <1>1 DEF AtOnePlace
  <2>6. AtMostOne(Carrying(w))'
    BY <1>2, <2>2, <2>3, <2>4, <2>5, StillAtMostOne
  <2>7. \A p \in Sessions : w \notin s'[p].queue
    BY <1>1, <1>3, <1>5 DEF AtOnePlace
  <2> QED BY <1>1, <1>3, <2>1, <2>6, <2>7 DEF AtOnePlace
<1> QED BY <1>4, <1>5

(* What is left of the steps when a thread has done one and got no others. *)
LEMMA StepDone ==
    ASSUME TypeOK, NEW t \in Threads, NEW none \in Seq(Steps), Len(none) = 0, Advance(t, none)
    PROVE  /\ \A P : AtMostOne(P) => AtMostOne(P)'
           /\ \A u \in Threads \ {t} : todo'[u] = todo[u]
           /\ \A i \in 1 .. Len(todo'[t]) :
                 i + 1 \in 2 .. Len(todo[t]) /\ todo'[t][i] = todo[t][i + 1]
<1>1. TodoTyped
  BY TypeOKParts DEF ProcessTyped
<1>2. /\ \A u \in Threads \ {t} : todo'[u] = todo[u]
      /\ \A i \in 1 .. Len(todo'[t]) :
            \/ i \in 1 .. Len(none) /\ todo'[t][i] = none[i]
            \/ /\ i > Len(none)
               /\ i - Len(none) + 1 \in 2 .. Len(todo[t])
               /\ todo'[t][i] = todo[t][i - Len(none) + 1]
  BY <1>1, AdvancePlaces
<1>3. ASSUME NEW i \in 1 .. Len(todo'[t])
      PROVE  i + 1 \in 2 .. Len(todo[t]) /\ todo'[t][i] = todo[t][i + 1]
  <2>1. i - Len(none) + 1 = i + 1 /\ i \notin 1 .. Len(none)
    OBVIOUS
  <2> QED BY <1>2, <2>1
<1>4. ASSUME NEW P, AtMostOne(P) PROVE AtMostOne(P)'
  <2>1. /\ \A i, j \in 1 .. Len(none) : none[i] \in P /\ none[j] \in P => i = j
        /\ \A i \in 1 .. Len(none) : none[i] \notin P
    OBVIOUS
  <2> QED BY <1>1, <1>4, <2>1, StillAtMostOne
<1> QED BY <1>2, <1>3, <1>4

(* If it carried w, none of them carries it now; otherwise none comes to.  *)
LEMMA HeadDone ==
    ASSUME TypeOK, NEW w, AtMostOne(Carrying(w)), NEW t \in Threads, todo[t] # << >>,
           w \in Head(todo[t]).with,
           NEW more \in Seq(Steps), \A i \in 1 .. Len(more) : w \notin more[i].with, Advance(t, more)
    PROVE  AtMostOne(Carrying(w))' /\ Carried(w) /\ ~Carried(w)'
<1>1. TodoTyped
  BY TypeOKParts DEF ProcessTyped
<1>2. 1 \in 1 .. Len(todo[t]) /\ todo[t][1] \in Carrying(w)
  <2>1. 1 \in 1 .. Len(todo[t]) /\ todo[t][1] = Head(todo[t]) /\ Head(todo[t]) \in Steps
    BY <1>1 DEF TodoTyped
  <2> QED BY <2>1 DEF Carrying
<1>3. AtMostOne(Carrying(w))'
  BY NoneAdded
<1>4. ASSUME NEW u \in Threads, NEW i \in 1 .. Len(todo'[u]), todo'[u][i] \in Carrying(w)
      PROVE  FALSE
  <2>1. CASE u # t
    <3>1. i \in 1 .. Len(todo[u]) /\ todo[u][i] \in Carrying(w)
      BY <1>1, <1>4, <2>1, AdvancePlaces
    <3> QED BY <1>2, <2>1, <3>1 DEF AtMostOne
  <2>2. CASE u = t
    <3> DEFINE j == i - Len(more) + 1
    <3>1. \/ i \in 1 .. Len(more) /\ todo'[t][i] = more[i]
          \/ j \in 2 .. Len(todo[t]) /\ todo'[t][i] = todo[t][j]
      BY <1>1, <2>2, AdvancePlaces
    <3>2. j \in 2 .. Len(todo[t]) /\ todo'[t][i] = todo[t][j]
      BY <1>4, <2>2, <3>1 DEF Carrying
    <3> HIDE DEF j
    <3>3. j \in 1 .. Len(todo[t]) /\ j # 1 /\ todo[t][j] \in Carrying(w)
      BY <1>4, <2>2, <3>2
    <3> QED BY <1>2, <3>3 DEF AtMostOne
  <2> QED BY <2>1, <2>2
<1>5. ~Carried(w)'
  BY <1>4 DEF Carried, Carrying
<1> QED BY <1>2, <1>3, <1>5 DEF Carried

LEMMA OtherDone ==
    ASSUME TypeOK, NEW w, AtMostOne(Carrying(w)), NEW t \in Threads,
           NEW none \in Seq(Steps), Len(none) = 0, Advance(t, none)
    PROVE  AtMostOne(Carrying(w))' /\ (Carried(w)' => Carried(w))
<1>1. \A i \in 1 .. Len(none) : w \notin none[i].with
  OBVIOUS
<1> QED BY <1>1, NoneAdded

LEMMA CallKeepsWaiters ==
    ASSUME TypeOK, WaitersInv, NEW t \in Threads, NEW o \in Sessions, CallWaiters(t, o)
    PROVE  WaitersInv'
<1>1. todo[t] # << >> /\ Goes(t, << >>) /\ UNCHANGED <<s, waiters>>
  BY AtFacts DEF CallWaiters
<1>2. PICK none \in Seq(Steps) : Len(none) = 0 /\ Advance(t, none)
  BY <1>1, EmptySeq, GoesAdvances
<1>3. calls' = [w \in Waiters |-> IF w \in Head(todo[t]).with THEN calls[w] + 1 ELSE calls[w]]
  BY DEF CallWaiters
<1> SUFFICES ASSUME NEW w \in Waiters PROVE AtOnePlace(w)'
  BY DEF WaitersInv
<1>4. AtOnePlace(w) /\ calls[w] \in Nat
  BY DEF WaitersInv, TypeOK
<1>5. CASE w \in Head(todo[t]).with
  <2>0. \A i \in 1 .. Len(none) : w \notin none[i].with
    BY <1>2
  <2>1. AtMostOne(Carrying(w))' /\ Carried(w) /\ ~Carried(w)'
    BY <1>1, <1>2, <1>4, <1>5, <2>0, HeadDone DEF AtOnePlace
  <2>2. calls[w] = 0 /\ w \in waiters /\ \A p \in Sessions : w \notin s[p].queue
    BY <1>4, <2>1 DEF AtOnePlace
  <2>3. calls'[w] = 1
    BY <1>3, <1>5, <2>2
  <2> QED BY <1>1, <2>1, <2>2, <2>3 DEF AtOnePlace
<1>6. CASE w \notin Head(todo[t]).with
  <2>1. AtMostOne(Carrying(w))' /\ (Carried(w)' => Carried(w))
    BY <1>2, <1>4, OtherDone DEF AtOnePlace
  <2>2. calls'[w] = calls[w]
    BY <1>3, <1>6
  <2> QED BY <1>1, <1>4, <2>1, <2>2 DEF AtOnePlace
<1> QED BY <1>5, <1>6

(* Reviving calls nobody.                                                  *)
LEMMA RevivesBare ==
    ASSUME NEW t \in Threads, NEW o \in Sessions, TypeOK, todo[t] # << >>,
           Goes(t, <<Do("revive", o)>>)
    PROVE  \E more \in Seq(Steps) : Advance(t, more) /\ \A i \in 1 .. Len(more) : more[i].with = {}
<1> DEFINE more == <<Do("revive", o)>>
<1>1. more \in Seq(Steps) /\ more \in Seq(Plain)
  BY PlainSteps DEF PlainNames
<1>2. Goes(t, more)
  OBVIOUS
<1> HIDE DEF more
<1>3. Advance(t, more)
  BY <1>1, <1>2, GoesAdvances
<1>4. \A i \in 1 .. Len(more) : more[i].with = {}
  BY <1>1, ElementOfSeq DEF Plain
<1> QED BY <1>1, <1>3, <1>4

LEMMA RestoreKeepsWaiters ==
    ASSUME TypeOK, WaitersInv, NEW o \in Sessions, RestoreWaiters(o)
    PROVE  WaitersInv'
<1>1. Client \in Threads
  BY DEF Threads
<1>2. todo[Client] # << >> /\ Goes(Client, <<Do("revive", o)>>) /\ UNCHANGED <<calls, waiters>>
  BY <1>1, AtFacts DEF RestoreWaiters, answers
<1>3. PICK more \in Seq(Steps) :
         Advance(Client, more) /\ \A i \in 1 .. Len(more) : more[i].with = {}
  BY <1>1, <1>2, RevivesBare
<1>4. \A p \in Sessions : s'[p].queue = IF p = o THEN Head(todo[Client]).with ELSE s[p].queue
  BY TypeOKParts DEF RestoreWaiters, Becomes, SessionsTyped, Session
<1> SUFFICES ASSUME NEW w \in Waiters PROVE AtOnePlace(w)'
  BY DEF WaitersInv
<1>5. AtOnePlace(w)
  BY DEF WaitersInv
<1>6. CASE w \in Head(todo[Client]).with
  <2>1. AtMostOne(Carrying(w))' /\ Carried(w) /\ ~Carried(w)'
    BY <1>1, <1>2, <1>3, <1>5, <1>6, HeadDone DEF AtOnePlace
  <2>2. calls[w] = 0 /\ w \in waiters /\ \A p \in Sessions : w \notin s[p].queue
    BY <1>5, <2>1 DEF AtOnePlace
  <2> QED BY <1>2, <1>4, <2>1, <2>2 DEF AtOnePlace
<1>7. CASE w \notin Head(todo[Client]).with
  <2>1. AtMostOne(Carrying(w))' /\ (Carried(w)' => Carried(w))
    BY <1>1, <1>3, <1>5, NoneAdded DEF AtOnePlace
  <2> QED BY <1>2, <1>4, <1>5, <1>7, <2>1 DEF AtOnePlace
<1> QED BY <1>6, <1>7

LEMMA WaitKeepsWaiters ==
    ASSUME TypeOK, WaitersInv, NEW t \in Threads, NEW o \in Sessions, NEW v \in Waiters,
           WaitForCompletion(t, o, v)
    PROVE  WaitersInv'
<1>1. /\ v \notin waiters /\ waiters' = waiters \cup {v} /\ calls' = calls
      /\ Begin(t, << >>)
  BY DEF WaitForCompletion
<1>2. \A p \in Sessions : s'[p].queue = IF p = o THEN s[p].queue \cup {v} ELSE s[p].queue
  BY TypeOKParts DEF WaitForCompletion, Becomes, SessionsTyped, Session
<1>3. PICK none \in Seq(Steps) : Len(none) = 0 /\ Advance(t, none)
  BY <1>1, EmptySeq, BeginAdvances
<1> SUFFICES ASSUME NEW w \in Waiters PROVE AtOnePlace(w)'
  BY DEF WaitersInv
<1>4. AtOnePlace(w)
  BY DEF WaitersInv
<1>5. AtMostOne(Carrying(w))' /\ (Carried(w)' => Carried(w))
  BY <1>3, <1>4, OtherDone DEF AtOnePlace
<1>6. CASE w = v
  <2>1. calls[w] = 0 /\ ~Carried(w) /\ \A p \in Sessions : w \notin s[p].queue
    BY <1>1, <1>4, <1>6 DEF AtOnePlace
  <2>2. calls'[w] = 0 /\ w \in waiters' /\ ~Carried(w)'
    BY <1>1, <1>5, <1>6, <2>1
  <2>3. \A p \in Sessions : w \in s'[p].queue => p = o
    BY <1>2, <2>1
  <2>4. AtMostOne(Carrying(w))'
    BY <1>5
  <2> QED BY <2>2, <2>3, <2>4 DEF AtOnePlace
<1>7. CASE w # v
  <2>1. \A p \in Sessions : w \in s'[p].queue <=> w \in s[p].queue
    BY <1>2, <1>7
  <2>2. w \in waiters' <=> w \in waiters
    BY <1>1, <1>7
  <2> QED BY <1>1, <1>4, <1>5, <2>1, <2>2 DEF AtOnePlace
<1> QED BY <1>6, <1>7

-----------------------------------------------------------------------------
(* m_session_mutex: one thread is in a step that holds it, and while       *)
(* get_session has yet to take its reference the session it found or made  *)
(* stays in the map.                                                       *)

MapHeld ==
    \A t \in Threads : \A i \in 1 .. Len(todo[t]) :
       todo[t][i] \in Holding =>
          /\ lock["map"] = t
          /\ todo[t][i].do = "take_reference" => entry = todo[t][i].of
MapInv == AtMostOne(Holding) /\ MapHeld /\ ReferencedIsRegistered

(* Nobody is in such a step while the mutex is free.                       *)
LEMMA NobodyHolds ==
    ASSUME MapInv, lock["map"] = None
    PROVE  \A u \in Threads : \A i \in 1 .. Len(todo[u]) : todo[u][i] \notin Holding
<1>1. None \notin Threads
  BY SyncSessionAssumption DEF Threads
<1> QED BY <1>1 DEF MapInv, MapHeld

(* The steps of others, and the later ones of the thread itself, are as    *)
(* they were.                                                              *)
LEMMA HeldPlaces ==
    ASSUME TypeOK, MapInv, NEW t \in Threads, NEW more \in Seq(Steps), Advance(t, more),
           NEW u \in Threads, NEW i \in 1 .. Len(todo'[u]), todo'[u][i] \in Holding
    PROVE  \/ u = t /\ \E j \in 1 .. Len(more) : todo'[u][i] = more[j]
           \/ /\ lock["map"] = u
              /\ todo'[u][i].do = "take_reference" => entry = todo'[u][i].of
              /\ todo[t] # << >> /\ Head(todo[t]) \in Holding => u # t
<1>1. TodoTyped
  BY TypeOKParts DEF ProcessTyped
<1>2. CASE u # t
  BY <1>1, <1>2, AdvancePlaces DEF MapInv, MapHeld
<1>3. CASE u = t
  <2> DEFINE j == i - Len(more) + 1
  <2>1. \/ i \in 1 .. Len(more) /\ todo'[t][i] = more[i]
        \/ j \in 2 .. Len(todo[t]) /\ todo'[t][i] = todo[t][j]
    BY <1>1, <1>3, AdvancePlaces
  <2>2. CASE i \in 1 .. Len(more) /\ todo'[t][i] = more[i]
    BY <1>3, <2>2
  <2>3. CASE j \in 2 .. Len(todo[t]) /\ todo'[t][i] = todo[t][j]
    <3> HIDE DEF j
    <3>1. j \in 1 .. Len(todo[t]) /\ j # 1 /\ todo[t][j] \in Holding
      BY <1>3, <2>3
    <3>2. todo[t] # << >> => 1 \in 1 .. Len(todo[t]) /\ todo[t][1] = Head(todo[t])
      BY <1>1 DEF TodoTyped
    <3>3. ~(todo[t] # << >> /\ Head(todo[t]) \in Holding)
      BY <3>1, <3>2 DEF MapInv, AtMostOne
    <3> QED BY <1>3, <2>3, <3>1, <3>3 DEF MapInv, MapHeld
  <2> QED BY <2>1, <2>2, <2>3
<1> QED BY <1>2, <1>3

LEMMA HeldBefore ==
    ASSUME TypeOK, MapInv, NEW t \in Threads, NEW none \in Seq(Steps),
           Advance(t, none), NEW u \in Threads, NEW i \in 1 .. Len(todo'[u]), todo'[u][i] \in Holding
    PROVE  Len(none) = 0 =>
             /\ lock["map"] = u
             /\ todo[t] # << >> /\ Head(todo[t]) \in Holding => u # t
<1>1. \/ u = t /\ \E j \in 1 .. Len(none) : todo'[u][i] = none[j]
      \/ /\ lock["map"] = u
         /\ todo'[u][i].do = "take_reference" => entry = todo'[u][i].of
         /\ todo[t] # << >> /\ Head(todo[t]) \in Holding => u # t
  BY HeldPlaces
<1>2. Len(none) = 0 => 1 .. Len(none) = {}
  OBVIOUS
<1> QED BY <1>1, <1>2

LEMMA OffMapKeepsMap ==
    ASSUME TypeOK, MapInv, NEW t \in Threads, OffMap(t)
    PROVE  MapInv'
<1>1. PICK more \in Seq(Steps \ Holding) : Advance(t, more)
  BY DEF OffMap, Leaves
<1>2. more \in Seq(Steps) /\ \A i \in 1 .. Len(more) : more[i] \notin Holding
  <2>1. \A i \in 1 .. Len(more) : more[i] \in Steps \ Holding
    BY ElementOfSeq
  <2>2. Steps \ Holding \subseteq Steps
    OBVIOUS
  <2> QED BY <2>1, <2>2, SeqMonotonic
<1>3. AtMostOne(Holding)'
  <2>1. TodoTyped /\ AtMostOne(Holding)
    BY TypeOKParts DEF ProcessTyped, MapInv
  <2> QED BY <1>1, <1>2, <2>1, StillAtMostOne
<1>4. entry' = entry /\ lock'["map"] = lock["map"]
  BY DEF OffMap
<1>5. ASSUME NEW u \in Threads, NEW i \in 1 .. Len(todo'[u]), todo'[u][i] \in Holding
      PROVE  /\ lock'["map"] = u
             /\ todo'[u][i].do = "take_reference" => entry' = todo'[u][i].of
  BY <1>1, <1>2, <1>4, <1>5, HeldPlaces
<1>6. MapHeld'
  BY <1>5 DEF MapHeld, Holding
<1>7. ReferencedIsRegistered'
  BY <1>4 DEF OffMap, ReferencedIsRegistered, MapInv
<1> QED BY <1>3, <1>6, <1>7 DEF MapInv

LEMMA GetSessionKeepsMap ==
    ASSUME TypeOK, MapInv, NEW t \in Threads, GetSession(t)
    PROVE  MapInv'
<1>1. PICK o \in Sessions :
         /\ Begin(t, <<Do("register", o), Do("take_reference", o)>>)
         /\ entry' = o
         /\ \/ entry = o /\ UNCHANGED refs
            \/ entry = None /\ refs' = [refs EXCEPT ![o] = {t}]
  BY TypeOKParts DEF GetSession, TablesTyped
<1>2. lock["map"] = None /\ lock'["map"] = t
  BY TypeOKParts DEF GetSession, TablesTyped
<1> DEFINE more == <<Do("register", o), Do("take_reference", o)>>
<1>3. more \in Seq(Steps) /\ Advance(t, more)
  BY <1>1, GetSessionLists, BeginAdvances
<1>4. /\ Do("register", o) \notin Holding
      /\ Do("take_reference", o) \in Holding /\ Do("take_reference", o).of = o
  BY DoPlain, DoHolding DEF Plain, PlainNames
<1>5. \A j \in 1 .. Len(more) : (more[j] \in Holding => j = 2) /\ (j = 2 => more[j] = Do("take_reference", o))
  BY <1>4
<1> HIDE DEF more
<1>6. \A u \in Threads : \A i \in 1 .. Len(todo[u]) : todo[u][i] \notin Holding
  BY <1>2, NobodyHolds
<1>7. AtMostOne(Holding)'
  <2>1. TodoTyped /\ AtMostOne(Holding)
    BY TypeOKParts DEF ProcessTyped, MapInv
  <2>2. \A i, j \in 1 .. Len(more) : more[i] \in Holding /\ more[j] \in Holding => i = j
    BY <1>5
  <2> QED BY <1>3, <1>6, <2>1, <2>2, StillAtMostOne
<1>8. ASSUME NEW u \in Threads, NEW i \in 1 .. Len(todo'[u]), todo'[u][i] \in Holding
      PROVE  /\ lock'["map"] = u
             /\ todo'[u][i].do = "take_reference" => entry' = todo'[u][i].of
  <2>1. lock["map"] # u
    BY <1>2, SyncSessionAssumption DEF Threads
  <2>2. u = t /\ \E j \in 1 .. Len(more) : todo'[u][i] = more[j]
    BY <1>3, <1>8, <2>1, HeldPlaces
  <2>3. todo'[u][i] = Do("take_reference", o)
    BY <1>5, <1>8, <2>2
  <2> QED BY <1>1, <1>2, <1>4, <2>2, <2>3
<1>9. MapHeld'
  BY <1>8 DEF MapHeld, Holding
<1>10. ReferencedIsRegistered'
  <2>1. entry = None => \A p \in Sessions : refs[p] = {}
    BY SyncSessionAssumption DEF MapInv, ReferencedIsRegistered
  <2> QED BY <1>1, <2>1, TypeOKParts DEF MapInv, ReferencedIsRegistered, TablesTyped
<1> QED BY <1>7, <1>9, <1>10 DEF MapInv

(* A thread gives the mutex back with the step that held it.               *)
LEMMA ReleaseKeepsMap ==
    ASSUME TypeOK, MapInv, NEW t \in Threads, NEW none \in Seq(Steps), Len(none) = 0,
           Advance(t, none), todo[t] # << >>, Head(todo[t]) \in Holding
    PROVE  /\ AtMostOne(Holding)'
           /\ \A u \in Threads : \A i \in 1 .. Len(todo'[u]) : todo'[u][i] \notin Holding
<1>1. AtMostOne(Holding)'
  <2>1. AtMostOne(Holding)
    BY DEF MapInv
  <2> QED BY <2>1, StepDone DEF Holding
<1>2. lock["map"] = t
  <2>1. 1 \in 1 .. Len(todo[t]) /\ todo[t][1] = Head(todo[t])
    BY TypeOKParts DEF ProcessTyped, TodoTyped
  <2> QED BY <2>1 DEF MapInv, MapHeld
<1>3. ASSUME NEW u \in Threads, NEW i \in 1 .. Len(todo'[u]), todo'[u][i] \in Holding
      PROVE  FALSE
  <2>2. lock["map"] = u /\ u # t
    BY <1>3, HeldBefore
  <2> QED BY <1>2, <2>2
<1> QED BY <1>1, <1>3

LEMMA HeadHolds ==
    ASSUME TypeOK, MapInv, NEW t \in Threads, NEW o \in Sessions,
           NEW name \in {"take_reference", "unlock_map", "end_look"}, At(t, name, o)
    PROVE  /\ todo[t] # << >> /\ Head(todo[t]) \in Holding /\ lock["map"] = t
           /\ name = "take_reference" => entry = o
<1>1. todo[t] # << >> /\ Head(todo[t]) \in Steps /\ Head(todo[t]).do = name /\ Head(todo[t]).of = o
  BY AtFacts
<1>2. Head(todo[t]) \in Holding
  BY <1>1 DEF Holding
<1>3. 1 \in 1 .. Len(todo[t]) /\ todo[t][1] = Head(todo[t])
  BY <1>1, TypeOKParts DEF ProcessTyped, TodoTyped
<1> QED BY <1>1, <1>2, <1>3 DEF MapInv, MapHeld

LEMMA ReferenceKeepsMap ==
    ASSUME TypeOK, MapInv, NEW t \in Threads, NEW o \in Sessions,
           TakeReference(t, o) \/ UnlockMap(t, o)
    PROVE  MapInv'
<1>1. /\ todo[t] # << >> /\ Head(todo[t]) \in Holding
      /\ TakeReference(t, o) => entry = o
  BY HeadHolds DEF TakeReference, UnlockMap
<1>2. Goes(t, << >>) /\ UNCHANGED entry
  BY DEF TakeReference, UnlockMap
<1>3. PICK none \in Seq(Steps) : Len(none) = 0 /\ Advance(t, none)
  BY <1>1, <1>2, EmptySeq, GoesAdvances
<1>4. AtMostOne(Holding)' /\ \A u \in Threads : \A i \in 1 .. Len(todo'[u]) : todo'[u][i] \notin Holding
  BY <1>1, <1>3, ReleaseKeepsMap
<1>5. MapHeld'
  BY <1>4 DEF MapHeld, Holding
<1>6. ReferencedIsRegistered'
  BY <1>1, <1>2, TypeOKParts
     DEF TakeReference, UnlockMap, MapInv, ReferencedIsRegistered, TablesTyped
<1> QED BY <1>4, <1>5, <1>6 DEF MapInv

LEMMA UnregisterKeepsMap ==
    ASSUME TypeOK, MapInv, NEW t \in Threads, NEW o \in Sessions, Unregister(t, o)
    PROVE  MapInv'
<1>1. todo[t] # << >> /\ lock["map"] = None
  BY AtFacts DEF Unregister
<1>2. \A u \in Threads : \A i \in 1 .. Len(todo[u]) : todo[u][i] \notin Holding
  BY <1>1, NobodyHolds
<1>3. TodoTyped /\ AtMostOne(Holding)
  BY TypeOKParts DEF ProcessTyped, MapInv
<1>4. CASE AssertFails
  BY <1>4 DEF AssertFails, MapInv, MapHeld, AtMostOne, ReferencedIsRegistered
<1>5. CASE /\ entry # None /\ refs[entry] = {}
           /\ entry' = None /\ Goes(t, << >>) /\ UNCHANGED <<refs, lock>>
  <2>1. PICK none \in Seq(Steps) : Len(none) = 0 /\ Advance(t, none)
    BY <1>1, <1>5, EmptySeq, GoesAdvances
  <2>2. AtMostOne(Holding)'
    BY <1>3, <2>1, StepDone DEF Holding
  <2>3. ASSUME NEW u \in Threads, NEW i \in 1 .. Len(todo'[u]), todo'[u][i] \in Holding
        PROVE  FALSE
    <3>1. lock["map"] = u
      BY <2>1, <2>3, HeldBefore
    <3> QED BY <1>1, <3>1, SyncSessionAssumption DEF Threads
  <2>4. MapHeld'
    BY <2>3 DEF MapHeld, Holding
  <2>5. ReferencedIsRegistered'
    BY <1>5 DEF MapInv, ReferencedIsRegistered
  <2> QED BY <2>2, <2>4, <2>5 DEF MapInv
<1>6. CASE /\ entry # None
           /\ refs' = [refs EXCEPT ![entry] = @ \cup {t}]
           /\ lock' = [lock EXCEPT !["map"] = t]
           /\ Goes(t, <<Do("end_look", entry)>>) /\ UNCHANGED entry
  <2> DEFINE more == <<Do("end_look", entry)>>
  <2>1. entry \in Sessions
    BY <1>6, TypeOKParts DEF TablesTyped
  <2>2. more \in Seq(Steps) /\ Advance(t, more)
    BY <1>1, <1>6, <2>1, GetSessionLists, GoesAdvances
  <2>3. Do("end_look", entry).do = "end_look"
    BY <2>1, DoHolding
  <2>4. \A j \in 1 .. Len(more) : j = 1 /\ more[j].do = "end_look"
    BY <2>3
  <2> HIDE DEF more
  <2>5. AtMostOne(Holding)'
    <3>1. \A i, j \in 1 .. Len(more) : more[i] \in Holding /\ more[j] \in Holding => i = j
      BY <2>4
    <3> QED BY <1>2, <1>3, <2>2, <3>1, StillAtMostOne
  <2>6. ASSUME NEW u \in Threads, NEW i \in 1 .. Len(todo'[u]), todo'[u][i] \in Holding
        PROVE  u = t /\ todo'[u][i].do = "end_look"
    <3>1. lock["map"] # u
      BY <1>1, SyncSessionAssumption DEF Threads
    <3>2. u = t /\ \E j \in 1 .. Len(more) : todo'[u][i] = more[j]
      BY <2>2, <2>6, <3>1, HeldPlaces
    <3> QED BY <2>4, <3>2
  <2>7. lock'["map"] = t
    BY <1>6, TypeOKParts DEF TablesTyped
  <2>8. MapHeld'
    BY <2>6, <2>7 DEF MapHeld, Holding
  <2>9. ReferencedIsRegistered'
    BY <1>6, <2>1, TypeOKParts DEF MapInv, ReferencedIsRegistered, TablesTyped
  <2> QED BY <2>5, <2>8, <2>9 DEF MapInv
<1> QED BY <1>4, <1>5, <1>6 DEF Unregister

LEMMA EndLookKeepsMap ==
    ASSUME TypeOK, MapInv, NEW t \in Threads, NEW o \in Sessions, EndLook(t, o)
    PROVE  MapInv'
<1> DEFINE a == IF refs[o] = {t} THEN <<Do("did_drop", o)>> ELSE << >>
           b == <<Do("unlock_map", o)>>
           more == a \o b
<1>1. todo[t] # << >> /\ Head(todo[t]) \in Holding /\ lock["map"] = t
  BY HeadHolds DEF EndLook
<1>2. Goes(t, more) /\ UNCHANGED <<entry, lock>>
  BY DEF EndLook
<1>3. /\ Do("did_drop", o) \in Steps /\ Do("did_drop", o) \notin Holding
      /\ Do("unlock_map", o) \in Steps /\ Do("unlock_map", o).do = "unlock_map"
  BY DoPlain, DoHolding DEF Plain, PlainNames
<1>4. /\ a \in Seq(Steps) /\ b \in Seq(Steps) /\ Len(b) = 1 /\ Len(a) \in Nat
      /\ \A i \in 1 .. Len(a) : a[i] \notin Holding
      /\ b[1].do = "unlock_map"
  BY <1>3
<1> HIDE DEF a, b
<1>5. /\ more \in Seq(Steps) /\ Len(more) = Len(a) + Len(b)
      /\ \A i \in 1 .. Len(a) + Len(b) : more[i] = IF i <= Len(a) THEN a[i] ELSE b[i - Len(a)]
  BY <1>4, ConcatProperties
<1>6. \A i \in 1 .. Len(more) : more[i] \in Holding => i = Len(a) + 1 /\ more[i].do = "unlock_map"
  <2> SUFFICES ASSUME NEW i \in 1 .. Len(more), more[i] \in Holding
               PROVE  i = Len(a) + 1 /\ more[i].do = "unlock_map"
    OBVIOUS
  <2>1. i > Len(a)
    BY <1>4, <1>5
  <2>2. i = Len(a) + 1 /\ i - Len(a) = 1
    BY <1>4, <1>5, <2>1
  <2> QED BY <1>4, <1>5, <2>1, <2>2
<1> HIDE DEF more
<1>7. Advance(t, more)
  BY <1>1, <1>2, <1>5, GoesAdvances
<1>8. AtMostOne(Holding)'
  <2>1. TodoTyped /\ AtMostOne(Holding)
    BY TypeOKParts DEF ProcessTyped, MapInv
  <2>2. \A i, j \in 1 .. Len(more) : more[i] \in Holding /\ more[j] \in Holding => i = j
    BY <1>6
  <2> QED BY <1>1, <1>5, <1>7, <2>1, <2>2, StillAtMostOne
<1>9. ASSUME NEW u \in Threads, NEW i \in 1 .. Len(todo'[u]), todo'[u][i] \in Holding
      PROVE  u = t /\ todo'[u][i].do = "unlock_map"
  <2>1. u = t /\ \E j \in 1 .. Len(more) : todo'[u][i] = more[j]
    BY <1>1, <1>5, <1>7, <1>9, HeldPlaces
  <2> QED BY <1>6, <1>9, <2>1
<1>10. MapHeld'
  BY <1>1, <1>2, <1>9 DEF MapHeld, Holding
<1>11. ReferencedIsRegistered'
  BY <1>2, TypeOKParts DEF EndLook, MapInv, ReferencedIsRegistered, TablesTyped
<1> QED BY <1>8, <1>10, <1>11 DEF MapInv

-----------------------------------------------------------------------------
(* The state of a session and its sync::Session                            *)

Matches(r) ==
    /\ r.state \in {"active", "dying"} => r.session
    /\ r.state \in {"unborn", "inactive"} => ~r.session

(* What the operations make of a session.                                  *)
Made(o) ==
    {ToInactive(o), [ToInactive(o) EXCEPT !.resyncs = @ + 1], ToWaiting(o), ToActive(o), ToDying(o),
     [s[o] EXCEPT !.close = TRUE], [s[o] EXCEPT !.close = FALSE]}
    \cup {[s[o] EXCEPT !.policy = p] : p \in StopPolicies}
    \cup {[s[o] EXCEPT !.queue = W] : W \in SUBSET Waiters}
Born(o) == {[s[o] EXCEPT !.state = "inactive", !.policy = p] : p \in StopPolicies}

LEMMA MadeMatches ==
    ASSUME TypeOK, SessionMatchesState, NEW o \in Sessions
    PROVE  /\ \A r \in Made(o) : Matches(r) /\ (s[o].state # "unborn" => r.state # "unborn")
           /\ s[o].state = "unborn" => \A r \in Born(o) : Matches(r)
<1>1. s[o] \in Session /\ Matches(s[o])
  BY SessionTyped DEF SessionMatchesState, Matches
<1>2. ToInactive(o) \in Session /\ Matches(ToInactive(o)) /\ Matches(ToWaiting(o)) /\ Matches(ToActive(o))
  <2>1. ToInactive(o) \in Session
    BY SessionTyped
  <2>2. Matches(ToInactive(o))
    BY <1>1 DEF Session, Matches, ToInactive
  <2>3. Matches(ToWaiting(o))
    BY <1>1 DEF Session, Matches, ToWaiting
  <2>4. Matches(ToActive(o))
    BY <1>1 DEF Session, Matches, ToActive
  <2> QED BY <2>1, <2>2, <2>3, <2>4
<1>3. Matches([ToInactive(o) EXCEPT !.resyncs = @ + 1])
  BY <1>2 DEF Session, Matches
<1>4. Matches(ToDying(o))
  BY <1>1 DEF Session, Matches, ToDying
<1>5. /\ Matches([s[o] EXCEPT !.close = TRUE]) /\ Matches([s[o] EXCEPT !.close = FALSE])
      /\ \A p \in StopPolicies : Matches([s[o] EXCEPT !.policy = p])
      /\ \A W \in SUBSET Waiters : Matches([s[o] EXCEPT !.queue = W])
  BY <1>1 DEF Session, Matches
<1>6. s[o].state = "unborn" => \A p \in StopPolicies : Matches([s[o] EXCEPT !.state = "inactive", !.policy = p])
  BY <1>1 DEF Session, Matches
<1>7. /\ ToInactive(o).state = "inactive" /\ [ToInactive(o) EXCEPT !.resyncs = @ + 1].state = "inactive"
      /\ ToWaiting(o).state = "waiting" /\ ToActive(o).state = "active" /\ ToDying(o).state = "dying"
      /\ \A v : [s[o] EXCEPT !.close = v].state = s[o].state
      /\ \A v : [s[o] EXCEPT !.policy = v].state = s[o].state
      /\ \A v : [s[o] EXCEPT !.queue = v].state = s[o].state
  BY <1>1 DEF Session, ToInactive, ToWaiting, ToActive, ToDying
<1>8. ASSUME NEW r \in Made(o) PROVE s[o].state # "unborn" => r.state # "unborn"
  <2>1. \/ r \in {ToInactive(o), [ToInactive(o) EXCEPT !.resyncs = @ + 1], ToWaiting(o), ToActive(o), ToDying(o)}
        \/ \E v : r = [s[o] EXCEPT !.close = v] \/ r = [s[o] EXCEPT !.policy = v] \/ r = [s[o] EXCEPT !.queue = v]
    BY DEF Made
  <2>2. CASE r \in {ToInactive(o), [ToInactive(o) EXCEPT !.resyncs = @ + 1], ToWaiting(o), ToActive(o), ToDying(o)}
    BY <1>7, <2>2
  <2>3. CASE \E v : r = [s[o] EXCEPT !.close = v] \/ r = [s[o] EXCEPT !.policy = v] \/ r = [s[o] EXCEPT !.queue = v]
    BY <1>7, <2>3
  <2> QED BY <2>1, <2>2, <2>3
<1> QED BY <1>2, <1>3, <1>4, <1>5, <1>6, <1>8 DEF Made, Born

StayBorn == \A p \in Sessions : s[p].state # "unborn" => s'[p].state # "unborn"

LEMMA MadeKeepsMatch ==
    ASSUME TypeOK, SessionMatchesState,
           \/ UNCHANGED s
           \/ \E o \in Sessions : \E r \in Made(o) : Becomes(o, r)
           \/ \E o \in Sessions : s[o].state = "unborn" /\ \E r \in Born(o) : Becomes(o, r)
    PROVE  SessionMatchesState' /\ StayBorn
<1>1. CASE UNCHANGED s
  BY <1>1 DEF SessionMatchesState, StayBorn
<1>2. ASSUME NEW o \in Sessions, NEW r, Matches(r), s[o].state # "unborn" => r.state # "unborn",
             Becomes(o, r)
      PROVE  SessionMatchesState' /\ StayBorn
  BY <1>2, TypeOKParts DEF SessionMatchesState, StayBorn, Matches, Becomes, SessionsTyped
<1> QED BY <1>1, <1>2, MadeMatches

LEMMA TakenMade ==
    ASSUME TypeOK, NEW o \in Sessions
    PROVE  /\ \A W : TakenOffList(o, W) \in Made(o)
           /\ \A w \in Waiters : [s[o] EXCEPT !.queue = @ \cup {w}] \in Made(o)
<1>1. s[o].queue \subseteq Waiters
  BY DEF TypeOK
<1>2. ASSUME NEW W PROVE TakenOffList(o, W) \in Made(o)
  <2>1. s[o].queue \ W \in SUBSET Waiters
    BY <1>1
  <2> QED BY <2>1 DEF TakenOffList, Made
<1>3. ASSUME NEW w \in Waiters PROVE [s[o] EXCEPT !.queue = @ \cup {w}] \in Made(o)
  <2>1. s[o].queue \cup {w} \in SUBSET Waiters
    BY <1>1
  <2> QED BY <2>1 DEF Made
<1> QED BY <1>2, <1>3

Known(o) == UNCHANGED s \/ \E r \in Made(o) : Becomes(o, r)

LEMMA StepsMake ==
    ASSUME TypeOK, NEW t \in Threads, NEW o \in Sessions,
           \/ RefreshAccessToken(t, o) \/ TokenFails(t, o) \/ LogOutSession(t, o)
           \/ DropReference(t, o) \/ BeginUpdate(t, o) \/ \E w \in Waiters : WaitForCompletion(t, o, w)
           \/ Register(t, o) \/ TakeReference(t, o) \/ UnlockMap(t, o) \/ Unregister(t, o)
           \/ EndLook(t, o) \/ Park(t, o) \/ Invalidate(t, o) \/ ReviveIfNeeded(t, o)
           \/ Bind(t, o) \/ SessionLogOut(t, o) \/ DidDropExternalReference(t, o)
           \/ UpdateConfiguration(t, o) \/ CallWaiters(t, o)
    PROVE  Known(o)
<1>1. CASE RefreshAccessToken(t, o)
  BY <1>1 DEF RefreshAccessToken, Known, Made
<1>2. CASE \E w \in Waiters : WaitForCompletion(t, o, w)
  BY <1>2, TakenMade DEF WaitForCompletion, Known
<1>3. CASE ReviveIfNeeded(t, o)
  BY <1>3 DEF ReviveIfNeeded, Known, Made
<1>4. CASE SessionLogOut(t, o)
  BY <1>4 DEF SessionLogOut, Known, Made
<1>5. CASE DidDropExternalReference(t, o)
  BY <1>5 DEF DidDropExternalReference, Known, Made
<1>6. CASE UpdateConfiguration(t, o)
  BY <1>6 DEF UpdateConfiguration, Known, Made
<1>7. CASE \/ TokenFails(t, o) \/ LogOutSession(t, o) \/ DropReference(t, o) \/ BeginUpdate(t, o)
           \/ Register(t, o) \/ TakeReference(t, o) \/ UnlockMap(t, o) \/ Unregister(t, o)
           \/ EndLook(t, o) \/ Park(t, o) \/ Invalidate(t, o) \/ Bind(t, o) \/ CallWaiters(t, o)
  BY <1>7 DEF TokenFails, LogOutSession, DropReference, BeginUpdate, Register, TakeReference,
              UnlockMap, Unregister, EndLook, Park, Invalidate, Bind, CallWaiters, Known
<1> QED BY <1>1, <1>2, <1>3, <1>4, <1>5, <1>6, <1>7

LEMMA ClientMakes ==
    ASSUME TypeOK, NEW o \in Sessions,
           \/ HandleError(o) \/ RestoreWaiters(o) \/ ApplyError(o)
           \/ \E k \in ErrorKinds : ReportError(o, k)
    PROVE  Known(o)
<1>1. CASE HandleError(o)
  BY <1>1 DEF HandleError, Known, Made
<1>2. CASE RestoreWaiters(o)
  <2>1. Head(todo[Client]).with \in SUBSET Waiters
    BY <1>2, AtFacts DEF RestoreWaiters, Threads
  <2> QED BY <1>2, <2>1 DEF RestoreWaiters, Known, Made
<1>3. CASE ApplyError(o)
  <2>1. Client \in Threads
    BY DEF Threads
  <2>2. Head(todo[Client]) \in Steps /\ Head(todo[Client]).do = "apply_error"
    BY <1>3, <2>1, AtFacts DEF ApplyError
  <2>3. Head(todo[Client]).kind \in ErrorKinds
    BY <2>2 DEF Steps
  <2>4. \/ UNCHANGED s
        \/ Becomes(o, TakenOffList(o, s[o].queue)) \/ Becomes(o, ToWaiting(o)) \/ Becomes(o, ToInactive(o))
        \/ Becomes(o, [ToInactive(o) EXCEPT !.resyncs = @ + 1])
    BY <1>3, <2>3 DEF ApplyError, ErrorKinds, AssertFails
  <2>5. TakenOffList(o, s[o].queue) \in Made(o)
    BY TakenMade
  <2> QED BY <2>4, <2>5 DEF Known, Made
<1>4. CASE \E k \in ErrorKinds : ReportError(o, k)
  BY <1>4 DEF ReportError, Known
<1> QED BY <1>1, <1>2, <1>3, <1>4

Matching == SessionMatchesState' /\ StayBorn

LEMMA NextMakes ==
    ASSUME TypeOK, SessionMatchesState, [Next]_vars
    PROVE  Matching
<1>1. ASSUME NEW t \in Threads, GetSession(t) PROVE Matching
  <2>1. \/ UNCHANGED s
        \/ \E o \in Sessions : s[o].state = "unborn" /\ \E r \in Born(o) : Becomes(o, r)
    BY <1>1 DEF GetSession, Born
  <2> QED BY <2>1, MadeKeepsMatch DEF Matching
<1>2. ASSUME NEW t \in Threads, GetExistingSession(t) \/ Reconnect(t) \/ LogOut(t) \/ LogIn(t)
      PROVE  Matching
  <2>1. UNCHANGED s
    BY <1>2 DEF GetExistingSession, Reconnect, LogOut, LogIn
  <2> QED BY <2>1, MadeKeepsMatch DEF Matching
<1>3. ASSUME NEW o \in Sessions, Known(o) PROVE Matching
  BY <1>3, MadeKeepsMatch DEF Known, Matching
<1>4. ASSUME NEW x \in waits, Completes(x) PROVE Matching
  <2>1. x.of \in Sessions
    BY TypeOKParts DEF OthersTyped, WaitOperation
  <2>2. \A W : TakenOffList(x.of, W) \in Made(x.of)
    BY <2>1, TakenMade
  <2>3. Known(x.of)
    BY <1>4, <2>2 DEF Completes, Known, Made
  <2> QED BY <1>3, <2>1, <2>3
<1>5. CASE UNCHANGED vars
  BY <1>5, MadeKeepsMatch DEF vars, Matching
<1>6. AppThreads \subseteq Threads
  BY DEF Threads
<1>7. CASE \E t \in AppThreads : AppOperation(t)
  BY <1>1, <1>2, <1>3, <1>6, <1>7, StepsMake DEF AppOperation
<1>8. CASE \E t \in Threads : Continue(t)
  BY <1>3, <1>8, StepsMake DEF Continue
<1>9. CASE ClientHandles \/ \E o \in Sessions, k \in ErrorKinds : ReportError(o, k)
  BY <1>3, <1>9, ClientMakes DEF ClientHandles
<1> QED BY <1>4, <1>5, <1>7, <1>8, <1>9 DEF Next

-----------------------------------------------------------------------------
(* The inductive invariant: types, a waiter at one place, one thread in    *)
(* the steps that hold m_session_mutex, and a sync::Session where the      *)
(* state says so.                                                          *)
SyncInv == TypeOK /\ WaitersInv /\ MapInv /\ SessionMatchesState

Good == TypeOK' /\ WaitersInv' /\ MapInv'

LEMMA CalmIsGood ==
    ASSUME TypeOK, WaitersInv, MapInv, NEW t \in Threads, TypeOK' /\ Calm(t) /\ OffMap(t)
    PROVE  Good
BY CalmKeepsWaiters, OffMapKeepsMap DEF Good

LEMMA SettledIsGood ==
    ASSUME TypeOK, WaitersInv, MapInv, NEW t \in Threads, NEW o \in Sessions,
           TypeOK' /\ Settled(t, o)
    PROVE  Good
BY CalmKeepsWaiters, MovesKeepWaiters, OffMapKeepsMap DEF Good, Settled

LEMMA StoppedKeeps ==
    ASSUME WaitersInv, Stopped
    PROVE  WaitersInv' /\ (MapInv => MapInv')
<1>1. WaitersInv'
  BY DEF Stopped, WaitersInv, AtOnePlace, AtMostOne, Carried, Carrying
<1>2. MapInv => MapInv'
  BY DEF Stopped, MapInv, MapHeld, AtMostOne, Holding, ReferencedIsRegistered
<1> QED BY <1>1, <1>2

LEMMA AppOperationGood ==
    ASSUME TypeOK, WaitersInv, MapInv, NEW t \in AppThreads, AppOperation(t)
    PROVE  Good
<1>1. t \in Threads
  BY DEF Threads
<1>2. CASE GetSession(t)
  <2>1. TypeOK' /\ MapInv'
    BY <1>1, <1>2, GetSessionTyped, GetSessionKeepsMap
  <2>2. PICK o : o \in Sessions
    BY <1>2, TypeOKParts DEF GetSession, TablesTyped
  <2>3. Calm(t) \/ Stopped
    BY <1>1, <1>2, <2>2, MapCalm
  <2> QED BY <1>1, <2>1, <2>3, CalmKeepsWaiters, StoppedKeeps DEF Good
<1>3. CASE GetExistingSession(t) \/ Reconnect(t) \/ LogOut(t) \/ LogIn(t)
  BY <1>1, <1>3, CallsCalm, CalmIsGood
<1>4. ASSUME NEW o \in Sessions, RefreshAccessToken(t, o) \/ TokenFails(t, o)
      PROVE  Good
  BY <1>1, <1>4, TokenCalm, CalmIsGood
<1>5. ASSUME NEW o \in Sessions, LogOutSession(t, o) \/ DropReference(t, o) \/ BeginUpdate(t, o)
      PROVE  Good
  BY <1>1, <1>5, SessionCallsCalm, CalmIsGood
<1>6. ASSUME NEW o \in Sessions, NEW w \in Waiters, WaitForCompletion(t, o, w)
      PROVE  Good
  BY <1>1, <1>6, WaitersTyped, WaitKeepsWaiters, OffMapKeepsMap DEF Good
<1> QED BY <1>2, <1>3, <1>4, <1>5, <1>6 DEF AppOperation

LEMMA ContinueGood ==
    ASSUME TypeOK, WaitersInv, MapInv, NEW t \in Threads, NEW o \in Sessions,
           \/ Register(t, o) \/ TakeReference(t, o) \/ UnlockMap(t, o) \/ Unregister(t, o)
           \/ EndLook(t, o) \/ Park(t, o) \/ Invalidate(t, o) \/ ReviveIfNeeded(t, o)
           \/ Bind(t, o) \/ SessionLogOut(t, o) \/ DidDropExternalReference(t, o)
           \/ UpdateConfiguration(t, o) \/ CallWaiters(t, o)
    PROVE  Good
<1>1. CASE TakeReference(t, o) \/ UnlockMap(t, o) \/ Unregister(t, o) \/ EndLook(t, o)
  <2>1. TypeOK' /\ MapInv'
    BY <1>1, ManagerTyped, ReferenceKeepsMap, UnregisterKeepsMap, EndLookKeepsMap
  <2>2. Calm(t) \/ Stopped
    BY <1>1, MapCalm
  <2> QED BY <2>1, <2>2, CalmKeepsWaiters, StoppedKeeps DEF Good
<1>2. CASE Register(t, o) \/ Park(t, o) \/ Invalidate(t, o) \/ Bind(t, o)
  BY <1>2, UserCalm, CalmIsGood
<1>3. CASE ReviveIfNeeded(t, o)
  BY <1>3, ReviveCalm, CalmIsGood
<1>4. CASE SessionLogOut(t, o)
  BY <1>4, LogOutMoves, SettledIsGood
<1>5. CASE DidDropExternalReference(t, o)
  BY <1>5, DidDropMoves, SettledIsGood
<1>6. CASE UpdateConfiguration(t, o)
  BY <1>6, UpdateMoves, SettledIsGood
<1>7. CASE CallWaiters(t, o)
  BY <1>7, WaitersTyped, CallKeepsWaiters, OffMapKeepsMap DEF Good
<1> QED BY <1>1, <1>2, <1>3, <1>4, <1>5, <1>6, <1>7

LEMMA ClientGood ==
    ASSUME TypeOK, WaitersInv, MapInv, NEW o \in Sessions,
           \/ HandleError(o) \/ ApplyError(o) \/ RestoreWaiters(o)
           \/ \E k \in ErrorKinds : ReportError(o, k)
    PROVE  Good
<1>1. Client \in Threads
  BY DEF Threads
<1>2. CASE HandleError(o)
  BY <1>1, <1>2, HandleMoves, SettledIsGood
<1>3. CASE ApplyError(o)
  <2>1. TypeOK' /\ (Stopped \/ Settled(Client, o))
    BY <1>3, ApplyMoves
  <2> QED BY <1>1, <2>1, StoppedKeeps, SettledIsGood DEF Good
<1>4. CASE RestoreWaiters(o)
  BY <1>1, <1>4, WaitersTyped, RestoreKeepsWaiters, OffMapKeepsMap DEF Good
<1>5. CASE \E k \in ErrorKinds : ReportError(o, k)
  BY <1>1, <1>5, ReportCalm, CalmIsGood
<1> QED BY <1>2, <1>3, <1>4, <1>5

LEMMA SyncNext ==
    ASSUME SyncInv, [Next]_vars
    PROVE  SyncInv'
<1> USE DEF SyncInv
<1>1. SessionMatchesState'
  BY NextMakes DEF Matching
<1>2. CASE \E t \in AppThreads : AppOperation(t)
  BY <1>1, <1>2, AppOperationGood DEF Good
<1>3. CASE \E t \in Threads : Continue(t)
  BY <1>1, <1>3, ContinueGood DEF Good, Continue
<1>4. CASE ClientHandles \/ \E o \in Sessions, k \in ErrorKinds : ReportError(o, k)
  BY <1>1, <1>4, ClientGood DEF Good, ClientHandles
<1>5. CASE \E x \in waits : Completes(x)
  <2>1. PICK x \in waits : Completes(x)
    BY <1>5
  <2>2. x.of \in Sessions /\ Client \in Threads
    BY TypeOKParts DEF OthersTyped, WaitOperation, Threads
  <2>3. Good
    BY <2>1, <2>2, CompletesMoves, SettledIsGood
  <2> QED BY <1>1, <2>3 DEF Good
<1>6. CASE UNCHANGED vars
  <2>1. Stopped
    BY <1>6 DEF vars, Stopped
  <2>2. TypeOK'
    BY <1>6 DEF vars, TypeOK
  <2> QED BY <1>1, <2>1, <2>2, StoppedKeeps
<1> QED BY <1>2, <1>3, <1>4, <1>5, <1>6 DEF Next

LEMMA SyncInit == Init => SyncInv
<1> SUFFICES ASSUME Init PROVE SyncInv
  OBVIOUS
<1>1. TypeOK
  BY TypeOKInit
<1>2. \A t \in Threads : todo[t] = << >> /\ 1 .. Len(todo[t]) = {}
  BY EmptySeq DEF Init
<1>3. \A o \in Sessions : s[o].queue = {} /\ s[o].state = "unborn" /\ ~s[o].session /\ refs[o] = {}
  BY DEF Init, Fresh
<1>4. WaitersInv
  BY <1>2, <1>3 DEF Init, WaitersInv, AtOnePlace, AtMostOne, Carried
<1>5. MapInv
  BY <1>2, <1>3 DEF MapInv, AtMostOne, MapHeld, ReferencedIsRegistered
<1>6. SessionMatchesState
  BY <1>3 DEF SessionMatchesState
<1> QED BY <1>1, <1>4, <1>5, <1>6 DEF SyncInv

(* Types, callbacks, map and states agree after every step of any thread.  *)
THEOREM SyncInvariant == Spec => []SyncInv
BY SyncInit, SyncNext, PTL DEF Spec

(* Every variable has its type: in particular each step a thread has yet   *)
(* to do is about a session there is.                                      *)
THEOREM SyncTypes == Spec => []TypeOK
<1>1. SyncInv => TypeOK
  BY DEF SyncInv
<1> QED BY <1>1, SyncInvariant, PTL

(* A session has its sync::Session whenever it is active or dying.         *)
THEOREM SessionsMatch == Spec => []SessionMatchesState
<1>1. SyncInv => SessionMatchesState
  BY DEF SyncInv
<1> QED BY <1>1, SyncInvariant, PTL

(* A session the application refers to is never unregistered under it.     *)
THEOREM ReferencedStays == Spec => []ReferencedIsRegistered
<1>1. SyncInv => ReferencedIsRegistered
  BY DEF SyncInv, MapInv
<1> QED BY <1>1, SyncInvariant, PTL

(* No completion callback is called twice, however many threads, sessions, *)
(* errors, logouts and client resyncs take it from list to list.           *)
THEOREM NobodyCalledTwice == Spec => []CalledOnce
<1>1. SyncInv => CalledOnce
  BY DEF SyncInv, WaitersInv, AtOnePlace, CalledOnce
<1> QED BY <1>1, SyncInvariant, PTL

-----------------------------------------------------------------------------
(* What a thread has not yet begun stays with it.                          *)

LEMMA AdvanceKept ==
    ASSUME TypeOK, NEW t \in Threads, NEW more \in Seq(Steps), Advance(t, more)
    PROVE  /\ \A i \in 1 .. Len(more) : i \in 1 .. Len(todo'[t]) /\ todo'[t][i] = more[i]
           /\ \A i \in 2 .. Len(todo[t]) :
                 /\ Len(more) + i - 1 \in 1 .. Len(todo'[t])
                 /\ todo'[t][Len(more) + i - 1] = todo[t][i]
<1> DEFINE r == Rest(todo[t])
<1>1. todo[t] \in Seq(Steps)
  BY DEF TypeOK
<1>2. /\ r \in Seq(Steps) /\ Len(r) = IF todo[t] = << >> THEN 0 ELSE Len(todo[t]) - 1
      /\ \A i \in 1 .. Len(r) : r[i] = todo[t][i + 1]
  BY <1>1, RestTyped
<1>3. todo'[t] = more \o r
  BY TypeOKParts DEF Advance, ProcessTyped, TodoTyped
<1>4. \A i \in 2 .. Len(todo[t]) : todo[t] # << >>
  BY <1>1, EmptySeq
<1> HIDE DEF r
<1>5. /\ Len(more \o r) = Len(more) + Len(r) /\ Len(more) \in Nat /\ Len(r) \in Nat
      /\ \A i \in 1 .. Len(more) + Len(r) :
            (more \o r)[i] = IF i <= Len(more) THEN more[i] ELSE r[i - Len(more)]
  <2>1. r \in Seq(Steps)
    BY <1>2
  <2>2. Len(more) \in Nat /\ Len(r) \in Nat
    BY <2>1
  <2> QED BY <2>1, <2>2, ConcatProperties
<1>6. ASSUME NEW i \in 1 .. Len(more)
      PROVE  i \in 1 .. Len(todo'[t]) /\ todo'[t][i] = more[i]
  BY <1>3, <1>5
<1>7. ASSUME NEW i \in 2 .. Len(todo[t])
      PROVE  /\ Len(more) + i - 1 \in 1 .. Len(todo'[t])
             /\ todo'[t][Len(more) + i - 1] = todo[t][i]
  <2>1. Len(r) = Len(todo[t]) - 1 /\ Len(todo[t]) \in Nat
    BY <1>1, <1>2, <1>4
  <2>2. i - 1 \in 1 .. Len(r) /\ r[i - 1] = todo[t][i]
    BY <1>2, <2>1
  <2> DEFINE k == Len(more) + i - 1
  <2>3. k \in 1 .. Len(more) + Len(r) /\ ~(k <= Len(more)) /\ k - Len(more) = i - 1
    BY <1>5, <2>1
  <2> HIDE DEF k
  <2>4. k \in 1 .. Len(todo'[t]) /\ todo'[t][k] = r[k - Len(more)]
    BY <1>3, <1>5, <2>3
  <2> QED BY <2>2, <2>3, <2>4 DEF k
<1> QED BY <1>6, <1>7

LEMMA InFlightCarried == TypeOK => \A w : InFlight(w) <=> Carried(w)
<1> SUFFICES ASSUME TypeOK, NEW w PROVE InFlight(w) <=> Carried(w)
  OBVIOUS
<1>1. \A t \in Threads : todo[t] \in Seq(Steps)
  BY DEF TypeOK
<1>2. \A t \in Threads : /\ DOMAIN todo[t] = 1 .. Len(todo[t])
                         /\ \A i \in 1 .. Len(todo[t]) : todo[t][i] \in Steps
  BY <1>1
<1> QED BY <1>2 DEF InFlight, Carried, Carrying

LEMMA InFlightCarriedNext == TypeOK' => \A w : InFlight(w)' <=> Carried(w)'
<1> SUFFICES ASSUME TypeOK', NEW w PROVE InFlight(w)' <=> Carried(w)'
  OBVIOUS
<1>1. \A t \in Threads : todo'[t] \in Seq(Steps)
  BY DEF TypeOK, Steps
<1>2. \A t \in Threads : /\ DOMAIN todo'[t] = 1 .. Len(todo'[t])
                         /\ \A i \in 1 .. Len(todo'[t]) : todo'[t][i] \in Steps
  BY <1>1
<1> QED BY <1>2 DEF InFlight, Carried, Carrying, Steps

(* The step the thread is at, if any, carries nobody.                      *)
HeadBare(t) == todo[t] = << >> \/ Head(todo[t]).with = {}

LEMMA BareHeadKeeps ==
    ASSUME TypeOK, NEW t \in Threads, NEW more \in Seq(Steps), Advance(t, more),
           NEW w, Carried(w), todo[t] = << >> \/ w \notin Head(todo[t]).with
    PROVE  Carried(w)'
<1>1. TodoTyped
  BY TypeOKParts DEF ProcessTyped
<1>0. PICK u \in Threads : \E i \in 1 .. Len(todo[u]) : todo[u][i] \in Carrying(w)
  BY DEF Carried
<1>2. PICK i \in 1 .. Len(todo[u]) : todo[u][i] \in Carrying(w)
  BY <1>0
<1>3. CASE u # t
  <2>1. todo'[u] = todo[u]
    BY <1>1, <1>3, AdvancePlaces
  <2> QED BY <1>2, <2>1 DEF Carried, Carrying
<1>4. CASE u = t
  <2>1. todo[t] # << >> /\ todo[t][1] = Head(todo[t]) /\ Len(todo[t]) \in Nat
    BY <1>1, <1>2, <1>4, EmptySeq DEF TodoTyped
  <2>2. i # 1
    BY <1>2, <1>4, <2>1 DEF Carrying
  <2>3. i \in 2 .. Len(todo[t])
    BY <1>2, <1>4, <2>1, <2>2
  <2>4. Len(more) + i - 1 \in 1 .. Len(todo'[t]) /\ todo'[t][Len(more) + i - 1] = todo[t][i]
    BY <2>3, AdvanceKept
  <2> QED BY <1>2, <1>4, <2>4 DEF Carried, Carrying
<1> QED BY <1>3, <1>4

-----------------------------------------------------------------------------
(* Who is waited for.  A session somebody can get at is one the map, an    *)
(* external reference, a request for a token or a thread's next steps      *)
(* still name; one that nobody names is not found again, because what the  *)
(* user and the wait operations keep are weak references.                  *)
Sought(o) == entry = o \/ refs[o] # {} \/ o \in asks \/ \E t \in Threads : Mentions(t, o)
Begun(o) == s[o].state = "unborn" /\ s'[o].state # "unborn" /\ s'[o].queue = s[o].queue
NobodyFound == \A p \in Sessions : Sought(p)' => Sought(p) \/ Begun(p)
Touched == \A p \in Sessions : s'[p] = s[p] \/ Sought(p) \/ Begun(p)

(* Steps about one session that a thread may be left with: putting waiters *)
(* back is left only by a client resync.                                   *)
Left(o) == {x \in Steps : x.of = o /\ (x.do = "restore" => s'[o].resyncs > 0)}

Resynced ==
    \A t \in Threads : \A i \in 1 .. Len(todo[t]) :
       todo[t][i].do = "restore" => s[todo[t][i].of].resyncs > 0

LEMMA LeftNames ==
    ASSUME NEW o \in Sessions
    PROVE  /\ \A name \in PlainNames \cup {"take_reference", "unlock_map", "end_look"} :
                 Do(name, o) \in Left(o)
           /\ \A W \in SUBSET Waiters : CallEach(o, W) \in Left(o)
           /\ \A W \in SUBSET Waiters : s'[o].resyncs > 0 => Restore(o, W) \in Left(o)
           /\ \A k \in ErrorKinds : \A name \in ErrorNames : Error(name, o, k) \in Left(o)
<1>1. ASSUME NEW name \in PlainNames \cup {"take_reference", "unlock_map", "end_look"}
      PROVE  Do(name, o) \in Left(o)
  <2>1. Do(name, o) \in Steps /\ Do(name, o).of = o /\ Do(name, o).do = name
    BY DEF Do, Steps, PlainNames
  <2> QED BY <2>1 DEF Left, PlainNames
<1>2. ASSUME NEW W \in SUBSET Waiters
      PROVE  CallEach(o, W) \in Left(o) /\ (s'[o].resyncs > 0 => Restore(o, W) \in Left(o))
  <2>1. CallEach(o, W).of = o /\ CallEach(o, W).do = "call" /\ Restore(o, W).of = o
    BY DEF CallEach, Restore, Do
  <2> QED BY <2>1, DoCarrying DEF Left
<1>3. ASSUME NEW k \in ErrorKinds, NEW name \in ErrorNames
      PROVE  Error(name, o, k) \in Left(o)
  <2>1. Error(name, o, k).of = o /\ Error(name, o, k).do = name
    BY DEF Error, Do
  <2>2. Error(name, o, k) \in Steps
    BY DoPlain DEF Plain
  <2> QED BY <2>1, <2>2 DEF Left, ErrorNames
<1> QED BY <1>1, <1>2, <1>3

LEMMA LeftLists ==
    ASSUME NEW o
    PROVE  /\ << >> \in Seq(Left(o))
           /\ \A x \in Left(o) : <<x>> \in Seq(Left(o))
           /\ \A x, y \in Left(o) : <<x, y>> \in Seq(Left(o))
           /\ \A x, y, z \in Left(o) : <<x, y, z>> \in Seq(Left(o))
           /\ Seq(Left(o)) \subseteq Seq(Steps)
<1>1. Left(o) \subseteq Steps
  BY DEF Left
<1>2. Seq(Left(o)) \subseteq Seq(Steps)
  BY <1>1, SeqMonotonic
<1> HIDE DEF Left
<1> QED BY <1>2

LEMMA LeftInactive ==
    ASSUME TypeOK, NEW o \in Sessions
    PROVE  /\ AfterInactive(o) \in Seq(Left(o))
           /\ AfterInactive(o) \o <<Do("update", o)>> \in Seq(Left(o))
<1>1. s[o].queue \in SUBSET Waiters
  BY DEF TypeOK
<1>2. Do("unregister", o) \in Left(o) /\ Do("update", o) \in Left(o) /\ CallEach(o, s[o].queue) \in Left(o)
  BY <1>1, LeftNames DEF PlainNames
<1>3. AfterInactive(o) = <<Do("unregister", o), CallEach(o, s[o].queue)>>
  BY DEF AfterInactive
<1>4. AfterInactive(o) \o <<Do("update", o)>>
        = <<Do("unregister", o), CallEach(o, s[o].queue), Do("update", o)>>
  BY AfterInactiveTyped
<1> QED BY <1>2, <1>3, <1>4, LeftLists

(* What a thread begins or goes on with is what it is left with.           *)
LEMMA LeftStep ==
    ASSUME TypeOK, NEW t \in Threads, NEW o, NEW more \in Seq(Left(o)),
           \/ todo[t] # << >> /\ Goes(t, more)
           \/ Begin(t, more)
    PROVE  Leaves(t, Left(o))
<1>1. more \in Seq(Steps)
  BY LeftLists
<1>2. Advance(t, more)
  BY <1>1, BeginAdvances, GoesAdvances
<1> QED BY <1>2 DEF Leaves

(* The steps a thread then has are those it had or steps about o.          *)
LEMMA LeftPlaces ==
    ASSUME TypeOK, NEW t \in Threads, NEW o, Leaves(t, Left(o)) \/ UNCHANGED todo
    PROVE  /\ TodoTyped'
           /\ \A u \in Threads : \A i \in 1 .. Len(todo'[u]) :
                 \/ \E j \in 1 .. Len(todo[u]) : todo'[u][i] = todo[u][j]
                 \/ todo'[u][i] \in Left(o)
<1>1. TodoTyped
  BY TypeOKParts DEF ProcessTyped
<1>2. CASE UNCHANGED todo
  BY <1>1, <1>2 DEF TodoTyped
<1>3. CASE Leaves(t, Left(o))
  <2>1. PICK more \in Seq(Left(o)) : Advance(t, more)
    BY <1>3 DEF Leaves
  <2>2. more \in Seq(Steps) /\ \A i \in 1 .. Len(more) : more[i] \in Left(o)
    BY LeftLists, ElementOfSeq
  <2>3. Len(todo[t]) \in Nat
    BY <1>1 DEF TodoTyped
  <2>4. \A n \in 2 .. Len(todo[t]) : n \in 1 .. Len(todo[t])
    BY <2>3
  <2> QED BY <1>1, <2>1, <2>2, <2>4, AdvancePlaces
<1> QED BY <1>2, <1>3

LEMMA MentionsIndex ==
    ASSUME TodoTyped, NEW t \in Threads, NEW p
    PROVE  Mentions(t, p) <=> \E i \in 1 .. Len(todo[t]) : todo[t][i].of = p
<1>1. DOMAIN todo[t] = 1 .. Len(todo[t])
  BY DEF TodoTyped
<1> QED BY <1>1 DEF Mentions

LEMMA MentionsIndexNext ==
    ASSUME TodoTyped', NEW t \in Threads, NEW p
    PROVE  Mentions(t, p)' <=> \E i \in 1 .. Len(todo'[t]) : todo'[t][i].of = p
<1>1. DOMAIN todo'[t] = 1 .. Len(todo'[t])
  BY DEF TodoTyped
<1> QED BY <1>1 DEF Mentions

(* A thread at a step about a session can get at it.                       *)
LEMMA AtSought ==
    ASSUME TypeOK, NEW t \in Threads, NEW o, NEW name, At(t, name, o)
    PROVE  Sought(o)
<1>1. todo[t] # << >> /\ Head(todo[t]).of = o
  BY DEF At
<1>2. TodoTyped
  BY TypeOKParts DEF ProcessTyped
<1>3. 1 \in 1 .. Len(todo[t]) /\ todo[t][1] = Head(todo[t])
  BY <1>1, <1>2 DEF TodoTyped
<1> QED BY <1>1, <1>2, <1>3, MentionsIndex DEF Sought

(* A step about a session that is sought, or that is made by it, or about  *)
(* none, finds no other.                                                   *)
Finding(t, o) ==
    /\ Leaves(t, Left(o)) \/ UNCHANGED todo
    /\ o = None \/ Sought(o) \/ Begun(o)
    /\ entry' \in {entry, None, o}
    /\ \A p \in Sessions : refs'[p] # {} => refs[p] # {} \/ p \in {entry, o}
    /\ asks' \subseteq asks \cup {o}

LEMMA FindsNobody ==
    ASSUME TypeOK, NEW t \in Threads, NEW o, Finding(t, o)
    PROVE  NobodyFound
<1> SUFFICES ASSUME NEW p \in Sessions, Sought(p)', p # o
             PROVE  Sought(p)
  BY SyncSessionAssumption DEF NobodyFound, Finding
<1>1. p # None
  BY SyncSessionAssumption
<1>2. TodoTyped /\ TodoTyped'
  BY TypeOKParts, LeftPlaces DEF ProcessTyped, Finding
<1>3. ASSUME NEW u \in Threads, Mentions(u, p)'
      PROVE  Mentions(u, p)
  <2>1. PICK i \in 1 .. Len(todo'[u]) : todo'[u][i].of = p
    BY <1>2, <1>3, MentionsIndexNext
  <2>2. todo'[u][i] \notin Left(o)
    BY <2>1 DEF Left
  <2>3. PICK j \in 1 .. Len(todo[u]) : todo'[u][i] = todo[u][j]
    BY <2>2, LeftPlaces DEF Finding
  <2> QED BY <1>2, <2>1, <2>3, MentionsIndex
<1> QED BY <1>1, <1>3 DEF Sought, Finding

(* Waiters are put back only after a resync, also when sessions change.    *)
LEMMA ResyncedStill ==
    ASSUME TypeOK, NEW t \in Threads, NEW o, Leaves(t, Left(o)) \/ UNCHANGED todo,
           Resynced, \A p \in Sessions : s[p].resyncs > 0 => s'[p].resyncs > 0
    PROVE  Resynced'
<1> SUFFICES ASSUME NEW u \in Threads, NEW i \in 1 .. Len(todo'[u]), todo'[u][i].do = "restore"
             PROVE  s'[todo'[u][i].of].resyncs > 0
  BY DEF Resynced
<1>1. TodoTyped
  BY TypeOKParts DEF ProcessTyped
<1>2. CASE todo'[u][i] \in Left(o)
  BY <1>2 DEF Left
<1>3. ASSUME NEW j \in 1 .. Len(todo[u]), todo'[u][i] = todo[u][j]
      PROVE  s'[todo'[u][i].of].resyncs > 0
  <2>1. todo[u][j] \in Steps
    BY <1>1, ElementOfSeq DEF TodoTyped
  <2>2. todo[u][j].of \in Sessions
    BY <2>1 DEF Steps
  <2> QED BY <1>3, <2>2 DEF Resynced
<1> QED BY <1>2, <1>3, LeftPlaces

-----------------------------------------------------------------------------
(* What a step makes of one session's waiters: each of them is waited for  *)
(* afterwards, if the session is active or dying and was never resynced.   *)
Busy(r) == r.state \in {"active", "dying"} /\ r.resyncs = 0
Awaited(w, o, X) == \E x \in X : x.of = o /\ w \in InDirection(x.kind) /\ x.mark = 0
WaitInv == Resynced /\ WaitersAreWaitedFor
Sustained == WaitInv' /\ NobodyFound /\ Touched

Settles(o, r) ==
    /\ r.resyncs \in Nat /\ r.resyncs >= s[o].resyncs
    /\ Busy(r) => \/ Busy(s[o]) /\ r.queue \subseteq s[o].queue
                  \/ \A w \in r.queue : Awaited(w, o, waits')
Turn(o) ==
    /\ waits \subseteq waits'
    /\ \/ UNCHANGED s
       \/ o \in Sessions /\ \E r : Becomes(o, r) /\ Settles(o, r)

LEMMA WaitersMeaning ==
    WaitersAreWaitedFor <=> \A p \in Sessions : Exists(p) /\ Busy(s[p]) =>
                              \A w \in s[p].queue : Awaited(w, p, waits)
BY DEF WaitersAreWaitedFor, Busy, Awaited

LEMMA WaitersMeaningNext ==
    WaitersAreWaitedFor' <=> \A p \in Sessions : Exists(p)' /\ Busy(s'[p]) =>
                               \A w \in s'[p].queue : Awaited(w, p, waits')
BY DEF WaitersAreWaitedFor, Busy, Awaited

LEMMA ExistsMeaning == \A p : /\ Exists(p) <=> s[p].state # "unborn" /\ Sought(p)
                              /\ Exists(p)' <=> s'[p].state # "unborn" /\ Sought(p)'
BY DEF Exists, Sought

LEMMA TurnKeepsWaiters ==
    ASSUME TypeOK, NobodyFound, WaitersAreWaitedFor, NEW o, Turn(o)
    PROVE  WaitersAreWaitedFor'
<1> SUFFICES ASSUME NEW p \in Sessions, Exists(p)', Busy(s'[p]), NEW w \in s'[p].queue
             PROVE  Awaited(w, p, waits')
  BY WaitersMeaningNext
<1>1. s[p].resyncs \in Nat
  BY DEF TypeOK
<1>2. ASSUME Busy(s[p]), w \in s[p].queue
      PROVE  Awaited(w, p, waits')
  <2>1. Exists(p)
    BY <1>2, ExistsMeaning DEF NobodyFound, Begun, Busy
  <2>2. Awaited(w, p, waits)
    BY <1>2, <2>1, WaitersMeaning
  <2> QED BY <2>2 DEF Awaited, Turn
<1>3. CASE s'[p] = s[p]
  BY <1>2, <1>3
<1>4. CASE s'[p] # s[p]
  <2>1. PICK r : o \in Sessions /\ Becomes(o, r) /\ Settles(o, r)
    BY <1>4 DEF Turn
  <2>2. p = o /\ s'[p] = r
    BY <1>4, <2>1 DEF Becomes, TypeOK
  <2> QED BY <1>2, <2>1, <2>2 DEF Settles
<1> QED BY <1>3, <1>4

LEMMA TurnGrows ==
    ASSUME TypeOK, NEW o, Turn(o)
    PROVE  \A p \in Sessions : s[p].resyncs > 0 => s'[p].resyncs > 0
<1> SUFFICES ASSUME NEW p \in Sessions, s[p].resyncs > 0
             PROVE  s'[p].resyncs > 0
  OBVIOUS
<1>1. s[p].resyncs \in Nat
  BY DEF TypeOK
<1>2. CASE s'[p] = s[p]
  BY <1>2
<1>3. CASE s'[p] # s[p]
  <2>1. PICK r : o \in Sessions /\ Becomes(o, r) /\ Settles(o, r)
    BY <1>3 DEF Turn
  <2>2. p = o /\ s'[p] = r
    BY <1>3, <2>1 DEF Becomes, TypeOK
  <2>3. r.resyncs \in Nat /\ r.resyncs >= s[p].resyncs
    BY <2>1, <2>2 DEF Settles
  <2> QED BY <1>1, <2>2, <2>3
<1> QED BY <1>2, <1>3

LEMMA StepKeepsWaits ==
    ASSUME TypeOK, WaitInv, NEW t \in Threads, NEW o, Finding(t, o), Turn(o)
    PROVE  Sustained
<1>1. NobodyFound /\ WaitInv'
  BY FindsNobody, TurnKeepsWaiters, TurnGrows, ResyncedStill DEF WaitInv, Finding
<1>2. Touched
  <2> SUFFICES ASSUME NEW p \in Sessions, s'[p] # s[p] PROVE Sought(p) \/ Begun(p)
    BY DEF Touched
  <2>1. o \in Sessions /\ \E r : Becomes(o, r)
    BY DEF Turn
  <2>2. p = o
    BY <2>1, TypeOKParts DEF Becomes, SessionsTyped
  <2> QED BY <2>1, <2>2, SyncSessionAssumption DEF Finding
<1> QED BY <1>1, <1>2 DEF Sustained

(* What the state transitions make of a session.                           *)
LEMMA Fields ==
    ASSUME TypeOK, NEW o \in Sessions
    PROVE  /\ s[o].resyncs \in Nat /\ s[o].queue \in SUBSET Waiters
           /\ ToInactive(o).state = "inactive" /\ ToInactive(o).resyncs = s[o].resyncs
           /\ LET r == [ToInactive(o) EXCEPT !.resyncs = @ + 1]
              IN  r.state = "inactive" /\ r.resyncs = s[o].resyncs + 1
           /\ ToWaiting(o).state = "waiting" /\ ToWaiting(o).resyncs = s[o].resyncs
           /\ ToActive(o).queue = s[o].queue /\ ToActive(o).resyncs = s[o].resyncs
           /\ ToDying(o).queue = s[o].queue /\ ToDying(o).resyncs = s[o].resyncs
           /\ \A b \in BOOLEAN : LET r == [s[o] EXCEPT !.close = b]
                                 IN  r.state = s[o].state /\ r.resyncs = s[o].resyncs /\ r.queue = s[o].queue
           /\ \A p : LET r == [s[o] EXCEPT !.policy = p]
                     IN  r.state = s[o].state /\ r.resyncs = s[o].resyncs /\ r.queue = s[o].queue
           /\ \A p : LET r == [s[o] EXCEPT !.state = "inactive", !.policy = p]
                     IN  r.state = "inactive" /\ r.resyncs = s[o].resyncs /\ r.queue = s[o].queue
           /\ \A W : LET r == [s[o] EXCEPT !.queue = W]
                     IN  r.state = s[o].state /\ r.resyncs = s[o].resyncs /\ r.queue = W
<1>1. s[o] \in Session
  BY SessionTyped
<1>2. s[o].resyncs \in Nat /\ s[o].queue \in SUBSET Waiters
  BY <1>1 DEF Session
<1>3. ToInactive(o) \in Session
  BY SessionTyped
<1>4. /\ ToInactive(o).state = "inactive" /\ ToInactive(o).resyncs = s[o].resyncs
      /\ ToWaiting(o).state = "waiting" /\ ToWaiting(o).resyncs = s[o].resyncs
      /\ ToActive(o).queue = s[o].queue /\ ToActive(o).resyncs = s[o].resyncs
      /\ ToDying(o).queue = s[o].queue /\ ToDying(o).resyncs = s[o].resyncs
  BY <1>1 DEF Session, ToInactive, ToWaiting, ToActive, ToDying
<1>5. LET r == [ToInactive(o) EXCEPT !.resyncs = @ + 1]
      IN  r.state = "inactive" /\ r.resyncs = s[o].resyncs + 1
  BY <1>3, <1>4 DEF Session
<1>6. /\ \A b \in BOOLEAN : LET r == [s[o] EXCEPT !.close = b]
                            IN  r.state = s[o].state /\ r.resyncs = s[o].resyncs /\ r.queue = s[o].queue
      /\ \A p : LET r == [s[o] EXCEPT !.policy = p]
                IN  r.state = s[o].state /\ r.resyncs = s[o].resyncs /\ r.queue = s[o].queue
      /\ \A p : LET r == [s[o] EXCEPT !.state = "inactive", !.policy = p]
                IN  r.state = "inactive" /\ r.resyncs = s[o].resyncs /\ r.queue = s[o].queue
      /\ \A W : LET r == [s[o] EXCEPT !.queue = W]
                IN  r.state = s[o].state /\ r.resyncs = s[o].resyncs /\ r.queue = W
  BY <1>1 DEF Session
<1> QED BY <1>2, <1>4, <1>5, <1>6

(* Activated, a session waits for each of its waiters.                     *)
LEMMA ActiveAwaited ==
    ASSUME TypeOK, NEW o \in Sessions, ActiveWaits(o) \subseteq waits', s[o].resyncs = 0
    PROVE  \A w \in s[o].queue : Awaited(w, o, waits')
<1> SUFFICES ASSUME NEW w \in s[o].queue PROVE Awaited(w, o, waits')
  OBVIOUS
<1>1. w \in Waiters
  BY Fields
<1>2. PICK d \in Directions : w \in InDirection(d)
  BY <1>1 DEF Waiters, Directions, InDirection
<1>3. d \in Waiting(o)
  BY <1>2 DEF Waiting
<1>4. Wait(o, d, 0) \in waits'
  BY <1>3 DEF ActiveWaits
<1>5. Wait(o, d, 0).of = o /\ Wait(o, d, 0).kind = d /\ Wait(o, d, 0).mark = 0
  BY DEF Wait
<1> QED BY <1>2, <1>4, <1>5 DEF Awaited

(* Nothing changes for a session that is made inactive or waiting, that    *)
(* stays what it is with the same or fewer waiters, or is activated.       *)
LEMMA QuietTurn ==
    ASSUME TypeOK, NEW o \in Sessions, waits \subseteq waits',
           \/ UNCHANGED s
           \/ Becomes(o, ToInactive(o)) \/ Becomes(o, [ToInactive(o) EXCEPT !.resyncs = @ + 1])
           \/ Becomes(o, ToWaiting(o))
           \/ (Becomes(o, ToActive(o)) \/ Becomes(o, ToDying(o))) /\ ActiveWaits(o) \subseteq waits'
           \/ Becomes(o, ToDying(o)) /\ s[o].state = "active"
           \/ \E b \in BOOLEAN : Becomes(o, [s[o] EXCEPT !.close = b])
           \/ \E p : Becomes(o, [s[o] EXCEPT !.policy = p])
           \/ \E W : Becomes(o, TakenOffList(o, W))
    PROVE  Turn(o)
<1>1. CASE UNCHANGED s
  BY <1>1 DEF Turn
<1>2. ASSUME NEW r, Becomes(o, r), r.state \notin {"active", "dying"},
             r.resyncs \in {s[o].resyncs, s[o].resyncs + 1}
      PROVE  Turn(o)
  <2>1. r.resyncs \in Nat /\ r.resyncs >= s[o].resyncs
    BY <1>2, Fields
  <2> QED BY <1>2, <2>1 DEF Turn, Settles, Busy
<1>3. ASSUME NEW r, Becomes(o, r), r.resyncs = s[o].resyncs, r.queue \subseteq s[o].queue,
             \/ r.state = s[o].state \/ s[o].state = "active"
             \/ ActiveWaits(o) \subseteq waits'
      PROVE  Turn(o)
  <2>1. r.resyncs \in Nat /\ r.resyncs >= s[o].resyncs
    BY <1>3, Fields
  <2>2. Busy(r) => Busy(s[o]) \/ \A w \in r.queue : Awaited(w, o, waits')
    BY <1>3, ActiveAwaited DEF Busy
  <2> QED BY <1>3, <2>1, <2>2 DEF Turn, Settles
<1>4. CASE \/ Becomes(o, ToInactive(o)) \/ Becomes(o, [ToInactive(o) EXCEPT !.resyncs = @ + 1])
           \/ Becomes(o, ToWaiting(o))
  BY <1>2, <1>4, Fields
<1>5. CASE \/ (Becomes(o, ToActive(o)) \/ Becomes(o, ToDying(o))) /\ ActiveWaits(o) \subseteq waits'
           \/ Becomes(o, ToDying(o)) /\ s[o].state = "active"
  BY <1>3, <1>5, Fields
<1>6. ASSUME NEW b \in BOOLEAN, Becomes(o, [s[o] EXCEPT !.close = b]) PROVE Turn(o)
  BY <1>3, <1>6, Fields
<1>7. ASSUME NEW p, Becomes(o, [s[o] EXCEPT !.policy = p]) PROVE Turn(o)
  BY <1>3, <1>7, Fields
<1>8. ASSUME NEW W, Becomes(o, TakenOffList(o, W)) PROVE Turn(o)
  <2>1. TakenOffList(o, W) = [s[o] EXCEPT !.queue = s[o].queue \ W]
    BY DEF TakenOffList
  <2>2. /\ TakenOffList(o, W).state = s[o].state /\ TakenOffList(o, W).resyncs = s[o].resyncs
        /\ TakenOffList(o, W).queue = s[o].queue \ W
    BY <2>1, Fields
  <2>3. TakenOffList(o, W).queue \subseteq s[o].queue
    BY <2>2
  <2> HIDE DEF TakenOffList
  <2> QED BY <1>3, <1>8, <2>2, <2>3
<1> QED BY <1>1, <1>4, <1>5, <1>6, <1>7, <1>8

(* The user's sessions are sought while somebody has them.                 *)
LEMMA ManagerKeepsWaits ==
    ASSUME TypeOK, WaitInv, NEW t \in Threads,
           GetSession(t) \/ GetExistingSession(t) \/ Reconnect(t) \/ LogOut(t) \/ LogIn(t)
    PROVE  Sustained
<1> USE DEF answers, tables
<1>1. None \notin Sessions
  BY SyncSessionAssumption
<1>2. ASSUME NEW o, UNCHANGED <<s, waits>>
      PROVE  Turn(o)
  BY <1>2 DEF Turn
<1>3. CASE GetSession(t)
  <2>1. UNCHANGED <<asks, waits>>
    BY <1>3 DEF GetSession
  <2>2. CASE entry # None /\ UNCHANGED <<s, entry, refs>>
             /\ Begin(t, <<Do("register", entry), Do("take_reference", entry)>>)
    <3>1. entry \in Sessions
      BY <2>2, TypeOKParts DEF TablesTyped
    <3>2. Leaves(t, Left(entry))
      BY <2>2, <3>1, LeftNames, LeftLists, LeftStep DEF PlainNames
    <3>3. Finding(t, entry)
      BY <2>1, <2>2, <3>2 DEF Finding, Sought
    <3> QED BY <1>2, <2>1, <2>2, <3>3, StepKeepsWaits
  <2>3. ASSUME NEW o \in Sessions, NEW p \in StopPolicies, s[o].state = "unborn",
               Becomes(o, [s[o] EXCEPT !.state = "inactive", !.policy = p]),
               entry' = o, refs' = [refs EXCEPT ![o] = {t}],
               Begin(t, <<Do("register", o), Do("take_reference", o)>>)
        PROVE  Sustained
    <3>1. Leaves(t, Left(o))
      BY <2>3, LeftNames, LeftLists, LeftStep DEF PlainNames
    <3>2. Finding(t, o)
      <4> DEFINE r == [s[o] EXCEPT !.state = "inactive", !.policy = p]
      <4>1. Becomes(o, r) /\ r.state = "inactive" /\ r.queue = s[o].queue
        BY <2>3, Fields
      <4> HIDE DEF r
      <4>2. Begun(o)
        BY <2>3, <4>1, TypeOKParts DEF Becomes, Begun, SessionsTyped
      <4> QED BY <2>1, <2>3, <3>1, <4>2, TypeOKParts DEF Finding, TablesTyped
    <3>3. Turn(o)
      <4> DEFINE r == [s[o] EXCEPT !.state = "inactive", !.policy = p]
      <4>1. Becomes(o, r) /\ r.state = "inactive" /\ r.resyncs = s[o].resyncs
        BY <2>3, Fields
      <4>2. r.resyncs \in Nat /\ r.resyncs >= s[o].resyncs
        BY <4>1, Fields
      <4> HIDE DEF r
      <4>3. Settles(o, r)
        BY <4>1, <4>2 DEF Settles, Busy
      <4> QED BY <2>1, <4>1, <4>3 DEF Turn
    <3> QED BY <3>2, <3>3, StepKeepsWaits
  <2> QED BY <1>3, <2>2, <2>3 DEF GetSession
<1>4. ASSUME Begin(t, << >>), UNCHANGED <<s, waits, entry, asks>>,
             \A p \in Sessions : refs'[p] # {} => refs[p] # {} \/ p = entry
      PROVE  Sustained
  <2>1. Leaves(t, Left(None))
    BY <1>4, LeftLists, LeftStep
  <2>2. Finding(t, None)
    BY <1>4, <2>1 DEF Finding
  <2> QED BY <1>2, <1>4, <2>2, StepKeepsWaits
<1>5. CASE GetExistingSession(t)
  BY <1>4, <1>5, TypeOKParts DEF GetExistingSession, TablesTyped
<1>6. CASE Reconnect(t)
  <2>1. entry \in Sessions /\ UNCHANGED <<s, waits, entry, refs>>
    BY <1>6, TypeOKParts DEF Reconnect, TablesTyped
  <2>2. Leaves(t, Left(entry))
    BY <1>6, LeftLists, LeftStep DEF Reconnect
  <2>3. Finding(t, entry)
    BY <1>6, <2>1, <2>2 DEF Reconnect, Finding, Sought
  <2> QED BY <1>2, <2>1, <2>3, StepKeepsWaits
<1>7. ASSUME NEW o \in Sessions, Exists(o), UNCHANGED <<s, waits, entry, refs, asks>>,
             NEW more \in Seq(Left(o)), Begin(t, more)
      PROVE  Sustained
  <2>1. Leaves(t, Left(o))
    BY <1>7, LeftStep
  <2>2. Finding(t, o)
    BY <1>7, <2>1, ExistsMeaning DEF Finding
  <2> QED BY <1>2, <1>7, <2>2, StepKeepsWaits
<1>8. CASE LogOut(t)
  <2>1. UNCHANGED <<s, waits, entry, refs, asks>>
    BY <1>8 DEF LogOut
  <2>2. CASE user.sessions # None /\ Exists(user.sessions)
    <3>1. user.sessions \in Sessions
      BY <2>2, TypeOKParts DEF TablesTyped
    <3>2. <<Do("log_out", user.sessions), Do("park", user.sessions)>> \in Seq(Left(user.sessions))
      BY <3>1, LeftNames, LeftLists DEF PlainNames
    <3> QED BY <1>7, <1>8, <2>1, <2>2, <3>1, <3>2 DEF LogOut
  <2>3. CASE ~(user.sessions # None /\ Exists(user.sessions))
    BY <1>4, <1>8, <2>1, <2>3 DEF LogOut
  <2> QED BY <2>2, <2>3
<1>9. CASE LogIn(t)
  <2>1. UNCHANGED <<s, waits, entry, refs, asks>>
    BY <1>9 DEF LogIn
  <2>2. CASE user.waiting # None /\ Exists(user.waiting)
    <3>1. user.waiting \in Sessions
      BY <2>2, TypeOKParts DEF TablesTyped
    <3>2. <<Do("revive", user.waiting)>> \in Seq(Left(user.waiting))
      BY <3>1, LeftNames, LeftLists DEF PlainNames
    <3> QED BY <1>7, <1>9, <2>1, <2>2, <3>1, <3>2 DEF LogIn
  <2>3. CASE ~(user.waiting # None /\ Exists(user.waiting))
    BY <1>4, <1>9, <2>1, <2>3 DEF LogIn
  <2> QED BY <2>2, <2>3
<1> QED BY <1>3, <1>5, <1>6, <1>8, <1>9

(* A step about a session that is sought.                                  *)
LEMMA AboutKeepsWaits ==
    ASSUME TypeOK, WaitInv, NEW t \in Threads, NEW o \in Sessions, Sought(o),
           NEW more \in Seq(Left(o)),
           \/ todo[t] # << >> /\ Goes(t, more)
           \/ Begin(t, more),
           entry' \in {entry, None}, asks' \subseteq asks \cup {o},
           \A p \in Sessions : refs'[p] # {} => refs[p] # {} \/ p = o,
           Turn(o)
    PROVE  Sustained
<1>1. Leaves(t, Left(o))
  BY LeftStep
<1>2. Finding(t, o)
  BY <1>1 DEF Finding
<1> QED BY <1>2, StepKeepsWaits

LEMMA StillKeepsWaits ==
    ASSUME WaitInv, UNCHANGED <<s, entry, refs, todo, asks, waits>>
    PROVE  Sustained
BY DEF Sustained, WaitInv, Resynced, WaitersAreWaitedFor, NobodyFound, Touched, Sought, Exists, Mentions

(* Answers for a token.                                                    *)
LEMMA TokenKeepsWaits ==
    ASSUME TypeOK, WaitInv, NEW t \in Threads, NEW o \in Sessions,
           RefreshAccessToken(t, o) \/ TokenFails(t, o)
    PROVE  Sustained
<1> USE DEF answers, tables
<1>1. Sought(o) /\ UNCHANGED <<entry, refs>> /\ asks' \subseteq asks
  BY DEF Sought, RefreshAccessToken, TokenFails
<1>2. CASE RefreshAccessToken(t, o)
  <2>1. Turn(o)
    BY <1>2, QuietTurn DEF RefreshAccessToken
  <2>2. Finding(t, o)
    BY <1>1, <1>2 DEF Finding, RefreshAccessToken
  <2> QED BY <2>1, <2>2, StepKeepsWaits
<1>3. CASE TokenFails(t, o)
  <2>1. PICK steps \in {<< >>, <<Do("log_out", o)>>} : todo' = [todo EXCEPT ![t] = steps]
    BY <1>3 DEF TokenFails
  <2>2. steps \in Seq(Left(o)) /\ steps \in Seq(Steps)
    BY <2>1, LeftNames, LeftLists DEF PlainNames
  <2>3. steps \o Rest(todo[t]) = steps
    BY <1>3, <2>2, ConcatEmptySeq DEF Rest, TokenFails
  <2>4. Leaves(t, Left(o))
    BY <2>1, <2>2, <2>3 DEF Advance, Leaves
  <2>5. Turn(o)
    BY <1>3 DEF Turn, TokenFails
  <2>6. Finding(t, o)
    BY <1>1, <2>4 DEF Finding
  <2> QED BY <2>5, <2>6, StepKeepsWaits
<1> QED BY <1>2, <1>3

(* One more waiter of an active session is waited for by the operation it  *)
(* starts, or by that of a waiter for the same direction.                  *)
LEMMA WaiterTurn ==
    ASSUME TypeOK, WaitersAreWaitedFor, NEW t \in Threads, NEW o \in Sessions, NEW w \in Waiters,
           WaitForCompletion(t, o, w)
    PROVE  Turn(o)
<1> DEFINE r == [s[o] EXCEPT !.queue = s[o].queue \cup {w}]
           new == {Wait(o, d, s[o].resyncs) : d \in {d \in Directions : w \in InDirection(d)} \ Waiting(o)}
<1>1. Becomes(o, r)
  BY DEF WaitForCompletion
<1>2. r.state = s[o].state /\ r.resyncs = s[o].resyncs /\ r.queue = s[o].queue \cup {w}
  BY Fields
<1>3. r.resyncs \in Nat /\ r.resyncs >= s[o].resyncs
  BY <1>2, Fields
<1>4. waits \subseteq waits' /\ (s[o].state \in {"active", "dying"} => waits' = waits \cup new)
  BY DEF WaitForCompletion
<1> HIDE DEF r
<1>5. ASSUME Busy(r), NEW v \in r.queue
      PROVE  Awaited(v, o, waits')
  <2>1. s[o].state \in {"active", "dying"} /\ s[o].resyncs = 0 /\ Busy(s[o])
    BY <1>2, <1>5 DEF Busy
  <2>2. Exists(o)
    BY <2>1 DEF Exists, WaitForCompletion
  <2>3. \A u \in s[o].queue : Awaited(u, o, waits)
    BY <2>1, <2>2, WaitersMeaning
  <2>4. CASE v \in s[o].queue
    BY <1>4, <2>3, <2>4 DEF Awaited
  <2>5. CASE v = w
    <3>1. PICK d \in Directions : w \in InDirection(d)
      BY DEF Waiters, Directions, InDirection
    <3>2. CASE d \notin Waiting(o)
      <4>1. Wait(o, d, 0) \in waits'
        BY <1>4, <2>1, <3>1, <3>2
      <4>2. Wait(o, d, 0).of = o /\ Wait(o, d, 0).kind = d /\ Wait(o, d, 0).mark = 0
        BY DEF Wait
      <4> QED BY <2>5, <3>1, <4>1, <4>2 DEF Awaited
    <3>3. CASE d \in Waiting(o)
      <4>1. PICK u \in s[o].queue : u \in InDirection(d)
        BY <3>3 DEF Waiting
      <4>2. PICK x \in waits : x.of = o /\ u \in InDirection(x.kind) /\ x.mark = 0
        BY <2>3, <4>1 DEF Awaited
      <4>3. x.kind = d
        BY <4>1, <4>2, SyncSessionAssumption DEF InDirection, Directions
      <4> QED BY <1>4, <2>5, <3>1, <4>2, <4>3 DEF Awaited
    <3> QED BY <3>2, <3>3
  <2> QED BY <1>2, <2>4, <2>5
<1>6. Settles(o, r)
  BY <1>3, <1>5 DEF Settles
<1> QED BY <1>1, <1>4, <1>6 DEF Turn

(* Calls of the application that has a reference.                          *)
LEMMA CallsKeepWaits ==
    ASSUME TypeOK, WaitInv, NEW t \in Threads, NEW o \in Sessions,
           \/ LogOutSession(t, o) \/ DropReference(t, o) \/ BeginUpdate(t, o)
           \/ \E w \in Waiters : WaitForCompletion(t, o, w)
    PROVE  Sustained
<1> USE DEF answers, tables
<1>1. Sought(o)
  BY DEF Sought, LogOutSession, DropReference, BeginUpdate, WaitForCompletion
<1>2. << >> \in Seq(Left(o))
  BY LeftLists
<1>3. \A name \in PlainNames : <<Do(name, o)>> \in Seq(Left(o))
  BY LeftNames, LeftLists
<1>4. CASE LogOutSession(t, o) \/ BeginUpdate(t, o)
  <2>1. Turn(o) /\ UNCHANGED <<entry, refs, asks>>
    BY <1>4 DEF Turn, LogOutSession, BeginUpdate
  <2>2. Begin(t, <<Do("log_out", o)>>) \/ Begin(t, <<Do("update", o)>>)
    BY <1>4 DEF LogOutSession, BeginUpdate
  <2> QED BY <1>1, <1>3, <2>1, <2>2, AboutKeepsWaits DEF PlainNames
<1>5. CASE DropReference(t, o)
  <2>1. Turn(o) /\ UNCHANGED <<entry, asks>>
    BY <1>5 DEF Turn, DropReference
  <2>2. Begin(t, <<Do("did_drop", o)>>) \/ Begin(t, << >>)
    BY <1>5 DEF DropReference
  <2>3. \A p \in Sessions : refs'[p] # {} => refs[p] # {}
    BY <1>5, TypeOKParts DEF DropReference, TablesTyped
  <2> QED BY <1>1, <1>2, <1>3, <2>1, <2>2, <2>3, AboutKeepsWaits DEF PlainNames
<1>6. ASSUME NEW w \in Waiters, WaitForCompletion(t, o, w)
      PROVE  Sustained
  <2>1. Turn(o)
    BY <1>6, WaiterTurn DEF WaitInv
  <2>2. Begin(t, << >>) /\ UNCHANGED <<entry, refs, asks>>
    BY <1>6 DEF WaitForCompletion
  <2> QED BY <1>1, <1>2, <2>1, <2>2, AboutKeepsWaits
<1> QED BY <1>4, <1>5, <1>6

(* The steps that the map's and the user's mutexes order.                  *)
LEMMA TablesKeepWaits ==
    ASSUME TypeOK, WaitInv, NEW t \in Threads, NEW o \in Sessions,
           \/ Register(t, o) \/ TakeReference(t, o) \/ UnlockMap(t, o) \/ EndLook(t, o)
           \/ Park(t, o) \/ Invalidate(t, o) \/ Bind(t, o) \/ CallWaiters(t, o)
    PROVE  Sustained
<1> USE DEF answers, tables
<1>1. todo[t] # << >> /\ Sought(o)
  BY AtSought DEF At, Register, TakeReference, UnlockMap, EndLook, Park, Invalidate, Bind, CallWaiters
<1>2. << >> \in Seq(Left(o))
  BY LeftLists
<1>3. \A name \in PlainNames : <<Do(name, o)>> \in Seq(Left(o))
  BY LeftNames, LeftLists
<1>4. entry' = entry /\ asks' \subseteq asks \cup {o} /\ UNCHANGED <<s, waits>>
  BY DEF Register, TakeReference, UnlockMap, EndLook, Park, Invalidate, Bind, CallWaiters
<1>5. Turn(o)
  BY <1>4 DEF Turn
<1>6. \A p \in Sessions : refs'[p] # {} => refs[p] # {} \/ p = o
  BY TypeOKParts DEF TablesTyped, Register, TakeReference, UnlockMap, EndLook, Park, Invalidate, Bind, CallWaiters
<1>7. CASE \/ Register(t, o) \/ TakeReference(t, o) \/ UnlockMap(t, o)
           \/ Park(t, o) \/ Invalidate(t, o) \/ Bind(t, o) \/ CallWaiters(t, o)
  <2>1. Goes(t, << >>) \/ Goes(t, <<Do("revive", o)>>)
    BY <1>7 DEF Register, TakeReference, UnlockMap, Park, Invalidate, Bind, CallWaiters
  <2>2. <<Do("revive", o)>> \in Seq(Left(o))
    BY <1>3 DEF PlainNames
  <2> QED BY <1>1, <1>2, <1>4, <1>5, <1>6, <2>1, <2>2, AboutKeepsWaits
<1>8. CASE EndLook(t, o)
  <2>1. Do("did_drop", o) \in Left(o) /\ Do("unlock_map", o) \in Left(o)
    BY LeftNames DEF PlainNames
  <2>2. << >> \in Seq(Left(o)) /\ <<Do("did_drop", o)>> \in Seq(Left(o)) /\ <<Do("unlock_map", o)>> \in Seq(Left(o))
    BY <2>1, LeftLists
  <2> DEFINE more == (IF refs[o] = {t} THEN <<Do("did_drop", o)>> ELSE << >>) \o <<Do("unlock_map", o)>>
  <2>3. more \in Seq(Left(o))
    BY <2>2, ConcatProperties
  <2>4. Goes(t, more)
    BY <1>8 DEF EndLook
  <2> HIDE DEF more
  <2> QED BY <1>1, <1>4, <1>5, <1>6, <2>3, <2>4, AboutKeepsWaits
<1> QED BY <1>7, <1>8

LEMMA UnregisterKeepsWaits ==
    ASSUME TypeOK, WaitInv, NEW t \in Threads, NEW o \in Sessions, Unregister(t, o)
    PROVE  Sustained
<1> USE DEF answers, tables
<1>1. todo[t] # << >> /\ Sought(o) /\ UNCHANGED <<s, asks, waits>>
  BY AtSought DEF At, Unregister
<1>2. \A p : Turn(p)
  BY <1>1 DEF Turn
<1>3. CASE entry = None
  BY <1>3, StillKeepsWaits DEF Unregister, AssertFails
<1>4. CASE entry' = None /\ Goes(t, << >>) /\ UNCHANGED refs
  BY <1>1, <1>2, <1>4, LeftLists, AboutKeepsWaits
<1>5. CASE entry # None /\ refs' = [refs EXCEPT ![entry] = @ \cup {t}]
           /\ Goes(t, <<Do("end_look", entry)>>) /\ UNCHANGED entry
  <2>1. entry \in Sessions /\ Sought(entry)
    BY <1>5, TypeOKParts DEF TablesTyped, Sought
  <2>2. <<Do("end_look", entry)>> \in Seq(Left(entry))
    BY <2>1, LeftNames, LeftLists
  <2>3. \A p \in Sessions : refs'[p] # {} => refs[p] # {} \/ p = entry
    BY <1>5, TypeOKParts DEF TablesTyped
  <2> QED BY <1>1, <1>2, <1>5, <2>1, <2>2, <2>3, AboutKeepsWaits
<1> QED BY <1>3, <1>4, <1>5 DEF Unregister

(* The steps that change a session by what state it is in.                 *)
LEMMA SessionKeepsWaits ==
    ASSUME TypeOK, WaitInv, NEW t \in Threads, NEW o \in Sessions,
           \/ ReviveIfNeeded(t, o) \/ SessionLogOut(t, o)
           \/ DidDropExternalReference(t, o) \/ UpdateConfiguration(t, o)
    PROVE  Sustained
<1> USE DEF answers, tables
<1>1. todo[t] # << >> /\ Sought(o) /\ UNCHANGED <<entry, refs, asks>>
  BY AtSought DEF At, ReviveIfNeeded, SessionLogOut, DidDropExternalReference, UpdateConfiguration
<1>2. << >> \in Seq(Left(o)) /\ AfterInactive(o) \in Seq(Left(o))
      /\ AfterInactive(o) \o <<Do("update", o)>> \in Seq(Left(o))
  BY LeftLists, LeftInactive
<1>3. \A name \in PlainNames : <<Do(name, o)>> \in Seq(Left(o))
  BY LeftNames, LeftLists
<1>4. ASSUME NEW more \in Seq(Left(o)), Goes(t, more), Turn(o)
      PROVE  Sustained
  BY <1>1, <1>4, AboutKeepsWaits
<1>5. CASE ReviveIfNeeded(t, o)
  <2>1. Turn(o)
    BY <1>5, QuietTurn DEF ReviveIfNeeded
  <2>2. Goes(t, << >>) \/ Goes(t, <<Do("bind", o)>>)
    BY <1>5 DEF ReviveIfNeeded
  <2> QED BY <1>2, <1>3, <1>4, <2>1, <2>2 DEF PlainNames
<1>6. CASE SessionLogOut(t, o)
  <2>1. Turn(o)
    BY <1>6, QuietTurn DEF SessionLogOut
  <2>2. Goes(t, << >>) \/ Goes(t, AfterInactive(o))
    BY <1>6 DEF SessionLogOut
  <2> QED BY <1>2, <1>4, <2>1, <2>2
<1>7. CASE DidDropExternalReference(t, o)
  <2>1. Turn(o)
    BY <1>7, QuietTurn DEF DidDropExternalReference
  <2>2. Goes(t, << >>) \/ Goes(t, AfterInactive(o)) \/ Goes(t, <<Do("unregister", o)>>)
    BY <1>7 DEF DidDropExternalReference
  <2> QED BY <1>2, <1>3, <1>4, <2>1, <2>2 DEF PlainNames
<1>8. CASE UpdateConfiguration(t, o)
  <2>1. Turn(o)
    BY <1>8, QuietTurn DEF UpdateConfiguration
  <2>2. Goes(t, <<Do("revive", o)>>) \/ Goes(t, AfterInactive(o) \o <<Do("update", o)>>)
    BY <1>8 DEF UpdateConfiguration
  <2> QED BY <1>2, <1>3, <1>4, <2>1, <2>2 DEF PlainNames
<1> QED BY <1>5, <1>6, <1>7, <1>8

(* What the client does about an error.                                    *)
LEMMA ErrorKeepsWaits ==
    ASSUME TypeOK, WaitInv, NEW o \in Sessions,
           \/ HandleError(o) \/ ApplyError(o) \/ \E k \in ErrorKinds : ReportError(o, k)
    PROVE  Sustained
<1> USE DEF answers, tables
<1>1. Client \in Threads
  BY DEF Threads
<1>2. << >> \in Seq(Left(o)) /\ AfterInactive(o) \in Seq(Left(o))
  BY LeftLists, LeftInactive
<1>3. \A name \in PlainNames : Do(name, o) \in Left(o) /\ <<Do(name, o)>> \in Seq(Left(o))
  BY LeftNames, LeftLists
<1>4. s[o].queue \in SUBSET Waiters /\ CallEach(o, s[o].queue) \in Left(o)
  BY Fields, LeftNames
<1>5. \A k \in ErrorKinds : \A name \in ErrorNames : <<Error(name, o, k)>> \in Seq(Left(o))
  BY LeftNames, LeftLists
<1>6. CASE \E k \in ErrorKinds : ReportError(o, k)
  <2>1. PICK k \in ErrorKinds : Begin(Client, <<Error("handle_error", o, k)>>)
    BY <1>6 DEF ReportError
  <2>2. Sought(o) /\ Turn(o) /\ UNCHANGED <<entry, refs, asks>>
    BY <1>6, ExistsMeaning DEF ReportError, Turn
  <2> QED BY <1>1, <1>5, <2>1, <2>2, AboutKeepsWaits DEF ErrorNames
<1>7. ASSUME HandleError(o) \/ ApplyError(o), NEW more \in Seq(Left(o)), Goes(Client, more), Turn(o)
      PROVE  Sustained
  <2>1. todo[Client] # << >> /\ Sought(o) /\ UNCHANGED <<entry, refs, asks>>
    BY <1>1, <1>7, AtSought DEF At, HandleError, ApplyError, AssertFails
  <2> QED BY <1>1, <1>7, <2>1, AboutKeepsWaits
<1>8. HandleError(o) \/ ApplyError(o) => Head(todo[Client]).kind \in ErrorKinds
  <2>1. HandleError(o) \/ ApplyError(o) =>
          Head(todo[Client]) \in Steps /\ Head(todo[Client]).do \in ErrorNames
    BY <1>1, AtFacts DEF HandleError, ApplyError, ErrorNames
  <2> QED BY <2>1 DEF Steps, ErrorNames
<1>9. CASE HandleError(o)
  <2>1. Turn(o)
    BY <1>9, QuietTurn DEF HandleError
  <2> DEFINE k == Head(todo[Client]).kind
  <2>2. \/ Goes(Client, <<Error("apply_error", o, k)>>) \/ Goes(Client, AfterInactive(o))
        \/ Goes(Client, << >>)
    BY <1>9 DEF HandleError
  <2>3. k \in ErrorKinds
    BY <1>8, <1>9
  <2> HIDE DEF k
  <2> QED BY <1>2, <1>5, <1>7, <1>9, <2>1, <2>2, <2>3 DEF ErrorNames
<1>10. CASE ApplyError(o)
  <2> DEFINE k == Head(todo[Client]).kind
  <2>1. CASE k \in {"reported", "bad_authentication"}
    <3>1. Becomes(o, TakenOffList(o, s[o].queue)) /\ UNCHANGED waits
      BY <1>10, <2>1 DEF ApplyError
    <3>2. Turn(o)
      BY <3>1, QuietTurn
    <3>3. \/ Goes(Client, <<CallEach(o, s[o].queue)>>)
          \/ Goes(Client, <<CallEach(o, s[o].queue), Do("invalidate", o)>>)
      BY <1>10, <2>1 DEF ApplyError
    <3>4. /\ <<CallEach(o, s[o].queue)>> \in Seq(Left(o))
          /\ <<CallEach(o, s[o].queue), Do("invalidate", o)>> \in Seq(Left(o))
      BY <1>3, <1>4, LeftLists DEF PlainNames
    <3> QED BY <1>7, <1>10, <3>2, <3>3, <3>4
  <2>2. CASE k = "token_expired"
    <3>1. \/ Becomes(o, ToWaiting(o)) /\ Goes(Client, <<Do("bind", o)>>)
          \/ Goes(Client, << >>) /\ UNCHANGED s
      BY <1>10, <2>2 DEF ApplyError
    <3>2. waits' = waits
      BY <1>10 DEF ApplyError
    <3>3. Turn(o)
      BY <3>1, <3>2, QuietTurn
    <3> QED BY <1>2, <1>3, <1>7, <1>10, <3>1, <3>3 DEF PlainNames
  <2>3. CASE k \in {"permission_denied", "client_reset"} /\ s[o].state = "inactive"
    BY <1>10, <2>3, StillKeepsWaits DEF ApplyError, AssertFails
  <2>4. CASE k = "permission_denied" /\ s[o].state # "inactive"
    <3>1. Becomes(o, ToInactive(o)) /\ Goes(Client, AfterInactive(o)) /\ UNCHANGED waits
      BY <1>10, <2>4 DEF ApplyError
    <3> QED BY <1>2, <1>7, <1>10, <3>1, QuietTurn
  <2>5. CASE k = "client_reset" /\ s[o].state # "inactive"
    <3> DEFINE r == [ToInactive(o) EXCEPT !.resyncs = @ + 1]
               more == <<Do("unregister", o), Restore(o, s[o].queue)>>
    <3>1. Becomes(o, r) /\ Goes(Client, more) /\ UNCHANGED waits
      BY <1>10, <2>5 DEF ApplyError
    <3>2. Turn(o)
      BY <3>1, QuietTurn
    <3>3. s'[o] = r
      BY <3>1, TypeOKParts DEF Becomes, SessionsTyped
    <3>4. s'[o].resyncs > 0
      BY <3>3, Fields
    <3>5. Restore(o, s[o].queue) \in Left(o)
      BY <1>4, <3>4, LeftNames
    <3>6. Do("unregister", o) \in Left(o)
      BY <1>3 DEF PlainNames
    <3>7. more \in Seq(Left(o))
      BY <3>5, <3>6, LeftLists
    <3> HIDE DEF r, more
    <3> QED BY <1>7, <1>10, <3>1, <3>2, <3>7
  <2>6. k \in ErrorKinds
    BY <1>8, <1>10
  <2> QED BY <2>1, <2>2, <2>3, <2>4, <2>5, <2>6 DEF ErrorKinds
<1> QED BY <1>6, <1>9, <1>10

(* The waiters of a client resync are put back into a session that was     *)
(* resynced.                                                               *)
LEMMA RestoreKeepsWaits ==
    ASSUME TypeOK, WaitInv, NEW o \in Sessions, RestoreWaiters(o)
    PROVE  Sustained
<1> USE DEF answers, tables
<1>1. Client \in Threads /\ TodoTyped
  BY TypeOKParts DEF Threads, ProcessTyped
<1>2. todo[Client] # << >> /\ Sought(o) /\ UNCHANGED <<entry, refs, asks, waits>>
      /\ Goes(Client, <<Do("revive", o)>>)
  BY <1>1, AtSought DEF At, RestoreWaiters
<1>3. 1 \in 1 .. Len(todo[Client]) /\ todo[Client][1] = Head(todo[Client])
  BY <1>1, <1>2 DEF TodoTyped
<1>4. s[o].resyncs > 0
  BY <1>1, <1>3 DEF WaitInv, Resynced, RestoreWaiters, At
<1>5. Turn(o)
  <2> DEFINE r == [s[o] EXCEPT !.queue = Head(todo[Client]).with]
  <2>1. Becomes(o, r) /\ r.resyncs = s[o].resyncs
    BY Fields DEF RestoreWaiters
  <2>2. r.resyncs \in Nat /\ r.resyncs >= s[o].resyncs /\ r.resyncs # 0
    BY <1>4, <2>1, Fields
  <2> HIDE DEF r
  <2>3. Settles(o, r)
    BY <2>2 DEF Settles, Busy
  <2> QED BY <1>2, <2>1, <2>3 DEF Turn
<1>6. <<Do("revive", o)>> \in Seq(Left(o))
  BY LeftNames, LeftLists DEF PlainNames
<1> QED BY <1>1, <1>2, <1>5, <1>6, AboutKeepsWaits

(* An operation that completes ends for the waiters of its direction,      *)
(* whom it takes off the list; the others are waited for by another.       *)
LEMMA CompletesKeepsWaits ==
    ASSUME TypeOK, WaitInv, NEW x \in waits, Completes(x)
    PROVE  Sustained
<1> USE DEF answers, tables
<1> DEFINE o == x.of
           W == s[o].queue \cap InDirection(x.kind)
           Dies == /\ Exists(o) /\ x.kind = "dying" /\ Becomes(o, ToInactive(o))
                   /\ todo' = [todo EXCEPT ![Client] = AfterInactive(o)]
           Answers == /\ Exists(o) /\ Becomes(o, TakenOffList(o, W))
                      /\ todo' = [todo EXCEPT ![Client] = <<CallEach(o, W)>>]
           Late == UNCHANGED <<s, todo>>
<1>1. Client \in Threads /\ o \in Sessions /\ todo[Client] = << >> /\ waits' = waits \ {x}
  BY TypeOKParts DEF Threads, OthersTyped, WaitOperation, Completes
<1>2. /\ UNCHANGED <<entry, refs, asks>>
      /\ \/ Dies
         \/ Answers
         \/ Late /\ ~(Exists(o) /\ x.kind # "dying" /\ s[o].resyncs = x.mark)
  BY DEF Completes
<1>3. \A p \in Sessions : s[p].resyncs \in Nat
  BY Fields
<1> HIDE DEF o, W
<1>4. W \in SUBSET Waiters
  BY <1>1, Fields DEF W
<1>5. /\ ToInactive(o).state = "inactive" /\ ToInactive(o).resyncs = s[o].resyncs
      /\ TakenOffList(o, W).state = s[o].state /\ TakenOffList(o, W).resyncs = s[o].resyncs
      /\ TakenOffList(o, W).queue = s[o].queue \ W
  BY <1>1, Fields DEF TakenOffList
<1>6. ASSUME NEW steps \in Seq(Left(o)), todo' = [todo EXCEPT ![Client] = steps]
      PROVE  Leaves(Client, Left(o))
  <2>1. steps \in Seq(Steps)
    BY LeftLists
  <2>2. steps \o Rest(todo[Client]) = steps
    BY <1>1, <2>1, ConcatEmptySeq DEF Rest
  <2> QED BY <1>6, <2>2 DEF Advance, Leaves
<1>7. Finding(Client, o) \/ Finding(Client, None)
  <2>1. CASE Dies
    BY <1>1, <1>2, <1>6, <2>1, LeftInactive, ExistsMeaning DEF Finding
  <2>2. CASE Answers
    <3>1. <<CallEach(o, W)>> \in Seq(Left(o))
      BY <1>1, <1>4, LeftNames, LeftLists
    <3> QED BY <1>1, <1>2, <1>6, <2>2, <3>1, ExistsMeaning DEF Finding
  <2>3. CASE Late
    BY <1>2, <2>3 DEF Finding
  <2> QED BY <1>2, <2>1, <2>2, <2>3
<1>8. NobodyFound
  BY <1>1, <1>7, FindsNobody
<1>9. \A p \in Sessions \ {o} : s'[p] = s[p]
  BY <1>1, <1>2, TypeOKParts DEF Becomes, SessionsTyped
<1>10. \/ s'[o] = ToInactive(o) \/ s'[o] = TakenOffList(o, W)
       \/ s'[o] = s[o] /\ ~(Exists(o) /\ x.kind # "dying" /\ s[o].resyncs = x.mark)
  BY <1>1, <1>2, TypeOKParts DEF Becomes, SessionsTyped
<1>11. \A p \in Sessions : s'[p].resyncs = s[p].resyncs
  BY <1>5, <1>9, <1>10
<1>12. Resynced'
  BY <1>1, <1>3, <1>7, <1>11, ResyncedStill DEF Finding, WaitInv
<1>13. ASSUME NEW p \in Sessions, Exists(p)', Busy(s'[p]), NEW w \in s'[p].queue
       PROVE  Awaited(w, p, waits')
  <2>1. Busy(s[p]) /\ w \in s[p].queue
    BY <1>5, <1>9, <1>10, <1>13 DEF Busy
  <2>2. Exists(p)
    BY <1>8, <1>13, <2>1, ExistsMeaning DEF NobodyFound, Begun, Busy
  <2>3. PICK y \in waits : y.of = p /\ w \in InDirection(y.kind) /\ y.mark = 0
    BY <2>1, <2>2, WaitersMeaning DEF WaitInv, Awaited
  <2>4. CASE y # x
    BY <1>1, <2>3, <2>4 DEF Awaited
  <2>5. CASE y = x
    <3>1. p = o /\ x.kind # "dying" /\ s[o].resyncs = x.mark
      BY <2>1, <2>3, <2>5 DEF o, Busy, InDirection
    <3>2. w \in W
      BY <2>1, <2>3, <2>5, <3>1 DEF W
    <3>3. s'[o] = TakenOffList(o, W)
      BY <1>5, <1>10, <1>13, <2>2, <3>1 DEF Busy
    <3> QED BY <1>5, <1>13, <3>1, <3>2, <3>3
  <2> QED BY <2>4, <2>5
<1>14. Touched
  BY <1>2, <1>9, ExistsMeaning DEF Touched
<1> QED BY <1>8, <1>12, <1>13, <1>14, WaitersMeaningNext DEF Sustained, WaitInv

LEMMA WaitInit == Init => WaitInv
BY DEF Init, WaitInv, Resynced, WaitersAreWaitedFor, Exists, Fresh, Threads

LEMMA WaitNext ==
    ASSUME TypeOK, WaitInv, [Next]_vars
    PROVE  Sustained
<1>1. AppThreads \subseteq Threads
  BY DEF Threads
<1>2. CASE UNCHANGED vars
  BY <1>2, StillKeepsWaits DEF vars
<1>3. ASSUME NEW t \in AppThreads, AppOperation(t) PROVE Sustained
  BY <1>1, <1>3, ManagerKeepsWaits, TokenKeepsWaits, CallsKeepWaits DEF AppOperation
<1>4. ASSUME NEW t \in Threads, Continue(t) PROVE Sustained
  BY <1>4, TablesKeepWaits, UnregisterKeepsWaits, SessionKeepsWaits DEF Continue
<1>5. ASSUME NEW o \in Sessions,
             HandleError(o) \/ ApplyError(o) \/ (\E k \in ErrorKinds : ReportError(o, k)) \/ RestoreWaiters(o)
      PROVE  Sustained
  BY <1>5, ErrorKeepsWaits, RestoreKeepsWaits
<1>6. ASSUME NEW x \in waits, Completes(x) PROVE Sustained
  BY <1>6, CompletesKeepsWaits
<1> QED BY <1>2, <1>3, <1>4, <1>5, <1>6 DEF Next, ClientHandles

(* While a callback is in the list of an active or dying session that was  *)
(* never resynced, a wait operation is under way whose completion will     *)
(* call it, however closes, logouts, errors, completions and activations   *)
(* of any number of threads come between.                                  *)
THEOREM WaitersAlwaysWaitedFor == Spec => []WaitersAreWaitedFor
<1>1. WaitInv => WaitersAreWaitedFor
  BY DEF WaitInv
<1>2. TypeOK /\ WaitInv /\ [Next]_vars => WaitInv'
  BY WaitNext DEF Sustained
<1>3. Spec => []WaitInv
  BY <1>2, SyncTypes, WaitInit, PTL DEF Spec
<1> QED BY <1>1, <1>3, PTL

-----------------------------------------------------------------------------
(* The promise to the application.  A session that is sought was made, and *)
(* one that was not made has no waiters.                                   *)
BornInv ==
    \A p \in Sessions : /\ Sought(p) => s[p].state # "unborn"
                        /\ s[p].state = "unborn" => s[p].queue = {}

LEMMA BornInit == Init => BornInv
<1> SUFFICES ASSUME Init PROVE BornInv
  OBVIOUS
<1>1. \A t \in Threads : DOMAIN todo[t] = {}
  BY EmptySeq DEF Init
<1>2. None \notin Sessions
  BY SyncSessionAssumption
<1> QED BY <1>1, <1>2 DEF Init, BornInv, Sought, Mentions, Fresh

LEMMA BornNext ==
    ASSUME BornInv, NobodyFound, Touched, StayBorn
    PROVE  BornInv'
<1> SUFFICES ASSUME NEW p \in Sessions
             PROVE  /\ Sought(p)' => s'[p].state # "unborn"
                    /\ s'[p].state = "unborn" => s'[p].queue = {}
  BY DEF BornInv
<1>1. Sought(p)' => s'[p].state # "unborn"
  BY DEF BornInv, NobodyFound, Begun, StayBorn
<1>2. s'[p].state = "unborn" => s'[p].queue = {}
  BY DEF BornInv, Touched, Begun, StayBorn
<1> QED BY <1>1, <1>2

(* A session that is referenced is in the map and stays there.             *)
ReferencedStay == \A p \in Sessions : refs[p] # {} => Sought(p)'

LEMMA EntryStays ==
    ASSUME Next
    PROVE  entry' = entry \/ entry = None \/ refs[entry] = {}
<1> USE DEF tables, answers
<1>1. ASSUME NEW t, AppOperation(t)
      PROVE  entry' = entry \/ entry = None
  BY <1>1 DEF AppOperation, GetSession, GetExistingSession, Reconnect, LogOut, LogIn, RefreshAccessToken,
              TokenFails, LogOutSession, DropReference, BeginUpdate, WaitForCompletion
<1>2. ASSUME NEW t, NEW o, Unregister(t, o)
      PROVE  entry' = entry \/ entry = None \/ refs[entry] = {}
  BY <1>2 DEF Unregister
<1>3. ASSUME NEW t, NEW o,
             \/ Register(t, o) \/ TakeReference(t, o) \/ UnlockMap(t, o) \/ EndLook(t, o)
             \/ Park(t, o) \/ Invalidate(t, o) \/ ReviveIfNeeded(t, o) \/ Bind(t, o)
             \/ SessionLogOut(t, o) \/ DidDropExternalReference(t, o)
             \/ UpdateConfiguration(t, o) \/ CallWaiters(t, o)
      PROVE  entry' = entry
  BY <1>3 DEF Register, TakeReference, UnlockMap, EndLook, Park, Invalidate, ReviveIfNeeded, Bind,
              SessionLogOut, DidDropExternalReference, UpdateConfiguration, CallWaiters
<1>4. ASSUME NEW o, HandleError(o) \/ ApplyError(o) \/ RestoreWaiters(o) \/ \E k : ReportError(o, k)
      PROVE  entry' = entry
  BY <1>4 DEF HandleError, ApplyError, RestoreWaiters, ReportError, AssertFails
<1>5. ASSUME NEW x, Completes(x)
      PROVE  entry' = entry
  BY <1>5 DEF Completes
<1> QED BY <1>1, <1>2, <1>3, <1>4, <1>5 DEF Next, Continue, ClientHandles

LEMMA ReferencedStayNext ==
    ASSUME MapInv, Next
    PROVE  ReferencedStay
<1> SUFFICES ASSUME NEW p \in Sessions, refs[p] # {} PROVE Sought(p)'
  BY DEF ReferencedStay
<1>1. entry = p /\ p # None
  BY SyncSessionAssumption DEF MapInv, ReferencedIsRegistered
<1>2. entry' = p
  BY <1>1, EntryStays
<1> QED BY <1>2 DEF Sought

(* What every step keeps, and what its being about some callbacks means:   *)
(* they wait on the list of a session that is sought or in some thread,    *)
(* and cease to only if they are at risk.                                  *)
Steady == TypeOK /\ WaitersInv /\ BornInv /\ TypeOK' /\ BornInv' /\ NobodyFound /\ Touched /\ ReferencedStay

Listed(w) == \E o \in Sessions : w \in s[o].queue /\ Sought(o)
Waits(w) == Carried(w) \/ Listed(w)
Lasts(w) == Waits(w) => Waits(w)' \/ w \in AtRisk
Stays(w) == Lasts(w) /\ (Waits(w)' => Waits(w))
Undisturbed == UNCHANGED <<calls, waiters>> /\ \A w \in Waiters : Stays(w)

(* On a list that a step leaves alone a callback stays.                    *)
LEMMA ListedStays ==
    ASSUME Steady, NEW w \in Waiters, NEW o \in Sessions, w \in s[o].queue, Sought(o), w \in s'[o].queue
    PROVE  Waits(w)' \/ w \in AtRisk
<1>1. CASE refs[o] = {}
  BY <1>1 DEF AtRisk
<1>2. CASE refs[o] # {}
  BY <1>2 DEF Steady, ReferencedStay, Waits, Listed
<1> QED BY <1>1, <1>2

LEMMA ListedBefore ==
    ASSUME Steady, NEW w \in Waiters, NEW o \in Sessions, w \in s[o].queue, s'[o] # s[o] \/ Sought(o)'
    PROVE  Listed(w)
<1>1. s[o].state # "unborn"
  BY DEF Steady, BornInv
<1>2. Sought(o)
  BY <1>1 DEF Steady, NobodyFound, Touched, Begun
<1> QED BY <1>2 DEF Listed

LEMMA CalmDisturbsNone ==
    ASSUME Steady, NEW t \in Threads, Calm(t), HeadBare(t)
    PROVE  Undisturbed
<1> USE DEF Steady
<1>1. PICK more \in Seq(Bare) : Advance(t, more)
  BY DEF Calm, Leaves
<1>2. Bare \subseteq Steps /\ \A i \in 1 .. Len(more) : more[i] \in Bare
  BY ElementOfSeq DEF Bare
<1>3. more \in Seq(Steps)
  BY <1>2, SeqMonotonic
<1>4. ASSUME NEW w \in Waiters PROVE Stays(w)
  <2>1. AtMostOne(Carrying(w)) /\ \A i \in 1 .. Len(more) : w \notin more[i].with
    BY <1>2 DEF WaitersInv, AtOnePlace, Bare
  <2>2. todo[t] = << >> \/ w \notin Head(todo[t]).with
    BY DEF HeadBare
  <2>3. Carried(w)' <=> Carried(w)
    BY <1>1, <1>3, <2>1, <2>2, NoneAdded, BareHeadKeeps
  <2>4. \A p \in Sessions : s'[p].queue = s[p].queue
    BY DEF Calm, SameQueues
  <2>5. Lasts(w)
    BY <2>3, <2>4, ListedStays DEF Lasts, Waits, Listed
  <2>6. Waits(w)' => Waits(w)
    BY <2>3, <2>4, ListedBefore DEF Waits, Listed
  <2> QED BY <2>5, <2>6 DEF Stays
<1> QED BY <1>4 DEF Calm, Undisturbed

LEMMA MovesDisturbNone ==
    ASSUME Steady, NEW t \in Threads, NEW o \in Sessions, NEW W \in SUBSET Waiters,
           Moves(t, o, W), HeadBare(t)
    PROVE  Undisturbed
<1> USE DEF Steady
<1>1. PICK more \in Seq(Steps) : Advance(t, more) /\ OneCarries(more, W)
  BY DEF Moves
<1>2. /\ \A p \in Sessions : s'[p].queue = IF p = o THEN s[p].queue \ W ELSE s[p].queue
      /\ W \subseteq s[o].queue
  BY DEF Moves
<1>3. PICK k \in 1 .. Len(more) : more[k].with = W
  BY <1>1 DEF OneCarries
<1>4. k \in 1 .. Len(todo'[t]) /\ todo'[t][k] = more[k] /\ more[k] \in Steps
  BY <1>1, AdvanceKept, ElementOfSeq
<1>5. ASSUME NEW w \in W PROVE Stays(w)
  <2>1. Carried(w)'
    BY <1>3, <1>4, <1>5 DEF Carried, Carrying
  <2>2. w \in Waiters /\ w \in s[o].queue /\ w \notin s'[o].queue
    BY <1>2, <1>5
  <2>3. Listed(w)
    BY <2>2, ListedBefore
  <2> QED BY <2>1, <2>3 DEF Stays, Lasts, Waits
<1>6. ASSUME NEW w \in Waiters, w \notin W PROVE Stays(w)
  <2>1. AtMostOne(Carrying(w)) /\ \A i \in 1 .. Len(more) : w \notin more[i].with
    BY <1>1, <1>6 DEF WaitersInv, AtOnePlace, OneCarries
  <2>2. todo[t] = << >> \/ w \notin Head(todo[t]).with
    BY DEF HeadBare
  <2>3. Carried(w)' <=> Carried(w)
    BY <1>1, <2>1, <2>2, NoneAdded, BareHeadKeeps
  <2>4. \A p \in Sessions : w \in s'[p].queue <=> w \in s[p].queue
    BY <1>2, <1>6
  <2>5. Lasts(w)
    BY <2>3, <2>4, ListedStays DEF Lasts, Waits, Listed
  <2>6. Waits(w)' => Waits(w)
    BY <2>3, <2>4, ListedBefore DEF Waits, Listed
  <2> QED BY <2>5, <2>6 DEF Stays
<1> QED BY <1>5, <1>6 DEF Moves, Undisturbed

LEMMA SettledDisturbsNone ==
    ASSUME Steady, NEW t \in Threads, NEW o \in Sessions, Settled(t, o), HeadBare(t)
    PROVE  Undisturbed
BY CalmDisturbsNone, MovesDisturbNone DEF Settled

LEMMA StoppedDisturbsNone ==
    ASSUME Stopped
    PROVE  Undisturbed
BY DEF Stopped, Undisturbed, Stays, Lasts, Waits, Listed, Sought, Mentions, Carried, Carrying

(* Those that were set aside are on the list again, which is the list of a *)
(* session about to be revived; those it had are at risk.                  *)
LEMMA RestoreDisturbsNone ==
    ASSUME Steady, NEW o \in Sessions, RestoreWaiters(o)
    PROVE  Undisturbed
<1> USE DEF Steady
<1>1. Client \in Threads /\ TodoTyped'
  BY TypeOKPartsNext DEF Threads, ProcessTyped
<1>2. todo[Client] # << >> /\ Goes(Client, <<Do("revive", o)>>) /\ UNCHANGED <<calls, waiters>>
  BY <1>1, AtFacts DEF RestoreWaiters, answers
<1>3. PICK more \in Seq(Steps) :
         Advance(Client, more) /\ \A i \in 1 .. Len(more) : more[i].with = {}
  BY <1>1, <1>2, RevivesBare
<1>4. \A p \in Sessions : s'[p].queue = IF p = o THEN Head(todo[Client]).with ELSE s[p].queue
  BY TypeOKParts DEF RestoreWaiters, Becomes, SessionsTyped, Session
<1>5. Sought(o)'
  <2>1. todo'[Client] = <<Do("revive", o)>> \o Tail(todo[Client])
    BY <1>1, <1>2, TypeOKParts DEF Goes, ProcessTyped, TodoTyped
  <2>2. Tail(todo[Client]) \in Seq(Steps) /\ <<Do("revive", o)>> \in Seq(Steps)
    BY <1>1, <1>2, PlainSteps, TypeOKParts DEF PlainNames, ProcessTyped, TodoTyped
  <2>3. 1 \in 1 .. Len(todo'[Client]) /\ todo'[Client][1] = Do("revive", o)
    BY <2>1, <2>2
  <2>4. Do("revive", o).of = o
    BY DEF Do
  <2> QED BY <1>1, <2>3, <2>4, MentionsIndexNext DEF Sought
<1>6. Restoring(o)
  BY DEF RestoreWaiters, At, Restoring
<1>7. ASSUME NEW w \in Waiters, w \in Head(todo[Client]).with PROVE Stays(w)
  <2>1. AtMostOne(Carrying(w)) /\ \A i \in 1 .. Len(more) : w \notin more[i].with
    BY <1>3 DEF WaitersInv, AtOnePlace
  <2>2. Carried(w)
    BY <1>1, <1>2, <1>3, <1>7, <2>1, HeadDone
  <2>3. Listed(w)'
    BY <1>4, <1>5, <1>7 DEF Listed
  <2> QED BY <2>2, <2>3 DEF Stays, Lasts, Waits
<1>8. ASSUME NEW w \in Waiters, w \notin Head(todo[Client]).with PROVE Stays(w)
  <2>1. AtMostOne(Carrying(w)) /\ \A i \in 1 .. Len(more) : w \notin more[i].with
    BY <1>3 DEF WaitersInv, AtOnePlace
  <2>2. Carried(w)' <=> Carried(w)
    BY <1>1, <1>2, <1>3, <1>8, <2>1, NoneAdded, BareHeadKeeps
  <2>3. w \notin s'[o].queue /\ \A p \in Sessions \ {o} : s'[p].queue = s[p].queue
    BY <1>4, <1>8
  <2>4. w \in s[o].queue => w \in AtRisk
    BY <1>6 DEF AtRisk
  <2>5. Lasts(w)
    BY <2>2, <2>3, <2>4, ListedStays DEF Lasts, Waits, Listed
  <2>6. Waits(w)' => Waits(w)
    BY <2>2, <2>3, ListedBefore DEF Waits, Listed
  <2> QED BY <2>5, <2>6 DEF Stays
<1> QED BY <1>2, <1>7, <1>8 DEF Undisturbed

(* A thread that calls them calls those it took off a list.                *)
LEMMA CallCalls ==
    ASSUME Steady, NEW t \in Threads, NEW o \in Sessions, CallWaiters(t, o), NEW w \in Waiters
    PROVE  /\ waiters' = waiters
           /\ \/ Waits(w) /\ calls'[w] = calls[w] + 1
              \/ Stays(w) /\ calls'[w] = calls[w]
<1> USE DEF Steady
<1>1. todo[t] # << >> /\ Goes(t, << >>) /\ UNCHANGED <<s, waiters>>
  BY AtFacts DEF CallWaiters
<1>2. PICK none \in Seq(Steps) : Len(none) = 0 /\ Advance(t, none)
  BY <1>1, EmptySeq, GoesAdvances
<1>3. calls'[w] = IF w \in Head(todo[t]).with THEN calls[w] + 1 ELSE calls[w]
  BY DEF CallWaiters
<1>4. AtMostOne(Carrying(w)) /\ \A i \in 1 .. Len(none) : w \notin none[i].with
  BY <1>2 DEF WaitersInv, AtOnePlace
<1>5. CASE w \in Head(todo[t]).with
  <2>1. Carried(w)
    BY <1>1, <1>2, <1>4, <1>5, HeadDone
  <2> QED BY <1>1, <1>3, <1>5, <2>1 DEF Waits
<1>6. CASE w \notin Head(todo[t]).with
  <2>1. Carried(w)' <=> Carried(w)
    BY <1>1, <1>2, <1>4, <1>6, NoneAdded, BareHeadKeeps
  <2>2. Lasts(w)
    BY <1>1, <2>1, ListedStays DEF Lasts, Waits, Listed
  <2>3. Waits(w)' => Waits(w)
    BY <1>1, <2>1, ListedBefore DEF Waits, Listed
  <2> QED BY <1>1, <1>3, <1>6, <2>2, <2>3 DEF Stays
<1> QED BY <1>5, <1>6

(* One more waits, on the list of a session that is referenced.            *)
LEMMA WaitRegisters ==
    ASSUME Steady, NEW t \in Threads, NEW o \in Sessions, NEW v \in Waiters,
           WaitForCompletion(t, o, v), NEW w \in Waiters
    PROVE  /\ calls' = calls
           /\ \/ w \notin waiters /\ w \in waiters' /\ Waits(w)'
              \/ (w \in waiters' <=> w \in waiters) /\ Stays(w)
<1> USE DEF Steady
<1>1. /\ v \notin waiters /\ waiters' = waiters \cup {v} /\ calls' = calls /\ refs[o] # {}
      /\ Begin(t, << >>) /\ todo[t] = << >>
  BY DEF WaitForCompletion, Begin
<1>2. \A p \in Sessions : s'[p].queue = IF p = o THEN s[p].queue \cup {v} ELSE s[p].queue
  BY TypeOKParts DEF WaitForCompletion, Becomes, SessionsTyped, Session
<1>3. PICK none \in Seq(Steps) : Len(none) = 0 /\ Advance(t, none)
  BY <1>1, EmptySeq, BeginAdvances
<1>4. CASE w = v
  <2>1. Sought(o)' /\ v \in s'[o].queue
    BY <1>1, <1>2 DEF ReferencedStay
  <2> QED BY <1>1, <1>4, <2>1 DEF Waits, Listed
<1>5. CASE w # v
  <2>1. AtMostOne(Carrying(w)) /\ \A i \in 1 .. Len(none) : w \notin none[i].with
    BY <1>3 DEF WaitersInv, AtOnePlace
  <2>2. Carried(w)' <=> Carried(w)
    BY <1>1, <1>3, <2>1, NoneAdded, BareHeadKeeps
  <2>3. \A p \in Sessions : w \in s'[p].queue <=> w \in s[p].queue
    BY <1>2, <1>5
  <2>4. Lasts(w)
    BY <2>2, <2>3, ListedStays DEF Lasts, Waits, Listed
  <2>5. Waits(w)' => Waits(w)
    BY <2>2, <2>3, ListedBefore DEF Waits, Listed
  <2> QED BY <1>1, <1>5, <2>4, <2>5 DEF Stays
<1> QED BY <1>4, <1>5

(* The steps that are not taken to call or restore carry nobody.           *)
LEMMA HeadIsBare ==
    ASSUME TypeOK, NEW t \in Threads,
           \/ todo[t] = << >>
           \/ \E o : \E name \in PlainNames \cup ErrorNames
                                 \cup {"take_reference", "unlock_map", "end_look"} : At(t, name, o)
    PROVE  HeadBare(t)
<1>1. ASSUME NEW o, NEW name \in PlainNames \cup ErrorNames
                                 \cup {"take_reference", "unlock_map", "end_look"}, At(t, name, o)
      PROVE  HeadBare(t)
  <2>1. Head(todo[t]) \in Steps /\ Head(todo[t]).do = name
    BY <1>1, AtFacts
  <2>2. Head(todo[t]).with = {}
    BY <2>1 DEF Steps, PlainNames, ErrorNames
  <2> QED BY <2>2 DEF HeadBare
<1> QED BY <1>1 DEF HeadBare

(* So every other step than a call and a registration disturbs none.       *)
LEMMA AppOperationDisturbsNone ==
    ASSUME Steady, NEW t \in AppThreads, AppOperation(t)
    PROVE  Undisturbed \/ \E o \in Sessions, w \in Waiters : WaitForCompletion(t, o, w)
<1> USE DEF Steady
<1>1. t \in Threads
  BY DEF Threads
<1>2. todo[t] = << >>
  BY DEF AppOperation, GetSession, GetExistingSession, Reconnect, LogOut, LogIn, RefreshAccessToken,
         TokenFails, LogOutSession, DropReference, BeginUpdate, WaitForCompletion, Begin
<1>3. HeadBare(t)
  BY <1>2 DEF HeadBare
<1>4. CASE GetSession(t)
  <2>1. PICK o : o \in Sessions
    BY <1>4, TypeOKParts DEF GetSession, TablesTyped
  <2>2. Calm(t) \/ Stopped
    BY <1>1, <1>4, <2>1, MapCalm
  <2> QED BY <1>1, <1>3, <2>2, CalmDisturbsNone, StoppedDisturbsNone
<1>5. CASE GetExistingSession(t) \/ Reconnect(t) \/ LogOut(t) \/ LogIn(t)
  BY <1>1, <1>3, <1>5, CallsCalm, CalmDisturbsNone
<1>6. ASSUME NEW o \in Sessions, RefreshAccessToken(t, o) \/ TokenFails(t, o)
      PROVE  Undisturbed
  BY <1>1, <1>3, <1>6, TokenCalm, CalmDisturbsNone
<1>7. ASSUME NEW o \in Sessions, LogOutSession(t, o) \/ DropReference(t, o) \/ BeginUpdate(t, o)
      PROVE  Undisturbed
  BY <1>1, <1>3, <1>7, SessionCallsCalm, CalmDisturbsNone
<1> QED BY <1>4, <1>5, <1>6, <1>7 DEF AppOperation

LEMMA ContinueDisturbsNone ==
    ASSUME Steady, NEW t \in Threads, NEW o \in Sessions,
           \/ Register(t, o) \/ TakeReference(t, o) \/ UnlockMap(t, o) \/ Unregister(t, o)
           \/ EndLook(t, o) \/ Park(t, o) \/ Invalidate(t, o) \/ ReviveIfNeeded(t, o)
           \/ Bind(t, o) \/ SessionLogOut(t, o) \/ DidDropExternalReference(t, o)
           \/ UpdateConfiguration(t, o)
    PROVE  Undisturbed
<1> USE DEF Steady
<1>1. CASE TakeReference(t, o) \/ UnlockMap(t, o) \/ Unregister(t, o) \/ EndLook(t, o)
  <2>1. HeadBare(t)
    BY <1>1, HeadIsBare DEF TakeReference, UnlockMap, Unregister, EndLook, PlainNames
  <2>2. Calm(t) \/ Stopped
    BY <1>1, MapCalm
  <2> QED BY <2>1, <2>2, CalmDisturbsNone, StoppedDisturbsNone
<1>2. CASE Register(t, o) \/ Park(t, o) \/ Invalidate(t, o) \/ Bind(t, o)
  <2>1. HeadBare(t)
    BY <1>2, HeadIsBare DEF Register, Park, Invalidate, Bind, PlainNames
  <2> QED BY <1>2, <2>1, UserCalm, CalmDisturbsNone
<1>3. CASE ReviveIfNeeded(t, o)
  <2>1. HeadBare(t)
    BY <1>3, HeadIsBare DEF ReviveIfNeeded, PlainNames
  <2> QED BY <1>3, <2>1, ReviveCalm, CalmDisturbsNone
<1>4. CASE SessionLogOut(t, o) \/ DidDropExternalReference(t, o) \/ UpdateConfiguration(t, o)
  <2>1. HeadBare(t)
    BY <1>4, HeadIsBare DEF SessionLogOut, DidDropExternalReference, UpdateConfiguration, PlainNames
  <2> QED BY <1>4, <2>1, LogOutMoves, DidDropMoves, UpdateMoves, SettledDisturbsNone
<1> QED BY <1>1, <1>2, <1>3, <1>4

LEMMA ClientDisturbsNone ==
    ASSUME Steady, NEW o \in Sessions,
           HandleError(o) \/ ApplyError(o) \/ \E k \in ErrorKinds : ReportError(o, k)
    PROVE  Undisturbed
<1> USE DEF Steady
<1>1. Client \in Threads
  BY DEF Threads
<1>2. HeadBare(Client)
  BY <1>1, HeadIsBare DEF HandleError, ApplyError, ReportError, Begin, ErrorNames
<1>3. CASE HandleError(o)
  BY <1>1, <1>2, <1>3, HandleMoves, SettledDisturbsNone
<1>4. CASE ApplyError(o)
  BY <1>1, <1>2, <1>4, ApplyMoves, SettledDisturbsNone, StoppedDisturbsNone
<1>5. CASE \E k \in ErrorKinds : ReportError(o, k)
  BY <1>1, <1>2, <1>5, ReportCalm, CalmDisturbsNone
<1> QED BY <1>3, <1>4, <1>5

LEMMA CompletesDisturbsNone ==
    ASSUME Steady, NEW x \in waits, Completes(x)
    PROVE  Undisturbed
<1> USE DEF Steady
<1>1. Client \in Threads /\ x.of \in Sessions
  BY TypeOKParts DEF OthersTyped, WaitOperation, Threads
<1>2. HeadBare(Client)
  BY DEF Completes, HeadBare
<1> QED BY <1>1, <1>2, CompletesMoves, SettledDisturbsNone

(* A callback's fate, by its places.                                       *)
LEMMA FateMeaning ==
    ASSUME TypeOK, WaitersInv, BornInv, NEW w \in Waiters
    PROVE  /\ Waits(w) => w \in waiters /\ calls[w] = 0
           /\ w \notin waiters => Fate(w) = "free" /\ calls[w] = 0
           /\ w \in waiters => \/ calls[w] = 1 /\ Fate(w) = "called"
                               \/ calls[w] = 0 /\ Waits(w) /\ Fate(w) = "waiting"
                               \/ calls[w] = 0 /\ ~Waits(w) /\ Fate(w) = "dropped"
<1>1. AtOnePlace(w) /\ calls[w] \in Nat
  BY DEF WaitersInv, TypeOK
<1>2. Waits(w) => w \in waiters /\ calls[w] = 0
  BY <1>1 DEF Waits, Listed, AtOnePlace
<1>3. Accounted(w) <=> Waits(w)
  BY InFlightCarried, ExistsMeaning DEF Accounted, Waits, Listed, BornInv
<1>4. w \notin waiters => Fate(w) = "free" /\ calls[w] = 0
  BY <1>1 DEF Fate, AtOnePlace
<1>5. w \in waiters /\ calls[w] = 1 => Fate(w) = "called"
  BY DEF Fate
<1>6. w \in waiters /\ calls[w] = 0 => Fate(w) = IF Waits(w) THEN "waiting" ELSE "dropped"
  BY <1>3 DEF Fate
<1>7. calls[w] = 0 \/ calls[w] = 1
  BY <1>1 DEF AtOnePlace
<1> QED BY <1>2, <1>4, <1>5, <1>6, <1>7

LEMMA FateMeaningNext ==
    ASSUME TypeOK', WaitersInv', BornInv', NEW w \in Waiters
    PROVE  /\ Waits(w)' => w \in waiters' /\ calls'[w] = 0
           /\ w \notin waiters' => Fate(w)' = "free" /\ calls'[w] = 0
           /\ w \in waiters' => \/ calls'[w] = 1 /\ Fate(w)' = "called"
                                \/ calls'[w] = 0 /\ Waits(w)' /\ Fate(w)' = "waiting"
                                \/ calls'[w] = 0 /\ ~Waits(w)' /\ Fate(w)' = "dropped"
<1>1. AtOnePlace(w)' /\ calls'[w] \in Nat
  BY DEF WaitersInv, TypeOK
<1>2. Waits(w)' => w \in waiters' /\ calls'[w] = 0
  BY <1>1 DEF Waits, Listed, AtOnePlace
<1>3. Accounted(w)' <=> Waits(w)'
  BY InFlightCarriedNext, ExistsMeaning DEF Accounted, Waits, Listed, BornInv
<1>4. w \notin waiters' => Fate(w)' = "free" /\ calls'[w] = 0
  BY <1>1 DEF Fate, AtOnePlace
<1>5. w \in waiters' /\ calls'[w] = 1 => Fate(w)' = "called"
  BY DEF Fate
<1>6. w \in waiters' /\ calls'[w] = 0 => Fate(w)' = IF Waits(w)' THEN "waiting" ELSE "dropped"
  BY <1>3 DEF Fate
<1>7. calls'[w] = 0 \/ calls'[w] = 1
  BY <1>1 DEF AtOnePlace
<1> QED BY <1>2, <1>4, <1>5, <1>6, <1>7

Lives(w) ==
    /\ Fate(w)' \in {"free", "waiting", "called", "dropped"}
    /\ \/ Fate(w)' = Fate(w)
       \/ Fate(w) = "free" /\ Fate(w)' = "waiting"
       \/ Fate(w) = "waiting" /\ Fate(w)' = "called"
       \/ Fate(w) = "waiting" /\ w \in AtRisk /\ Fate(w)' = "dropped"

LEMMA StaysLives ==
    ASSUME Steady, WaitersInv', NEW w \in Waiters, Stays(w), calls'[w] = calls[w],
           w \in waiters' <=> w \in waiters
    PROVE  Lives(w)
<1>1. Waits(w) => Waits(w)' \/ w \in AtRisk
  BY DEF Stays, Lasts
<1>2. Waits(w)' => Waits(w)
  BY DEF Stays
<1>3. CASE w \notin waiters
  BY <1>3, FateMeaning, FateMeaningNext DEF Steady, Lives
<1>4. CASE w \in waiters
  BY <1>1, <1>2, <1>4, FateMeaning, FateMeaningNext DEF Steady, Lives
<1> QED BY <1>3, <1>4

LEMMA EachLives ==
    ASSUME Steady, WaitersInv', Next, NEW w \in Waiters
    PROVE  Lives(w)
<1>1. ASSUME Undisturbed PROVE Lives(w)
  BY <1>1, StaysLives DEF Undisturbed
<1>2. ASSUME NEW t \in Threads, NEW o \in Sessions, CallWaiters(t, o) PROVE Lives(w)
  <2>1. waiters' = waiters
    BY <1>2, CallCalls
  <2>2. CASE Waits(w) /\ calls'[w] = calls[w] + 1
    <3>1. w \in waiters /\ calls[w] = 0 /\ Fate(w) = "waiting"
      BY <2>2, FateMeaning DEF Steady
    <3>2. w \in waiters' /\ calls'[w] = 1
      BY <2>1, <2>2, <3>1
    <3>3. Fate(w)' = "called"
      BY <3>2, FateMeaningNext DEF Steady
    <3> QED BY <3>1, <3>3 DEF Lives
  <2>3. CASE Stays(w) /\ calls'[w] = calls[w]
    BY <2>1, <2>3, StaysLives
  <2> QED BY <1>2, <2>2, <2>3, CallCalls
<1>3. ASSUME NEW t \in Threads, NEW o \in Sessions, NEW v \in Waiters, WaitForCompletion(t, o, v)
      PROVE  Lives(w)
  <2>1. calls' = calls
    BY <1>3, WaitRegisters
  <2>2. CASE w \notin waiters /\ w \in waiters' /\ Waits(w)'
    <3>1. Fate(w) = "free"
      BY <2>2, FateMeaning DEF Steady
    <3>2. Fate(w)' = "waiting"
      BY <2>2, FateMeaningNext DEF Steady
    <3> QED BY <3>1, <3>2 DEF Lives
  <2>3. CASE (w \in waiters' <=> w \in waiters) /\ Stays(w)
    BY <2>1, <2>3, StaysLives
  <2> QED BY <1>3, <2>2, <2>3, WaitRegisters
<1>4. CASE \E t \in AppThreads : AppOperation(t)
  <2>1. AppThreads \subseteq Threads
    BY DEF Threads
  <2> QED BY <1>1, <1>3, <1>4, <2>1, AppOperationDisturbsNone
<1>5. CASE \E t \in Threads : Continue(t)
  BY <1>1, <1>2, <1>5, ContinueDisturbsNone DEF Continue
<1>6. CASE ClientHandles \/ \E o \in Sessions, k \in ErrorKinds : ReportError(o, k)
  BY <1>1, <1>6, ClientDisturbsNone, RestoreDisturbsNone DEF ClientHandles
<1>7. CASE \E x \in waits : Completes(x)
  BY <1>1, <1>7, CompletesDisturbsNone
<1> QED BY <1>4, <1>5, <1>6, <1>7 DEF Next

(* Each step of the sessions is then a step of the promise.                *)
Fates == [w \in Waiters |-> Fate(w)]
PromiseInv == SyncInv /\ WaitInv /\ BornInv

LEMMA PromiseInvNext == PromiseInv /\ [Next]_vars => PromiseInv'
<1> SUFFICES ASSUME PromiseInv, [Next]_vars PROVE PromiseInv'
  OBVIOUS
<1> USE DEF PromiseInv
<1>1. SyncInv' /\ Sustained /\ StayBorn
  BY SyncNext, WaitNext, NextMakes DEF SyncInv, Matching
<1>2. BornInv'
  BY <1>1, BornNext DEF Sustained
<1> QED BY <1>1, <1>2 DEF Sustained

LEMMA SyncPromised ==
    ASSUME PromiseInv, Next
    PROVE  Promise!Next
<1>1. PromiseInv' /\ Sustained
  BY PromiseInvNext, WaitNext DEF PromiseInv, SyncInv
<1>2. Steady /\ WaitersInv'
  BY <1>1, ReferencedStayNext DEF Steady, PromiseInv, SyncInv, Sustained
<1>3. \A w \in Waiters : Lives(w)
  BY <1>2, EachLives
<1>4. AtRisk' \in SUBSET Waiters
  BY DEF AtRisk
<1>5. Fates' \in [Waiters -> {"free", "waiting", "called", "dropped"}]
  BY <1>3 DEF Fates, Lives
<1>6. ASSUME NEW w \in Waiters PROVE Promise!Life(w)
  <2>1. Fates[w] = Fate(w) /\ Fates'[w] = Fate(w)'
    BY DEF Fates
  <2>2. \/ Fates'[w] = Fates[w]
        \/ Fates[w] = "free" /\ Fates'[w] = "waiting"
        \/ Fates[w] = "waiting" /\ Fates'[w] = "called"
        \/ Fates[w] = "waiting" /\ w \in AtRisk /\ Fates'[w] = "dropped"
    BY <1>3, <2>1 DEF Lives
  <2> QED BY <2>2 DEF Fates, Promise!Life, Promise!Register, Promise!Call, Promise!Drop
<1> QED BY <1>4, <1>5, <1>6 DEF Promise!Next, Fates

(* SyncSession implements CompletionPromise: whatever sessions, lists and  *)
(* threads a completion callback goes through, to the application it is    *)
(* registered and waits and is then called, once; it is dropped only from  *)
(* the list of a session that nobody holds a reference to, or by a client  *)
(* resync, and then nothing more becomes of it.                            *)
THEOREM SessionsKeepPromise == Spec => PromiseKept
<1>1. Init => Promise!Init
  <2> SUFFICES ASSUME Init PROVE Promise!Init
    OBVIOUS
  <2>1. \A w \in Waiters : Fate(w) = "free"
    BY DEF Init, Fate
  <2>2. AtRisk = {}
    BY DEF Init, AtRisk, Fresh
  <2> QED BY <2>1, <2>2 DEF Promise!Init
<1>2. PromiseInv /\ [Next]_vars => [Promise!Next]_<<Fates, AtRisk>>
  <2> SUFFICES ASSUME PromiseInv, [Next]_vars PROVE [Promise!Next]_<<Fates, AtRisk>>
    OBVIOUS
  <2>1. CASE Next
    BY <2>1, SyncPromised
  <2>2. CASE UNCHANGED vars
    BY <2>2 DEF vars, Fates, Fate, Accounted, InFlight, Exists, Mentions, AtRisk, Restoring
  <2> QED BY <2>1, <2>2
<1>3. Init => PromiseInv
  BY SyncInit, WaitInit, BornInit DEF PromiseInv
<1>4. Spec => []PromiseInv
  BY <1>3, PromiseInvNext, PTL DEF Spec
<1> QED BY <1>1, <1>2, <1>4, PTL DEF Spec, PromiseKept, Promise!Spec, Fates

=============================================================================
