---------------------------- MODULE SyncSession ----------------------------
(***************************************************************************)
(* ObjectStore/src/sync: the life of a SyncSession between its user, the   *)
(* SyncManager that has one session per path, the application's threads    *)
(* and the event loop of the sync client, for one user and one path.       *)
(*                                                                         *)
(* A step is what a thread does while it holds m_state_mutex, and these    *)
(* are the steps the code lets others come between: entering the inactive  *)
(* state releases the lock, and only then is the session unregistered and  *)
(* its waiters called.  What a thread has yet to do is kept in todo.  The  *)
(* other two mutexes, SyncManager::m_session_mutex ("map") and             *)
(* SyncUser::m_mutex ("user"), are held over several such steps.           *)
(***************************************************************************)
EXTENDS Integers, Sequences, FiniteSets

CONSTANTS
    Sessions,      \* identities of SyncSession objects, one after another
    AppThreads,    \* threads of the application
    Client,        \* the thread that runs the sync client's event loop
    App,           \* the application, as the holder of external references
    None,          \* no session, no thread
    Uploads,       \* callbacks the application may register, by direction
    Downloads,
    StopPolicies,  \* values of SyncConfig::stop_policy in use
    ClientResync,  \* client_resync_mode is not Manual
    MaxOperations  \* bound on the calls and errors of one run

ASSUME SyncSessionAssumption ==
    /\ Client \notin AppThreads /\ None \notin Sessions \cup AppThreads \cup {Client}
    /\ App \notin AppThreads \cup {Client}
    /\ Uploads \cap Downloads = {}
    /\ StopPolicies \subseteq {"Immediately", "LiveIndefinitely", "AfterChangesUploaded"}
    /\ ClientResync \in BOOLEAN /\ MaxOperations \in Nat

VARIABLES
    s,        \* per session: m_state, stop policy, has m_session, m_deferred_close, m_death_count,
              \* m_client_resync_counter and both completion callback lists
    entry,    \* SyncManager::m_sessions at the path
    refs,     \* who shares the ExternalReference of each session
    user,     \* m_state, m_sessions and m_waiting_sessions of the SyncUser
    lock,     \* who holds "map" and "user"
    todo,     \* what each thread has yet to do
    asks,     \* sessions the binding is fetching an access token for
    waits,    \* wait operations the sync client has accepted
    calls,    \* how often each waiter was called; it is a waiter once registered
    waiters,
    running,  \* no assertion has ended the process
    left      \* operations left of MaxOperations

vars == <<s, entry, refs, user, lock, todo, asks, waits, calls, waiters, running, left>>

Threads == AppThreads \cup {Client}
Waiters == Uploads \cup Downloads
Directions == {"upload", "download"}
InDirection(d) == CASE d = "upload" -> Uploads [] d = "download" -> Downloads [] OTHER -> {}

-----------------------------------------------------------------------------
(* What a thread has yet to do: a step's name, its session, its waiters    *)
(* and the error it is about.                                              *)

Do(name, o) == [do |-> name, of |-> o, with |-> {}, kind |-> "none"]
CallEach(o, W) == [Do("call", o) EXCEPT !.with = W]
Restore(o, W) == [Do("restore", o) EXCEPT !.with = W]
Error(name, o, k) == [Do(name, o) EXCEPT !.kind = k]

(* Errors that are handled alike have one name.  Those that ask for a      *)
(* client reset are like permission_denied when client_resync_mode is      *)
(* Manual.                                                                 *)
ErrorKinds == {"reported", "token_expired", "bad_authentication", "permission_denied"}
              \cup (IF ClientResync THEN {"client_reset"} ELSE {})

Mentions(t, o) == \E i \in DOMAIN todo[t] : todo[t][i].of = o
(* Somebody has a shared_ptr to the session, so a weak_ptr can be locked.  *)
Exists(o) ==
    /\ s[o].state # "unborn"
    /\ entry = o \/ refs[o] # {} \/ o \in asks \/ \E t \in Threads : Mentions(t, o)

Fresh == [state |-> "unborn", policy |-> "Immediately", session |-> FALSE, close |-> FALSE,
          deaths |-> 0, resyncs |-> 0, queue |-> {}]

Init ==
    /\ s = [o \in Sessions |-> Fresh]
    /\ entry = None /\ refs = [o \in Sessions |-> {}]
    /\ user = [state |-> "Active", sessions |-> None, waiting |-> None]
    /\ lock = [m \in {"map", "user"} |-> None]
    /\ todo = [t \in Threads |-> << >>]
    /\ asks = {} /\ waits = {}
    /\ calls = [w \in Waiters |-> 0] /\ waiters = {}
    /\ running = TRUE /\ left = MaxOperations

-----------------------------------------------------------------------------
(* State transitions, as what they make of a session's record, the wait    *)
(* operations they start and what they leave the thread to do.             *)

Wait(o, kind, mark) == [of |-> o, kind |-> kind, mark |-> mark]
Waiting(o) == {d \in Directions : s[o].queue \cap InDirection(d) # {}}

(* A slip the runs must find: the sync::Session of an inactive session kept.*)
ToInactiveKeepingSession(o) == [s[o] EXCEPT !.state = "inactive", !.queue = {}]
ToInactive(o) == [s[o] EXCEPT !.state = "inactive", !.session = FALSE, !.queue = {}]
(* A slip the runs must find: the lists cleared, nobody called.            *)
AfterInactiveSilently(o) == <<Do("unregister", o)>>
AfterInactive(o) == <<Do("unregister", o), CallEach(o, s[o].queue)>>
ToWaiting(o) == [s[o] EXCEPT !.state = "waiting", !.close = FALSE]
ToActive(o) == [s[o] EXCEPT !.state = "active", !.session = TRUE]
(* A slip the runs must find: an activated session waits for nothing.      *)
NoActiveWaits(o) == {}
ActiveWaits(o) == {Wait(o, d, s[o].resyncs) : d \in Waiting(o)}
(* A slip the runs must find: the deaths counted down.                     *)
ToDyingCountingDown(o) == [s[o] EXCEPT !.state = "dying", !.session = TRUE, !.deaths = 0 - 1]
ToDying(o) == [s[o] EXCEPT !.state = "dying", !.session = TRUE, !.deaths = @ + 1]
DyingWait(o) == Wait(o, "dying", s[o].deaths + 1)

(* A slip the runs must find: callbacks copied off the list, not moved.    *)
LeavingListed(o, W) == s[o]
TakenOffList(o, W) == [s[o] EXCEPT !.queue = @ \ W]

Becomes(o, r) == s' = [s EXCEPT ![o] = r]

(* An idle thread begins something; a thread takes the step it is at and   *)
(* goes on with more before the rest.                                      *)
Begin(t, steps) ==
    /\ running /\ todo[t] = << >> /\ left > 0
    /\ left' = left - 1 /\ todo' = [todo EXCEPT ![t] = steps]
    /\ UNCHANGED running
At(t, name, o) ==
    /\ running /\ todo[t] # << >>
    /\ Head(todo[t]).do = name /\ Head(todo[t]).of = o
    /\ UNCHANGED left
Goes(t, more) == todo' = [todo EXCEPT ![t] = more \o Tail(@)] /\ UNCHANGED running

(* REALM_ASSERT fails: the process ends.                                   *)
AssertFails == running' = FALSE /\ UNCHANGED <<s, entry, refs, user, lock, todo, asks, waits, calls>>

tables == <<entry, refs, user, lock>>
answers == <<calls, waiters>>

-----------------------------------------------------------------------------
(* SyncManager and SyncUser *)

(* get_session, up to register_session: m_session_mutex stays held.        *)
GetSession(t) ==
    /\ lock["map"] = None /\ lock' = [lock EXCEPT !["map"] = t]
    /\ \/ /\ entry # None
          /\ Begin(t, <<Do("register", entry), Do("take_reference", entry)>>)
          /\ UNCHANGED <<s, entry, refs>>
       \/ \E o \in Sessions, p \in StopPolicies :
             /\ entry = None /\ s[o].state = "unborn"
             /\ Becomes(o, [s[o] EXCEPT !.state = "inactive", !.policy = p])
             /\ entry' = o /\ refs' = [refs EXCEPT ![o] = {t}]
             /\ Begin(t, <<Do("register", o), Do("take_reference", o)>>)
    /\ UNCHANGED <<user, asks, waits, answers>>

TakeReference(t, o) ==
    /\ At(t, "take_reference", o) /\ Goes(t, << >>)
    /\ refs' = [refs EXCEPT ![o] = (@ \ {t}) \cup {App}]
    /\ lock' = [lock EXCEPT !["map"] = None]
    /\ UNCHANGED <<s, entry, user, asks, waits, answers>>

UnlockMap(t, o) ==
    /\ At(t, "unlock_map", o) /\ Goes(t, << >>)
    /\ lock' = [lock EXCEPT !["map"] = None]
    /\ UNCHANGED <<s, entry, refs, user, asks, waits, answers>>

GetExistingSession(t) ==
    /\ lock["map"] = None /\ entry # None /\ Begin(t, << >>)
    /\ refs' = [refs EXCEPT ![entry] = @ \cup {App}]
    /\ UNCHANGED <<s, entry, user, lock, asks, waits, answers>>

Register(t, o) ==
    /\ At(t, "register", o) /\ lock["user"] = None
    /\ user' = CASE user.state = "Active" -> [user EXCEPT !.sessions = o]
                 [] user.state = "LoggedOut" -> [user EXCEPT !.waiting = o]
                 [] OTHER -> user
    /\ Goes(t, IF user.state = "Active" THEN <<Do("revive", o)>> ELSE << >>)
    /\ UNCHANGED <<s, entry, refs, lock, asks, waits, answers>>

(* A slip the runs must find: nobody asked whether it is referenced.       *)
UnregisterReferenced(t, o) ==
    /\ At(t, "unregister", o) /\ lock["map"] = None
    /\ IF entry = None THEN AssertFails ELSE entry' = None /\ Goes(t, << >>) /\ UNCHANGED <<refs, lock>>
    /\ UNCHANGED <<s, user, asks, waits, answers>>

(* unregister_session.  Whether the session in the map is referenced is    *)
(* asked by sharing its reference for a moment, still holding the mutex.   *)
Unregister(t, o) ==
    /\ At(t, "unregister", o) /\ lock["map"] = None
    /\ CASE entry = None -> AssertFails
         [] entry # None /\ refs[entry] = {} ->
              entry' = None /\ Goes(t, << >>) /\ UNCHANGED <<refs, lock>>
         [] OTHER ->
              /\ refs' = [refs EXCEPT ![entry] = @ \cup {t}]
              /\ lock' = [lock EXCEPT !["map"] = t]
              /\ Goes(t, <<Do("end_look", entry)>>) /\ UNCHANGED entry
    /\ UNCHANGED <<s, user, asks, waits, answers>>

(* The last to share the reference closes the session.                     *)
EndLook(t, o) ==
    /\ At(t, "end_look", o)
    /\ refs' = [refs EXCEPT ![o] = @ \ {t}]
    /\ Goes(t, (IF refs[o] = {t} THEN <<Do("did_drop", o)>> ELSE << >>)
               \o <<Do("unlock_map", o)>>)
    /\ UNCHANGED <<s, entry, user, lock, asks, waits, answers>>

Reconnect(t) ==
    /\ lock["map"] = None /\ entry # None /\ s[entry].state = "waiting"
    /\ Begin(t, << >>) /\ asks' = asks \cup {entry}
    /\ UNCHANGED <<s, tables, waits, answers>>

(* SyncUser::log_out holds m_mutex while its session logs out.             *)
LogOut(t) ==
    /\ lock["user"] = None /\ user.state # "LoggedOut"
    /\ IF user.sessions # None /\ Exists(user.sessions)
       THEN /\ user' = [user EXCEPT !.state = "LoggedOut"]
            /\ lock' = [lock EXCEPT !["user"] = t]
            /\ Begin(t, <<Do("log_out", user.sessions), Do("park", user.sessions)>>)
       ELSE /\ user' = [user EXCEPT !.state = "LoggedOut", !.sessions = None]
            /\ Begin(t, << >>) /\ UNCHANGED lock
    /\ UNCHANGED <<s, entry, refs, asks, waits, answers>>

Park(t, o) ==
    /\ At(t, "park", o) /\ Goes(t, << >>)
    /\ user' = [user EXCEPT !.waiting = o, !.sessions = None]
    /\ lock' = [lock EXCEPT !["user"] = None]
    /\ UNCHANGED <<s, entry, refs, asks, waits, answers>>

(* update_refresh_token: the user logs in again.                           *)
LogIn(t) ==
    /\ lock["user"] = None /\ user.state = "LoggedOut"
    /\ IF user.waiting # None /\ Exists(user.waiting)
       THEN /\ user' = [state |-> "Active", sessions |-> user.waiting, waiting |-> None]
            /\ Begin(t, <<Do("revive", user.waiting)>>)
       ELSE user' = [user EXCEPT !.state = "Active", !.waiting = None] /\ Begin(t, << >>)
    /\ UNCHANGED <<s, entry, refs, lock, asks, waits, answers>>

Invalidate(t, o) ==
    /\ At(t, "invalidate", o) /\ lock["user"] = None /\ Goes(t, << >>)
    /\ user' = [user EXCEPT !.state = "Error"]
    /\ UNCHANGED <<s, entry, refs, lock, asks, waits, answers>>

-----------------------------------------------------------------------------
(* SyncSession, called by the application *)

ReviveIfNeeded(t, o) ==
    /\ At(t, "revive", o)
    /\ CASE s[o].state = "inactive" ->
              Becomes(o, ToWaiting(o)) /\ Goes(t, <<Do("bind", o)>>) /\ UNCHANGED waits
         [] s[o].state = "dying" ->
              /\ Becomes(o, ToActive(o)) /\ Goes(t, << >>)
              /\ waits' = waits \cup ActiveWaits(o)
         [] s[o].state = "waiting" ->
              Becomes(o, [s[o] EXCEPT !.close = FALSE]) /\ Goes(t, << >>) /\ UNCHANGED waits
         [] OTHER -> Goes(t, << >>) /\ UNCHANGED <<s, waits>>
    /\ UNCHANGED <<tables, asks, answers>>

Bind(t, o) ==
    /\ At(t, "bind", o) /\ Goes(t, << >>)
    /\ asks' = asks \cup {o}
    /\ UNCHANGED <<s, tables, waits, answers>>

(* The binding answers with a token.  A close that was asked for meanwhile *)
(* is done now.                                                            *)
RefreshAccessToken(t, o) ==
    /\ running /\ todo[t] = << >> /\ o \in asks
    /\ asks' = asks \ {o}
    /\ CASE s[o].state = "waiting" /\ s[o].close /\ s[o].policy = "AfterChangesUploaded" ->
              Becomes(o, ToDying(o)) /\ waits' = waits \cup ActiveWaits(o) \cup {DyingWait(o)}
         [] s[o].state = "waiting" /\ ~(s[o].close /\ s[o].policy = "AfterChangesUploaded") ->
              Becomes(o, ToActive(o)) /\ waits' = waits \cup ActiveWaits(o)
         [] OTHER -> UNCHANGED <<s, waits>>
    /\ UNCHANGED <<tables, todo, answers, running, left>>

(* It gives up, or is told that the credentials are bad and logs out.      *)
TokenFails(t, o) ==
    /\ running /\ todo[t] = << >> /\ o \in asks
    /\ asks' = asks \ {o}
    /\ \E steps \in {<< >>, <<Do("log_out", o)>>} : todo' = [todo EXCEPT ![t] = steps]
    /\ UNCHANGED <<s, tables, waits, answers, running, left>>

SessionLogOut(t, o) ==
    /\ At(t, "log_out", o)
    /\ IF s[o].state = "inactive"
       THEN Goes(t, << >>) /\ UNCHANGED s
       ELSE Becomes(o, ToInactive(o)) /\ Goes(t, AfterInactive(o))
    /\ UNCHANGED <<tables, asks, waits, answers>>

LogOutSession(t, o) ==
    /\ App \in refs[o] /\ Begin(t, <<Do("log_out", o)>>)
    /\ UNCHANGED <<s, tables, asks, waits, answers>>

DropReference(t, o) ==
    /\ App \in refs[o]
    /\ refs' = [refs EXCEPT ![o] = @ \ {App}]
    /\ Begin(t, IF refs[o] = {App} THEN <<Do("did_drop", o)>> ELSE << >>)
    /\ UNCHANGED <<s, entry, user, lock, asks, waits, answers>>

DidDropExternalReference(t, o) ==
    /\ At(t, "did_drop", o)
    /\ CASE refs[o] # {} -> Goes(t, << >>) /\ UNCHANGED <<s, waits>>
         [] refs[o] = {} /\ s[o].state = "inactive" ->
              Goes(t, <<Do("unregister", o)>>) /\ UNCHANGED <<s, waits>>
         [] refs[o] = {} /\ s[o].state \in {"waiting", "active"} /\ s[o].policy = "Immediately" ->
              Becomes(o, ToInactive(o)) /\ Goes(t, AfterInactive(o)) /\ UNCHANGED waits
         [] refs[o] = {} /\ s[o].state = "waiting" /\ s[o].policy # "Immediately" ->
              Becomes(o, [s[o] EXCEPT !.close = TRUE]) /\ Goes(t, << >>) /\ UNCHANGED waits
         [] refs[o] = {} /\ s[o].state = "active" /\ s[o].policy = "AfterChangesUploaded" ->
              /\ Becomes(o, ToDying(o)) /\ Goes(t, << >>)
              /\ waits' = waits \cup {DyingWait(o)}
         [] OTHER -> Goes(t, << >>) /\ UNCHANGED <<s, waits>>
    /\ UNCHANGED <<tables, asks, answers>>

(* wait_for_upload_completion and wait_for_download_completion: only the   *)
(* first of the callbacks that are queued asks the sync client.            *)
WaitForCompletion(t, o, w) ==
    /\ App \in refs[o] /\ w \notin waiters /\ Begin(t, << >>)
    /\ Becomes(o, [s[o] EXCEPT !.queue = @ \cup {w}])
    /\ waiters' = waiters \cup {w}
    /\ waits' = IF s[o].state \in {"active", "dying"}
                THEN waits \cup {Wait(o, d, s[o].resyncs) :
                                   d \in {d \in Directions : w \in InDirection(d)} \ Waiting(o)}
                ELSE waits
    /\ UNCHANGED <<tables, asks, calls>>

BeginUpdate(t, o) ==
    /\ App \in refs[o] /\ Begin(t, <<Do("update", o)>>)
    /\ UNCHANGED <<s, tables, asks, waits, answers>>

(* A slip the runs must find: the loop that has no break.                  *)
UpdateForEver(t, o) ==
    /\ At(t, "update", o)
    /\ IF s[o].state = "inactive"
       THEN Goes(t, <<Do("update", o)>>) /\ UNCHANGED s
       ELSE Becomes(o, ToInactive(o)) /\ Goes(t, AfterInactive(o) \o <<Do("update", o)>>)
    /\ UNCHANGED <<tables, asks, waits, answers>>

(* update_configuration tries until the session stays inactive.            *)
UpdateConfiguration(t, o) ==
    /\ At(t, "update", o)
    /\ IF s[o].state = "inactive"
       THEN /\ Goes(t, <<Do("revive", o)>>)
            /\ \E p \in StopPolicies : Becomes(o, [s[o] EXCEPT !.policy = p])
       ELSE Becomes(o, ToInactive(o)) /\ Goes(t, AfterInactive(o) \o <<Do("update", o)>>)
    /\ UNCHANGED <<tables, asks, waits, answers>>

CallWaiters(t, o) ==
    /\ At(t, "call", o) /\ Goes(t, << >>)
    /\ calls' = [w \in Waiters |-> IF w \in Head(todo[t]).with THEN calls[w] + 1 ELSE calls[w]]
    /\ UNCHANGED <<s, tables, asks, waits, waiters>>

-----------------------------------------------------------------------------
(* SyncSession, called by the sync client on its event loop *)

(* A wait operation completes, or is cancelled once the sync::Session is   *)
(* gone.  Its handler minds which session and which death it was for.      *)
Completes(x) ==
    /\ running /\ todo[Client] = << >> /\ x \in waits
    /\ waits' = waits \ {x}
    /\ CASE Exists(x.of) /\ x.kind = "dying" /\ s[x.of].state = "dying"
            /\ s[x.of].deaths = x.mark ->
              /\ Becomes(x.of, ToInactive(x.of))
              /\ todo' = [todo EXCEPT ![Client] = AfterInactive(x.of)]
         [] Exists(x.of) /\ x.kind # "dying" /\ s[x.of].resyncs = x.mark ->
              LET W == s[x.of].queue \cap InDirection(x.kind)
              IN  /\ Becomes(x.of, TakenOffList(x.of, W))
                  /\ todo' = [todo EXCEPT ![Client] = <<CallEach(x.of, W)>>]
         [] OTHER -> UNCHANGED <<s, todo>>
    /\ UNCHANGED <<tables, asks, answers, running, left>>

(* The listener lets go of the lock before it calls handle_error.          *)
ReportError(o, k) ==
    /\ Exists(o) /\ s[o].session /\ Begin(Client, <<Error("handle_error", o, k)>>)
    /\ UNCHANGED <<s, tables, asks, waits, answers>>

(* What the current state makes of the error: dying, it ends the session   *)
(* if it is fatal and takes no notice otherwise.                           *)
HandleError(o) ==
    /\ At(Client, "handle_error", o)
    /\ LET k == Head(todo[Client]).kind
       IN  CASE s[o].state # "dying" -> Goes(Client, <<Error("apply_error", o, k)>>) /\ UNCHANGED s
             [] s[o].state = "dying" ->
                  \/ Becomes(o, ToInactive(o)) /\ Goes(Client, AfterInactive(o))
                  \/ k = "token_expired" /\ Goes(Client, << >>) /\ UNCHANGED s
    /\ UNCHANGED <<tables, asks, waits, answers>>

(* What the error itself asks for, under the lock taken again.             *)
ApplyError(o) ==
    /\ At(Client, "apply_error", o)
    /\ LET k == Head(todo[Client]).kind
       IN  CASE k = "reported" ->
                  /\ Becomes(o, TakenOffList(o, s[o].queue))
                  /\ Goes(Client, <<CallEach(o, s[o].queue)>>)
             [] k = "bad_authentication" ->
                  /\ Becomes(o, TakenOffList(o, s[o].queue))
                  /\ Goes(Client, <<CallEach(o, s[o].queue), Do("invalidate", o)>>)
             [] k = "token_expired" /\ s[o].state = "active" ->
                  Becomes(o, ToWaiting(o)) /\ Goes(Client, <<Do("bind", o)>>)
             [] k = "token_expired" /\ s[o].state # "active" ->
                  Goes(Client, << >>) /\ UNCHANGED s
             [] k \in {"permission_denied", "client_reset"} /\ s[o].state = "inactive" ->
                  AssertFails
             [] k = "permission_denied" /\ s[o].state # "inactive" ->
                  Becomes(o, ToInactive(o)) /\ Goes(Client, AfterInactive(o))
             [] k = "client_reset" /\ s[o].state # "inactive" ->
                  /\ Becomes(o, [ToInactive(o) EXCEPT !.resyncs = @ + 1])
                  /\ Goes(Client, <<Do("unregister", o), Restore(o, s[o].queue)>>)
    /\ UNCHANGED <<tables, asks, waits, answers>>

(* The waiters set aside for a client resync are put back, without the     *)
(* lock that was released on the way, and the session is revived.          *)
RestoreWaiters(o) ==
    /\ At(Client, "restore", o) /\ Goes(Client, <<Do("revive", o)>>)
    /\ Becomes(o, [s[o] EXCEPT !.queue = Head(todo[Client]).with])
    /\ UNCHANGED <<tables, asks, waits, answers>>

-----------------------------------------------------------------------------
AppOperation(t) ==
    \/ GetSession(t) \/ GetExistingSession(t) \/ Reconnect(t) \/ LogOut(t) \/ LogIn(t)
    \/ \E o \in Sessions :
          \/ RefreshAccessToken(t, o) \/ TokenFails(t, o) \/ LogOutSession(t, o)
          \/ DropReference(t, o) \/ BeginUpdate(t, o)
          \/ \E w \in Waiters : WaitForCompletion(t, o, w)

Continue(t) ==
    \E o \in Sessions :
       \/ Register(t, o) \/ TakeReference(t, o) \/ UnlockMap(t, o) \/ Unregister(t, o)
       \/ EndLook(t, o) \/ Park(t, o) \/ Invalidate(t, o) \/ ReviveIfNeeded(t, o)
       \/ Bind(t, o) \/ SessionLogOut(t, o) \/ DidDropExternalReference(t, o)
       \/ UpdateConfiguration(t, o) \/ CallWaiters(t, o)

ClientHandles == \E o \in Sessions : HandleError(o) \/ ApplyError(o) \/ RestoreWaiters(o)

Next ==
    \/ \E t \in AppThreads : AppOperation(t)
    \/ \E t \in Threads : Continue(t)
    \/ ClientHandles
    \/ \E x \in waits : Completes(x)
    \/ \E o \in Sessions, k \in ErrorKinds : ReportError(o, k)

(* What a thread has begun it goes on with, unless it is waiting for a     *)
(* mutex; nobody must call, and the server need not answer.                *)
Fairness == WF_vars(ClientHandles) /\ \A t \in Threads : WF_vars(Continue(t))

Spec == Init /\ [][Next]_vars
FairSpec == Spec /\ Fairness

-----------------------------------------------------------------------------
Steps ==
    [do : {"call", "restore"}, of : Sessions, with : SUBSET Waiters, kind : {"none"}]
    \cup [do : {"register", "take_reference", "unlock_map", "unregister", "end_look", "did_drop",
                "log_out", "park", "revive", "bind", "update", "invalidate"},
          of : Sessions, with : {{}}, kind : {"none"}]
    \cup [do : {"handle_error", "apply_error"}, of : Sessions, with : {{}}, kind : ErrorKinds]

(* Every variable has its type.                                            *)
TypeOK ==
    /\ s \in [Sessions -> [state : {"unborn", "inactive", "waiting", "active", "dying"},
                           policy : StopPolicies \cup {"Immediately"}, session : BOOLEAN,
                           close : BOOLEAN, deaths : Nat, resyncs : Nat, queue : SUBSET Waiters]]
    /\ entry \in Sessions \cup {None}
    /\ refs \in [Sessions -> SUBSET (Threads \cup {App})]
    /\ user \in [state : {"Active", "LoggedOut", "Error"},
                 sessions : Sessions \cup {None}, waiting : Sessions \cup {None}]
    /\ lock \in [{"map", "user"} -> Threads \cup {None}]
    /\ todo \in [Threads -> Seq(Steps)]
    /\ asks \subseteq Sessions
    /\ waits \subseteq [of : Sessions, kind : Directions \cup {"dying"}, mark : Nat]
    /\ calls \in [Waiters -> Nat] /\ waiters \subseteq Waiters
    /\ running \in BOOLEAN /\ left \in 0 .. MaxOperations

(* There is a sync::Session to wait on, refresh and report errors whenever *)
(* the state says so (REALM_ASSERT(session.m_session)) and none is left    *)
(* behind in a session that is inactive.                                   *)
SessionMatchesState ==
    \A o \in Sessions :
       /\ s[o].state \in {"active", "dying"} => s[o].session
       /\ s[o].state \in {"unborn", "inactive"} => ~s[o].session

(* A session the application holds a reference to is the one in the map:   *)
(* it is never unregistered under it, by whatever thread deactivates it    *)
(* when, so that opening the path again always finds it.                   *)
ReferencedIsRegistered == \A o \in Sessions : refs[o] # {} => entry = o

(* A callback waits on the list of a session that exists or on its way in  *)
(* some thread.                                                            *)
InFlight(w) == \E t \in Threads : \E i \in DOMAIN todo[t] : w \in todo[t][i].with
Accounted(w) == InFlight(w) \/ \E o \in Sessions : w \in s[o].queue /\ Exists(o)

(* No completion callback is called twice, although lists of them are      *)
(* taken by completions, errors, logouts, closes and resyncs, on several   *)
(* threads.                                                                *)
CalledOnce == \A w \in Waiters : calls[w] <= 1

(* What became of a callback, as the application may see it.               *)
Fate(w) ==
    IF w \notin waiters THEN "free"
    ELSE IF calls[w] > 1 THEN "called again"
    ELSE IF calls[w] = 1 THEN "called"
    ELSE IF Accounted(w) THEN "waiting" ELSE "dropped"

(* The list of a session that nobody holds an external reference to goes   *)
(* with the session; that of one whose set aside callbacks are about to be *)
(* put back is overwritten.                                                *)
Restoring(o) ==
    todo[Client] # << >> /\ Head(todo[Client]).do = "restore" /\ Head(todo[Client]).of = o
AtRisk ==
    {w \in Waiters : \E o \in Sessions : w \in s[o].queue /\ (refs[o] = {} \/ Restoring(o))}

Promise == INSTANCE CompletionPromise
           WITH Callbacks <- Waiters, fate <- [w \in Waiters |-> Fate(w)], atRisk <- AtRisk

(* The sessions keep the promise: a callback is registered, waits and is   *)
(* then called, once, however many lists, threads, errors, logouts, closes *)
(* and configurations come between.  It is lost, and never heard of again, *)
(* only from the list of a session that the application let go of, which   *)
(* is destroyed with its list, or of one in the second half of a client    *)
(* resync.                                                                 *)
PromiseKept == Promise!Spec

(* While a callback is in the list of an active or dying session, a wait   *)
(* operation is under way whose completion will call it.  (Not after a     *)
(* client resync: callbacks put back into a session that somebody made     *)
(* active meanwhile are waited for by nobody.)                             *)
WaitersAreWaitedFor ==
    \A o \in Sessions :
       Exists(o) /\ s[o].state \in {"active", "dying"} /\ s[o].resyncs = 0 =>
          \A w \in s[o].queue : \E x \in waits :
             x.of = o /\ w \in InDirection(x.kind) /\ x.mark = s[o].resyncs

NeedsLock(t, m) ==
    /\ todo[t] # << >>
    /\ Head(todo[t]).do \in (IF m = "map" THEN {"unregister"} ELSE {"register", "invalidate"})
BlockedBy(t, u) == \E m \in {"map", "user"} : NeedsLock(t, m) /\ lock[m] = u
(* Threads that wait for each other, or one for itself.                    *)
Deadlocked ==
    \/ \E t \in Threads : BlockedBy(t, t)
    \/ \E t, u \in Threads : BlockedBy(t, u) /\ BlockedBy(u, t)

(* Whatever was started comes to its end, even update_configuration that   *)
(* tries again and again while others revive the session, and so the       *)
(* callbacks that were taken off a list are called: unless threads wait    *)
(* for each other's mutexes or an assertion ends the process.              *)
OperationsEnd ==
    (\E t \in Threads : todo[t] # << >>)
       ~> \/ \A t \in Threads : todo[t] = << >>
          \/ Deadlocked \/ ~running

(* sync_manager.hpp says of unregister_session that it is a no-op if the   *)
(* session is still active.                                                *)
UnregisterSparesActive ==
    [][\A o \in Sessions : entry = o /\ entry' # o => s[o].state = "inactive"]_vars

=============================================================================
