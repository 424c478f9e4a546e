------------------------- MODULE CompletionPromise -------------------------
(***************************************************************************)
(* What wait_for_upload_completion and wait_for_download_completion        *)
(* promise the application, whatever a session is made of: a callback that *)
(* was registered is called once, and only one that is at risk may be      *)
(* dropped.  There are no sessions, threads, lists or wait operations      *)
(* here; SyncSession implements this and says who is at risk.              *)
(***************************************************************************)

CONSTANT Callbacks

VARIABLES
    fate,    \* what became of each callback
    atRisk   \* callbacks whose session was let go of, or is being resynced

Init == fate = [c \in Callbacks |-> "free"] /\ atRisk = {}

Register(c) == fate[c] = "free" /\ fate'[c] = "waiting"
Call(c) == fate[c] = "waiting" /\ fate'[c] = "called"
Drop(c) == fate[c] = "waiting" /\ c \in atRisk /\ fate'[c] = "dropped"

(* A step is about any number of callbacks, each in its own way.           *)
Life(c) == UNCHANGED fate[c] \/ Register(c) \/ Call(c) \/ Drop(c)
Next ==
    /\ atRisk' \in SUBSET Callbacks
    /\ fate' \in [Callbacks -> {"free", "waiting", "called", "dropped"}]
    /\ \A c \in Callbacks : Life(c)

Spec == Init /\ [][Next]_<<fate, atRisk>>

=============================================================================
