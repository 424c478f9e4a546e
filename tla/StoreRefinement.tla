-------------------------- MODULE StoreRefinement --------------------------
(***************************************************************************)
(* DataManager implements ResponseLedger: the ledger is what the committed *)
(* Realm file says, a response's owner being the type whose list has it.   *)
(***************************************************************************)
EXTENDS DataManager

CONSTANT NoOwner   \* the owner of a response that no list has

ASSUME StoreRefinementAssumption == NoOwner \notin Emergencies

OwnerIn(s, r) ==
    IF \E e \in Emergencies : r \in Linked(s, e)
    THEN CHOOSE e \in Emergencies : r \in Linked(s, e)
    ELSE NoOwner

Owners(s) == [r \in Responses |-> OwnerIn(s, r)]

View(s) == [name |-> s.type, date |-> s.date, owner |-> Owners(s)]

Ledger == INSTANCE ResponseLedger WITH Dates <- Instants, ledger <- View(file)

(* Every saved change of the store is one whole change of the ledger:      *)
(* commits are the only steps that show, whatever fails or crashes.        *)
LedgerSpec == Ledger!Spec

(* Between the block of a write and its commit, what the app shows is one  *)
(* change away from what is saved.                                         *)
OneChangeAhead ==
    /\ pc = "commit" => \/ View(db) = View(file)
                        \/ Ledger!Change(View(file), View(db))
    /\ pc = "clearCommit" => View(db) = Ledger!Blank

=============================================================================
