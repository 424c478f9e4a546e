--------------------------- MODULE ResponseLedger ---------------------------
(***************************************************************************)
(* What the store promises its screens, whatever it is made of: a ledger   *)
(* of emergency types and of responses, each response dated and owned by   *)
(* one type, in which every change happens whole or not at all.  There are *)
(* no transactions, lists, commits or processes here; DataManager          *)
(* implements this with its committed file.                                *)
(***************************************************************************)
EXTENDS Integers

CONSTANTS Emergencies, Responses, Names, Dates, NoName, NoDate, NoOwner

VARIABLE ledger

Ledgers == [name : [Emergencies -> Names \cup {NoName}],
            date : [Responses -> Dates \cup {NoDate}],
            owner : [Responses -> Emergencies \cup {NoOwner}]]

Blank == [name |-> [e \in Emergencies |-> NoName],
          date |-> [r \in Responses |-> NoDate],
          owner |-> [r \in Responses |-> NoOwner]]

Strike(l, R) ==
    [name |-> l.name,
     date |-> [r \in Responses |-> IF r \in R THEN NoDate ELSE l.date[r]],
     owner |-> [r \in Responses |-> IF r \in R THEN NoOwner ELSE l.owner[r]]]

AddsType(l, m, e, name) ==
    /\ l.name[e] = NoName /\ \A f \in Emergencies : l.name[f] # name
    /\ m = [l EXCEPT !.name[e] = name]

RenamesType(l, m, e, name) == l.name[e] # NoName /\ m = [l EXCEPT !.name[e] = name]

RemovesType(l, m, e) ==
    /\ l.name[e] # NoName
    /\ m = [Strike(l, {r \in Responses : l.owner[r] = e}) EXCEPT !.name[e] = NoName]

AddsResponse(l, m, r, e, d) ==
    /\ l.date[r] = NoDate /\ l.name[e] # NoName
    /\ m = [name |-> l.name, date |-> [l.date EXCEPT ![r] = d], owner |-> [l.owner EXCEPT ![r] = e]]

DatesResponse(l, m, r, d) == l.date[r] # NoDate /\ m = [l EXCEPT !.date[r] = d]

RemovesResponse(l, m, r) == l.date[r] # NoDate /\ m = Strike(l, {r})

(* One change, from ledger l to ledger m.                                  *)
Change(l, m) ==
    \/ \E e \in Emergencies, name \in Names : AddsType(l, m, e, name) \/ RenamesType(l, m, e, name)
    \/ \E e \in Emergencies : RemovesType(l, m, e)
    \/ \E r \in Responses, e \in Emergencies, d \in Dates : AddsResponse(l, m, r, e, d)
    \/ \E r \in Responses, d \in Dates : DatesResponse(l, m, r, d)
    \/ \E r \in Responses : RemovesResponse(l, m, r)
    \/ m = Blank

Next == Change(ledger, ledger')

Spec == ledger = Blank /\ [][Next]_ledger

=============================================================================
