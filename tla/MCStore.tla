------------------------------ MODULE MCStore ------------------------------
(* Instances of the store for TLC, with its ledger and its export.  Months *)
(* of three instants in a zone east of GMT: the offset is one instant, and *)
(* none in the month before the last (as with summer time).                *)
EXTENDS CsvExport, StoreRefinement, TLC

EastMonths == {-6, -3, 0, 3}
EastYears == {-6, 0}
EastOffset == [m \in EastMonths |-> IF m = 0 THEN 0 ELSE 1]
EastInstants == {-1, 0, 3, 4}
Amounts == {2, -1}

Symmetric ==
    Permutations(Emergencies) \cup Permutations(Responses) \cup Permutations(Names)
=============================================================================
