--------------------------- MODULE MCStoreClaims ---------------------------
(* Instances for the claims: GMT, and a zone three instants of a month     *)
(* long whose offset is one instant, to the east.                          *)
EXTENDS StoreClaims

FlatMonths == {-4, -2, 0, 2}
FlatYears == {-4, 0}
NoOffset == [m \in FlatMonths |-> 0]
FlatInstants == 0 .. 2

EastMonths == {-6, -3, 0, 3}
EastYears == {-6, 0}
EastOffset == [m \in EastMonths |-> 1]
EastInstants == 0 .. 4
=============================================================================
