-------------------------- MODULE MCPointsScreen --------------------------
(* Instances of PointsScreen: a zone three instants of a month long, east  *)
(* of GMT by one instant except in the last month but one.                 *)
EXTENDS PointsScreen

EastMonths == {-6, -3, 0, 3}
EastYears == {-6, 0}
EastOffset == [m \in EastMonths |-> IF m = 0 THEN 0 ELSE 1]
EastInstants == {-1, 0, 4}

=============================================================================
