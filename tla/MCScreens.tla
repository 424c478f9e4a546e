----------------------------- MODULE MCScreens -----------------------------
(* Instances of Screens: the clock stands still, in the first instant of a *)
(* month, so that the order of the list depends on the responses alone.    *)
EXTENDS Screens, TLC

FlatMonths == {-4, -2, 0, 2}
FlatYears == {-4, 0}
NoOffset == [m \in FlatMonths |-> 0]
OneInstant == {0}

Symmetric ==
    Permutations(Emergencies) \cup Permutations(Responses) \cup Permutations(Names)
=============================================================================
