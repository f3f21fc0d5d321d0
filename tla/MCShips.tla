------------------------------- MODULE MCShips --------------------------------
(* A hub, its hillside, and a shipyard in orbit; one hull at home at each.   *)
EXTENDS Ships

OneWalk == {<<"terra", "hillside">>, <<"hillside", "terra">>}
OneEach == [h \in Hulls |-> IF h = "shuttle" THEN "capital" ELSE "terra"]

================================================================================
