------------------------------ MODULE MCGatherTxn ------------------------------
(* Two characters, a rock they share and one that is each one's own.         *)
EXTENDS GatherTxn

AnyCalls == [char: Characters, node: Nodes]
SharedNodes == {"ore"}
Skilled == (Characters \X Nodes) \ {<<"bob", "gem">>}
Pace == [c \in Characters |-> IF c = "ann" THEN 1 ELSE 2]
Holds == [n \in Nodes |-> IF n = "ore" THEN 3 ELSE 2]
Carried == [c \in Characters |-> IF c = "ann" THEN 0 ELSE 2]

================================================================================
