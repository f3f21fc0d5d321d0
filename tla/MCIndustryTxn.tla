------------------------------ MODULE MCIndustryTxn ------------------------------
(* Ann smelts ore into plate and makes tools of plate; Bob has one slot.      *)
EXTENDS IndustryTxn

Holding(ore, plate) == [i \in Items |-> CASE i = "ore" -> ore [] i = "plate" -> plate [] OTHER -> 0]
Tools(n) == [i \in Items |-> IF i = "tool" THEN n ELSE 0]

Cookbook == [smelt |-> [uses |-> Holding(3, 0), makes |-> Holding(0, 1), time |-> 2, xp |-> 1],
             craft |-> [uses |-> Holding(1, 1), makes |-> Tools(1), time |-> 1, xp |-> 2]]

Stocked == [c \in Characters |-> Holding(2, 1)]
Carrying == [c \in Characters |-> Holding(5, 0)]
Purse == [c \in Characters |-> 3]
Practice == [c \in Characters |-> IF c = "ann" THEN 1 ELSE 0]

AnyCalls ==
    {[op |-> "start", char |-> "ann", recipe |-> "smelt"],
     [op |-> "start", char |-> "ann", recipe |-> "craft"],
     [op |-> "claim", char |-> "ann", job |-> 1],
     [op |-> "claim", char |-> "ann", job |-> 2],
     [op |-> "cancel", char |-> "ann", job |-> 1],
     [op |-> "store", char |-> "ann", item |-> "ore", quantity |-> 1],
     [op |-> "claim", char |-> "bob", job |-> 1]}

================================================================================
