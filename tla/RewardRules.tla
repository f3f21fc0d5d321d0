------------------------------ MODULE RewardRules ------------------------------
(****************************************************************************)
(* The pure rules of rewards: a step's progress                              *)
(* (services/SpaceMMO.Domain/Quests/QuestProgress.cs) and the daily budget   *)
(* of credits created for a character (Economy/FaucetBudget.cs).             *)
(****************************************************************************)
EXTENDS Integers

CONSTANTS DailyCap,   \* DefaultDailyCap: 5,000 credits in the code
          UnitPrice   \* the item's FactionBuyPrice

ASSUME BudgetAssumption == DailyCap \in Nat /\ UnitPrice \in Nat \ {0}

Lesser(a, b) == IF a <= b THEN a ELSE b

(* QuestProgress.Apply, for an event that matches: the surplus is discarded. *)
NewProgress(step, progress, quantity) == Lesser(progress + quantity, step.quantity)

Matches(step, event) == step.objective = event.objective

Remaining(granted) == IF granted <= DailyCap THEN DailyCap - granted ELSE 0

(* FaucetBudget.Evaluate: what the day's budget still allows of a reward.    *)
Granted(requested, granted) == Lesser(requested, Remaining(granted))

(* A faction buys whole units, as many as the budget pays for.               *)
Affordable(quantity, granted) == Lesser(quantity, Remaining(granted) \div UnitPrice)

================================================================================
