------------------------------ MODULE MCRewardTxn ------------------------------
(* Instances of RewardTxn for TLC, and the property that is a sum.           *)
EXTENDS RewardTxn, FiniteSetsExt

(* main-story.json:2: a story quest completes once per character, so what    *)
(* the story pays is bounded by what its quests are worth.                   *)
StoryPaysOnce ==
    \A c \in Characters :
        ledger[c] - InitialBalance[c] <= MapThenSumSet(LAMBDA q : QuestDefs[q].reward, Quests)

--------------------------------------------------------------------------------
MCCharacters == {"ada"}
Station == "dock"
MCObjectives == {"gather", "refine", Station}
MCGatherObjectives == {"gather"}
MCDockObjectives == {Station}
AtStation == [c \in MCCharacters |-> Station]

Need(objective, quantity) == [objective |-> objective, quantity |-> quantity]
Quest(prerequisite, steps, reward, sidequest) ==
    [prerequisite |-> prerequisite, steps |-> steps, reward |-> reward, xp |-> IF sidequest THEN 0 ELSE 1,
     sidequest |-> sidequest, cooldown |-> IF sidequest THEN 1 ELSE 0,
     requiresTurnIn |-> ~sidequest]

(* A story of gathering and then docking; two sidequests of refining that pay *)
(* at once, one of which follows the story.                                  *)
MCQuestDefs ==
    [story |-> Quest({}, <<Need("gather", 2), Need(Station, 1)>>, 2, FALSE),
     haul |-> Quest({}, <<Need("refine", 2)>>, 1, TRUE),
     side |-> Quest({"story"}, <<Need("refine", 1)>>, 2, TRUE)]

Row(quest, state, step, progress) ==
    [char |-> "ada", quest |-> quest, state |-> state, step |-> step,
     progress |-> progress, completedAt |-> 0]

AcceptC(q) == [op |-> "accept", char |-> "ada", quest |-> q]
ActC(objective) == [op |-> "act", char |-> "ada", objective |-> objective, quantity |-> 1]
TurnInC(q) == [op |-> "turnIn", char |-> "ada", quest |-> q]
SellC(n) == [op |-> "sell", char |-> "ada", quantity |-> n]

(* A story under way, or ready to be turned in, beside a haul.               *)
MCJournals ==
    { <<Row("story", "InProgress", 1, 1), Row("haul", "InProgress", 1, 0)>>,
      <<Row("story", "ReadyToTurnIn", 2, 1), Row("haul", "InProgress", 1, 1)>> }
MCCalls == {AcceptC("side"), ActC("refine"), ActC("gather"), TurnInC("story"), SellC(1)}
Nothing == [c \in MCCharacters |-> 0]
One == [c \in MCCharacters |-> 1]

(* One finished story, handed in.                                            *)
StoryQuestDefs == [story |-> Quest({}, <<Need("gather", 1)>>, 2, FALSE)]
StoryReady == { <<Row("story", "ReadyToTurnIn", 1, 1)>> }
TurnIns == {TurnInC("story")}

================================================================================
