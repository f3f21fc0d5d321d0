SPECIFICATION Spec
CONSTANTS
    DailyCap = 2
    UnitPrice = 1
    Characters <- MCCharacters
    Requests = {1, 2, 3}
    Calls <- TurnIns
    QuestDefs <- StoryQuestDefs
    Objectives <- MCObjectives
    DockObjectives <- MCDockObjectives
    GatherObjectives <- MCGatherObjectives
    Docked <- AtStation
    Nowhere = "nowhere"
    InitialBalance <- Nothing
    InitialGoods <- One
    Journals <- StoryReady
    DayLength = 2
    MaxClock = 0
INVARIANT StoryPaysOnce
CHECK_DEADLOCK FALSE
