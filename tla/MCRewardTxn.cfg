SPECIFICATION Spec
CONSTANTS
    DailyCap = 2
    UnitPrice = 1
    Characters <- MCCharacters
    Requests = {1, 2, 3, 4, 5}
    Calls <- MCCalls
    QuestDefs <- MCQuestDefs
    Objectives <- MCObjectives
    DockObjectives <- MCDockObjectives
    GatherObjectives <- MCGatherObjectives
    Docked <- AtStation
    Nowhere = "nowhere"
    InitialBalance <- Nothing
    InitialGoods <- One
    Journals <- MCJournals
    DayLength = 2
    MaxClock = 1
INVARIANTS TypeOK ProgressExact PrerequisitesHeld
PROPERTIES QuestsOnlyAdvance
CHECK_DEADLOCK FALSE
