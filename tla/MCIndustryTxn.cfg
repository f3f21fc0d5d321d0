SPECIFICATION Spec
CONSTANTS
    Characters = {"ann", "bob"}
    Requests = {1, 2, 3, 4}
    Calls <- AnyCalls
    Items = {"ore", "plate", "tool"}
    Stackable = {"ore", "plate"}
    Recipes <- Cookbook
    DockedHere = {"ann"}
    Fee = 1
    SlotXp = {1}
    InitialBalance <- Purse
    InitialXp <- Practice
    InitialHangar <- Stocked
    InitialPockets <- Carrying
    MaxClock = 2
INVARIANTS TypeOK SettledOnce FeesAddUp GoodsAddUp WorkPaid SlotsKept
\* Requests end, and the clock stops.
CHECK_DEADLOCK FALSE
