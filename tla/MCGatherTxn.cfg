SPECIFICATION Spec
CONSTANTS
    Characters = {"ann", "bob"}
    Requests = {1, 2, 3, 4}
    Calls <- AnyCalls
    Nodes = {"ore", "gem"}
    Shared <- SharedNodes
    Everyone = "everyone"
    Qualified <- Skilled
    UnitsPerTick <- Pace
    MaxBankedTicks = 2
    QuantityMax <- Holds
    RespawnTicks = 2
    XpPerUnit = 2
    Capacity = 6
    InitialPockets <- Carried
    MaxClock = 2
INVARIANTS TypeOK DepositsAddUp PacksAddUp SupplyKept RateKept
\* Requests end, and the clock stops.
CHECK_DEADLOCK FALSE
