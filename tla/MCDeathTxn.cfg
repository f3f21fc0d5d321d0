SPECIFICATION Spec
CONSTANTS
    Characters <- MCCharacters
    Requests = {1, 2, 3, 4}
    Calls <- MCCalls
    Materials <- MCMaterials
    Faction <- MCFaction
    Protected = {}
    Armed <- MCCharacters
    Worlds <- MCWorlds
    Capacity = 2
    Damage = 1
    MaxHealth = 2
    RegenDelay = 1
    RegenRate = 1
    RetaliationWindow = 1
    NewCondition = 2
    WearPerDeath = 1
    LootableFor = 1
    MaxClock = 2
INVARIANTS TypeOK HealthAsIfTicking FightsAddUp WearExplained RespawnSettles GoodsAccounted NeverStuck
PROPERTIES FightsMoveForward
CHECK_DEADLOCK FALSE
