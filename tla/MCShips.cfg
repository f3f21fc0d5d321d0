SPECIFICATION FairSpec
CONSTANTS
    Hulls = {"shuttle", "hauler"}
    Stations = {"terra", "capital"}
    Fields = {"hillside"}
    Ground = {"terra", "hillside"}
    Shipyards = {"capital"}
    Walks <- OneWalk
    Flown = {"no hull", "shuttle"}
    Beside = {"no hull", "shuttle"}
    Home = "terra"
    Berth <- OneEach
    Nowhere = "nowhere"
    NoHull = "no hull"
    Kept = Kept
    MaxSent = 3
    MaxBusy = 2
    MaxTold = 2
    MaxParked = 2
    MaxActs = 2
INVARIANT TypeOK
PROPERTIES WhereaboutsCatchUp NoSecondShip
CHECK_DEADLOCK FALSE
