SPECIFICATION DockedSpec
CONSTANTS
    Hulls = {"shuttle"}
    Stations = {"terra", "capital"}
    Fields = {"hillside"}
    Ground = {"terra", "hillside"}
    Shipyards = {"capital"}
    Walks <- OneWalk
    Flown = {"shuttle"}
    Beside = {"no hull"}
    Home = "terra"
    Berth <- OneEach
    Nowhere = "nowhere"
    NoHull = "no hull"
    Kept = Kept
    MaxSent = 2
    MaxBusy = 2
    MaxTold = 1
    MaxParked = 2
    MaxActs = 4
INVARIANT FlyingAwayUndocks
CHECK_DEADLOCK FALSE
