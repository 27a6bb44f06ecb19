SPECIFICATION Spec
CONSTANTS
    Tokens = {"yes", "no"}
    Complement <- MCComplement
    NoToken = "none"
    Listings <- MCListings
    Prices = {2, 4}
    Unit = 10
    Tick = 2
    Allocation = 14
    Cap = 6
    RiskDiv = 1
    Fee = 1
    MinEdge = 2
    TpTicks = 1
    StopLoss = 2
    MaxOpen = 2
    MaxEntries = 2
CHECK_DEADLOCK FALSE
PROPERTIES
    ArbSettlesAtResolution
