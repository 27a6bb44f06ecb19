SPECIFICATION Spec
CONSTANTS
    MaxTime = 3
    MaxEvents = 3
    Grace = 2
    Lag = 1
    Prices = {2, 3}
    Volumes = {1}
    Orders = {"o1", "o2"}
    Side <- MCSide
    Limit <- MCLimit
    Size = 2
    Unit = 4
    Ttl = 2
    Start = 2
    Balance = 2
    TakerFee = 0
    MakerFee = 0
    Proceeds = {2}
INVARIANTS
    TypeOK
    GapShows
    FillsWithinWindow
    EveryPrintBooked
PROPERTIES
    ImplementsLedger

