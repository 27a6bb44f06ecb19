SPECIFICATION FairSpec
CONSTANTS
    MaxBets = 4
    MaxDay = 1
    MaxResets = 1
    Stake = 2
    Outcomes <- MCOutcomes
    Start = 24
    MaxDrawdown = 4
    DrawdownDiv = 5
    DailyLoss = 2
    DailyLossDiv = 6
    NewRiskDiv = 6
    MaxEntries = 2
INVARIANTS
    TypeOK
    
PROPERTIES
    
    
    LatchStopsOrders
    ResetTripsAgain
