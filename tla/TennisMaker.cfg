SPECIFICATION FairSpec
CONSTANTS
    t1 = t1
    t2 = t2
    Tokens = {t1, t2}
    Prices <- MCPrices
    Size = 2
    MaxInv = 10
    MinSpread = 1
    MinMid = 1
    MaxMid = 4
    TpTicks = 2
    SlTicks = 2
    MaxQueue = 1
    MaxPrint = 3
INVARIANTS
    TypeOK
    TpNeverOversells
    OneEntryPrice
    OneQuotePerToken
    InventoryIsCost

    
