SPECIFICATION Spec
CONSTANTS
    Modes = {"live", "paper"}
    Live = "live"
    Sides = {"yes", "no"}
    Bets <- MCBets
    BetMode <- MCMode
    BetSide <- MCSide
    Size <- MCSize
    Stake <- MCStake
    SellPrice = 6
    Payout = 12
    MaxDepth = 2
    MaxCrashes = 0
PROPERTIES
    RemainderRetried
