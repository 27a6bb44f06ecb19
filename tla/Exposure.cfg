SPECIFICATION Spec
CONSTANTS
    a = a
    b = b
    c = c
    touchOnly = touchOnly
    mixed = mixed
    None = None
    Markets = {a, b, c}
    Sports = {touchOnly, mixed}
    SportOf <- MCSportOf
    Arms <- MCArms
    Slots = {1}
    TouchStake = 2
    TouchCap = 2
    MinStake = 1
    MarketCap = 1
    TotalCap = 6
    MaxPositions = 3
    Targets = {1}
    Budgets = {0, 5}
    OtherMode <- MCOtherMode
SYMMETRY Symmetry
INVARIANTS
    TypeOK
    OvershootIsOneOrder
PROPERTIES
    TouchWithinBudget
