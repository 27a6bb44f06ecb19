SPECIFICATION Spec
CONSTANTS
    o1 = o1
    o2 = o2
    Orders = {o1, o2}
    Size = 2
    MaxFinalLookups = 2
    MaxCrashes = 0
    HasGetOrder = TRUE
    ListingFails = FALSE
    SwallowsListing = TRUE
    RepliesLost = FALSE
SYMMETRY Symmetry
INVARIANTS
    LaterFillsBecomeBets
