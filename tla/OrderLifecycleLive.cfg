SPECIFICATION FairSpec
CONSTANTS
    o1 = o1
    o2 = o2
    Orders = {o1, o2}
    Size = 1
    MaxFinalLookups = 2
    MaxCrashes = 0
    HasGetOrder = TRUE
    ListingFails = TRUE
    SwallowsListing = TRUE
    RepliesLost = FALSE
PROPERTIES
    LeftBookIsResolved
    StaleQuoteEnds
