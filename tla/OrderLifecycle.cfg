SPECIFICATION Spec
CONSTANTS
    o1 = o1
    o2 = o2
    Orders = {o1, o2}
    Size = 2
    MaxFinalLookups = 2
    MaxCrashes = 1
    HasGetOrder = TRUE
    ListingFails = TRUE
    SwallowsListing = TRUE
    RepliesLost = TRUE
SYMMETRY Symmetry
INVARIANTS
    TypeOK
    NoPhantomExposure
    BooksMatchRows
    NoStrandedQuote
    FinalLookupBooksAll
PROPERTIES
    ClosedRowsAreFinal
    ImplementsLedger
