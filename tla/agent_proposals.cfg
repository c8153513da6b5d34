\* One product, two workers; competitors above and below the floor (14.01 for the first entry).
SPECIFICATION Spec
CONSTANTS
    i1 = i1
    i2 = i2
    None = None
    Workers = {i1, i2}
    Entries <- SomeEntries
    ShopPrices = {19460, 12000}
    FirstListing <- Dear
    Observable = {12000, 15000}
    Answers <- AllOrNothing
    MaxAge = 0
    LastDay = 1
    MaxRecs = 2
    MaxWrites = 2
SYMMETRY Symmetric
INVARIANTS FloorUpToRounding NothingInvented
PROPERTIES ProposalsChange SuccessIsWritten
CHECK_DEADLOCK FALSE
