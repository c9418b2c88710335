SPECIFICATION Spec
CONSTANTS
    None = None
    Offers <- MCOffers
    PageSize = 2
    MaxPages = 2
INVARIANTS TypeOK TotalIsLowest PerItemWithinTotal
