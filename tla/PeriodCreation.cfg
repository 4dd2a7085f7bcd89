\* Two requests on one company, intervals within and across two months.
SPECIFICATION FairSpec
CONSTANTS
    r1 = r1
    r2 = r2
    acme = acme
    k1 = k1
    k2 = k2
    None = None
    Requests <- TwoRequests
    Companies <- OneCompany
    Types <- ThreeTypes
    Locks <- TwoLocks
    Hash <- Colliding
    LastDay = 2
    MonthLength = 2
    MaxPeriods = 2
INVARIANTS
    NoSharedDay
    CheckStaysTrue
PROPERTIES
    RequestsEnd
