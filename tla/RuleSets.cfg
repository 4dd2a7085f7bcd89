SPECIFICATION FairSpec
CONSTANTS
    r1 = r1
    r2 = r2
    u1 = u1
    u2 = u2
    CO = CO
    k1 = k1
    k2 = k2
    c1 = c1
    c2 = c2
    None = None
    Requests <- TwoRequests
    Users <- OneUser
    Jurisdictions <- OneJurisdiction
    Locks <- TwoLocks
    Hash <- OneHash
    Contents <- OneContent
    LastDay = 1
    MaxVersion = 2
    MaxRevision = 2
INVARIANTS
    ReadsStand
    AuditCountsRevisions
PROPERTIES
    EditsReplaceWhatWasSeen
    ActorsAreAuthorized
    ImplementsTimeline
    RequestsEnd
