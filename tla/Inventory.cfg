SPECIFICATION FairSpec
CONSTANTS
    q1 = q1
    q2 = q2
    q3 = q3
    item = item
    ghost = ghost
    Absent = Absent
    Requests <- ThreeRequests
    Skus <- ItemAndGhost
    Known <- ItemOnly
    Quantities <- OneOrTwo
    InitialStock = 2
    MaxInt = 3
    RedisFaults = TRUE
    Faults = TRUE
INVARIANTS
    TypeOK
    StaleExplained
    StockBacksReplies
PROPERTIES
    ImplementsStock
    CleanReadsCurrent
    EventuallyFresh
