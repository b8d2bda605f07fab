SPECIFICATION FairSpec
CONSTANTS
    o1 = o1
    o2 = o2
    Orders <- TwoOrders
    Quantities <- SomeQuantities
    InitialStock = 3
    MaxInt = 3
    MaxAttempts = 2
    Resets = TRUE
    Faults = TRUE
INVARIANTS
    TypeOK
    OrderBacked
    NoOversell
    ReservedOnce
    AnswersHold
PROPERTIES
    EveryOrderAnswered
