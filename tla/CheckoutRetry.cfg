SPECIFICATION Spec
CONSTANTS
    o1 = o1
    o2 = o2
    Orders <- OneOrder
    Quantities <- SomeQuantities
    InitialStock = 3
    MaxInt = 3
    MaxAttempts = 3
    Resets = TRUE
    Faults = FALSE
INVARIANTS
    NoDoubleReservation
