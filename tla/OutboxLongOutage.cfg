SPECIFICATION Spec
CONSTANTS
    o1 = o1
    o2 = o2
    o3 = o3
    r1 = r1
    r2 = r2
    Orders <- TwoOrders
    Relays <- OneRelay
    BatchSize = 2
    Rejected <- None
    LongOutages = TRUE
    MaxStream = 3
INVARIANTS
    AtMostOnce
