SPECIFICATION Spec
CONSTANTS
    o1 = o1
    o2 = o2
    o3 = o3
    r1 = r1
    r2 = r2
    Orders <- ThreeOrders
    Relays <- TwoRelays
    BatchSize = 2
    Rejected <- None
    LongOutages = FALSE
    MaxStream = 4
SYMMETRY Symmetry
INVARIANTS
    TypeOK
    Inv
    OrderIffEvent
    PublishedIsStored
    AtMostOnce
PROPERTIES
    ImplementsPromise
