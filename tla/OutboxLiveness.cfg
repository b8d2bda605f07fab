SPECIFICATION FairSpec
CONSTANTS
    o1 = o1
    o2 = o2
    o3 = o3
    r1 = r1
    r2 = r2
    Orders <- TwoOrders
    Relays <- OneRelay
    BatchSize = 1
    Rejected <- None
    LongOutages = FALSE
    MaxStream = 3
PROPERTIES
    ImplementsFairPromise
    EventuallyPublished
