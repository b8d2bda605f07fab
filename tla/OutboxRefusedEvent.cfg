SPECIFICATION FairSpec
CONSTANTS
    o1 = o1
    o2 = o2
    o3 = o3
    r1 = r1
    r2 = r2
    Orders <- TwoOrders
    Relays <- TwoRelays
    BatchSize = 2
    Rejected <- LastOrder
    LongOutages = FALSE
    MaxStream = 3
PROPERTIES
    EventuallyPublished
