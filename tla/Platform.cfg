SPECIFICATION FairSpec
CONSTANTS
    o1 = o1
    notification = notification
    analytics = analytics
    Orders <- OneOrder
    Consumers <- BothConsumers
INVARIANTS
    TypeOK
    OnlyReplacementLoses
PROPERTIES
    
    ConsumersReconnect
    EventuallyRecorded
