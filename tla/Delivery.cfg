SPECIFICATION FairSpec
CONSTANTS
    e1 = e1
    e2 = e2
    e3 = e3
    analytics = analytics
    Nothing = Nothing
    Consumers <- Analytics
    Events <- ThreeEvents
    Undecodable <- LastEvent
    MaxCount = 2
INVARIANTS
    TypeOK
    AckedWasHandled
    CountedOnce
PROPERTIES
    EventuallyAcked
