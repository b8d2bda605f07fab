SPECIFICATION FairSpec
CONSTANTS
    q1 = q1
    q2 = q2
    q3 = q3
    Requests <- ThreeRequests
INVARIANTS
    TypeOK
    RelayHasResources
    RequestsDrained
PROPERTIES
    StartsAlone
    StopsWhenTold
    NoHalfService
