SPECIFICATION Spec
CONSTANTS
    q1 = q1
    q2 = q2
    q3 = q3
    item = item
    ghost = ghost
    Absent = Absent
    Requests <- ThreeRequests
    Skus <- ItemOnly
    Known <- ItemOnly
    Quantities <- OneOrTwo
    InitialStock = 2
    MaxInt = 3
    RedisFaults = FALSE
    Faults = FALSE
PROPERTIES
    NeverStale
