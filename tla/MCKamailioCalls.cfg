SPECIFICATION FairSpec
CONSTANTS
    c1 = c1
    c2 = c2
    c3 = c3
    a1 = a1
    n1 = n1
    w1 = w1
    w2 = w2
    Calls = {c1, c2, c3}
    Accounts = {a1}
    Numbers = {n1}
    Number <- SameNumber
    Kinds <- OneOfEach
    Gateways = 1
    Workers = {w1, w2}
    Ceiling = 2
    MaxFaults = 1
INVARIANTS
    TypeOK
    NoDriftUp
PROPERTIES
    CappedOnlyAtCeiling
    LockoutEnds
    MediaFreed
CHECK_DEADLOCK FALSE
