SPECIFICATION FairSpec
CONSTANTS
    c1 = c1
    c2 = c2
    Calls = {c1, c2}
    Attributed = {c1}
    MaxPosts = 2
    MaxFaults = 3
INVARIANTS
    TypeOK
    OneRowPerCall
PROPERTIES
    LedgerSpec
    LedgerSettled
CHECK_DEADLOCK FALSE
