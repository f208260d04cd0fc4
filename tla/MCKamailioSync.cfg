SPECIFICATION FairSpec
CONSTANTS
    n1 = n1
    p1 = p1
    empty = empty
    t1 = t1
    t2 = t2
    h1 = h1
    h2 = h2
    w1 = w1
    w2 = w2
    none = none
    Numbers = {n1}
    Passwords = {p1, empty}
    Empty = empty
    Trunks = {t1, t2}
    Hosts = {h1, h2}
    Workers = {w1, w2}
    None = none
    MaxEdits = 4
    MaxFaults = 1
INVARIANTS
    TypeOK
    DigestFollows
    TrunkTrusted
PROPERTY
    DeletedIsForgotten
CHECK_DEADLOCK FALSE
