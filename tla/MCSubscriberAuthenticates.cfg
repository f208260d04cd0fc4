SPECIFICATION Spec
CONSTANTS
    n1 = n1
    p1 = p1
    empty = empty
    t1 = t1
    t2 = t2
    h1 = h1
    h2 = h2
    w1 = w1
    w2 = w2
    none = none
    Numbers = {n1}
    Passwords = {p1, empty}
    Empty = empty
    Trunks = {t1, t2}
    Hosts = {h1, h2}
    Workers = {w1, w2}
    None = none
    MaxEdits = 2
    MaxFaults = 0
INVARIANT
    SubscriberAuthenticates
CHECK_DEADLOCK FALSE
