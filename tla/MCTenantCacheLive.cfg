SPECIFICATION FairSpec
CONSTANTS
    e1 = e1
    d1 = d1
    g1 = g1
    p1 = p1
    p2 = p2
    w1 = w1
    w2 = w2
    Exts = {}
    Dids = {d1}
    Groups = {}
    Menus = {}
    Conds = {}
    Procs = {p1, p2}
    Workers = {w1, w2}
    Home <- TwoProcs
    Faults = {"restart", "evict", "crash", "abort", "lost"}
    MaxEdits = 1
    MaxFaults = 2
PROPERTIES
    LostCacheIsRefilled
CHECK_DEADLOCK FALSE
