SPECIFICATION Spec
CONSTANTS
    e1 = e1
    d1 = d1
    g1 = g1
    p1 = p1
    p2 = p2
    w1 = w1
    w2 = w2
    Exts = {e1}
    Dids = {}
    Groups = {g1}
    Menus = {}
    Conds = {}
    Procs = {p1}
    Workers = {w1, w2}
    Home <- OneProc
    Faults = {"restart"}
    MaxEdits = 2
    MaxFaults = 1
INVARIANTS
    TypeOK
    Coherent
    LoneRebuildRepairs
SYMMETRY WorkerSymmetry
CHECK_DEADLOCK FALSE
