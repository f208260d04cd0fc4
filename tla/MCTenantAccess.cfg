\* Two users, two organizations, two SIP domains, two command lines.
SPECIFICATION Spec
CONSTANTS
    Users = {u1, u2}
    Orgs = {o1, o2}
    Domains = {d1, d2}
    Clis = {c1, c2}
    None = None
    MaxRuns = 3
    MaxFaults = 1
    Asked <- MCAsked
    Given = {"owner", "viewer"}
    MaxEdits = 1
    MaxSignIns = 1
    MaxRequests = 1
SYMMETRY Symmetry
INVARIANTS TypeOK NoSelfService ActsWithRight NoHalfTenant AppIsScoped
CHECK_DEADLOCK FALSE
