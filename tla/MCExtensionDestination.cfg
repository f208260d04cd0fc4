\* One call whose caller presses the digit that leads to an extension of the tenant.
SPECIFICATION Spec
CONSTANTS
    t1 = t1  t2 = t2  d1 = d1   g1 = g1  g2 = g2  m1 = m1  c1 = c1  e1 = e1  e2 = e2  n1 = n1
    Tenants = {t1, t2}
    Dids = {d1}
    Groups = {g1, g2}
    Menus = {m1}
    Conditions = {c1}
    Exts = {e1, e2}
    Numbers = {n1}
    Owner <- MCOwner
    Number <- MCNumber
    Outside = Outside
    None = None
    Absent = Absent
    Start <- MCStart
    Bodies <- MCBodies
    Rules <- MCRules
    Moments <- MCMoments
    Losses <- MCLosses
    Workers = {w1, w2}
    Calls = {k1}
    MaxDepth = 3
    MaxEdits = 2
INVARIANT ExtensionDestination
CHECK_DEADLOCK FALSE
