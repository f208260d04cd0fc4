\* One page, two rows on it, two requests of the tab at a time, one feature code, one
\* failure; a failed query is tried again once.
SPECIFICATION Spec
CONSTANTS
    Exts = {x1, x2}
    Starts <- MCStarts
    x1 = x1  x2 = x2
    Trunks = {k1, k2}
    Slots = {s1, s2}
    None = None
    Retries = 1
    MaxClicks = 2
    MaxDials = 1
    MaxFaults = 1
INVARIANTS TypeOK ListsAgree EmptyIsTrue NoHalfSavedTrunk SpinnerFetches
PROPERTIES SecretKept ToneMeansInForce
CHECK_DEADLOCK FALSE
