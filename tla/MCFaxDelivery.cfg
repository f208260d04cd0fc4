\* Two faxes at a time, three failures.
SPECIFICATION FairSpec
CONSTANTS
    Faxes = {f1, f2}
    None = None
    MaxFaults = 3
INVARIANTS TypeOK ListedCanBeRead DeliveredMeansMailed
PROPERTIES OutboxSpec DeliveredUnlessFault
CHECK_DEADLOCK FALSE
