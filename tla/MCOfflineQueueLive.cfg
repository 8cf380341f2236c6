SPECIFICATION FairSpec
CONSTANTS
    Task = {t1, t2}
    MaxEntries = 2
    MaxRetries = 2
    MaxLinkChanges = 1
    MaxFaults = 0
    MaxEdits = 0
    MaxDisturbances = 1
    None = None
CHECK_DEADLOCK FALSE
PROPERTY FlagIsReleased
