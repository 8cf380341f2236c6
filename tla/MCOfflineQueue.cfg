SPECIFICATION Spec
CONSTANTS
    Task = {t1, t2}
    MaxEntries = 2
    MaxRetries = 2
    MaxLinkChanges = 1
    MaxFaults = 1
    MaxEdits = 1
    MaxDisturbances = 2
    None = None
SYMMETRY Symmetry
CHECK_DEADLOCK FALSE
INVARIANTS
    TypeOK
    StoredFollowsQueue
    AcceptedNotLost
    AnsweredNotResent
    NoLostWakeup
PROPERTY StoredIsAnOutbox
