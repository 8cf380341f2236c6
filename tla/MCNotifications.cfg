SPECIFICATION FairSpec
CONSTANTS
    w1 = w1
    w2 = w2
    Worker <- MCWorker
    Idle = Idle
    MaxMade = 2
    MaxRetries = 1
    MaxFailures = 1
    MaxDisturbances = 1
    MaxTasks = 2
INVARIANTS
    TypeOK
    NoneForgotten
    DeliveredOnce
PROPERTY Arrives
CHECK_DEADLOCK FALSE
