SPECIFICATION FairSpec
CONSTANTS
    Sub = {s1}
    Home <- OneEach
    Aside = {}
    Request = {r1}
    Kinds <- AllKinds
    None = None
    Trial = 1
    Cycle = 1
    Grace = 1
    PayWithin = 1
    MaxTime = 2
    MaxCrashes = 1
CHECK_DEADLOCK FALSE
INVARIANT RunsBillOnceButForMishaps
PROPERTY DueIsProcessed
