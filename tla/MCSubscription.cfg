SPECIFICATION Spec
CONSTANTS
    Sub = {s1}
    Home <- OneEach
    Aside = {x1}
    Request = {r1, r2}
    Kinds <- RowKinds
    None = None
    Trial = 1
    Cycle = 1
    Grace = 1
    PayWithin = 1
    MaxTime = 1
    MaxCrashes = 0
SYMMETRY Symmetry
CHECK_DEADLOCK FALSE
INVARIANTS
    TypeOK
    TrialNotBilled
