SPECIFICATION Spec
CONSTANTS
    Order = {o1, o2}
    Submission = {k1, k2}
    InitialStock = 1
    NoOrder = NoOrder
    MaxPayments = 1
    MaxVerified = 2
    MaxEdits = 1
SYMMETRY Symmetry
INVARIANTS TypeOK StockAddsUp MadeIsCaptured CommissionIffCaptured MadeIsKnown
PROPERTIES GoesBackOnlyLate
CHECK_DEADLOCK FALSE
