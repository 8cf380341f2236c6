CONSTANTS
    Request = {r1, r2, r3}
    None = None
SPECIFICATION Spec
SYMMETRY Symmetry
INVARIANTS
    TypeOK
    MassLogoutComplete
    RotatedTokenStaysDead
    OneOpenResetToken
    ResetTokenSpentForAReason
PROPERTIES
    KeysImplementTokenLife
CHECK_DEADLOCK FALSE
