CONSTANTS
    Request = {r1, r2, r3}
    None = None
SPECIFICATION Spec
INVARIANT PasswordChangeEndsOldSessions
CHECK_DEADLOCK FALSE
