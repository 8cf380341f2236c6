SPECIFICATION Spec
CONSTANTS
    alice = alice
    bob = bob
    alice1 = alice1
    alice2 = alice2
    bob1 = bob1
    User = {alice, bob}
    Conn = {alice1, alice2, bob1}
    Owner <- MCOwner
    Sender = {s}
    None = None
    MaxJobs = 1
INVARIANTS TypeOK PresenceFollowsSockets ServedIsRegistered
CHECK_DEADLOCK FALSE
