SPECIFICATION FairSpec
CONSTANTS
    alice = alice
    bob = bob
    alice1 = alice1
    alice2 = alice2
    bob1 = bob1
    User = {alice, bob}
    Conn = {alice1, alice2, bob1}
    Owner <- MCOwner
    Sender = {}
    None = None
    MaxJobs = 0
PROPERTIES ClosedSocketsLeave
CHECK_DEADLOCK FALSE
