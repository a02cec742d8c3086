SPECIFICATION Spec
CONSTANTS
    h1 = h1
    h2 = h2
    alice = alice
    bob = bob
    Svr = {h1}
    Uid = {alice, bob}
    MaxSessions = 3
    MaxRedo = 2
    Trouble = {"timeout", "restart"}
    MaxTroubles = 2
INVARIANT AckedIsSaved
CHECK_DEADLOCK FALSE
