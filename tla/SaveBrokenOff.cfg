SPECIFICATION Spec
CONSTANTS
    h1 = h1
    h2 = h2
    alice = alice
    bob = bob
    Svr = {h1, h2}
    Uid = {alice}
    MaxSessions = 3
    MaxRedo = 2
    Trouble = {"fault"}
    MaxTroubles = 1
PROPERTY StoreMatchesRow
CHECK_DEADLOCK FALSE
