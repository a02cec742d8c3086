SPECIFICATION FairSpec
CONSTANTS
    h1 = h1
    h2 = h2
    alice = alice
    bob = bob
    Svr = {h1, h2}
    Uid = {alice}
    MaxSessions = 3
    MaxRedo = 3
    Trouble = {"fault", "loss", "timeout", "restart", "crash"}
    MaxTroubles = 3
INVARIANTS TypeOK RegisteredHasMoney NoLostUpdate OwnIdAckedIsSaved CacheLag
PROPERTIES MoneyStays ReliableStoreMatchesRow EverySessionSaves
CHECK_DEADLOCK FALSE
