SPECIFICATION Spec
CONSTANTS
    NumSvr = 2
    SlotNums = {2, 3}
    BufCap = 1
    Routes = {"hash", "broadcast"}
    MaxConns = 3
    MaxBatch = 3
    Budget <- Everything
INVARIANTS TypeOK RouteRightUnlessStale InOrder SlotsAccounted
CHECK_DEADLOCK FALSE
