SPECIFICATION Spec
CONSTANTS
    NumSvr = 2
    SlotNums = {3}
    BufCap = 2
    Routes = {"p2p"}
    MaxConns = 3
    MaxBatch = 1
    Budget <- Resets
INVARIANT RouteRight
CHECK_DEADLOCK FALSE
