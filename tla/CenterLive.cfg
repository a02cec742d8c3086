SPECIFICATION LiveSpec
CONSTANTS
    NumSvr = 2
    SlotNums = {3}
    BufCap = 1
    Routes = {"p2p"}
    MaxConns = 3
    MaxBatch = 3
    Budget <- Liveness
PROPERTIES Reconnects BacklogLeaves
CHECK_DEADLOCK FALSE
