SPECIFICATION Spec
CONSTANTS
    Size = 3
    NoObj = NoObj
    IdMask = 3
    MaxCollide = 2
    Timeout = 2
    CheckSec = 2
    MaxTime = 5
    MaxDowns = 2
INVARIANTS TypeOK PoolInv IdleBound
PROPERTIES LeaksOnlyInACrowd RestartKeepsSessions
CHECK_DEADLOCK FALSE
