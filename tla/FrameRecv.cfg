SPECIFICATION Spec
CONSTANTS
    Sides = {"tcpsvr", "proxysvr", "center_mng"}
    Cap = 7
    MaxLen = 5
    HeadLen = 3
    Word = 64
    Lens = {3, 5}
    MaxFrames = 4
    MaxFull = 1
INVARIANTS TypeOK FramesInOrder NothingWaits
CHECK_DEADLOCK FALSE
