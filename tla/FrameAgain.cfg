SPECIFICATION Spec
CONSTANTS
    Sides = {"tcpsvr"}
    Cap = 8
    MaxLen = 5
    HeadLen = 3
    Word = 64
    Lens = {3, 5}
    MaxFrames = 1
    MaxFull = 0
INVARIANT ValidStaysOpen
CHECK_DEADLOCK FALSE
