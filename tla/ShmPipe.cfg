SPECIFICATION FairSpec
CONSTANTS
    a = a
    b = b
    c = c
    NoMsg = NoMsg
    Msg = {a, b, c}
    MsgLen <- OversizeToo
    Size = 13
    HdrLen = 4
    MaxBuf = 3
    MaxRestarts = 1
INVARIANTS PipeInv NoOverwrite NoUnpublishedRead
PROPERTY RefinesFifo Delivered
