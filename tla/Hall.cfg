SPECIFICATION FairSpec
CONSTANTS
    Uid = {1, 2}
    MaxConns = 2
    MaxMs = 2
    SlotNums = {1, 2}
    CsCap = 2
    ScCap = 1
    MsgCap = 1
    PlayerNum <- Players
    MaxSess = 2
    ReadEnds = {"returns", "again"}
    Budget <- Troubles
INVARIANTS TypeOK SlotsAccounted OnlyOwnAnswers PlayersIndexed IndexedHasPlayer GoneLeaves
PROPERTIES ToldToGoEnds
CHECK_DEADLOCK FALSE
