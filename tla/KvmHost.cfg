CONSTANTS
    MemSize = 8
    Chunk = 3
    Img <- MCImg
    ReadCanFail = FALSE
    MaxPrints = 6
SPECIFICATION Spec
INVARIANTS
    TypeOK
    RunReady
    ClosesOnlyOpened
CHECK_DEADLOCK FALSE
