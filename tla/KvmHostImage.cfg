\* Reads may fail.  With Img <- MCBigImg and ReadCanFail = FALSE the same
\* property fails on the copy past the end of guest memory.
CONSTANTS
    MemSize = 8
    Chunk = 3
    Img <- MCImg
    ReadCanFail = TRUE
    MaxPrints = 1
SPECIFICATION Spec
CHECK_DEADLOCK FALSE
INVARIANT RunReady
