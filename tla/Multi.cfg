\* Both channels hold one line, so every send of every goroutine can block.
CONSTANTS
    c1 = c1
    c2 = c2
    Containers = {c1, c2}
    MaxLines = 3
    OutCap = 1
    MergedCap = 1
SPECIFICATION FairSpec
INVARIANTS
    TypeOK
    NoSendOnClosed
    LinesInOrder
PROPERTIES
    ReturnEndsAll
    HandlerReturns
CHECK_DEADLOCK FALSE
