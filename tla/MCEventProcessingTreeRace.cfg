CONSTANTS
    Main = main
    Worker = {w}
    MayFail = FALSE
    MaxDepth = 1
    MaxEvents = 2
    MaxFrame = 1
    MaxSession = 1
SPECIFICATION Spec
INVARIANT
    TreeKept
CHECK_DEADLOCK FALSE
