CONSTANTS
    Main = main
    Worker = {w}
    MayFail = TRUE
    MaxDepth = 2
    MaxEvents = 3
    MaxFrame = 1
    MaxSession = 2
SPECIFICATION Spec
INVARIANTS
    TypeOK
    ScreenshotCurrent
    TreeCurrent
    NothingLeftOver
    NotReentered
CHECK_DEADLOCK FALSE
