CONSTANTS
    Thread = {t1, t2}
    Key = {crash, warning}
    EventMask = {crash, warning}
    RecordMask = {warning}
    EventsPerFrame = 1
    ThrottleEvents = 2
    RepeatedErrorWindow = 1
    ThrottleWindow = 3
    StartupEvents = 2
    StartupFrames = 1
    TableLimit = 1
    MaxLogDepth = 2
    MaxStall = 1
    MaxTime = 3
    MaxFrame = 4
    MaxCaptured = 3
SYMMETRY ThreadSymmetry
SPECIFICATION Spec
INVARIANTS
    TypeOK
    EventsPerFrameKept
    ThrottlingKept
    RepeatedErrorsApart
    StartupLimitsEnd
CHECK_DEADLOCK FALSE
