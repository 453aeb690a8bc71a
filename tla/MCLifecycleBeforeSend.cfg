CONSTANTS
    Reentrant = FALSE
    MayThrow = FALSE
    MaxCallbacks = 1
SPECIFICATION Spec
INVARIANT
    BeforeSendAlwaysRuns
CHECK_DEADLOCK FALSE
