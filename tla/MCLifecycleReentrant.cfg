CONSTANTS
    Reentrant = TRUE
    MayThrow = TRUE
    MaxCallbacks = 3
SPECIFICATION Spec
INVARIANTS
    TypeOK
    HubConsistent
    BeforeSendConnected
CHECK_DEADLOCK FALSE
