\* Two threads and three exceptions; four exceptions of one thread where faults happen.
CONSTANTS
    t1 = t1
    t2 = t2
    Thread = {t1, t2}
    Type <- SomeTypes
    MaxThrown = 4
    CleanupInterval = 2
    MaxLag = 1
    MaxTime = 4
SPECIFICATION ExceptionsSpec
INVARIANTS
    FaultsContained
PROPERTIES
    CapturesWhatBridgeCaught
    CleanupAfterDrain
CHECK_DEADLOCK FALSE
