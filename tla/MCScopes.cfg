CONSTANTS
    Thread = {main, worker}
    MainThread = main
    Scope = {s1, s2, s3}
    NoScope = NoScope
    MaxEpoch = 3
    MaxDepth = 2
    MaxWrites = 1
SYMMETRY ScopeSymmetry
SPECIFICATION Spec
INVARIANTS
    TypeOK
    SessionIsolation
    CapturesOwnThread
    ForkDataConfined
    StackFollowsCalls
PROPERTIES
    ParentRestored
CHECK_DEADLOCK FALSE
