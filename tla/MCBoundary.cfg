\* Two threads, three objects, four handles; ids of three bits; two calls of each thread into the scopes.
CONSTANTS
    main = main
    worker = worker
    o1 = o1
    o2 = o2
    e1 = e1
    zero = zero
    h1 = h1
    h2 = h2
    e2 = e2
    mark = mark
    none = none
    k1 = k1
    k2 = k2
    v = v
    Thread = {main, worker}
    Object = {o1, o2}
    Event = {e1, e2}
    IdLimit = 7
    MaxHandles = 2
    MaxStores = 10
    MaxBuffers = 3
    MaxSession = 3
    NoHandle = none
SYMMETRY BoundarySymmetry
SPECIFICATION BoundarySpec
INVARIANTS
    HandlesFindTheirOwn
    NoHandleLeaks
    IdsFindTheirOwn
    SessionsIsolated
    LayersInStep
PROPERTY
    LayersImplement
CHECK_DEADLOCK FALSE
