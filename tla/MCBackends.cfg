\* One record with at most two of everything, and two events.
CONSTANTS
    empty = empty
    t1 = t1
    info = info
    error = error
    noLevel = noLevel
    idField = idField
    nameField = nameField
    noKey = noKey
    k1 = k1
    k2 = k2
    p1 = p1
    p2 = p2
    v1 = v1
    v2 = v2
    number = number
    other = other
    otherText = otherText
    garbled = garbled
    frame = frame
    noFrame = noFrame
    null = null
    main = main
    o1 = o1
    o2 = o2
    zero = zero
    h1 = h1
    h2 = h2
    none = none
SPECIFICATION Spec
PROPERTIES
    ImplementsRecord
    ImplementsDelivery
CHECK_DEADLOCK FALSE
