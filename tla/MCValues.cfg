\* Scenes of four nodes, two frames and two variables, two containers with two items each.
CONSTANTS
    main = main
    null = null
    empty = empty
    s1 = s1
    noType = noType
SPECIFICATION Spec
INVARIANTS
    TimesKept
    ValuesReadBack
    TextsDescribe
PROPERTY
    ChangesKept
CHECK_DEADLOCK FALSE
