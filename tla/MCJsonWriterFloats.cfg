CONSTANTS
    Names = {"a", "b"}
    Variants <- AllFloats
    Programs = {"attributes"}
    MaxVars = 2
    MaxFrames = 1
SPECIFICATION Spec
INVARIANT
    AttributesArrive
CHECK_DEADLOCK FALSE
