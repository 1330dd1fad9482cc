CONSTANTS
    MaxFrames = 264
    UINT32_MAX = 1
SPECIFICATION Spec
CHECK_DEADLOCK FALSE
INVARIANTS
    TypeOK
    HeldStable
PROPERTIES
    ImplementsHandoff
