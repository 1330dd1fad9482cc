CONSTANTS
    PRIORITY_MAX = 2
    STAGE_MAX = 2
    PRIORITY_DEPTH = 1
    DEPTH = 1
    UINT32_MAX = 100
    REPORT = 2
    MaxFrames = 4
    MaxLost = 2
    FrameKinds <- Kinds
SPECIFICATION FairSpec
CHECK_DEADLOCK FALSE
INVARIANTS
    TypeOK
    IntactUnlessStartLost
    ExactlyOnce
    PriorityOvertakes
PROPERTIES
    PairAdjacent
    Drains
