CONSTANTS
    PRIORITY_MAX = 2
    STAGE_MAX = 1
    PRIORITY_DEPTH = 1
    DEPTH = 1
    UINT32_MAX = 100
    BURST_MAX = 2
    UART_QUEUE_LENGTH = 2
    MaxFrames = 3
    MaxLost = 2
    MaxResets = 1
    MaxInput = 1
    FrameKinds <- Kinds
SPECIFICATION FairSpec
CHECK_DEADLOCK FALSE
INVARIANTS
    TypeOK
    ArrivesIntact
    NoHoles
PROPERTIES
    RelayDrains
