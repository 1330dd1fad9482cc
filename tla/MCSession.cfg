CONSTANTS
    HEARTBEAT_MS = 1
    ABSENT_MS = 2
    LISTENER_WINDOW_MS = 1
    LISTENER_THRESHOLD = 2
    AUTH_WINDOW = 2
    CLOCK = 5
    Policies = {on, off}
    MaxHello = 1
    MaxNonce = 2
    MaxCounter = 2
    MaxTag = 4
    MaxStrange = 3
    MaxRefused = 1
    MaxDrops = 1
SYMMETRY PolicySymmetry
SPECIFICATION Spec
CHECK_DEADLOCK FALSE
INVARIANTS
    TypeOK
    WindowExact
    NoTagReuse
    EvictsOnTime
    BeatFillsSilence
    ToldCurrent
PROPERTIES
    AlertSurvives
