CONSTANTS
    HEARTBEAT_MS = 2
    ABSENT_MS = 4
    LISTENER_WINDOW_MS = 1
    LISTENER_THRESHOLD = 2
    AUTH_WINDOW = 1
    CLOCK = 9
    Policies = {on}
    MaxHello = 1
    MaxNonce = 2
    MaxCounter = 0
    MaxTag = 5
    MaxStrange = 5
    MaxRefused = 0
    MaxDrops = 2
SPECIFICATION Spec
CHECK_DEADLOCK FALSE
INVARIANTS
    DropReportIsNotABeat
