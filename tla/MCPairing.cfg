CONSTANTS
    Helpers = {h1, h2}
    None = None
    Blank = Blank
    Junk = Junk
    PAIR_WINDOW_MS = 1
    CLOCK = 2
    MaxRequests = 4
SYMMETRY HelperSymmetry
SPECIFICATION Spec
INVARIANTS
    TypeOK
    StoredMatchesLive
    NoOrphanSession
PROPERTIES
    WindowSingleShot
