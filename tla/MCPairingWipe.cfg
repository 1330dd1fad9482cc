CONSTANTS
    Helpers = {h1}
    None = None
    Blank = Blank
    Junk = Junk
    PAIR_WINDOW_MS = 2
    CLOCK = 3
    MaxRequests = 4
SPECIFICATION Spec
INVARIANTS
    WipeUnpairs
