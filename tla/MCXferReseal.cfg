CONSTANTS
    NCHUNKS = 3
    WINDOW = 2
    BATCH_MAX = 2
    RETX_MAX = 2
    ID_MOD = 8
    FirstIds <- EitherEnd
    MaxCopies = 1
    MaxFaults = 2
    CopyKinds <- EagerOnly
SPECIFICATION FairSpec
CHECK_DEADLOCK FALSE
PROPERTIES
    OfferKeepsRetrying
