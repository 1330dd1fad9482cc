CONSTANTS
    NCHUNKS = 3
    WINDOW = 2
    BATCH_MAX = 2
    RETX_MAX = 2
    ID_MOD = 8
    FirstIds <- EitherEnd
    MaxCopies = 2
    MaxFaults = 2
    CopyKinds <- AllKinds
SPECIFICATION FairSpec
CHECK_DEADLOCK FALSE
INVARIANTS
    TypeOK
    DeliveredWhole
    ReceiptTrue
    NoIdentityConflict
    BurstFits
PROPERTIES
    Delivers
