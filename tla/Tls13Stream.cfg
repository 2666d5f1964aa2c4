SPECIFICATION FairSpec
CONSTANTS
    HeaderLen = 2
    MaxChunk = 2
    WireCapacity = 2
    Limits = {4, 5}
    MaxPostHs = 1
    MaxUnits = 3
    MaxSeals = 4
INVARIANTS
    TypeOK
    NonceUnique
PROPERTY ImplementsStream
CHECK_DEADLOCK FALSE
