SPECIFICATION Spec
CONSTANTS
    ReplayWindowSize = 2
    ShortRange = 6
    LongRange = 12
    FlightCapacity = 2
    Burst = 10
    MaxEpoch = 7
    MaxSeq = 14
    ManyEpochsSeq = 2
CONSTRAINT
    Explored
INVARIANTS
    TypeOK
    NonceUnique
    NoReplay
    NoFalseReject
CHECK_DEADLOCK FALSE
