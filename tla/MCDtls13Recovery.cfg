SPECIFICATION FairSpec
CONSTANTS
    Settings <- MCSettings
    Burst = 10
    AckRangeLimit = 2
    InitialCapacity = 4
INVARIANTS
    TypeOK
    ReleasedMeansDelivered
    UnprocessedIsUnacked
PROPERTIES
    FlightDelivered
    FinishedReleased
CHECK_DEADLOCK FALSE
