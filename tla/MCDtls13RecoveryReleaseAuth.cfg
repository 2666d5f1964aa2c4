SPECIFICATION FairSpec
CONSTANTS
    Settings <- AuthSettings
    Burst = 10
    AckRangeLimit = 2
    InitialCapacity = 4
PROPERTY FlightReleased
CHECK_DEADLOCK FALSE
