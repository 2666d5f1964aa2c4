SPECIFICATION FairSpec
CONSTANTS
    Scenarios <- MCScenarios
    EarlyLimit = 1
    MaxEarly = 2
INVARIANTS
    TypeOK
    FailsOnlyForCause
    Agreement
    PeersAuthenticated
    EarlyDataExact
PROPERTY HandshakeEnds
CHECK_DEADLOCK FALSE
