SPECIFICATION FairSpec
CONSTANTS
    Settings <- MCSettings
    ClientSuites = {"dhe", "rsa"}
    TicketSlots = 2
INVARIANTS
    TypeOK
    Agreement
    NothingLostByResuming
    StoreSound
    FailsOnlyForCause
PROPERTY HandshakeEnds
CHECK_DEADLOCK FALSE
