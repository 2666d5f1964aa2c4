SPECIFICATION Spec
CONSTANTS
    ReplayWindowSize = 2
    SeqNumMask = 3
    FlightCapacity = 2
    MaxEpoch = 2
    MaxWire = 5
    Body = {m, ccs}
    ChangeCipherSpec = ccs
    m = m
CONSTRAINT FewRecords
INVARIANTS
    TypeOK
    NonceUnique
    NoReplay
    NoFalseReject
CHECK_DEADLOCK FALSE
