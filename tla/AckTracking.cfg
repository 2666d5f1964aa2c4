SPECIFICATION AckSpec
CONSTANTS
    InitialCapacity = 2
    Epochs = {0, 2}
    LastSeq = 7
    Limits = {1, 3, 4}
INVARIANTS
    AckTypeOK
    AckedWereReceived
    RangesSeparate
    NothingForgotten
