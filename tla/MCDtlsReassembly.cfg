SPECIFICATION FairSpec
CONSTANTS
    NumMessages = 4
    Settings <- MCSettings
    MsgLen <- MCMsgLen
    MaxLen = 3
    QueueSize = 2
    MaxBytes = 6
    Foreign = {x}
    Zero = Zero
    x = x
INVARIANTS
    TypeOK
    WithinBudget
    ProtectedAreGenuine
PROPERTY ImplementsDelivery
CHECK_DEADLOCK FALSE
