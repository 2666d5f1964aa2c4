SPECIFICATION SplitSpec
CONSTANTS
    Scenarios <- SplitScenarios
    EarlyLimit = 1
    MaxEarly = 0
INVARIANT WantReadIsResumable
CHECK_DEADLOCK FALSE
