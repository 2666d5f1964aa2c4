SPECIFICATION Spec
CONSTANTS
    Scenarios <- EarlyExternalScenarios
    EarlyLimit = 2
    MaxEarly = 1
INVARIANT EarlyOfferSurvives
CHECK_DEADLOCK FALSE
