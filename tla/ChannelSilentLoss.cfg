SPECIFICATION Spec
CONSTANTS
    Alerts = {1}
    BufferLen = 2
    PageLimit = 2
    Tolerance = 2
    MinActive = 1
    NoCursor = NoCursor
    NoPoll = NoPoll
    MaxTime = 7
    MaxWebhooks = 1
    MaxRestarts = 0
    MaxCrashes = 1
    MaxErrors = 0
INVARIANT NothingLostInCoverage
CHECK_DEADLOCK FALSE
