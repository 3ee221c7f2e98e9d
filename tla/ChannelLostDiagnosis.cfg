SPECIFICATION Spec
CONSTANTS
    Alerts = {1, 2}
    BufferLen = 12
    PageLimit = 2
    Tolerance = 2
    MinActive = 1
    NoCursor = NoCursor
    NoPoll = NoPoll
    MaxTime = 6
    MaxWebhooks = 1
    MaxRestarts = 0
    MaxCrashes = 1
    MaxErrors = 0
INVARIANT CreatedIncidentDiagnosed
CHECK_DEADLOCK FALSE
