SPECIFICATION Spec
CONSTANTS
    Alerts = {1, 2}
    BufferLen = 4
    PageLimit = 2
    Tolerance = 2
    MinActive = 1
    NoCursor = NoCursor
    NoPoll = NoPoll
    MaxTime = 6
    MaxWebhooks = 1
    MaxRestarts = 1
    MaxCrashes = 1
    MaxErrors = 1
INVARIANTS TypeOK NothingLostWhileRunning NothingLostWhileHeld NoFailureInCoverage SegmentsApart DiagnosedOnce
PROPERTIES CoverageOnlyGrows ImplementsOccurrences
CHECK_DEADLOCK FALSE
