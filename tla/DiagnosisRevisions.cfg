SPECIFICATION RevisionsSpec
CONSTANTS
    Workers = {w1}
    Scheduler = scheduler
    Keys = {k1}
    NotBefore <- MCNotBefore
    Settle = 1
    Horizon = 3
    MaxRevisions = 4
    Attempts = 2
    MaxTime = 3
    MaxWritten = 3
    MaxFaults = 1
INVARIANTS RevisionsTypeOK RevisionChain OneOpenPerKey DeadlineOnce
PROPERTIES EveryRequirementSettled
CHECK_DEADLOCK FALSE
