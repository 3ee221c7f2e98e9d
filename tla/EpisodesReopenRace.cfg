\* A resolution and a continuation of the same episode, handled at the same time.
CONSTANTS
    w1 = w1
    w2 = w2
    n1 = n1
    NoRow = NoRow
    NoDelivery = NoDelivery
    n2 = n2
    Starts = {1, 2, 4}
    Ends = {0, 2, 3, 5}
    Notes = {n1}
    Quiet = 2
    Workers = {w1, w2}
    MaxDeliveries = 3
    MaxFailures = 0
SPECIFICATION Spec
INVARIANT ResolvedIncidentIsQuiet
CHECK_DEADLOCK FALSE
