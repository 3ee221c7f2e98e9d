\* Two handlers at a time: the webhook, served from a thread pool.
CONSTANTS
    w1 = w1
    w2 = w2
    n1 = n1
    NoRow = NoRow
    NoDelivery = NoDelivery
    n2 = n2
    Starts = {1, 2, 4}
    Ends = {2, 5}
    Notes = {n1, n2}
    Quiet = 2
    Workers = {w1, w2}
    MaxDeliveries = 3
    MaxFailures = 1
SPECIFICATION Spec
INVARIANTS
    EpisodeHasFounder
    DiagnosesBoundedByChanges
PROPERTIES
    ImplementsOccurrences
\* The deliveries are bounded, so the explored system stops when they are handled.
CHECK_DEADLOCK FALSE
