\* One handler at a time: the connector's stream consumer, with requests that die.
CONSTANTS
    w1 = w1
    w2 = w2
    n1 = n1
    NoRow = NoRow
    NoDelivery = NoDelivery
    n2 = n2
    Starts = {1, 2, 4}
    Ends = {0, 2, 3, 5}
    Notes = {n1, n2}
    Quiet = 2
    Workers = {w1}
    MaxDeliveries = 4
    MaxFailures = 1
SPECIFICATION Spec
INVARIANTS
    TypeOK
    ResolvedIncidentIsQuiet
    OpenIncidentHasCause
    EndCountsOnce
    ReplacedOccurrencesEnd
PROPERTIES
    EndIsFinal
\* The deliveries are bounded, so the explored system stops when they are handled.
CHECK_DEADLOCK FALSE
