SPECIFICATION StreamSpec
CONSTANTS
    ObjectScopes = {pods}
    EventScopes = {}
    BufferLen = 6
    PageLimit = 2
    MaxChanges = 3
    MaxFaults = 0
    MaxReaders = 0
    Cluster = Cluster
    NoVersion = NoVersion
    NoWatch = NoWatch
    NoCursor = NoCursor
    OldEpoch = OldEpoch
    NoStaging = NoStaging
PROPERTIES DeletionsHappened
CHECK_DEADLOCK FALSE
