SPECIFICATION StreamSpec
CONSTANTS
    ObjectScopes = {pods}
    EventScopes = {}
    BufferLen = 4
    PageLimit = 2
    MaxChanges = 2
    MaxFaults = 1
    MaxReaders = 1
    Cluster = Cluster
    NoVersion = NoVersion
    NoWatch = NoWatch
    NoCursor = NoCursor
    OldEpoch = OldEpoch
    NoStaging = NoStaging
INVARIANTS MirrorAgrees GapsHonoured MirrorIsCluster
PROPERTIES TombstonesHaveCause
CHECK_DEADLOCK FALSE
