SPECIFICATION Spec
CONSTANTS
    ObjectScopes = {pods}
    EventScopes = {events}
    MaxChanges = 2
    MaxFaults = 2
    NoVersion = NoVersion
    NoWatch = NoWatch
INVARIANTS TypeOK NothingSkipped
PROPERTIES SkipsHaveCause ObjectsFollowed
CHECK_DEADLOCK FALSE
