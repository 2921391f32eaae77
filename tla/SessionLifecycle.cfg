SPECIFICATION FairSpec
CONSTANTS
    Op = {o1, o2}
    MaxEngines = 4
    None = None
    MaxReconnects = 1
    MaxRequests = 3
    MaxDrops = 1
    MaxFaults = 1
INVARIANTS
    ReadyMeansLive
    StopWins
PROPERTIES
    DropIsFollowedUp
CHECK_DEADLOCK FALSE
