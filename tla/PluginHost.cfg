SPECIFICATION FairPluginSpec
CONSTANTS
    Op = {a, b}
    Host <- MCHost
    Instance <- MCInstance
    Version = {v1, v2}
    Nil = Nil
    MaxRequests = 4
    MaxEvents = 1
    MaxPluginFaults = 2
CHECK_DEADLOCK FALSE
INVARIANTS
    NoWorkerIsLost
    
PROPERTIES
    EventsPass
