SPECIFICATION Spec
CONSTANTS
    In = {m1, m2}
    Out = {x1}
    MaxSlots = 2
    Limit = 2
    MaxReconnects = 1
    MaxDrops = 2
    MaxFaults = 1
INVARIANTS
    StopIsFinal
    SlotsKept
    NewestKept
