SPECIFICATION Spec
CONSTANTS
    In = {i1}
    Out = {o1}
    Sender = {s1, s2}
    None = None
    MaxAttempts = 2
    MaxEvents = 5
    MaxFaults = 1
SYMMETRY Symmetry
INVARIANTS
    AnnouncedOnce
    NoAckLost
PROPERTIES
    OnlyAdvances
CHECK_DEADLOCK FALSE
