SPECIFICATION FairSpec
CONSTANTS
    Total = 3
    SaveEvery = 2
    Cancel = {c1, c2}
    None = None
    MaxFaults = 2
INVARIANTS
    CountersAddUp
    HeardCancelWins
PROPERTIES
    BatchSettles
CHECK_DEADLOCK FALSE
