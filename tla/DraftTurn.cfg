SPECIFICATION StartSpec
CONSTANTS
    Flow = {f1, f2}
    Product = {p1}
    Quantity = {q1}
    Wilaya = {w1}
    Commune = {c1, c2}
    Street = {s1}
    None = None
    MaxStalledTurns = 2
    MaxTurns = 3
    MaxFaults = 1
    MaxRestarts = 1
SYMMETRY Symmetry
INVARIANTS
    NoReadyDraftAtRest
    StalledDraftIsHandedOver
    StreetFitsThePlace
PROPERTIES
    FailedDraftWaits
CHECK_DEADLOCK FALSE
