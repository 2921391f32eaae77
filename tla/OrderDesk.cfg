SPECIFICATION Spec
CONSTANTS
    Order = {o1, o2}
    Call = {t1, t2}
    Quantity = {1, 2}
    Wilaya = {0, 1}
    Price = 10
    None = None
    MaxCalls = 3
    MaxMerchant = 1
    MaxFaults = 1
SYMMETRY Symmetry
INVARIANTS
    TotalFits
    MerchantIsTold
    StateFollowsOrder
CHECK_DEADLOCK FALSE
