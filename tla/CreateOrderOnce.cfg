SPECIFICATION FairSpec
CONSTANTS
    Key = {k1, k2}
    Call = {x1, x2}
    OrderId = {o1, o2}
    None = None
    MaxAttempts = 3
    MaxStalls = 1
    MaxCalls = 3
    MaxFaults = 1
INVARIANTS
    OneOrderPerKey
    RepeatsReturnTheOrder
    ToldOrdersAreQueued
    ConfirmedOncePerWorker
PROPERTIES
    CurrentMovesToNewOrders
    ToldOrdersAreFollowedUp
CHECK_DEADLOCK FALSE
