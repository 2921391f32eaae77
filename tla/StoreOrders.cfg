SPECIFICATION ShopSpec
CONSTANTS
    Order = {p1, p2}
    Payment = {"PENDING"}
    Event = {"SHIPPED", "CANCELLED"}
    Req = {r1, r2}
    Nothing = Nothing
    MaxArrivals = 3
    MaxShopFaults = 1
INVARIANTS
    ToldOnce
    OneEntryPerSend
CHECK_DEADLOCK FALSE
