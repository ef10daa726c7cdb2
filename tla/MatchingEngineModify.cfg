SPECIFICATION FairSpec
CONSTANTS
    o1 = o1
    o2 = o2
    o3 = o3
    o4 = o4
    o5 = o5
    c1 = c1
    None = None
    Orders <- ThreeOrders
    Prices = {1}
    Quantities = {1}
    Callers <- OneCaller
    EventCapacity = 1
    Environment = {"cancelFilled", "close"}
INVARIANTS TypeOK ModifyReplaces
PROPERTIES CanceledNeverTrades CallsEnd
CHECK_DEADLOCK FALSE
