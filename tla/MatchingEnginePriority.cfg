SPECIFICATION Spec
CONSTANTS
    o1 = o1
    o2 = o2
    o3 = o3
    o4 = o4
    o5 = o5
    c1 = c1
    None = None
    Orders <- FiveOrders
    Prices = {1, 2}
    Quantities = {1}
    Callers = {}
    EventCapacity = 0
    Environment = {"cancelFilled"}
SYMMETRY OrderSymmetry
PROPERTIES PricePriority
CHECK_DEADLOCK FALSE
