SPECIFICATION Spec
CONSTANTS
    o1 = o1
    o2 = o2
    o3 = o3
    o4 = o4
    o5 = o5
    c1 = c1
    None = None
    Orders <- FourOrders
    Prices = {1, 2}
    Quantities = {1, 2}
    Callers = {}
    EventCapacity = 0
    Environment = {"cancelFilled"}
SYMMETRY OrderSymmetry
INVARIANTS NoEmptyLevel NotCrossed QuantityConserved ViewsAgree
PROPERTIES TradesAreFair ImplementsBook
CHECK_DEADLOCK FALSE
