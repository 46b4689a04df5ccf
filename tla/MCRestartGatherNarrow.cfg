SPECIFICATION GatherSpec
CONSTANTS
    NPE = 2
    Grid = {"cell", "edge"}
    NPoints <- MCNPoints
    Bits = 2
    Orders <- MCOrders
    Holes = {}
    Setups <- NarrowSetups
    MaxRestart = 1
INVARIANT FileExact
CHECK_DEADLOCK FALSE
