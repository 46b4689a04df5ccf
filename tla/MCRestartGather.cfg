SPECIFICATION GatherSpec
CONSTANTS
    NPE = 2
    Grid = {"cell", "edge"}
    NPoints <- MCNPoints
    Bits = 2
    Orders <- MCOrders
    Holes = {2}
    Setups <- MCSetups
    MaxRestart = 1
INVARIANTS PlacedByRank FileExact
CHECK_DEADLOCK FALSE
