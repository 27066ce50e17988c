CONSTANTS
    Orders = {o1}
    Products = {p1}
    Warehouses = {w1}
    Workers = {k1, k2}
    NoOrder = NoOrder
    MaxAttempts = 2
    BatchSize = 2
    MaxQty = 1
    MaxStock = 2
    FaultKinds = {"crash"}
    MaxFaults = 1
    Deltas <- MCDeltas
SPECIFICATION FairSpec
CHECK_DEADLOCK FALSE
PROPERTIES
    ProcessingEnds
