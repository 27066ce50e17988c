CONSTANTS
    Orders = {o1, o2}
    Products = {p1}
    Warehouses = {w1}
    Workers = {k1, k2}
    NoOrder = NoOrder
    MaxAttempts = 2
    BatchSize = 2
    MaxQty = 1
    MaxStock = 2
    FaultKinds = {"crash", "error", "redeliver"}
    MaxFaults = 1
    Deltas = {2}
SPECIFICATION FairSpec
CHECK_DEADLOCK FALSE
INVARIANTS
    LossesBounded
PROPERTIES
    StockFreed
    OrdersSettle
    ExhaustedGetsDeadLetter
