SPECIFICATION LFairSpec
CONSTANTS
    Orders = {o1}
    Products = {p1, p2}
    Warehouses = {h1}
    Workers = {k1}
    Cancels = {c1}
    Sweeps = {s1, s2}
    NoOrder = NoOrder
    MaxAttempts = 2
    BatchSize = 1
    Deltas = {1}
    MaxQty = 1
    MaxStock = 1
    FaultKinds = {"error", "crash"}
    MaxFaults = 2
CHECK_DEADLOCK FALSE
INVARIANTS DecisionsHold DeadlocksKnown
PROPERTIES SettlesAtomically TransactionsEnd StockFreed
