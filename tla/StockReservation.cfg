CONSTANTS
    Requests = {t1, t2}
    Products = {p1, p2}
    Warehouses = {w1, w2}
    MaxLines = 2
    MaxQty = 1
    MaxStock = 2
    Deltas <- MCDeltas
SPECIFICATION FairSpec
CHECK_DEADLOCK FALSE
INVARIANTS
    LockedUnitsAreThere
PROPERTIES
    KeepsPromise
    RefusedOnlyIfBeaten
    TransactionsEnd
