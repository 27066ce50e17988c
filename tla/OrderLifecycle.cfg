CONSTANTS
    Orders = {o1, o2}
    Products = {p1, p2}
    Warehouses = {w1}
    Workers = {k1, k2}
    NoOrder = NoOrder
    MaxAttempts = 2
    BatchSize = 1
    MaxQty = 1
    MaxStock = 2
    FaultKinds = {"crash", "redeliver", "relay"}
    MaxFaults = 1
    Deltas <- MCDeltas
SPECIFICATION Spec
SYMMETRY MCSymmetry
CHECK_DEADLOCK FALSE
INVARIANTS
    TypeOK
    ReservedMatchesHolds
    StockConserved
    ChargingOwnsOrder
    RetryBudget
    PaidOnce
    MessagesBounded
    SettledOrdersHoldNothing
    HeldUntilDeadline
    DeadLetterJustified
    ReservedHasTrigger
PROPERTIES
    TerminalIsFinal
    KeepsContract
