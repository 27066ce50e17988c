CONSTANTS
    Quantities = {1, 2}
    Deltas <- MCDeltas
    Thresholds <- MCThresholds
    NoThreshold = NoThreshold
    MaxStock = 4
    MaxLogged = 6
SPECIFICATION Spec
CHECK_DEADLOCK FALSE
INVARIANTS
    AuditReconstructsRow
    LowStockIsFlagged
PROPERTIES
    AlertsAreCrossings
    OnlySweepBlursFlag
