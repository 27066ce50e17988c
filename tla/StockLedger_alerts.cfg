CONSTANTS
    Quantities = {1, 2}
    Deltas <- MCDeltas
    Thresholds <- MCThresholds
    NoThreshold = NoThreshold
    MaxStock = 3
    MaxLogged = 6
SPECIFICATION Spec
CHECK_DEADLOCK FALSE
PROPERTIES
    EachCrossingAlerts
