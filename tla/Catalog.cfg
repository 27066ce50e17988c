CONSTANTS
    None = None
    Requests = {r1, r2, r3}
    Skus = {s1}
    Emails = {e1}
    Warehouses = {w1}
    DefaultAdmin = e1
    Quantities <- MCQuantities
    Thresholds = {1, 2}
    MaxFaults = 1
SPECIFICATION Spec
CHECK_DEADLOCK FALSE
INVARIANTS EffectsMatchAnswers RefusalsAreTrue
PROPERTIES RequestsAnswered
