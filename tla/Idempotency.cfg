CONSTANTS
    Requests = {r1, r2, r3}
    Keys = {k1, k2}
    Bodies = {b1, b2}
    NoKey = NoKey
    EmptyKey = EmptyKey
    NoOrder = NoOrder
SPECIFICATION FairSpec
CHECK_DEADLOCK FALSE
INVARIANTS
    OneOrderPerKey
    ResponsesMatch
    KeyIsNotPoisoned
PROPERTIES
    RequestsAnswered
