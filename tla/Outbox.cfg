CONSTANTS
    e1 = e1
    e2 = e2
    e3 = e3
    Events = {e1, e2, e3}
    CreatedAt <- MCCreatedAt
    Relays = {r1, r2}
    BatchSize = 2
    MaxFaults = 2
SPECIFICATION FairSpec
CHECK_DEADLOCK FALSE
INVARIANTS
    DuplicatesBounded
PROPERTIES
    KeepsPromise
    EventsHandled
