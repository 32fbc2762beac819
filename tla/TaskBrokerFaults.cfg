SPECIFICATION Spec
CONSTANTS
    g1 = g1
    g2 = g2
    g3 = g3
    Tasks = {1}
    Agents = {"e1", "e2", "e3"}
    Scope <- SharedScope
    Declares = {"e1"}
    Threads = {g1, g2}
    Requests <- MCRequests
    Acks = {"FAILED", "UNKNOWN_ENUM"}
    PageSize = 1
    Durable = TRUE
    Faults = TRUE
    MaxCrashes = 1
INVARIANT TypeOK
INVARIANT InFlightOwned
INVARIANT ExpertIsolation
PROPERTY ImplementsLifecycle
SYMMETRY ThreadSymmetry
CHECK_DEADLOCK FALSE
