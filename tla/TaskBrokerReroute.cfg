SPECIFICATION Spec
CONSTANTS
    g1 = g1
    g2 = g2
    g3 = g3
    Tasks = {1}
    Agents = {"e1", "e2"}
    Scope <- SharedScope
    Declares = {"e1"}
    Threads = {g1, g2}
    Requests <- PlainRequest
    Acks = {}
    PageSize = 1
    Durable = TRUE
    Faults = FALSE
    MaxCrashes = 1
INVARIANT NeverRerouted
CHECK_DEADLOCK FALSE
