SPECIFICATION MCSpec
CONSTANTS
    g1 = g1
    g2 = g2
    g3 = g3
    Tasks = {1}
    Agents = {"e1", "e2"}
    Scope <- OwnScope
    Declares = {"e1"}
    Threads = {g1, g2}
    Requests <- OneRequest
    Acks = {"FAILED"}
    PageSize = 1
    Durable = TRUE
    Faults = FALSE
    MaxCrashes = 1
PROPERTY Settles
PROPERTY SelectsServing
CHECK_DEADLOCK FALSE
