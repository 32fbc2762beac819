SPECIFICATION RacesSpec
CONSTANTS
    g1 = g1
    g2 = g2
    g3 = g3
    Tasks = {1, 2}
    Agents = {"e1", "e2"}
    Scope <- OwnScope
    Declares = {"e1"}
    Threads = {g1, g2, g3}
    Requests <- BothRequests
    Acks = {"FAILED"}
    PageSize = 1
    Durable = TRUE
    Faults = FALSE
    MaxCrashes = 1
INVARIANT InFlightOwned
INVARIANT OutcomeMatchesStatus
INVARIANT OutcomeAnnounced
PROPERTY FinalOnceDrained
SYMMETRY ThreadSymmetry
CHECK_DEADLOCK FALSE
