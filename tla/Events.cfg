SPECIFICATION MCSpec
CONSTANTS
    Scenarios <- MCScenarios
    MaxDeliver = 2
    ChanCap = 1
    MaxFaults = 1
    Forwarders = {f1, f2}
    Sources = {1, 2}
    Alien = {2}
    Buffer = 1
    Attempts = 2
    MaxAdvisories = 2
    MaxExpiries = 1
    MaxErrors = 2
    EventTypes <- MCEventTypes
    Patterns <- MCPatterns
    SubscriberIds <- MCSubscriberIds
    Plain = {"g", "1", "2"}
    Depth = 4
    MaxDurable = 200
    ToUpper <- MCToUpper
INVARIANT FollowerFaithful
INVARIANT EndIsTruthful
INVARIANT RescuedOnce
INVARIANT RescueAccounted
INVARIANT EventsReachFollowers
PROPERTY SilentAfterReturn
PROPERTY LogsOfRunEnd
CHECK_DEADLOCK FALSE
