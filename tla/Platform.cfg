SPECIFICATION MCSpec
CONSTANTS
    IRs <- MCIRs
    Results <- MCResults
    Strings <- MCStrings
    Scalars <- MCScalars
    Size <- MCSize
    NameSize = 1
    MaxValue = 2
    MaxTotal = 4
    MaxVisits = 5
    Tasks = {t1, t2, t3}
    Durable = FALSE
    MaxAttempts = 2
    MaxRestarts = 1
    Callers <- MCCallers
    NamespaceOf <- MCNamespaceOf
    Quotas <- MCQuotas
    HasCounter = TRUE
    MaxQuotaFaults = 1
    Environments <- MCEnvironments
    Outbound = {r1, r2}
    RefreshSkew = 2
    Lifetime = 4
    MaxTime = 7
    Clients <- MCClients
    Namespaces <- MCNamespaces
    Keys <- MCKeys
    Requests <- MCUses
    Wirings <- MCWirings
    MaxVectors = 2
    MaxMemFaults = 1
    Services <- Mains
    Configs <- Configurations
    MaxRequests = 2
    Calls <- MCCalls
    MaxLoops = 2
    MaxPollCycles = 2
INVARIANT EventsTellOutcome
INVARIANT InputsAreLatest
INVARIANT OutputsAreDeclared
INVARIANT BoundedTasks
INVARIANT UnbackedMeansNoAgent
INVARIANT CompiledRuns
INVARIANT RejectedJustly
INVARIANT VerdictIsTrue
INVARIANT TokenOutlivesRequest
INVARIANT ServesWhatIsOpen
INVARIANT CeilingHolds
PROPERTY ResultOfCurrentTask
PROPERTY DispatchEnds
PROPERTY CallEnds
PROPERTY StopsOnSignal
PROPERTY NamespacesIsolated
CHECK_DEADLOCK FALSE
