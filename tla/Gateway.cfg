SPECIFICATION MCSpec
CONSTANTS
    Engines = {"temporal", "argo"}
    Manifests = {"m", "bad"}
    Broken = {"bad"}
    Clients = {c1}
    MaxClock = 2
    MaxGen = 2
    MaxVersion = 3
    MaxFaults = 1
    Shells <- MCShells
    Menu <- MCMenu
    Scenarios <- MCScenarios
    Platforms <- MCPlatforms
    MaxRuns = 2
    MaxCommands = 3
    MaxCliFaults = 1
    Files <- MCFiles
    Late = {"f2"}
    Contents = {"x", "y"}
    NoContent = "none"
    Initial = {"none", "x"}
    MaxEdits = 2
    MaxGitFaults = 1
    MaxRefused = 1
INVARIANT TypeOK
INVARIANT StatusTellsSpec
INVARIANT SharedUntilCompleted
INVARIANT CommandsTellTruth
PROPERTY GateCloses
PROPERTY ReconcilerConverges
PROPERTY WatchConverges
CHECK_DEADLOCK FALSE
