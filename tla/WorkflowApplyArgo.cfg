SPECIFICATION FairSpec
CONSTANTS
    Engines = {"argo"}
    Manifests = {"m", "bad"}
    Broken = {"bad"}
    Clients = {c1}
    MaxClock = 2
    MaxGen = 2
    MaxVersion = 2
    MaxFaults = 1
PROPERTY EndedIsReplaced
