SPECIFICATION FairSpec
CONSTANTS
    PUs <- MCPUs
    Cores <- MCCores
    Devices = {}
    affinity <- MCAffinity
    NRanks = 2
    Colors <- MCClose
    PieceCounts = {2}
    Types = {"GPU"}
    Bindings <- MCNode
    IScope = "USER"
    Parts = {}
    EarlyParts = FALSE
    MaxCalls = 1
    ConnectMayFail = FALSE
PROPERTIES
    SplitNeverHangs
CHECK_DEADLOCK FALSE
