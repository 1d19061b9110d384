SPECIFICATION FairSpec
CONSTANTS
    PUs <- MCPUs
    Cores <- MCCores
    Devices = {0, 1}
    affinity <- MCSharedAffinity
    NRanks = 3
    Colors <- MCColors
    PieceCounts = {1, 2, 3}
    Types = {"LAST", "CORE", "GPU"}
    Bindings <- MCBindings
    IScope = "JOB"
    Parts = {}
    EarlyParts = FALSE
    MaxCalls = 1
    ConnectMayFail = TRUE
INVARIANTS
    TypeOK
    GroupsMatchPools
    VerdictsAgree
    GroupsDisjoint
    DevicesPartitioned
    DevicesStayClose
PROPERTIES
    WellPosedSplitReturns
CHECK_DEADLOCK FALSE
