SPECIFICATION Spec
CONSTANTS
    PUs <- MCPUs
    Cores <- MCCores
    Devices = {0, 1}
    affinity <- MCAffinity
    NRanks = 3
    Colors <- MCFewColors
    PieceCounts = {2}
    Types = {"LAST", "CORE"}
    Bindings <- MCNode
    IScope = "USER"
    Parts = {1}
    EarlyParts = FALSE
    MaxCalls = 2
    ConnectMayFail = FALSE
INVARIANTS
    GroupsDisjoint
PROPERTIES
    ChildWithinParent
CHECK_DEADLOCK FALSE
