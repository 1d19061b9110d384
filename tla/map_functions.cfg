SPECIFICATION Spec
CONSTANTS
    PUs = {0, 1, 2, 4, 7}
    Cores <- MCCores
    Devices = {0, 1}
    affinity <- MCAffinity
    MaxCount = 7
    MaxTasks = 4
    MaxIds = 3
    Palette <- MCPalette
INVARIANTS
    PackedPacks
    SpreadSpreads
    ClampKeepsOrder
    UniqIsExclusive
    SplitPartitions
    CreateMatchesCount
    ThreadsShareFairly
CHECK_DEADLOCK FALSE
