SPECIFICATION ThreadSpec
CONSTANTS
    Groups = {11}
    NTasks <- MCNTasks
    CacheFactor = 8
    MaxThreads = 4
    Teams = {"master"}
    Overlap = FALSE
    MaxRegions = 2
    MayRefuse = FALSE
    MayExit = FALSE
INVARIANTS
    SeparateTasks
CHECK_DEADLOCK FALSE
