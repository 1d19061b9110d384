SPECIFICATION Spec
CONSTANTS
    Groups = {11, 12}
    NTasks <- MCNTasks
    CacheFactor = 1
    MaxThreads = 5
    Teams = {"fresh", "reused"}
    Overlap = FALSE
    MaxRegions = 2
    MayRefuse = TRUE
    MayExit = TRUE
    MaxGroups = 3
    MaxWork = 3
    MayFail = TRUE
    UseAfterBase = FALSE
INVARIANTS
    TypeOK
    SeparateTasks
    BindingsNest
    NoFreedAccess
    NothingLeaks
CHECK_DEADLOCK FALSE
