SPECIFICATION FairSpec
CONSTANTS
    Clients = {"A", "B"}
    Threads = {1, 2}
    Cpusets = {"all", "left", "none"}
    Refused = {"none"}
    Outdated = {"B"}
    MayStall = TRUE
    MaxStarts = 2
    owner <- MCOwnThread
    pool <- MCRefusedPool
    Admins = {"A"}
    MaxOps <- MCTwoEach
PROPERTIES
    CallsReturn
    ShutdownHonoured
    DestroyReturns
CHECK_DEADLOCK FALSE
