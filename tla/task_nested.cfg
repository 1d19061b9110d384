SPECIFICATION Spec
CONSTANTS
    Clients = {"A", "B"}
    Threads = {1}
    Cpusets = {"all", "left", "right"}
    Refused = {}
    Outdated = {}
    MayStall = FALSE
    MaxStarts = 1
    owner <- MCOneThread
    pool <- MCPools
    Admins = {}
    MaxOps <- MCTwoEach
PROPERTIES
    PopRestores
CHECK_DEADLOCK FALSE
