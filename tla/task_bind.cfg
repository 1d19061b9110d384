SPECIFICATION Spec
CONSTANTS
    Clients = {"A", "B"}
    Threads = {1, 2}
    Cpusets = {"all", "left", "none"}
    Refused = {"none"}
    Outdated = {}
    MayStall = TRUE
    MaxStarts = 2
    owner <- MCOwnThread
    pool <- MCRefusedPool
    Admins = {"B"}
    MaxOps <- MCManyByOne
INVARIANTS
    TypeOK
    OneOutstanding
    TopIsBinding
PROPERTIES
    PopRestores
CHECK_DEADLOCK FALSE
