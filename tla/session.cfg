SPECIFICATION MCFairSpec
CONSTANTS
    Ranks = {0, 1}
    rep = 0
    Users = {"me", "them"}
    me = "me"
    Ports = {"default", "other"}
    DefaultPort = "default"
    QVI_PORT_UNSET = "unset"
    Malformed = "malformed"
    env <- MCEnv
    Daemons = {1, 2}
INVARIANTS
    TypeOK
    ServerHasTopology
    OneRemover
PROPERTIES
    StartupReturns
    EveryoneConnects
CHECK_DEADLOCK FALSE
