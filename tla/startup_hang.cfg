SPECIFICATION FairSpec
CONSTANTS
    Ranks = {0, 1}
    rep = 0
    Users = {"me", "them"}
    me = "me"
    Ports = {"default", "other"}
    DefaultPort = "default"
    QVI_PORT_UNSET = "unset"
    Malformed = "malformed"
    env <- MCEnvMalformed
    Daemons = {1}
PROPERTIES
    StartupNeverHangs
CHECK_DEADLOCK FALSE
