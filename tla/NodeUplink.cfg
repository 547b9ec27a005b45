SPECIFICATION FairNodeSpec
CONSTANTS
    Addrs = {me}
    NoIp = NoIp
    kMaxRetries = 1
    ConnectMayFail = FALSE
    MaxEvents = 1
    Hubs = {hub}
    Unusable = {loopback}
    HOST = NoIp
    HOST2 = hub
    MONITOR = NoIp
    Fds = {4}
    MaxAddrs = 0
CHECK_DEADLOCK FALSE
PROPERTY UplinkRuns
