SPECIFICATION FairSpec
CONSTANTS
    Hosts = {hub, pc}
    Unusable = {loopback}
    None = None
    MONITOR = pc
    HOST = None
    HOST2 = pc
INVARIANT TypeOK
PROPERTY DownShowsFail
PROPERTY AttachedShowsOk
PROPERTY NothingShowsFail
PROPERTY HubWebShowsOk
