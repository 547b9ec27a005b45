SPECIFICATION FairSpec
CONSTANTS
    Hubs = {hubA, hubB}
    Unusable = {loopback}
    Selves = {me}
    None = None
    HOST = None
    HOST2 = hubA
    Fds = {4, 5}
    MaxAddrs = 2
INVARIANT TypeOK
INVARIANT OneSocket
INVARIANT CloseIsNoticed
INVARIANT HubIpNamesPeer
PROPERTY LinkPromise
PROPERTY LossNoticed
PROPERTY Reattaches
