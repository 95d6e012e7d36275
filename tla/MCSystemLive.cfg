CONSTANTS
    shared = shared
    c1 = c1
    c2 = c2
    t1 = t1
    t2 = t2
    t3 = t3
    Name = {shared, odd}
    Utf8Name = {shared}
    builtin_networks <- OneNetwork
    NULL = NULL
    Net = {o1}
    Client = {c1, c2}
    Peer = {t1, t2}
    process <- OneEach
    MAX_PEER_NETWORKS = 1
    IdleTimeout = 1

SPECIFICATION SysFairSpec

INVARIANT
    SysInv
PROPERTIES
    LeaseLostOnlyByFailure
    CallReturns
    DeadClientsNetworkRemoved
