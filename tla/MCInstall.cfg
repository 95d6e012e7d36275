CONSTANTS
    shared = shared
    Name = {shared, odd}
    Utf8Name = {shared}
    builtin_networks <- SharedNetwork
    NULL = NULL
    Net = {o1}
    Peer = {p1, p2, p3}
    MAX_PEER_NETWORKS = 1
    IdleTimeout = 2
    stop_timeout = 5

SPECIFICATION InstallFairSpec

INVARIANTS
    InstallInv
    StayingPeerStopsScript
    CompletedMeansDone

PROPERTY ScriptEnds
