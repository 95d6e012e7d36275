CONSTANTS
    shared = shared
    Name = {shared}
    Utf8Name = {shared}
    builtin_networks <- SharedNetwork
    NULL = NULL
    Net = {o1}
    Peer = {p1, p2}
    MAX_PEER_NETWORKS = 1
    IdleTimeout = 1
    stop_timeout = 5

SPECIFICATION InstallSpec

INVARIANTS
    UninstallRemovesService
