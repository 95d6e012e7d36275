CONSTANTS
    shared = shared
    host = host
    third = third
    fourth = fourth
    Name = {shared, host, third, fourth}
    Utf8Name = {shared, host, third, fourth}
    builtin_networks <- StaticNetworks
    NULL = NULL
    Net = {o1, o2, o3}
    Peer = {p1, p2}
    MAX_PEER_NETWORKS = 2
    IdleTimeout = 2

SPECIFICATION FairSpec

INVARIANTS
    PeerArraysBounded
    BrokerInv
PROPERTIES
    IdleNetworkRemoved
    AbandonedBrokerExits
    ImplementsFairLease
