CONSTANTS
    shared = shared
    host = host
    third = third
    fourth = fourth
    Name = {shared, host, third, odd}
    Utf8Name = {shared, host, third}
    builtin_networks <- BuiltinNetworks
    NULL = NULL
    Net = {o1, o2, o3}
    Peer = {p1, p2, p3}
    MAX_PEER_NETWORKS = 2
    IdleTimeout = 2

SPECIFICATION Spec
SYMMETRY Symmetry

INVARIANTS
    RegistryConsistent
    PeerArraysSound
    RefCountExact
    RemovalScheduledIffUnused
    NoAssertFails
    TransactionIffPeers
    NeverEndsWithPeers
PROPERTIES
    FailedRequestHasNoEffect
    GrantIsHeld
    LeaseKept
    ImplementsLease
