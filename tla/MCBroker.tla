------------------------------ MODULE MCBroker ------------------------------
(***************************************************************************)
(* Instances of Broker for TLC.                                            *)
(***************************************************************************)
EXTENDS BrokerLease, TLC

CONSTANTS shared, host, third, fourth

\* The table of broker/config.c.
BuiltinNetworks ==
    (shared :> [mode |-> "VMNET_SHARED_MODE", subnet |-> "none", mask |-> "none"])
    @@ (host :> [mode |-> "VMNET_HOST_MODE", subnet |-> "none", mask |-> "none"])

\* A table with addresses, as the struct allows: well formed, one that is ignored
\* because the other is missing, and one that inet_pton refuses.
StaticNetworks ==
    (shared :> [mode |-> "VMNET_SHARED_MODE", subnet |-> "none", mask |-> "none"])
    @@ (host :> [mode |-> "VMNET_HOST_MODE", subnet |-> "wellformed", mask |-> "wellformed"])
    @@ (third :> [mode |-> "VMNET_SHARED_MODE", subnet |-> "malformed", mask |-> "none"])
    @@ (fourth :> [mode |-> "VMNET_HOST_MODE", subnet |-> "malformed", mask |-> "wellformed"])

\* Peers and addresses are interchangeable.
Symmetry == Permutations(Peer) \cup Permutations(Net)
=============================================================================
