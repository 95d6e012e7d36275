---------------------------- MODULE BrokerProofs ----------------------------
(***************************************************************************)
(* The safety of the broker, for any number of peers, names and addresses, *)
(* any limit per peer and any timeout.                                     *)
(***************************************************************************)
EXTENDS Broker, NetworkProofs

USE DEF Off

\* The number of connected peers is finite, and a peer counts one.
LEMMA ConnCount ==
    ASSUME conn \subseteq Peer, NEW p \in Peer
    PROVE  /\ Cardinality(conn) \in Nat
           /\ Cardinality(conn) = 0 <=> conn = {}
           /\ p \notin conn => Cardinality(conn \cup {p}) = Cardinality(conn) + 1
           /\ p \in conn => Cardinality(conn \ {p}) = Cardinality(conn) - 1
<1>1. IsFiniteSet(conn)
  BY FS_Subset, NetworkAssumption
<1> QED
  BY <1>1, FS_CardinalityType, FS_EmptySet, FS_AddElement, FS_RemoveElement

LEMMA ConnCountZero ==
    ASSUME conn \subseteq Peer
    PROVE  /\ Cardinality(conn) \in Nat
           /\ Cardinality(conn) = 0 <=> conn = {}
BY FS_Subset, FS_CardinalityType, FS_EmptySet, NetworkAssumption

\* The broker starts in its invariant.
LEMMA BrokerInitInv == Init => BrokerInv
<1> SUFFICES ASSUME Init PROVE BrokerInv
  OBVIOUS
<1>1. NetworkInv
  BY InitInv DEF Init
<1>2. TypeOK
  <2>1. proc \in ProcState /\ conn \subseteq Peer /\ connected_peers \in Int /\ transactions \in Int
    BY DEF Init, ProcState
  <2>2. idle_timer \in BOOLEAN
    BY DEF Init
  <2>3. idle_source \in Off .. IdleTimeout
    BY NetworkAssumption DEF Init
  <2> QED
    BY <1>1, <2>1, <2>2, <2>3 DEF TypeOK, NetworkInv
<1>3. PeersCounted
  BY FS_EmptySet DEF Init, PeersCounted
<1> QED
  BY <1>1, <1>2, <1>3
     DEF Init, NetworkInit, BrokerInv, NoAssertFails, TransactionIffPeers,
         ShutdownOnlyIfIdle, OnlyConnectedPeersHold, NeverEndsWithPeers

\* So does every later broker process.
LEMMA MainInv ==
    ASSUME main
    PROVE  BrokerInv'
<1>1. NetworkInit'
  BY DEF main, NetworkInit
<1>2. NetworkInv'
  BY <1>1, InitInv, PTL
<1>3. TypeOK'
  <2>1. /\ proc' \in ProcState /\ conn' \subseteq Peer
        /\ connected_peers' \in Int /\ transactions' \in Int
    BY DEF main, start_xpc_listener, ProcState
  <2>2. idle_timer' \in BOOLEAN
    BY DEF main
  <2>3. idle_source' \in Off .. IdleTimeout
    BY NetworkAssumption DEF main
  <2> QED
    BY <1>2, <2>1, <2>2, <2>3 DEF TypeOK, NetworkInv
<1>4. PeersCounted'
  BY FS_EmptySet DEF main, PeersCounted
<1> QED
  BY <1>2, <1>3, <1>4
     DEF main, start_xpc_listener, BrokerInv, NoAssertFails, TransactionIffPeers,
         ShutdownOnlyIfIdle, OnlyConnectedPeersHold, NeverEndsWithPeers

\* A peer connects.
LEMMA ConnectionInv ==
    ASSUME BrokerInv, NEW p \in Peer, handle_connection(p)
    PROVE  BrokerInv'
<1>1. /\ proc = "running" /\ proc' = "running"
      /\ p \notin conn /\ conn' = conn \cup {p}
      /\ networks' = [networks EXCEPT ![p] = <<>>]
      /\ UNCHANGED <<registry, objectVars>>
      /\ on_peer_connect
  BY DEF handle_connection, init_context
<1>2. networks' = networks
  BY <1>1 DEF BrokerInv, OnlyConnectedPeersHold, TypeOK, NetworkTypeOK
<1>3. NetworkInv'
  BY <1>1, <1>2, NetworkStutter DEF BrokerInv, networkVars
<1>4. /\ Cardinality(conn) \in Nat
      /\ Cardinality(conn) = 0 <=> conn = {}
      /\ Cardinality(conn') = Cardinality(conn) + 1
      /\ connected_peers = Cardinality(conn)
      /\ conn' # {}
  BY <1>1, ConnCount DEF BrokerInv, TypeOK, PeersCounted
<1>5. PeersCounted'
  BY <1>1, <1>4 DEF on_peer_connect, cancel_shutdown, PeersCounted
<1>6. transactions' = 1 /\ ~idle_timer' /\ idle_timer' \in BOOLEAN /\ idle_source' = Off
  <2>1. CASE conn = {}
    <3>1. /\ transactions' = transactions + 1
          /\ idle_timer' = FALSE
          /\ idle_source' = IF idle_timer THEN Off ELSE idle_source
      BY <1>1, <1>4, <2>1 DEF on_peer_connect, cancel_shutdown
    <3>2. idle_source' = Off
      BY <3>1 DEF BrokerInv, ShutdownOnlyIfIdle
    <3>3. transactions' = 1
      BY <2>1, <3>1 DEF BrokerInv, TransactionIffPeers
    <3> QED
      BY <3>1, <3>2, <3>3
  <2>2. CASE conn # {}
    <3>1. UNCHANGED <<transactions, idle_timer, idle_source>>
      BY <1>1, <1>4, <2>2 DEF on_peer_connect, cancel_shutdown
    <3>2. ~idle_timer /\ idle_timer \in BOOLEAN /\ idle_source = Off /\ transactions = 1
      BY <2>2 DEF BrokerInv, TypeOK, ShutdownOnlyIfIdle, TransactionIffPeers
    <3> QED
      BY <3>1, <3>2
  <2> QED
    BY <2>1, <2>2
<1>7. TypeOK'
  <2>1. proc' \in ProcState /\ conn' \subseteq Peer /\ connected_peers' \in Int
    BY <1>1, <1>4, <1>5 DEF BrokerInv, TypeOK, ProcState, PeersCounted
  <2>2. idle_source' \in Off .. IdleTimeout /\ transactions' \in Int
    BY <1>6, NetworkAssumption
  <2> QED
    BY <1>3, <1>6, <2>1, <2>2 DEF TypeOK, NetworkInv
<1>8. NoAssertFails' /\ NeverEndsWithPeers'
  BY <1>1 DEF NoAssertFails, NeverEndsWithPeers
<1>9. TransactionIffPeers' /\ ShutdownOnlyIfIdle'
  BY <1>4, <1>6 DEF TransactionIffPeers, ShutdownOnlyIfIdle
<1>10. OnlyConnectedPeersHold'
  BY <1>1, <1>2 DEF BrokerInv, OnlyConnectedPeersHold
<1> QED
  BY <1>3, <1>5, <1>7, <1>8, <1>9, <1>10 DEF BrokerInv

\* A peer disconnects: no assertion fails, and if it was the last one the
\* transaction ends and the shutdown is scheduled.
LEMMA DisconnectInv ==
    ASSUME BrokerInv, NEW p \in Peer, on_peer_disconnect(p)
    PROVE  BrokerInv'
<1>1. /\ proc = "running"
      /\ p \in conn /\ conn' = conn \ {p}
      /\ connected_peers' = connected_peers - 1
      /\ release_peer_networks(p)
      /\ networks' = [networks EXCEPT ![p] = <<>>]
  BY DEF on_peer_disconnect, release_peer_networks
<1>2. NetworkInv'
  BY <1>1, ReleaseInv DEF BrokerInv
<1>3. /\ Cardinality(conn) \in Nat
      /\ Cardinality(conn') = Cardinality(conn) - 1
      /\ connected_peers = Cardinality(conn)
  BY <1>1, ConnCount DEF BrokerInv, TypeOK, PeersCounted
<1>4. Cardinality(conn') = 0 <=> conn' = {}
  <2>1. IsFiniteSet(conn')
    BY <1>1, FS_Subset, NetworkAssumption DEF BrokerInv, TypeOK
  <2> QED
    BY <2>1, FS_EmptySet
<1>5. PeersCounted'
  BY <1>1, <1>3 DEF PeersCounted
<1>6. ~idle_timer /\ idle_timer \in BOOLEAN /\ idle_source = Off /\ transactions = 1
  BY <1>1 DEF BrokerInv, TypeOK, ShutdownOnlyIfIdle, TransactionIffPeers
<1>7. proc' \in {"running", "crashed"}
  BY <1>6, EmptiedHolders DEF BrokerInv, on_peer_disconnect
<1>8. /\ transactions' = IF conn' = {} THEN 0 ELSE 1
      /\ idle_timer' \in BOOLEAN
      /\ idle_timer' <=> conn' = {}
      /\ idle_source' \in Off .. IdleTimeout
      /\ idle_source' # Off <=> conn' = {}
  <2>1. CASE conn' = {}
    <3>1. transactions' = transactions - 1 /\ idle_timer' = TRUE /\ idle_source' = IdleTimeout
      BY <1>3, <1>4, <2>1 DEF on_peer_disconnect, shutdown_later
    <3>2. transactions' = 0 /\ idle_source' # Off /\ idle_source' \in Off .. IdleTimeout
      BY <1>6, <3>1, NetworkAssumption
    <3> QED
      BY <2>1, <3>1, <3>2
  <2>2. CASE conn' # {}
    <3>1. UNCHANGED <<transactions, idle_timer, idle_source>>
      BY <1>3, <1>4, <2>2 DEF on_peer_disconnect
    <3>2. idle_source \in Off .. IdleTimeout
      BY <1>6, NetworkAssumption
    <3> QED
      BY <1>6, <2>2, <3>1, <3>2
  <2> QED
    BY <2>1, <2>2
<1>9. TypeOK'
  <2>1. proc' \in ProcState /\ conn' \subseteq Peer /\ connected_peers' \in Int
    BY <1>1, <1>3, <1>7 DEF BrokerInv, TypeOK, ProcState
  <2>2. transactions' \in Int
    BY <1>8
  <2> QED
    BY <1>2, <1>8, <2>1, <2>2 DEF TypeOK, NetworkInv
<1>10. NoAssertFails' /\ NeverEndsWithPeers'
  BY <1>7 DEF NoAssertFails, NeverEndsWithPeers
<1>11. TransactionIffPeers' /\ ShutdownOnlyIfIdle'
  BY <1>8 DEF TransactionIffPeers, ShutdownOnlyIfIdle
<1>12. OnlyConnectedPeersHold'
  BY <1>1 DEF BrokerInv, TypeOK, NetworkTypeOK, OnlyConnectedPeersHold
<1> QED
  BY <1>2, <1>5, <1>9, <1>10, <1>11, <1>12 DEF BrokerInv

\* A request changes the registry only.
LEMMA RequestInv ==
    ASSUME BrokerInv, NEW p \in Peer, NEW req \in Request, NEW rep \in Reply,
           on_peer_request(p, req, rep)
    PROVE  BrokerInv'
<1>1. p \in conn /\ UNCHANGED brokerVars
  BY DEF on_peer_request
<1>2. NetworkInv'
  <2>1. CASE UNCHANGED networkVars
    BY <2>1, NetworkStutter DEF BrokerInv
  <2>2. CASE req.network_name # NULL /\ acquire_network(p, req.network_name, rep)
    <3>1. req.network_name \in Name
      BY <2>2 DEF Request
    <3> QED
      BY <2>2, <3>1, AcquireInv DEF BrokerInv
  <2> QED
    BY <2>1, <2>2 DEF on_peer_request
<1>3. \A q \in Peer \ {p} : networks'[q] = networks[q]
  BY DEF BrokerInv, TypeOK, NetworkTypeOK, on_peer_request, networkVars, acquire_network,
         acquire_registered_network, acquire_new_network, acquire_too_many,
         acquire_bad_configuration, acquire_create_failure, update_peer_ownership
<1>4. OnlyConnectedPeersHold'
  BY <1>1, <1>3 DEF BrokerInv, OnlyConnectedPeersHold, brokerVars
<1>5. proc = "running" /\ proc' = "running"
  BY DEF on_peer_request, brokerVars
<1>6. NoAssertFails' /\ NeverEndsWithPeers'
  BY <1>5 DEF NoAssertFails, NeverEndsWithPeers
<1>7. TypeOK' /\ PeersCounted' /\ TransactionIffPeers' /\ ShutdownOnlyIfIdle'
  BY <1>1, <1>2 DEF BrokerInv, brokerVars, TypeOK, NetworkInv, PeersCounted,
                    TransactionIffPeers, ShutdownOnlyIfIdle
<1> QED
  BY <1>2, <1>4, <1>6, <1>7 DEF BrokerInv

\* The timer of a network changes the registry only.
LEMMA NetworkIdleInv ==
    ASSUME BrokerInv, NEW o \in Net, on_network_idle(o)
    PROVE  BrokerInv'
<1>1. UNCHANGED brokerVars /\ networks' = networks /\ proc = "running"
  BY DEF on_network_idle, network_idle_timeout
<1>2. NetworkInv'
  BY IdleTimeoutInv DEF BrokerInv, on_network_idle
<1>3. TypeOK' /\ PeersCounted' /\ TransactionIffPeers' /\ ShutdownOnlyIfIdle'
  BY <1>1, <1>2 DEF BrokerInv, brokerVars, TypeOK, NetworkInv, PeersCounted,
                    TransactionIffPeers, ShutdownOnlyIfIdle
<1>4. OnlyConnectedPeersHold' /\ NoAssertFails' /\ NeverEndsWithPeers'
  BY <1>1 DEF BrokerInv, brokerVars, OnlyConnectedPeersHold, NoAssertFails, NeverEndsWithPeers
<1> QED
  BY <1>2, <1>3, <1>4 DEF BrokerInv

\* An orderly exit happens only without peers, and deletes every network.
LEMMA OrderlyExitInv ==
    ASSUME BrokerInv, conn = {}, orderly_exit
    PROVE  BrokerInv'
<1>1. /\ shutdown_networks /\ networks' = networks
      /\ proc' = "exited"
      /\ UNCHANGED <<conn, connected_peers, transactions, idle_timer, idle_source>>
  BY DEF orderly_exit, shutdown_networks
<1>2. \A p \in Peer : networks[p] = <<>>
  BY DEF BrokerInv, OnlyConnectedPeersHold
<1>3. NetworkInv' /\ allocated' = {} /\ vmnet' = {}
  BY <1>1, <1>2, ShutdownInv DEF BrokerInv
<1>4. TypeOK' /\ PeersCounted' /\ TransactionIffPeers' /\ ShutdownOnlyIfIdle'
  BY <1>1, <1>3 DEF BrokerInv, TypeOK, ProcState, NetworkInv, PeersCounted,
                    TransactionIffPeers, ShutdownOnlyIfIdle
<1>5. OnlyConnectedPeersHold' /\ NoAssertFails' /\ NeverEndsWithPeers'
  BY <1>1, <1>3 DEF BrokerInv, OnlyConnectedPeersHold, NoAssertFails, NeverEndsWithPeers
<1> QED
  BY <1>3, <1>4, <1>5 DEF BrokerInv

\* Neither the idle timer nor a signal ends the broker while a peer is connected.
LEMMA ExitOnlyWithoutPeers ==
    ASSUME BrokerInv, on_broker_idle \/ on_signal
    PROVE  conn = {} /\ orderly_exit
<1>1. CASE on_broker_idle
  BY <1>1 DEF on_broker_idle, BrokerInv, ShutdownOnlyIfIdle
<1>2. CASE on_signal
  <2>1. Cardinality(conn) \in Nat /\ (Cardinality(conn) = 0 <=> conn = {})
    BY ConnCountZero DEF BrokerInv, TypeOK
  <2> QED
    BY <1>2, <2>1 DEF on_signal, BrokerInv, PeersCounted
<1> QED
  BY <1>1, <1>2

\* A failed listener, launchd and a name without a key end the process and touch
\* nothing else.
LEMMA EndInv ==
    ASSUME BrokerInv,
           \/ on_listener_error \/ launchd_reclaim
           \/ \E p \in Peer, req \in Request : on_peer_request_crash(p, req)
    PROVE  BrokerInv'
<1>1. /\ UNCHANGED <<conn, connected_peers, transactions, idle_timer, idle_source>>
      /\ UNCHANGED networkVars
      /\ proc' \in {"failed", "killed", "crashed"}
      /\ proc' = "killed" => transactions = 0
  BY DEF on_listener_error, launchd_reclaim, on_peer_request_crash
<1>2. NetworkInv'
  BY <1>1, NetworkStutter DEF BrokerInv
<1>3. TypeOK' /\ PeersCounted' /\ TransactionIffPeers' /\ ShutdownOnlyIfIdle'
  BY <1>1, <1>2 DEF BrokerInv, TypeOK, ProcState, NetworkInv, PeersCounted,
                    TransactionIffPeers, ShutdownOnlyIfIdle
<1>4. OnlyConnectedPeersHold'
  BY <1>1 DEF BrokerInv, OnlyConnectedPeersHold, networkVars
<1>5. NoAssertFails' /\ NeverEndsWithPeers'
  BY <1>1 DEF BrokerInv, TransactionIffPeers, NoAssertFails, NeverEndsWithPeers
<1> QED
  BY <1>2, <1>3, <1>4, <1>5 DEF BrokerInv

\* Time never turns a timer off or on.
LEMMA TickInv ==
    ASSUME BrokerInv, tick
    PROVE  BrokerInv'
<1>1. /\ UNCHANGED <<registry, allocated, name, peers, vmnet, idle_timers, networks>>
      /\ UNCHANGED <<proc, conn, connected_peers, transactions, idle_timer>>
      /\ source' = [o \in Net |-> Ticked(source[o])]
      /\ idle_source' = Ticked(idle_source)
  BY DEF tick
<1>2. \A t \in Off .. IdleTimeout : Ticked(t) \in Off .. IdleTimeout /\ (Ticked(t) # Off <=> t # Off)
  BY NetworkAssumption DEF Ticked
<1>3. \A x \in Net : Holders(x)' = Holders(x)
  BY <1>1 DEF Holders
<1>4. NetworkTypeOK'
  BY <1>1, <1>2 DEF BrokerInv, NetworkInv, NetworkTypeOK
<1>5. RegistryConsistent' /\ PeerArraysSound' /\ PeerArraysBounded' /\ FreedHasNoName'
  BY <1>1 DEF BrokerInv, NetworkInv, RegistryConsistent, Registered, PeerArraysSound,
              PeerArraysBounded, FreedHasNoName
<1>6. RefCountExact'
  BY <1>1, <1>3 DEF BrokerInv, NetworkInv, RefCountExact
<1>7. RemovalScheduledIffUnused'
  BY <1>1, <1>2, <1>3 DEF BrokerInv, NetworkInv, NetworkTypeOK, RemovalScheduledIffUnused
<1>8. idle_source' \in Off .. IdleTimeout /\ (idle_source' # Off <=> idle_source # Off)
  BY <1>1, <1>2 DEF BrokerInv, TypeOK
<1>9. TypeOK' /\ ShutdownOnlyIfIdle'
  BY <1>1, <1>4, <1>8 DEF BrokerInv, TypeOK, ShutdownOnlyIfIdle
<1>10. /\ PeersCounted' /\ TransactionIffPeers' /\ OnlyConnectedPeersHold'
       /\ NoAssertFails' /\ NeverEndsWithPeers'
  BY <1>1 DEF BrokerInv, PeersCounted, TransactionIffPeers, OnlyConnectedPeersHold,
              NoAssertFails, NeverEndsWithPeers
<1> QED
  BY <1>4, <1>5, <1>6, <1>7, <1>9, <1>10 DEF BrokerInv, NetworkInv

\* Every step of the broker keeps its invariant.
LEMMA NextInv == BrokerInv /\ [Next]_vars => BrokerInv'
<1> SUFFICES ASSUME BrokerInv, [Next]_vars PROVE BrokerInv'
  OBVIOUS
<1>1. CASE main
  BY <1>1, MainInv
<1>2. CASE \E p \in Peer : handle_connection(p)
  BY <1>2, ConnectionInv
<1>3. CASE \E p \in Peer, req \in Request, rep \in Reply : on_peer_request(p, req, rep)
  BY <1>3, RequestInv
<1>4. CASE \E p \in Peer : on_peer_disconnect(p)
  BY <1>4, DisconnectInv
<1>5. CASE \E o \in Net : on_network_idle(o)
  BY <1>5, NetworkIdleInv
<1>6. CASE on_broker_idle \/ on_signal
  BY <1>6, ExitOnlyWithoutPeers, OrderlyExitInv
<1>7. CASE \/ on_listener_error \/ launchd_reclaim
           \/ \E p \in Peer, req \in Request : on_peer_request_crash(p, req)
  BY <1>7, EndInv
<1>8. CASE tick
  BY <1>8, TickInv
<1>9. CASE UNCHANGED vars
  <2>1. UNCHANGED networkVars /\ UNCHANGED brokerVars
    BY <1>9 DEF vars
  <2>2. NetworkInv'
    BY <2>1, NetworkStutter DEF BrokerInv
  <2>3. TypeOK' /\ PeersCounted' /\ TransactionIffPeers' /\ ShutdownOnlyIfIdle'
    BY <2>1, <2>2 DEF BrokerInv, brokerVars, TypeOK, NetworkInv, PeersCounted,
                      TransactionIffPeers, ShutdownOnlyIfIdle
  <2>4. OnlyConnectedPeersHold' /\ NoAssertFails' /\ NeverEndsWithPeers'
    BY <2>1 DEF BrokerInv, brokerVars, networkVars, objectVars, OnlyConnectedPeersHold,
                NoAssertFails, NeverEndsWithPeers
  <2> QED
    BY <2>2, <2>3, <2>4 DEF BrokerInv
<1> QED
  BY <1>1, <1>2, <1>3, <1>4, <1>5, <1>6, <1>7, <1>8, <1>9 DEF Next

\* The inductive invariant holds in every reachable state.
THEOREM BrokerInvariant == Spec => []BrokerInv
<1>1. Init => BrokerInv
  BY BrokerInitInv
<1>2. BrokerInv /\ [Next]_vars => BrokerInv'
  BY NextInv
<1> QED
  BY <1>1, <1>2, PTL DEF Spec

\* Type correctness.
THEOREM TypeCorrect == Spec => []TypeOK
BY BrokerInvariant, PTL DEF BrokerInv

\* The registry holds exactly the allocated networks, each with a vmnet network:
\* nothing dangles and nothing leaks.
THEOREM RegistryIsConsistent == Spec => []RegistryConsistent
BY BrokerInvariant, PTL DEF BrokerInv, NetworkInv

\* No peer holds a pointer to a freed network, or the same network twice.
THEOREM PeerArraysAreSound == Spec => []PeerArraysSound
BY BrokerInvariant, PTL DEF BrokerInv, NetworkInv

\* No peer's array overflows, on any path of acquire_network.
THEOREM PeerArraysAreBounded == Spec => []PeerArraysBounded
BY BrokerInvariant, PTL DEF BrokerInv, NetworkInv

\* Counters are exact, however often a peer asked and in whatever order peers
\* leave.
THEOREM RefCountsExact == Spec => []RefCountExact
BY BrokerInvariant, PTL DEF BrokerInv, NetworkInv

\* A network is scheduled for removal exactly while nobody holds it.
THEOREM RemovalExact == Spec => []RemovalScheduledIffUnused
BY BrokerInvariant, PTL DEF BrokerInv, NetworkInv

\* The broker is about to exit only while no peer is connected.
THEOREM ShutdownSafe == Spec => []ShutdownOnlyIfIdle
BY BrokerInvariant, PTL DEF BrokerInv

\* The assertions of remove_later and shutdown_later that no timer runs never
\* fail.
THEOREM AssertionsHold == Spec => []NoAssertFails
BY BrokerInvariant, PTL DEF BrokerInv

\* Neither the idle timer, nor a signal, nor launchd ends the broker while a peer
\* is connected.
THEOREM NeverEndsUnderPeers == Spec => []NeverEndsWithPeers
BY BrokerInvariant, PTL DEF BrokerInv

\* launchd sees one transaction exactly while a peer is connected.
THEOREM TransactionBalanced == Spec => []TransactionIffPeers
BY BrokerInvariant, PTL DEF BrokerInv

\* A request answered with an error changes nothing.
THEOREM FailuresHarmless == Spec => FailedRequestHasNoEffect
<1>1. ASSUME BrokerInv, NEW p \in Peer, NEW req \in Request, NEW rep \in Reply,
             on_peer_request(p, req, rep), rep.error # VMNET_BROKER_SUCCESS
      PROVE  UNCHANGED vars
  <2>1. UNCHANGED brokerVars
    BY <1>1 DEF on_peer_request
  <2>2. UNCHANGED networkVars
    <3>1. CASE req.network_name # NULL /\ acquire_network(p, req.network_name, rep)
      <4>1. req.network_name \in Name
        BY <3>1 DEF Request
      <4> QED
        BY <1>1, <3>1, <4>1, AcquireErrorUnchanged DEF BrokerInv
    <3> QED
      BY <1>1, <3>1 DEF on_peer_request
  <2> QED
    BY <2>1, <2>2 DEF vars
<1>2. BrokerInv =>
        [\A p \in Peer, req \in Request, rep \in Reply :
           on_peer_request(p, req, rep) /\ rep.error # VMNET_BROKER_SUCCESS
           => UNCHANGED vars]_vars
  BY <1>1
<1> QED
  BY <1>2, BrokerInvariant, PTL DEF FailedRequestHasNoEffect

\* What a granted request does to the registry and to the holders.
LEMMA AcquireGrant ==
    ASSUME NetworkInv, NEW p \in Peer, NEW n \in Name, NEW rep,
           acquire_network(p, n, rep), rep.error = VMNET_BROKER_SUCCESS
    PROVE  /\ rep.network \in Net
           /\ registry' = [registry EXCEPT ![n] = rep.network]
           /\ registry[n] # NULL => registry[n] = rep.network
           /\ registry[n] = NULL => rep.network \notin allocated
           /\ allocated' = allocated \cup {rep.network}
           /\ vmnet' = vmnet \cup {rep.network}
           /\ source'[rep.network] = Off
           /\ \A x \in Net \ {rep.network} : source'[x] = source[x]
           /\ \A x \in Net : Holders(x)' = IF x = rep.network THEN Holders(x) \cup {p} ELSE Holders(x)
<1>1. NetworkTypeOK /\ RefCountExact /\ registry_get(n) = registry[n]
  BY KeyIsName DEF NetworkInv, acquire_network
<1>2. CASE acquire_registered_network(p, n, rep)
  <2> DEFINE o == registry[n]
  <2>1. /\ o # NULL /\ o \in Net /\ o \in allocated /\ o \in vmnet /\ rep.network = o
        /\ registry' = registry /\ allocated' = allocated /\ vmnet' = vmnet
        /\ update_peer_ownership(p, o) /\ cancel_remove_later(o)
    BY <1>1, <1>2 DEF acquire_registered_network, NetworkReply, NetworkInv, NetworkTypeOK,
                      RegistryConsistent, Registered
  <2> HIDE DEF o
  <2>2. /\ \A x \in Net : source'[x] = IF x = o /\ o \in idle_timers THEN Off ELSE source[x]
        /\ \A x \in Net : Holders(x)' = IF x = o THEN Holders(x) \cup {p} ELSE Holders(x)
    BY <1>1, <2>1, GrantEffect
  <2>3. source'[o] = Off
    BY <2>1, <2>2 DEF NetworkInv, RemovalScheduledIffUnused
  <2>4. registry' = [registry EXCEPT ![n] = o]
    BY <2>1 DEF o, NetworkInv, NetworkTypeOK
  <2>5. registry[n] = o
    BY DEF o
  <2> QED
    BY <2>1, <2>2, <2>3, <2>4, <2>5
<1>3. CASE acquire_new_network(p, n, rep)
  <2>1. PICK o \in Net \ allocated :
          /\ create_network(o, n)
          /\ registry_set(n, o)
          /\ update_peer_ownership(p, o)
          /\ cancel_remove_later(o)
          /\ rep = NetworkReply(o)
    BY <1>3 DEF acquire_new_network
  <2>2. /\ registry[n] = NULL /\ rep.network = o
        /\ registry' = [registry EXCEPT ![n] = o]
        /\ allocated' = allocated \cup {o} /\ vmnet' = vmnet \cup {o}
    <3>1. registry[n] = NULL
      BY <1>1, <1>3 DEF acquire_new_network
    <3> QED
      BY <2>1, <3>1 DEF registry_set, create_network, NetworkReply
  <2>3. /\ \A x \in Net : source'[x] = IF x = o /\ o \in idle_timers THEN Off ELSE source[x]
        /\ \A x \in Net : Holders(x)' = IF x = o THEN Holders(x) \cup {p} ELSE Holders(x)
    BY <1>1, <2>1, GrantEffect
  <2>4. source'[o] = Off
    BY <2>1, <2>3, FreeObject
  <2> QED
    BY <2>1, <2>2, <2>3, <2>4
<1>4. CASE acquire_too_many(p, n, rep) \/ acquire_create_failure(p, n, rep)
  BY <1>4 DEF acquire_too_many, acquire_create_failure, ErrorReply, VMNET_BROKER_SUCCESS,
              VMNET_BROKER_INTERNAL_ERROR, VMNET_BROKER_CREATE_FAILURE
<1>5. CASE acquire_bad_configuration(p, n, rep)
  BY <1>5 DEF acquire_bad_configuration, ErrorReply
<1> QED
  BY <1>2, <1>3, <1>4, <1>5 DEF acquire_network

\* What a request that is not refused as invalid asks for.
LEMMA RequestCases ==
    ASSUME NEW p \in Peer, NEW req \in Request, NEW rep \in Reply,
           on_peer_request(p, req, rep)
    PROVE  \/ /\ UNCHANGED networkVars
              /\ rep.error # VMNET_BROKER_SUCCESS
           \/ /\ req.network_name \in Name
              /\ acquire_network(p, req.network_name, rep)
<1>1. CASE /\ rep = ErrorReply(VMNET_BROKER_INVALID_REQUEST)
           /\ UNCHANGED networkVars
  BY <1>1 DEF ErrorReply, VMNET_BROKER_INVALID_REQUEST, VMNET_BROKER_SUCCESS
<1>2. CASE req.network_name # NULL /\ acquire_network(p, req.network_name, rep)
  BY <1>2 DEF Request
<1> QED
  BY <1>1, <1>2 DEF on_peer_request

\* A peer that asks for a network it holds is given this network, whether or not
\* it could hold another one.
LEMMA AcquireHeld ==
    ASSUME NetworkInv, NEW p \in Peer, NEW n \in Name, NEW rep,
           acquire_network(p, n, rep), registry[n] # NULL, p \in Holders(registry[n])
    PROVE  rep = NetworkReply(registry[n])
<1>1. registry_get(n) = registry[n]
  BY KeyIsName DEF acquire_network
<1>2. may_own_network(p, registry[n])
  BY DEF may_own_network, peer_owns_network, Holders
<1>3. acquire_registered_network(p, n, rep)
  BY <1>1, <1>2 DEF acquire_network, acquire_new_network, acquire_too_many,
                    acquire_bad_configuration, acquire_create_failure
<1> QED
  BY <1>1, <1>3 DEF acquire_registered_network

\* What a successful request gives the peer.
LEMMA RequestGrants ==
    ASSUME BrokerInv, NEW p \in Peer, NEW req \in Request, NEW rep \in Reply,
           on_peer_request(p, req, rep), rep.error = VMNET_BROKER_SUCCESS
    PROVE  /\ rep.network \in Net
           /\ rep.network = registry'[req.network_name]
           /\ p \in Holders(rep.network)'
           /\ source'[rep.network] = Off
<1>1. req.network_name \in Name /\ acquire_network(p, req.network_name, rep)
  BY RequestCases
<1>2. /\ rep.network \in Net
      /\ registry' = [registry EXCEPT ![req.network_name] = rep.network]
      /\ source'[rep.network] = Off
      /\ Holders(rep.network)' = Holders(rep.network) \cup {p}
  BY <1>1, AcquireGrant DEF BrokerInv
<1> QED
  BY <1>1, <1>2 DEF BrokerInv, TypeOK, NetworkTypeOK

\* A network that is sent to a peer is held by the peer, and no removal of it is
\* scheduled.
THEOREM GrantsHeld == Spec => GrantIsHeld
<1>1. BrokerInv =>
        [\A p \in Peer, req \in Request, rep \in Reply :
           on_peer_request(p, req, rep) /\ rep.error = VMNET_BROKER_SUCCESS
           => /\ rep.network = registry'[req.network_name]
              /\ p \in Holders(rep.network)'
              /\ source'[rep.network] = Off]_vars
  BY RequestGrants
<1> QED
  BY <1>1, BrokerInvariant, PTL DEF GrantIsHeld

\* One step keeps a lease.
LEMMA StepKeepsLease ==
    ASSUME BrokerInv, [Next]_vars, NEW n \in Name, NEW p \in conn \cap conn',
           registry[n] # NULL, p \in Holders(registry[n]), proc' = "running"
    PROVE  /\ registry'[n] = registry[n]
           /\ registry[n] \in allocated' \cap vmnet'
           /\ p \in Holders(registry[n])'
<1> DEFINE o == registry[n]
<1>1. /\ o \in Net /\ o \in allocated /\ o \in vmnet /\ p \in Peer
      /\ NetworkInv /\ NetworkTypeOK /\ registry \in [Name -> Net \cup {NULL}]
  BY DEF BrokerInv, TypeOK, NetworkInv, NetworkTypeOK, RegistryConsistent, Registered
<1>2. CASE UNCHANGED networkVars
  BY <1>1, <1>2 DEF networkVars, objectVars, Holders
<1>3. CASE main
  BY <1>3 DEF main
<1>4. ASSUME NEW q \in Peer, handle_connection(q)
      PROVE  UNCHANGED networkVars
  BY <1>4 DEF handle_connection, init_context, networkVars, BrokerInv, OnlyConnectedPeersHold,
              TypeOK, NetworkTypeOK
<1>5. ASSUME NEW q \in Peer, NEW req \in Request, NEW rep \in Reply, on_peer_request(q, req, rep)
      PROVE  /\ registry'[n] = o
             /\ o \in allocated' \cap vmnet'
             /\ p \in Holders(o)'
  <2>1. CASE rep.error # VMNET_BROKER_SUCCESS
    BY <1>1, <1>2, <1>5, <2>1, RequestCases, AcquireErrorUnchanged
  <2>2. CASE rep.error = VMNET_BROKER_SUCCESS
    <3> DEFINE m == req.network_name
    <3>1. m \in Name /\ acquire_network(q, m, rep)
      BY <1>5, <2>2, RequestCases
    <3> HIDE DEF m
    <3>2. /\ registry' = [registry EXCEPT ![m] = rep.network]
          /\ registry[m] # NULL => registry[m] = rep.network
          /\ allocated' = allocated \cup {rep.network}
          /\ vmnet' = vmnet \cup {rep.network}
          /\ \A x \in Net : Holders(x)' = IF x = rep.network THEN Holders(x) \cup {q} ELSE Holders(x)
      BY <1>1, <2>2, <3>1, AcquireGrant
    <3> QED
      BY <1>1, <3>1, <3>2
  <2> QED
    BY <2>1, <2>2
<1>6. ASSUME NEW q \in Peer, on_peer_disconnect(q)
      PROVE  /\ registry'[n] = o
             /\ o \in allocated' \cap vmnet'
             /\ p \in Holders(o)'
  <2>1. /\ conn' = conn \ {q} /\ networks' = [networks EXCEPT ![q] = <<>>]
        /\ registry' = registry /\ allocated' = allocated /\ vmnet' = vmnet
    BY <1>6 DEF on_peer_disconnect, release_peer_networks
  <2>2. Holders(o)' = Holders(o) \ {q}
    BY <1>1, <2>1, HoldersEmptied DEF NetworkTypeOK
  <2> QED
    BY <1>1, <2>1, <2>2
<1>7. ASSUME NEW x \in Net, on_network_idle(x)
      PROVE  /\ registry'[n] = o
             /\ o \in allocated' \cap vmnet'
             /\ p \in Holders(o)'
  <2>1. /\ Holders(x) = {}
        /\ free_network({x}, allocated, vmnet)
        /\ registry' = [k \in Name |-> IF registry[k] \in {x} THEN NULL ELSE registry[k]]
        /\ networks' = networks
    BY <1>1, <1>7, IdleTimeoutEffect DEF on_network_idle
  <2>2. x # o
    BY <2>1
  <2> QED
    BY <1>1, <2>1, <2>2 DEF free_network, Holders
<1>8. CASE \/ on_broker_idle \/ on_signal \/ on_listener_error \/ launchd_reclaim
           \/ \E q \in Peer, req \in Request : on_peer_request_crash(q, req)
  BY <1>8 DEF on_broker_idle, on_signal, orderly_exit, on_listener_error, launchd_reclaim,
              on_peer_request_crash
<1>9. CASE tick
  BY <1>1, <1>9 DEF tick, Holders
<1> QED
  BY <1>2, <1>3, <1>4, <1>5, <1>6, <1>7, <1>8, <1>9 DEF Next, vars

\* A connected peer keeps what it acquired, whatever the others and the timers
\* do, for as long as the process runs.
THEOREM LeasesKept == Spec => LeaseKept
<1>1. BrokerInv /\ [Next]_vars =>
        [\A n \in Name : \A p \in conn \cap conn' :
           /\ registry[n] # NULL
           /\ p \in Holders(registry[n])
           /\ proc' = "running"
           => /\ registry'[n] = registry[n]
              /\ registry[n] \in allocated' \cap vmnet'
              /\ p \in Holders(registry[n])']_vars
  BY StepKeepsLease
<1> QED
  BY <1>1, BrokerInvariant, PTL DEF LeaseKept, Spec
=============================================================================
