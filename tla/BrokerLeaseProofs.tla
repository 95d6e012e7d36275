-------------------------- MODULE BrokerLeaseProofs --------------------------
(***************************************************************************)
(* The broker implements the lease service: under the mapping of module    *)
(* BrokerLease, every step of Broker is a step of NetworkLease or leaves   *)
(* its variables unchanged.                                                *)
(***************************************************************************)
EXTENDS BrokerLease, BrokerProofs

USE DEF Off

\* The mapped variables of a running broker, without its timers' switches.
RunningMap ==
    /\ status = "up"
    /\ clients = conn
    /\ live = {n \in Name : registry[n] # NULL}
    /\ holders = [n \in Name |-> IF registry[n] = NULL THEN {} ELSE Holders(registry[n])]
    /\ unused = [n \in Name |-> IF registry[n] = NULL \/ Holders(registry[n]) # {}
                                THEN 0 ELSE IdleTimeout - source[registry[n]]]

\* A registered network is an allocated object, and its timer is armed exactly
\* when nobody holds it.
LEMMA RegisteredObject ==
    ASSUME NetworkInv, NEW n \in Name, registry[n] # NULL
    PROVE  /\ registry[n] \in Net /\ registry[n] \in allocated
           /\ source[registry[n]] # Off <=> Holders(registry[n]) = {}
           /\ source[registry[n]] \in Off .. IdleTimeout
<1>1. registry[n] \in Net /\ registry[n] \in allocated
  BY DEF NetworkInv, NetworkTypeOK, RegistryConsistent, Registered
<1>2. source[registry[n]] \in Off .. IdleTimeout
  BY <1>1 DEF NetworkInv, NetworkTypeOK
<1> QED
  BY <1>1, <1>2 DEF NetworkInv, RemovalScheduledIffUnused

\* The mapping of a running broker is RunningMap.
LEMMA MappedUp == NetworkInv /\ proc = "running" => RunningMap
<1> SUFFICES ASSUME NetworkInv, proc = "running" PROVE RunningMap
  OBVIOUS
<1>1. status = "up" /\ clients = conn /\ live = {n \in Name : registry[n] # NULL}
  BY DEF status, clients, live, Up
<1>2. holders = [n \in Name |-> IF registry[n] = NULL THEN {} ELSE Holders(registry[n])]
  BY <1>1 DEF holders
<1>3. \A n \in Name : registry[n] # NULL =>
                        (source[registry[n]] # Off <=> Holders(registry[n]) = {})
  BY RegisteredObject
<1>4. unused = [n \in Name |-> IF registry[n] = NULL \/ Holders(registry[n]) # {}
                              THEN 0 ELSE IdleTimeout - source[registry[n]]]
  BY <1>1, <1>3 DEF unused
<1> QED
  BY <1>1, <1>2, <1>4 DEF RunningMap

\* The mapped variables of a process that ended.
LEMMA MappedDown ==
    /\ proc \in {"exited", "killed"} => Lease!Empty("stopped")
    /\ proc \in {"failed", "crashed"} => Lease!Empty("failed")
<1> SUFFICES ASSUME proc \in {"exited", "killed", "failed", "crashed"}
             PROVE  /\ proc \in {"exited", "killed"} => Lease!Empty("stopped")
                    /\ proc \in {"failed", "crashed"} => Lease!Empty("failed")
  OBVIOUS
<1>1. clients = {} /\ live = {}
  BY DEF clients, live, Up
<1>2. holders = [n \in Name |-> {}] /\ unused = [n \in Name |-> 0]
  BY <1>1 DEF holders, unused
<1>3. /\ proc \in {"exited", "killed"} => status = "stopped"
      /\ proc \in {"failed", "crashed"} => status = "failed"
  BY DEF status, Up
<1> QED
  BY <1>1, <1>2, <1>3 DEF Lease!Empty

\* The mapped variables of a process that has just started.
LEMMA MappedInit == NetworkInit /\ proc = "running" /\ conn = {} => Lease!Empty("up")
<1> SUFFICES ASSUME NetworkInit, proc = "running", conn = {}
             PROVE  Lease!Empty("up")
  OBVIOUS
<1>1. status = "up" /\ clients = {} /\ live = {}
  BY DEF status, clients, live, Up, NetworkInit
<1>2. holders = [n \in Name |-> {}] /\ unused = [n \in Name |-> 0]
  BY <1>1 DEF holders, unused
<1> QED
  BY <1>1, <1>2 DEF Lease!Empty

\* A new connection is a new client.
LEMMA ConnectionStep ==
    ASSUME BrokerInv, RunningMap, RunningMap', NEW p \in Peer, handle_connection(p)
    PROVE  Lease!Connect(p)
<1>1. networks' = networks
  BY DEF handle_connection, init_context, BrokerInv, OnlyConnectedPeersHold, TypeOK, NetworkTypeOK
<1>2. registry' = registry /\ source' = source /\ conn' = conn \cup {p}
  BY DEF handle_connection, objectVars
<1>3. \A x : Holders(x)' = Holders(x)
  BY <1>1 DEF Holders
<1>4. live' = live /\ holders' = holders /\ unused' = unused
  BY <1>2, <1>3 DEF RunningMap
<1> QED
  BY <1>2, <1>4 DEF RunningMap, Lease!Connect

\* A granted request is a lease on the name.
LEMMA GrantStep ==
    ASSUME BrokerInv, RunningMap, RunningMap', NEW p \in conn, NEW n \in Name, NEW rep,
           acquire_network(p, n, rep), rep.error = VMNET_BROKER_SUCCESS, UNCHANGED brokerVars
    PROVE  Lease!Acquire(p, n)
<1> DEFINE o == rep.network
<1>1. p \in Peer /\ NetworkInv /\ registry \in [Name -> Net \cup {NULL}]
  BY DEF BrokerInv, TypeOK, NetworkTypeOK
<1>2. /\ o \in Net
      /\ registry' = [registry EXCEPT ![n] = o]
      /\ registry[n] # NULL => registry[n] = o
      /\ registry[n] = NULL => o \notin allocated
      /\ \A x \in Net \ {o} : source'[x] = source[x]
      /\ \A x \in Net : Holders(x)' = IF x = o THEN Holders(x) \cup {p} ELSE Holders(x)
  BY <1>1, AcquireGrant
<1> HIDE DEF o
<1>3. o # NULL /\ registry'[n] = o
  BY <1>1, <1>2, NullAssumption
<1>4. \A m \in Name \ {n} : registry'[m] = registry[m] /\ registry[m] # o
  <2> SUFFICES ASSUME NEW m \in Name \ {n}
               PROVE  registry'[m] = registry[m] /\ registry[m] # o
    OBVIOUS
  <2>1. registry'[m] = registry[m]
    BY <1>1, <1>2
  <2>2. CASE registry[n] = NULL
    BY <1>1, <1>2, <1>3, <2>2, RegisteredObject
  <2>3. CASE registry[n] # NULL
    BY <1>1, <1>2, <1>3, <2>3, RegistryInjective
  <2> QED
    BY <2>1, <2>2, <2>3
<1>5. registry[n] = NULL => Holders(o) = {}
  BY <1>1, <1>2, FreeObject
<1>6. live' = live \cup {n}
  BY <1>3, <1>4 DEF RunningMap
<1>7. holders' = [holders EXCEPT ![n] = @ \cup {p}]
  <2>1. holders'[n] = holders[n] \cup {p}
    BY <1>2, <1>3, <1>5 DEF RunningMap
  <2>2. \A m \in Name \ {n} : holders'[m] = holders[m]
    <3> SUFFICES ASSUME NEW m \in Name \ {n} PROVE holders'[m] = holders[m]
      OBVIOUS
    <3>1. CASE registry[m] = NULL
      BY <1>4, <3>1 DEF RunningMap
    <3>2. CASE registry[m] # NULL
      BY <1>1, <1>2, <1>4, <3>2, RegisteredObject DEF RunningMap
    <3> QED
      BY <3>1, <3>2
  <2> QED
    BY <2>1, <2>2 DEF RunningMap
<1>8. unused' = [unused EXCEPT ![n] = 0]
  <2>1. unused'[n] = 0
    BY <1>2, <1>3 DEF RunningMap
  <2>2. \A m \in Name \ {n} : unused'[m] = unused[m]
    <3> SUFFICES ASSUME NEW m \in Name \ {n} PROVE unused'[m] = unused[m]
      OBVIOUS
    <3>1. CASE registry[m] = NULL
      BY <1>4, <3>1 DEF RunningMap
    <3>2. CASE registry[m] # NULL
      BY <1>1, <1>2, <1>4, <3>2, RegisteredObject DEF RunningMap
    <3> QED
      BY <3>1, <3>2
  <2> QED
    BY <2>1, <2>2 DEF RunningMap
<1> QED
  BY <1>6, <1>7, <1>8 DEF RunningMap, Lease!Acquire, brokerVars

\* The end of a connection is the end of the client's leases.
LEMMA DisconnectStep ==
    ASSUME BrokerInv, RunningMap, RunningMap', NEW p \in Peer, on_peer_disconnect(p)
    PROVE  Lease!Disconnect(p)
<1>1. /\ conn' = conn \ {p} /\ registry' = registry
      /\ networks' = [networks EXCEPT ![p] = <<>>]
      /\ source' = [o \in Net |-> IF o \in Emptied(p) THEN IdleTimeout ELSE source[o]]
  BY DEF on_peer_disconnect, release_peer_networks, remove_later
<1>2. \A x \in Net : Holders(x)' = Holders(x) \ {p}
  BY <1>1, HoldersEmptied DEF BrokerInv, TypeOK, NetworkTypeOK
<1>3. Emptied(p) = {o \in allocated : Holders(o) = {p}}
  BY EmptiedHolders DEF BrokerInv
<1>4. \A n \in Name : registry[n] # NULL => registry[n] \in Net /\ registry[n] \in allocated
  BY RegisteredObject DEF BrokerInv
<1>5. live' = live
  BY <1>1 DEF RunningMap
<1>6. holders' = [n \in Name |-> holders[n] \ {p}]
  BY <1>1, <1>2, <1>4 DEF RunningMap
<1>7. unused' = unused
  <2>1. ASSUME NEW n \in Name
        PROVE  unused'[n] = unused[n]
    <3>1. CASE registry[n] = NULL
      BY <1>1, <3>1 DEF RunningMap
    <3>2. CASE registry[n] # NULL /\ Holders(registry[n]) = {p}
      <4>1. Holders(registry[n])' = {} /\ source'[registry[n]] = IdleTimeout
        BY <1>1, <1>2, <1>3, <1>4, <3>2
      <4> QED
        BY <1>1, <3>2, <4>1, NetworkAssumption DEF RunningMap
    <3>3. CASE registry[n] # NULL /\ Holders(registry[n]) # {p}
      <4>1. /\ Holders(registry[n])' = {} <=> Holders(registry[n]) = {}
            /\ source'[registry[n]] = source[registry[n]]
        BY <1>1, <1>2, <1>3, <1>4, <3>3
      <4> QED
        BY <1>1, <3>3, <4>1 DEF RunningMap
    <3> QED
      BY <3>1, <3>2, <3>3
  <2> QED
    BY <2>1 DEF RunningMap
<1> QED
  BY <1>1, <1>5, <1>6, <1>7 DEF RunningMap, Lease!Disconnect

\* The timer of a network expires a name that was unused for the whole timeout.
LEMMA NetworkIdleStep ==
    ASSUME BrokerInv, RunningMap, RunningMap', NEW o \in Net, on_network_idle(o)
    PROVE  \E n \in Name : Lease!Expire(n)
<1>1. /\ NetworkInv /\ network_idle_timeout(o) /\ source[o] = 0 /\ UNCHANGED brokerVars
      /\ registry \in [Name -> Net \cup {NULL}]
  BY DEF BrokerInv, TypeOK, NetworkTypeOK, on_network_idle, network_idle_timeout
<1>2. /\ o \in allocated
      /\ Holders(o) = {}
      /\ free_network({o}, allocated, vmnet)
      /\ registry' = [n \in Name |-> IF registry[n] \in {o} THEN NULL ELSE registry[n]]
      /\ networks' = networks
  BY <1>1, IdleTimeoutEffect
<1>3. PICK n \in Name : registry[n] = o
  BY <1>1, <1>2 DEF NetworkInv, RegistryConsistent, Registered
<1>4. o # NULL /\ registry'[n] = NULL
  BY <1>2, <1>3, NullAssumption
<1>5. \A m \in Name \ {n} : registry'[m] = registry[m] /\ registry[m] # o
  BY <1>1, <1>2, <1>3, <1>4, RegistryInjective
<1>6. \A x : Holders(x)' = Holders(x)
  BY <1>2 DEF Holders
<1>7. \A x \in Net \ {o} : source'[x] = source[x]
  BY <1>2 DEF free_network
<1>8. n \in live /\ holders[n] = {} /\ unused[n] = IdleTimeout
  BY <1>1, <1>2, <1>3, <1>4, NetworkAssumption DEF RunningMap
<1>9. live' = live \ {n}
  BY <1>4, <1>5 DEF RunningMap
<1>10. holders' = holders
  <2>1. \A m \in Name : holders'[m] = holders[m]
    BY <1>2, <1>3, <1>4, <1>5, <1>6 DEF RunningMap
  <2> QED
    BY <2>1 DEF RunningMap
<1>11. unused' = [unused EXCEPT ![n] = 0]
  <2>1. unused'[n] = 0
    BY <1>4 DEF RunningMap
  <2>2. \A m \in Name \ {n} : unused'[m] = unused[m]
    BY <1>1, <1>5, <1>6, <1>7 DEF RunningMap
  <2> QED
    BY <2>1, <2>2 DEF RunningMap
<1>12. Lease!Expire(n)
  BY <1>1, <1>8, <1>9, <1>10, <1>11 DEF RunningMap, Lease!Expire, brokerVars
<1> QED
  BY <1>12

\* Time passes for unused networks.
LEMMA TickStep ==
    ASSUME BrokerInv, RunningMap, RunningMap', tick
    PROVE  Lease!Tick
<1>1. /\ UNCHANGED <<registry, networks, conn>>
      /\ source' = [o \in Net |-> Ticked(source[o])]
  BY DEF tick
<1>2. \A x : Holders(x)' = Holders(x)
  BY <1>1 DEF Holders
<1>3. live' = live /\ holders' = holders
  BY <1>1, <1>2 DEF RunningMap
<1>4. ASSUME NEW n \in Name
      PROVE  unused'[n] = IF n \in live /\ holders[n] = {} /\ unused[n] < IdleTimeout
                          THEN unused[n] + 1 ELSE unused[n]
  <2>1. CASE registry[n] = NULL
    BY <1>1, <2>1 DEF RunningMap
  <2>2. CASE registry[n] # NULL /\ Holders(registry[n]) # {}
    BY <1>1, <1>2, <2>2 DEF RunningMap
  <2>3. CASE registry[n] # NULL /\ Holders(registry[n]) = {}
    <3> DEFINE t == source[registry[n]]
    <3>1. registry[n] \in Net /\ t \in 0 .. IdleTimeout
      BY <2>3, RegisteredObject, NetworkAssumption DEF BrokerInv
    <3>2. /\ n \in live /\ holders[n] = {}
          /\ unused[n] = IdleTimeout - t
          /\ unused'[n] = IdleTimeout - source'[registry[n]]
      BY <1>1, <1>2, <2>3 DEF RunningMap
    <3>3. source'[registry[n]] = IF t > 0 THEN t - 1 ELSE t
      BY <1>1, <3>1 DEF Ticked
    <3> HIDE DEF t
    <3> QED
      BY <3>1, <3>2, <3>3, NetworkAssumption
  <2> QED
    BY <2>1, <2>2, <2>3
<1> QED
  BY <1>1, <1>3, <1>4 DEF RunningMap, Lease!Tick

\* The mapped variables depend on the variables of the broker only.
LEMMA StutterStep ==
    ASSUME UNCHANGED vars
    PROVE  UNCHANGED Lease!vars
<1>1. UNCHANGED <<registry, source, networks, proc, conn>>
  BY DEF vars, networkVars, objectVars, brokerVars
<1>2. \A x : Holders(x)' = Holders(x)
  BY <1>1 DEF Holders
<1>3. status' = status /\ clients' = clients /\ live' = live
  BY <1>1 DEF status, clients, live, Up
<1>4. holders' = holders /\ unused' = unused
  BY <1>1, <1>2, <1>3 DEF holders, unused
<1> QED
  BY <1>3, <1>4 DEF Lease!vars

\* Every step of the broker is a step of the lease service.
LEMMA LeaseStep ==
    ASSUME BrokerInv, BrokerInv', [Next]_vars
    PROVE  [Lease!Next]_(Lease!vars)
<1>1. proc = "running" => RunningMap
  BY MappedUp DEF BrokerInv
<1>2. proc' = "running" => RunningMap'
  <2>1. (NetworkInv /\ proc = "running" => RunningMap)'
    BY MappedUp, PTL
  <2> QED
    BY <2>1 DEF BrokerInv
<1>3. /\ proc' \in {"exited", "killed"} => Lease!Empty("stopped")'
      /\ proc' \in {"failed", "crashed"} => Lease!Empty("failed")'
  <2>1. (/\ proc \in {"exited", "killed"} => Lease!Empty("stopped")
         /\ proc \in {"failed", "crashed"} => Lease!Empty("failed"))'
    BY MappedDown, PTL
  <2> QED
    BY <2>1
<1>4. CASE main
  <2>1. proc # "running" /\ proc' \in {"running", "failed"} /\ NetworkInit' /\ conn' = {}
    BY <1>4 DEF main, start_xpc_listener, NetworkInit
  <2>2. status # "up"
    BY <2>1 DEF BrokerInv, TypeOK, ProcState, status, Up
  <2>3. proc' = "running" => Lease!Empty("up")'
    <3>1. (NetworkInit /\ proc = "running" /\ conn = {} => Lease!Empty("up"))'
      BY MappedInit, PTL
    <3> QED
      BY <2>1, <3>1
  <2> QED
    BY <1>3, <2>1, <2>2, <2>3 DEF Lease!Next, Lease!Launch
<1>5. ASSUME NEW p \in Peer, handle_connection(p)
      PROVE  Lease!Next
  <2>1. proc = "running" /\ proc' = "running"
    BY <1>5 DEF handle_connection
  <2> QED
    BY <1>1, <1>2, <1>5, <2>1, ConnectionStep DEF Lease!Next
<1>6. ASSUME NEW p \in Peer, NEW req \in Request, NEW rep \in Reply, on_peer_request(p, req, rep)
      PROVE  [Lease!Next]_(Lease!vars)
  <2>1. proc = "running" /\ proc' = "running" /\ p \in conn /\ UNCHANGED brokerVars
    BY <1>6 DEF on_peer_request, brokerVars
  <2>2. CASE rep.error # VMNET_BROKER_SUCCESS
    <3>1. UNCHANGED networkVars
      BY <1>6, <2>2, RequestCases, AcquireErrorUnchanged DEF BrokerInv
    <3>2. UNCHANGED vars
      BY <2>1, <3>1 DEF vars
    <3> QED
      BY <3>2, StutterStep
  <2>3. CASE rep.error = VMNET_BROKER_SUCCESS
    <3>1. req.network_name \in Name /\ acquire_network(p, req.network_name, rep)
      BY <1>6, <2>3, RequestCases
    <3>2. Lease!Acquire(p, req.network_name)
      BY <1>1, <1>2, <2>1, <2>3, <3>1, GrantStep
    <3> QED
      BY <1>6, <3>1, <3>2 DEF Lease!Next
  <2> QED
    BY <2>2, <2>3
<1>7. ASSUME NEW p \in Peer, on_peer_disconnect(p)
      PROVE  Lease!Next
  <2>1. proc = "running" /\ proc' \in {"running", "crashed"}
    BY <1>7 DEF on_peer_disconnect, BrokerInv, NoAssertFails
  <2>2. CASE proc' = "running"
    BY <1>1, <1>2, <1>7, <2>1, <2>2, DisconnectStep DEF Lease!Next
  <2>3. CASE proc' = "crashed"
    BY <1>1, <1>3, <2>1, <2>3 DEF RunningMap, Lease!Next, Lease!Fail
  <2> QED
    BY <2>1, <2>2, <2>3
<1>8. ASSUME NEW o \in Net, on_network_idle(o)
      PROVE  Lease!Next
  <2>1. proc = "running" /\ proc' = "running"
    BY <1>8 DEF on_network_idle, brokerVars
  <2> QED
    BY <1>1, <1>2, <1>8, <2>1, NetworkIdleStep DEF Lease!Next
<1>9. CASE on_broker_idle \/ on_signal
  <2>1. conn = {} /\ proc = "running" /\ proc' = "exited"
    BY <1>9, ExitOnlyWithoutPeers DEF on_broker_idle, on_signal, orderly_exit
  <2> QED
    BY <1>1, <1>3, <2>1 DEF RunningMap, Lease!Next, Lease!Stop
<1>10. CASE \/ on_listener_error
            \/ \E p \in Peer, req \in Request : on_peer_request_crash(p, req)
  BY <1>1, <1>3, <1>10 DEF on_listener_error, on_peer_request_crash, RunningMap,
                           Lease!Next, Lease!Fail
<1>11. CASE launchd_reclaim
  <2>1. conn = {} /\ proc = "running" /\ proc' = "killed"
    BY <1>11 DEF launchd_reclaim, BrokerInv, TransactionIffPeers
  <2> QED
    BY <1>1, <1>3, <2>1 DEF RunningMap, Lease!Next, Lease!Stop
<1>12. CASE tick
  <2>1. proc = "running" /\ proc' = "running"
    BY <1>12 DEF tick
  <2> QED
    BY <1>1, <1>2, <1>12, <2>1, TickStep DEF Lease!Next
<1>13. CASE UNCHANGED vars
  BY <1>13, StutterStep
<1> QED
  BY <1>4, <1>5, <1>6, <1>7, <1>8, <1>9, <1>10, <1>11, <1>12, <1>13 DEF Next

\* The broker implements the lease service, for any number of peers, names and
\* addresses, any limit per peer and any timeout.
THEOREM BrokerImplementsLease == Spec => ImplementsLease
<1>1. Init => Lease!Init
  BY MappedInit DEF Init, Lease!Init
<1>2. BrokerInv /\ BrokerInv' /\ [Next]_vars => [Lease!Next]_(Lease!vars)
  BY LeaseStep
<1> QED
  BY <1>1, <1>2, BrokerInvariant, PTL DEF Spec, ImplementsLease, Lease!Spec
=============================================================================
