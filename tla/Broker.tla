------------------------------- MODULE Broker -------------------------------
(***************************************************************************)
(* The broker process: broker/broker.c and broker/xpc.c on top of the      *)
(* network registry, with launchd and the dispatch clock as environment.   *)
(*                                                                         *)
(* Every event - a new connection, a request, the end of a connection, a   *)
(* timer, a signal, a listener error - is delivered on the main queue, so  *)
(* each handler is one action.  What a dead process leaves in its memory   *)
(* stays visible until launchd starts the next one.                        *)
(***************************************************************************)
EXTENDS Network

VARIABLES
    proc,              \* the process: running, or how it ended
    conn,              \* peers whose connection has an event handler
    connected_peers,   \* the counter of the same name
    transactions,      \* open XPC transactions
    idle_timer,        \* the pointer idle_timer is not NULL
    idle_source        \* ticks until the broker's idle timer is due, or Off

brokerVars == <<proc, conn, connected_peers, transactions, idle_timer, idle_source>>

vars == <<networkVars, brokerVars>>

\* "failed" is an end by the listener, "crashed" one by a call of the system that
\* returned NULL, "aborted" one by an assertion about the broker's own state.
ProcState == {"running", "exited", "failed", "killed", "crashed", "aborted"}

\* main() up to dispatch_main(): nothing is acquired, no timer is armed.
Init ==
    /\ NetworkInit
    /\ proc = "running"
    /\ conn = {}
    /\ connected_peers = 0
    /\ transactions = 0
    /\ idle_timer = FALSE
    /\ idle_source = Off

\* The results that start_xpc_listener can return.
start_xpc_listener == {0, -1}

\* launchd starts the broker when a client looks up the Mach service.
main ==
    /\ proc # "running"
    /\ registry' = [n \in Name |-> NULL]
    /\ allocated' = {}
    /\ name' = [o \in Net |-> NULL]
    /\ peers' = [o \in Net |-> 0]
    /\ vmnet' = {}
    /\ idle_timers' = {}
    /\ source' = [o \in Net |-> Off]
    /\ networks' = [p \in Peer |-> <<>>]
    /\ \E result \in start_xpc_listener :
          proc' = IF result # 0 THEN "failed" ELSE "running"
    /\ conn' = {}
    /\ connected_peers' = 0
    /\ transactions' = 0
    /\ idle_timer' = FALSE
    /\ idle_source' = Off
-----------------------------------------------------------------------------
\* Variants of the next definition, and of others below, that differ from it by
\* a slip are used to show that the properties are sensitive to it.

\* Slip: the timer is forgotten and keeps running.
cancel_shutdown_forgetting == idle_timer' = FALSE /\ UNCHANGED idle_source

\* Slip: the timer is canceled, the pointer to it stays.
cancel_shutdown_keeping_pointer == idle_source' = Off /\ UNCHANGED idle_timer

\* The idle timer is canceled, if there is one.
cancel_shutdown ==
    /\ idle_timer' = FALSE
    /\ idle_source' = IF idle_timer THEN Off ELSE idle_source

\* Slip: every peer opens a transaction.
on_peer_connect_every_peer ==
    /\ connected_peers' = connected_peers + 1
    /\ transactions' = transactions + 1
    /\ cancel_shutdown

\* The first peer opens a transaction and cancels the idle shutdown.
on_peer_connect ==
    /\ connected_peers' = connected_peers + 1
    /\ IF connected_peers + 1 = 1
       THEN transactions' = transactions + 1 /\ cancel_shutdown
       ELSE UNCHANGED <<transactions, idle_timer, idle_source>>

\* The connection gets a context with an empty array.
init_context(p) == networks' = [networks EXCEPT ![p] = <<>>]

handle_connection(p) ==
    /\ proc = "running"
    /\ p \notin conn
    /\ conn' = conn \cup {p}
    /\ init_context(p)
    /\ on_peer_connect
    /\ UNCHANGED <<registry, objectVars, proc>>

\* A dictionary from a connected peer.  rep is the reply that is sent if the
\* request has a return address; the request is served either way.
on_peer_request(p, req, rep) ==
    /\ proc = "running"
    /\ p \in conn
    /\ \/ /\ req.command # "acquire" \/ req.network_name = NULL
          /\ rep = ErrorReply(VMNET_BROKER_INVALID_REQUEST)
          /\ UNCHANGED networkVars
       \/ /\ req.command = "acquire"
          /\ req.network_name # NULL
          /\ acquire_network(p, req.network_name, rep)
    /\ UNCHANGED brokerVars

\* A request whose name has no key: registry_get uses the NULL, and the process
\* ends whoever is connected.
on_peer_request_crash(p, req) ==
    /\ proc = "running"
    /\ p \in conn
    /\ req.command = "acquire"
    /\ req.network_name # NULL
    /\ registry_key(req.network_name) = NULL
    /\ proc' = "crashed"
    /\ UNCHANGED <<networkVars, conn, connected_peers, transactions, idle_timer, idle_source>>

\* Slip: nobody calls it.
shutdown_later_forgotten == UNCHANGED <<idle_timer, idle_source>>

\* Arms the idle timer of the broker.
shutdown_later ==
    /\ idle_timer' = TRUE
    /\ idle_source' = IdleTimeout

\* remove_later or shutdown_later creates a timer when p leaves.
needs_timer(p) == Emptied(p) # {} \/ connected_peers - 1 = 0

\* The connection of p is invalid: its last event.  When an assertion of
\* remove_later or shutdown_later fails - a timer runs already, or a new one
\* cannot be created - the process aborts, and what it leaves in its memory is
\* not looked at.
on_peer_disconnect(p) ==
    /\ proc = "running"
    /\ p \in conn
    /\ conn' = conn \ {p}
    /\ connected_peers' = connected_peers - 1
    /\ release_peer_networks(p)
    /\ IF connected_peers - 1 = 0
       THEN /\ transactions' = transactions - 1
            /\ shutdown_later
       ELSE UNCHANGED <<transactions, idle_timer, idle_source>>
    /\ IF /\ assert_no_idle_timer(p)
          /\ connected_peers - 1 = 0 => ~idle_timer
       THEN proc' \in {"running"} \cup (IF needs_timer(p) THEN {"crashed"} ELSE {})
       ELSE proc' = "aborted"
-----------------------------------------------------------------------------
\* The handler of a network's idle timer.
on_network_idle(o) ==
    /\ proc = "running"
    /\ network_idle_timeout(o)
    /\ UNCHANGED brokerVars

\* exit(EXIT_SUCCESS) after shutdown_networks().
orderly_exit ==
    /\ shutdown_networks
    /\ proc' = "exited"
    /\ UNCHANGED <<conn, connected_peers, transactions, idle_timer, idle_source>>

\* The handler of the broker's idle timer.
on_broker_idle ==
    /\ proc = "running"
    /\ idle_source = 0
    /\ orderly_exit

\* Slip: exits whoever is connected.
on_signal_unguarded ==
    /\ proc = "running"
    /\ orderly_exit

\* SIGINT or SIGTERM, ignored while peers are connected.
on_signal ==
    /\ proc = "running"
    /\ ~(connected_peers > 0)
    /\ orderly_exit

\* The error handler of the listener exits whoever is connected, and leaves the
\* networks to the system.
on_listener_error ==
    /\ proc = "running"
    /\ proc' = "failed"
    /\ UNCHANGED <<networkVars, conn, connected_peers, transactions, idle_timer, idle_source>>

\* launchd reclaims a service that has no open transaction (EnableTransactions
\* in com.github.nirs.vmnet-broker.plist), without a signal it could catch.
launchd_reclaim ==
    /\ proc = "running"
    /\ transactions = 0
    /\ proc' = "killed"
    /\ UNCHANGED <<networkVars, conn, connected_peers, transactions, idle_timer, idle_source>>

Ticked(t) == IF t > 0 THEN t - 1 ELSE t

\* Time passes for every armed timer.  A timer that is due may wait for the main
\* queue, while time passes for the others.
tick ==
    /\ proc = "running"
    /\ idle_source > 0 \/ \E o \in Net : source[o] > 0
    /\ idle_source' = Ticked(idle_source)
    /\ source' = [o \in Net |-> Ticked(source[o])]
    /\ UNCHANGED <<registry, allocated, name, peers, vmnet, idle_timers, networks,
                   proc, conn, connected_peers, transactions, idle_timer>>

Next ==
    \/ main
    \/ \E p \in Peer : handle_connection(p)
    \/ \E p \in Peer, req \in Request, rep \in Reply : on_peer_request(p, req, rep)
    \/ \E p \in Peer, req \in Request : on_peer_request_crash(p, req)
    \/ \E p \in Peer : on_peer_disconnect(p)
    \/ \E o \in Net : on_network_idle(o)
    \/ on_broker_idle
    \/ on_signal
    \/ on_listener_error
    \/ launchd_reclaim
    \/ tick

Spec == Init /\ [][Next]_vars

\* Dispatch delivers a timer that is due and not canceled, and time does not
\* stop.  Nothing forces a peer, a signal or launchd to do anything.
Fairness ==
    /\ WF_vars(tick)
    /\ WF_vars(on_broker_idle)
    /\ \A o \in Net : WF_vars(on_network_idle(o))

FairSpec == Spec /\ Fairness
-----------------------------------------------------------------------------
TypeOK ==
    /\ NetworkTypeOK
    /\ proc \in ProcState
    /\ conn \subseteq Peer
    /\ connected_peers \in Int
    /\ transactions \in Int
    /\ idle_timer \in BOOLEAN
    /\ idle_source \in Off .. IdleTimeout

\* The assertions of remove_later and shutdown_later that no timer runs never
\* fail, in any order of connections, requests, disconnections and timers.  (The
\* comments above the assertions claim that it is impossible.)
NoAssertFails == proc # "aborted"

\* launchd is told that the broker is in use exactly while a peer is connected:
\* one transaction, not one per peer, and none left behind.  (on_peer_connect,
\* on_peer_disconnect)
TransactionIffPeers == transactions = IF conn = {} THEN 0 ELSE 1

\* Neither its idle timer, nor a signal, nor launchd ends the broker while a peer
\* is connected; that is left to failures.  And when it exits by itself every
\* network was deleted first.  (shutdown_later, setup_signal_handlers)
NeverEndsWithPeers ==
    /\ proc \in {"exited", "killed"} => conn = {}
    /\ proc = "exited" => allocated = {} /\ vmnet = {}

\* A peer that is gone holds nothing.  (on_peer_disconnect calls
\* release_peer_networks)
OnlyConnectedPeersHold == \A p \in Peer \ conn : networks[p] = <<>>

\* The counter is the number of connections.  (on_peer_connect,
\* on_peer_disconnect: "signed int to make it easy to detect incorrect counting")
PeersCounted == connected_peers = Cardinality(conn)

\* The idle shutdown is scheduled only while no peer is connected, and it can be
\* canceled as long as it is scheduled.  (shutdown_later, on_peer_connect)
ShutdownOnlyIfIdle ==
    /\ idle_timer => conn = {}
    /\ idle_source # Off <=> idle_timer

\* The inductive invariant of the broker.
BrokerInv ==
    /\ TypeOK
    /\ NetworkInv
    /\ NoAssertFails
    /\ PeersCounted
    /\ TransactionIffPeers
    /\ ShutdownOnlyIfIdle
    /\ OnlyConnectedPeersHold
    /\ NeverEndsWithPeers

\* A request that is answered with an error has no effect at all: no network,
\* reference, count or timer remains of an attempt that failed half-way.
FailedRequestHasNoEffect ==
    [][\A p \in Peer, req \in Request, rep \in Reply :
         on_peer_request(p, req, rep) /\ rep.error # VMNET_BROKER_SUCCESS
         => UNCHANGED vars]_vars

\* A network that is sent to a peer is the one registered under the name that
\* was asked for, the peer holds it, and its removal is no longer scheduled.
\* (acquire_network)
GrantIsHeld ==
    [][\A p \in Peer, req \in Request, rep \in Reply :
         on_peer_request(p, req, rep) /\ rep.error = VMNET_BROKER_SUCCESS
         => /\ rep.network = registry'[req.network_name]
            /\ p \in Holders(rep.network)'
            /\ source'[rep.network] = Off]_vars

\* As long as a peer stays connected and the process runs, a name that the peer
\* acquired keeps meaning the same network, and the network stays: neither the
\* timers nor the requests and disconnections of others take it away.
LeaseKept ==
    [][\A n \in Name : \A p \in conn \cap conn' :
         /\ registry[n] # NULL
         /\ p \in Holders(registry[n])
         /\ proc' = "running"
         => /\ registry'[n] = registry[n]
            /\ registry[n] \in allocated' \cap vmnet'
            /\ p \in Holders(registry[n])']_vars

\* A network without peers is deleted, unless a peer acquires it again or the
\* process ends.  (remove_later)
IdleNetworkRemoved ==
    \A n \in Name :
        registry[n] # NULL
        ~> \/ registry[n] = NULL
           \/ Holders(registry[n]) # {}
           \/ proc # "running"

\* A broker that had a peer ends, unless peers keep coming: when the last one has
\* left and none returns it does not stay for ever.  (on_peer_disconnect calls
\* shutdown_later)
AbandonedBrokerExits == []<>(conn # {}) \/ (conn # {} ~> proc # "running")
=============================================================================
