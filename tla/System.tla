------------------------------- MODULE System -------------------------------
(***************************************************************************)
(* The whole service: client processes with the client library, XPC, and   *)
(* the broker.                                                             *)
(*                                                                         *)
(* XPC delivers the events of a connection to the broker's main queue: the *)
(* connection itself with its first message, its requests, and last that   *)
(* it is invalid, after its process ended.  A thread has one request on    *)
(* the way at most, so the requests a connection carries are the threads   *)
(* with via[t] = k; those of different threads are not ordered.            *)
(***************************************************************************)
EXTENDS Broker, ClientLib

VARIABLE
    stale       \* history: the networks of each process whose broker ended

sysVars == <<vars, clientVars, stale>>

SysInit ==
    /\ Init
    /\ ClientInit
    /\ stale = [c \in Client |-> {}]

InFlight(k) == {t \in Thread : via[t] = k}

\* The requests on the connections K are lost, and threads that still wait for
\* an answer get an error.
Lose(K) ==
    /\ via' = [t \in Thread |-> IF via[t] \in K THEN NULL ELSE via[t]]
    /\ reply' = [t \in Thread |->
          IF via[t] \in K /\ process[t] \in alive THEN XpcError ELSE reply[t]]
    /\ UNCHANGED <<alive, connection, resumed, pc, asked, granted>>

\* The networks that process c was given, each with its name, whether or not
\* the process knows it yet.
Leases(c) ==
    granted[c] \cup
    {<<asked[t], reply[t].body.network>> :
        t \in {u \in Thread : /\ process[u] = c
                             /\ reply[u] # NULL
                             /\ reply[u].body.network # NULL}}

\* Those that the broker which gave them still keeps.
Valid(c) == Leases(c) \ stale[c]
-----------------------------------------------------------------------------
client_step == ClientNext /\ UNCHANGED <<vars, stale>>

\* A new process can use the name of c when nothing of the old one is left.
client_start(c) ==
    /\ proc = "running" => \A k \in conn : process[k] # c
    /\ start(c)
    /\ stale' = [stale EXCEPT ![c] = {}]
    /\ UNCHANGED vars

\* launchd starts the broker for a message to its service.
launch ==
    /\ \E t \in Thread : via[t] \in resumed
    /\ main
    /\ UNCHANGED <<clientVars, stale>>

connection_event(k) ==
    /\ k \in resumed
    /\ InFlight(k) # {}
    /\ handle_connection(k)
    /\ UNCHANGED <<clientVars, stale>>

\* Slip: send_xpc_error builds the reply and does not send it.
send_reply_success_only(t, rep) ==
    reply' = IF process[t] \in alive /\ rep.error = VMNET_BROKER_SUCCESS
             THEN [reply EXCEPT ![t] = XpcDictionary(rep)] ELSE reply

\* send_xpc_error and send_xpc_network: a reply to a dead process is dropped.
send_reply(t, rep) ==
    reply' = IF process[t] \in alive
             THEN [reply EXCEPT ![t] = XpcDictionary(rep)] ELSE reply

request_event(t) ==
    /\ via[t] # NULL
    /\ \E rep \in Reply :
          /\ on_peer_request(via[t], AcquireRequest(asked[t]), rep)
          /\ send_reply(t, rep)
          /\ stale' = [stale EXCEPT ![process[t]] = @ \ {<<asked[t], rep.network>>}]
    /\ via' = [via EXCEPT ![t] = NULL]
    /\ UNCHANGED <<alive, connection, resumed, pc, asked, granted>>

\* What the clients see when the broker process ends.
broker_ended ==
    /\ Lose(conn)
    /\ stale' = [c \in Client |-> stale[c] \cup Leases(c)]

\* A request that ends the broker.
crash_event(t) ==
    /\ via[t] # NULL
    /\ on_peer_request_crash(via[t], AcquireRequest(asked[t]))
    /\ broker_ended

\* The connection of a process that ended is invalid; what it still carried is
\* not delivered.
invalid_event(k) ==
    /\ process[k] \notin alive
    /\ on_peer_disconnect(k)
    /\ IF proc' = "running" THEN Lose({k}) /\ UNCHANGED stale ELSE broker_ended

timer_event ==
    /\ tick \/ \E o \in Net : on_network_idle(o)
    /\ UNCHANGED <<clientVars, stale>>

end_event ==
    /\ on_broker_idle \/ on_signal \/ on_listener_error \/ launchd_reclaim
    /\ broker_ended

\* A connection that the broker has not seen goes away with its process.
drop(k) ==
    /\ process[k] \notin alive
    /\ InFlight(k) # {}
    /\ proc = "running" => k \notin conn
    /\ Lose({k})
    /\ UNCHANGED <<vars, stale>>

\* XPC gives up on a message when the broker is not there to receive it: it
\* ended with the message in its queue, or it cannot be started.
unreachable(t) ==
    /\ proc # "running"
    /\ via[t] \in resumed
    /\ process[t] \in alive
    /\ via' = [via EXCEPT ![t] = NULL]
    /\ reply' = [reply EXCEPT ![t] = XpcError]
    /\ UNCHANGED <<alive, connection, resumed, pc, asked, granted, vars, stale>>

SysNext ==
    \/ client_step
    \/ \E c \in Client : client_start(c)
    \/ launch
    \/ \E k \in Peer : connection_event(k) \/ invalid_event(k) \/ drop(k)
    \/ \E t \in Thread : request_event(t) \/ crash_event(t) \/ unreachable(t)
    \/ timer_event
    \/ end_event

SysSpec == SysInit /\ [][SysNext]_sysVars

\* The library's own steps: the thread is scheduled.
thread_step(t) ==
    /\ connect_to_broker(t) \/ resume(t) \/ xpc_misuse(t) \/ send_message(t) \/ return(t)
    /\ UNCHANGED <<vars, stale>>

\* What becomes of a message: the broker gets it, or the sender is told.
transport(t) ==
    \/ \E k \in Peer : via[t] = k /\ connection_event(k)
    \/ request_event(t)
    \/ crash_event(t)
    \/ unreachable(t)

\* Threads run, XPC delivers messages and the end of connections, and the timers
\* are as in Broker.  No process has to call, to end or to start.
SysFairness ==
    /\ \A t \in Thread : WF_sysVars(thread_step(t)) /\ WF_sysVars(transport(t))
    /\ \A k \in Peer : WF_sysVars(invalid_event(k))
    /\ WF_sysVars(tick /\ UNCHANGED <<clientVars, stale>>)
    /\ \A o \in Net : WF_sysVars(on_network_idle(o) /\ UNCHANGED <<clientVars, stale>>)

SysFairSpec == SysSpec /\ SysFairness
-----------------------------------------------------------------------------
SysTypeOK ==
    /\ TypeOK
    /\ ClientTypeOK
    /\ stale \in [Client -> SUBSET (Name \X Net)]

\* A network that process c got under the name n is still the one of that name,
\* and a connection of c keeps it.
Honoured(c, n, o) ==
    /\ proc = "running"
    /\ registry[n] = o
    /\ \E k \in Holders(o) : process[k] = c

\* What a process was given it has, from the moment the broker sends the reply,
\* through threads that race for the first connection and requests of others,
\* until the process or the broker ends; and again what it gets from the next
\* broker.  So processes that asked for the same name share one network.
LeaseHonoured ==
    \A c \in alive : \A g \in Valid(c) : Honoured(c, g[1], g[2])

\* The inductive invariant of the service.
SysInv ==
    /\ BrokerInv
    /\ ClientInv
    /\ stale \in [Client -> SUBSET (Name \X Net)]
    /\ LeaseHonoured

\* A process that has a network loses it only when the broker fails: by its
\* listener, by a request for a name that is not UTF-8, or by a timer that cannot
\* be created for somebody who leaves.  The idle timer, signals and launchd end
\* the broker only when nobody uses it.
LeaseLostOnlyByFailure ==
    [][\/ \A c \in Client : stale'[c] \subseteq stale[c]
       \/ proc' = "failed"
       \/ /\ proc' = "crashed"
          /\ \/ \E t \in Thread : via[t] \in conn /\ asked[t] \notin Utf8Name
             \/ \E k \in conn : process[k] \notin alive]_sysVars

\* What a running broker answers to a peer that asks again for a network it holds
\* is this network, also when the peer has as many as it may have.
\* (update_peer_ownership)
HeldIsGrantedAgain ==
    [][\A t \in Thread :
         /\ reply[t] = NULL /\ reply'[t] # NULL
         /\ proc' = "running"
         /\ registry[asked[t]] # NULL
         /\ via[t] \in Holders(registry[asked[t]])
         => reply'[t] = XpcDictionary(NetworkReply(registry[asked[t]]))]_sysVars

\* Every call returns, or its process ends.  (The wait of
\* xpc_connection_send_message_with_reply_sync has no timeout.)
CallReturns == \A t \in Thread : pc[t] = "wait" ~> pc[t] # "wait"

\* The networks of processes that ended are deleted, unless a running process
\* uses them or asks for them, or the broker ends: a client that crashes leaks
\* nothing.
DeadClientsNetworkRemoved ==
    \A n \in Name :
        registry[n] # NULL
        ~> \/ registry[n] = NULL
           \/ proc # "running"
           \/ \E k \in Holders(registry[n]) : process[k] \in alive
           \/ \E t \in Thread : pc[t] # "idle" /\ asked[t] = n
=============================================================================
