---------------------------- MODULE SystemProofs ----------------------------
(***************************************************************************)
(* The safety of the whole service, for any number of processes, threads   *)
(* and networks.  The broker's part is that of BrokerProofs: every step of *)
(* the service is a step of the broker, or leaves it alone.                *)
(***************************************************************************)
EXTENDS SystemLease, BrokerLeaseProofs

\* What the two kinds of XPC object are made of.
LEMMA XpcFacts ==
    /\ XpcError \in XpcObject /\ XpcError # NULL /\ XpcError.body.network = NULL
    /\ \A rep \in Reply : /\ XpcDictionary(rep) \in XpcObject
                          /\ XpcDictionary(rep) # NULL
                          /\ XpcDictionary(rep).body = rep
BY ClientAssumption
   DEF XpcError, XpcDictionary, XpcObject, ErrorReply, Reply, Status, VMNET_BROKER_SUCCESS,
       VMNET_BROKER_INTERNAL_ERROR

\* The library begins in its invariant: nobody has called yet.
LEMMA ClientInitInv == ClientInit => ClientInv
<1> SUFFICES ASSUME ClientInit PROVE ClientInv
  OBVIOUS
<1>1. ClientTypeOK
  BY DEF ClientInit, ClientTypeOK
<1>2. NoCallForgotten /\ OwnConnections /\ EndedIsQuiet /\ NoNetworkLost
  BY DEF ClientInit, NoCallForgotten, OwnConnections, EndedIsQuiet, NoNetworkLost
<1> QED
  BY <1>1, <1>2 DEF ClientInv

\* The end of a process silences its threads.
LEMMA TerminateInv ==
    ASSUME ClientInv, NEW c \in Client, terminate(c)
    PROVE  ClientInv'
<1> USE ClientAssumption DEF Thread
<1>1. ClientTypeOK'
  BY DEF ClientInv, ClientTypeOK, terminate
<1>2. NoCallForgotten'
  BY DEF ClientInv, ClientTypeOK, NoCallForgotten, terminate
<1>3. OwnConnections'
  BY DEF ClientInv, ClientTypeOK, OwnConnections, terminate
<1>4. EndedIsQuiet'
  BY DEF ClientInv, ClientTypeOK, EndedIsQuiet, terminate
<1>5. NoNetworkLost'
  BY DEF ClientInv, NoNetworkLost, terminate
<1> QED
  BY <1>1, <1>2, <1>3, <1>4, <1>5 DEF ClientInv

\* The steps of a call before it waits.
LEMMA CallingInv ==
    ASSUME ClientInv, NEW t \in Thread,
           \/ \E n \in Name : call(t, n)
           \/ connect_to_broker(t)
           \/ resume(t)
           \/ send_message(t)
    PROVE  ClientInv'
<1> USE ClientAssumption DEF Thread
<1>1. CASE \E n \in Name : call(t, n)
  <2> PICK n \in Name : call(t, n)
    BY <1>1
  <2>1. ClientTypeOK'
    BY DEF ClientInv, ClientTypeOK, call
  <2>2. NoCallForgotten'
    BY DEF ClientInv, ClientTypeOK, NoCallForgotten, call
  <2>3. OwnConnections' /\ EndedIsQuiet'
    BY DEF ClientInv, ClientTypeOK, OwnConnections, EndedIsQuiet, call
  <2>4. NoNetworkLost'
    BY DEF ClientInv, NoNetworkLost, call
  <2> QED
    BY <2>1, <2>2, <2>3, <2>4 DEF ClientInv
<1>2. CASE connect_to_broker(t)
  <2>1. ClientTypeOK'
    BY <1>2 DEF ClientInv, ClientTypeOK, connect_to_broker
  <2>2. NoCallForgotten'
    BY <1>2 DEF ClientInv, ClientTypeOK, NoCallForgotten, connect_to_broker
  <2>3. OwnConnections' /\ EndedIsQuiet'
    BY <1>2 DEF ClientInv, ClientTypeOK, OwnConnections, EndedIsQuiet, connect_to_broker
  <2>4. NoNetworkLost'
    BY <1>2 DEF ClientInv, NoNetworkLost, connect_to_broker
  <2> QED
    BY <2>1, <2>2, <2>3, <2>4 DEF ClientInv
<1>3. CASE resume(t)
  <2>1. ClientTypeOK'
    BY <1>3 DEF ClientInv, ClientTypeOK, OwnConnections, resume
  <2>2. NoCallForgotten'
    BY <1>3 DEF ClientInv, ClientTypeOK, NoCallForgotten, resume
  <2>3. OwnConnections' /\ EndedIsQuiet'
    BY <1>3 DEF ClientInv, ClientTypeOK, OwnConnections, EndedIsQuiet, resume
  <2>4. NoNetworkLost'
    BY <1>3 DEF ClientInv, NoNetworkLost, resume
  <2> QED
    BY <2>1, <2>2, <2>3, <2>4 DEF ClientInv
<1>4. CASE send_message(t)
  <2>1. ClientTypeOK'
    BY <1>4 DEF ClientInv, ClientTypeOK, send_message
  <2>2. NoCallForgotten'
    BY <1>4 DEF ClientInv, ClientTypeOK, NoCallForgotten, OwnConnections, send_message
  <2>3. OwnConnections' /\ EndedIsQuiet'
    BY <1>4 DEF ClientInv, ClientTypeOK, OwnConnections, EndedIsQuiet, send_message
  <2>4. NoNetworkLost'
    BY <1>4 DEF ClientInv, NoNetworkLost, send_message
  <2> QED
    BY <2>1, <2>2, <2>3, <2>4 DEF ClientInv
<1> QED
  BY <1>1, <1>2, <1>3, <1>4

\* A call that succeeds gives its process the network of the reply.
LEMMA DecodeSuccess ==
    ASSUME NEW r \in XpcObject, decode(r) = VMNET_BROKER_SUCCESS
    PROVE  r.body.network \in Net
BY DEF decode, XpcObject, Reply, VMNET_BROKER_SUCCESS, VMNET_BROKER_XPC_FAILURE,
       VMNET_BROKER_INVALID_REPLY

\* A call that returns keeps the library's invariant: what it hands out was in
\* its reply.
LEMMA ReturnInv ==
    ASSUME ClientInv, NEW t \in Thread, return(t)
    PROVE  ClientInv'
<1> USE ClientAssumption DEF Thread
<1>1. /\ reply[t] \in XpcObject /\ asked[t] \in Name /\ process[t] \in alive
  BY DEF ClientInv, ClientTypeOK, EndedIsQuiet, return
<1>2. granted' \in [Client -> SUBSET (Name \X Net)]
  BY <1>1, DecodeSuccess DEF ClientInv, ClientTypeOK, return
<1>3. ClientTypeOK'
  BY <1>2 DEF ClientInv, ClientTypeOK, return
<1>4. NoCallForgotten'
  BY DEF ClientInv, ClientTypeOK, NoCallForgotten, return
<1>5. OwnConnections' /\ EndedIsQuiet'
  <2>1. via[t] = NULL
    BY <1>1 DEF ClientInv, NoCallForgotten, return
  <2> QED
    BY <1>1, <2>1 DEF ClientInv, ClientTypeOK, OwnConnections, EndedIsQuiet, return
<1>6. NoNetworkLost'
  BY DEF ClientInv, ClientTypeOK, NoNetworkLost, return
<1> QED
  BY <1>3, <1>4, <1>5, <1>6 DEF ClientInv

\* Every step of a client process keeps the library's invariant.
LEMMA ClientNextInv ==
    ASSUME ClientInv, ClientNext
    PROVE  ClientInv'
<1>1. ASSUME NEW t \in Thread, xpc_misuse(t)
      PROVE  ClientInv'
  BY <1>1, TerminateInv, ClientAssumption DEF xpc_misuse, Thread
<1> QED
  BY <1>1, TerminateInv, CallingInv, ReturnInv DEF ClientNext

\* Requests that are lost are answered with an error.
LEMMA LoseInv ==
    ASSUME ClientInv, NEW K \in SUBSET Peer, Lose(K)
    PROVE  ClientInv'
<1> USE ClientAssumption, XpcFacts DEF Thread
<1>1. ClientTypeOK'
  BY DEF ClientInv, ClientTypeOK, Lose
<1>2. NoCallForgotten'
  BY DEF ClientInv, ClientTypeOK, NoCallForgotten, Lose
<1>3. OwnConnections' /\ EndedIsQuiet'
  BY DEF ClientInv, ClientTypeOK, OwnConnections, EndedIsQuiet, Lose
<1>4. NoNetworkLost'
  BY DEF ClientInv, NoNetworkLost, Lose
<1> QED
  BY <1>1, <1>2, <1>3, <1>4 DEF ClientInv

\* Every step of the service is a step of the broker, and takes a connection
\* away from a process that ended only.
LEMMA BrokerStep ==
    ASSUME SysInv, SysNext
    PROVE  /\ [Next]_vars
           /\ proc = "running" => \A k \in conn \ conn' : process[k] \notin alive
<1> USE ClientAssumption DEF Thread
<1>1. CASE client_step \/ (\E c \in Client : client_start(c)) \/ (\E k \in Peer : drop(k))
           \/ (\E t \in Thread : unreachable(t))
  <2>1. UNCHANGED vars
    BY <1>1 DEF client_step, client_start, drop, unreachable
  <2> QED
    BY <2>1 DEF vars, brokerVars
<1>2. CASE launch
  BY <1>2 DEF launch, main, Next
<1>3. ASSUME NEW k \in Peer, connection_event(k)
      PROVE  [Next]_vars /\ conn \subseteq conn'
  BY <1>3 DEF connection_event, handle_connection, Next
<1>4. ASSUME NEW k \in Peer, invalid_event(k)
      PROVE  [Next]_vars /\ \A j \in conn \ conn' : process[j] \notin alive
  BY <1>4 DEF invalid_event, on_peer_disconnect, Next
<1>5. ASSUME NEW t \in Thread, request_event(t)
      PROVE  [Next]_vars /\ conn' = conn
  <2>1. via[t] \in Peer /\ asked[t] \in Name
    BY <1>5 DEF request_event, SysInv, ClientInv, ClientTypeOK, EndedIsQuiet
  <2>2. AcquireRequest(asked[t]) \in Request
    BY <2>1 DEF AcquireRequest, Request
  <2>3. PICK rep \in Reply : on_peer_request(via[t], AcquireRequest(asked[t]), rep)
    BY <1>5 DEF request_event
  <2>4. conn' = conn
    BY <2>3 DEF on_peer_request, brokerVars
  <2> QED
    BY <2>1, <2>2, <2>3, <2>4 DEF Next
<1>6. CASE timer_event
  BY <1>6 DEF timer_event, tick, on_network_idle, brokerVars, Next
<1>7. CASE end_event
  BY <1>7 DEF end_event, on_broker_idle, on_signal, orderly_exit, on_listener_error,
              launchd_reclaim, Next
<1>8. ASSUME NEW t \in Thread, crash_event(t)
      PROVE  [Next]_vars /\ conn' = conn
  <2>1. via[t] \in Peer /\ asked[t] \in Name
    BY <1>8 DEF crash_event, SysInv, ClientInv, ClientTypeOK, EndedIsQuiet
  <2>2. AcquireRequest(asked[t]) \in Request
    BY <2>1 DEF AcquireRequest, Request
  <2> QED
    BY <1>8, <2>1, <2>2 DEF crash_event, on_peer_request_crash, Next
<1> QED
  BY <1>1, <1>2, <1>3, <1>4, <1>5, <1>6, <1>7, <1>8 DEF SysNext

\* An error comes without a network.
LEMMA ErrorHasNoNetwork ==
    ASSUME NEW p \in Peer, NEW req \in Request, NEW rep \in Reply,
           on_peer_request(p, req, rep), rep.network # NULL
    PROVE  rep.error = VMNET_BROKER_SUCCESS
<1>1. \A e : ErrorReply(e).network = NULL
  BY DEF ErrorReply
<1>2. \A o : NetworkReply(o).error = VMNET_BROKER_SUCCESS
  BY DEF NetworkReply
<1>3. CASE acquire_network(p, req.network_name, rep)
  BY <1>1, <1>2, <1>3 DEF acquire_network, acquire_registered_network, acquire_new_network,
     acquire_too_many, acquire_bad_configuration, acquire_create_failure
<1> QED
  BY <1>1, <1>3 DEF on_peer_request

\* So the client takes every network that comes in an answer.
LEMMA DecodeNetwork ==
    ASSUME NEW rep \in Reply, rep.network # NULL => rep.error = VMNET_BROKER_SUCCESS,
           rep.network # NULL
    PROVE  decode(XpcDictionary(rep)) = VMNET_BROKER_SUCCESS
BY DEF decode, XpcDictionary, Reply, VMNET_BROKER_SUCCESS

\* The steps of XPC keep the invariant of the clients.
LEMMA TransportInv ==
    ASSUME SysInv, SysNext
    PROVE  ClientInv'
<1> USE ClientAssumption, XpcFacts DEF Thread
<1>0. ClientInv /\ conn \subseteq Peer
  BY DEF SysInv, BrokerInv, TypeOK
<1>1. CASE client_step
  BY <1>0, <1>1, ClientNextInv DEF client_step
<1>2. ASSUME NEW c \in Client, client_start(c)
      PROVE  ClientInv'
  <2>1. start(c)
    BY <1>2 DEF client_start
  <2>2. ClientTypeOK'
    BY <1>0, <2>1 DEF ClientInv, ClientTypeOK, start
  <2>3. NoCallForgotten'
    BY <1>0, <2>1 DEF ClientInv, ClientTypeOK, NoCallForgotten, EndedIsQuiet, start
  <2>4. OwnConnections' /\ EndedIsQuiet'
    BY <1>0, <2>1 DEF ClientInv, ClientTypeOK, OwnConnections, EndedIsQuiet, start
  <2>5. NoNetworkLost'
    BY <1>0, <2>1 DEF ClientInv, NoNetworkLost, start
  <2> QED
    BY <2>2, <2>3, <2>4, <2>5 DEF ClientInv
<1>3. CASE UNCHANGED clientVars
  BY <1>0, <1>3 DEF clientVars, ClientInv, ClientTypeOK, NoCallForgotten, OwnConnections,
                    EndedIsQuiet, NoNetworkLost
<1>4. CASE \E K \in SUBSET Peer : Lose(K)
  BY <1>0, <1>4, LoseInv
<1>5. ASSUME NEW t \in Thread, request_event(t)
      PROVE  ClientInv'
  <2>1. PICK rep \in Reply : on_peer_request(via[t], AcquireRequest(asked[t]), rep) /\ send_reply(t, rep)
    BY <1>5 DEF request_event
  <2>2. ClientTypeOK'
    BY <1>0, <1>5, <2>1 DEF ClientInv, ClientTypeOK, request_event, send_reply
  <2>3. NoCallForgotten'
    BY <1>0, <1>5, <2>1 DEF ClientInv, ClientTypeOK, NoCallForgotten, request_event, send_reply
  <2>4. OwnConnections' /\ EndedIsQuiet'
    BY <1>0, <1>5 DEF ClientInv, ClientTypeOK, OwnConnections, EndedIsQuiet, request_event
  <2>5. NoNetworkLost'
    <3>1. via[t] \in Peer /\ AcquireRequest(asked[t]) \in Request
      BY <1>0, <1>5 DEF request_event, ClientInv, ClientTypeOK, EndedIsQuiet, AcquireRequest,
                        Request
    <3>2. rep.network # NULL => rep.error = VMNET_BROKER_SUCCESS
      BY <2>1, <3>1, ErrorHasNoNetwork
    <3>3. rep.network # NULL => decode(XpcDictionary(rep)) = VMNET_BROKER_SUCCESS
      BY <3>2, DecodeNetwork
    <3>4. reply' = reply \/ reply' = [reply EXCEPT ![t] = XpcDictionary(rep)]
      BY <2>1 DEF send_reply
    <3> QED
      BY <1>0, <3>3, <3>4 DEF ClientInv, ClientTypeOK, NoNetworkLost
  <2> QED
    BY <2>2, <2>3, <2>4, <2>5 DEF ClientInv
<1>6. ASSUME NEW t \in Thread, unreachable(t)
      PROVE  ClientInv'
  <2>1. ClientTypeOK'
    BY <1>0, <1>6 DEF ClientInv, ClientTypeOK, unreachable
  <2>2. NoCallForgotten'
    BY <1>0, <1>6 DEF ClientInv, ClientTypeOK, NoCallForgotten, unreachable
  <2>3. OwnConnections' /\ EndedIsQuiet'
    BY <1>0, <1>6 DEF ClientInv, ClientTypeOK, OwnConnections, EndedIsQuiet, unreachable
  <2>4. NoNetworkLost'
    BY <1>0, <1>6 DEF ClientInv, ClientTypeOK, NoNetworkLost, unreachable
  <2> QED
    BY <2>1, <2>2, <2>3, <2>4 DEF ClientInv
<1>7. launch \/ timer_event \/ (\E k \in Peer : connection_event(k)) => UNCHANGED clientVars
  BY DEF launch, timer_event, connection_event
<1>8. ASSUME \/ \E k \in Peer : invalid_event(k) \/ drop(k)
             \/ (\E t \in Thread : crash_event(t)) \/ end_event
      PROVE  \E K \in SUBSET Peer : Lose(K)
  BY <1>0, <1>8 DEF invalid_event, drop, crash_event, end_event, broker_ended
<1> QED
  BY <1>1, <1>2, <1>3, <1>4, <1>5, <1>6, <1>7, <1>8 DEF SysNext

\* A lease is on a name and an object.
LEMMA LeasesType ==
    ASSUME ClientInv, NEW c \in Client
    PROVE  /\ Leases(c) \subseteq Name \X Net
           /\ c \notin alive => Leases(c) = {}
<1> USE ClientAssumption DEF Thread
<1>1. \A t \in Thread : reply[t] # NULL =>
         /\ reply[t] \in XpcObject
         /\ asked[t] \in Name
         /\ process[t] \in alive
  BY DEF ClientInv, ClientTypeOK, NoCallForgotten, EndedIsQuiet
<1>2. \A t \in Thread : reply[t] # NULL => reply[t].body.network \in Net \cup {NULL}
  BY <1>1 DEF XpcObject, Reply
<1>3. granted[c] \subseteq Name \X Net /\ (c \notin alive => granted[c] = {})
  BY DEF ClientInv, ClientTypeOK, EndedIsQuiet
<1> QED
  BY <1>1, <1>2, <1>3 DEF Leases

\* What is lost on the way was no lease: a thread whose request is on its way has
\* no answer.
LEMMA LoseLeases ==
    ASSUME ClientInv, NEW K \in SUBSET Peer, Lose(K), NEW c \in Client
    PROVE  Leases(c)' = Leases(c)
<1> USE ClientAssumption, XpcFacts DEF Thread
<1>1. granted' = granted /\ asked' = asked
  BY DEF Lose
<1>2. \A t \in Thread : \/ reply'[t] = reply[t]
                        \/ reply'[t] = XpcError /\ reply[t] = NULL
  BY DEF Lose, ClientInv, ClientTypeOK, NoCallForgotten
<1> QED
  BY <1>1, <1>2 DEF Leases

\* A message that XPC gives up on gives nobody a network.
LEMMA UnreachableLeases ==
    ASSUME ClientInv, NEW t \in Thread, unreachable(t), NEW c \in Client
    PROVE  Leases(c)' = Leases(c)
<1> USE ClientAssumption, XpcFacts DEF Thread
<1>1. granted' = granted /\ asked' = asked /\ reply' = [reply EXCEPT ![t] = XpcError]
  BY DEF unreachable
<1>2. reply[t] = NULL /\ reply \in [Thread -> XpcObject \cup {NULL}]
  BY DEF unreachable, ClientInv, ClientTypeOK, NoCallForgotten
<1> QED
  BY <1>1, <1>2 DEF Leases

\* Leases depend on what was granted and on the replies only.
LEMMA SameLeases ==
    ASSUME granted' = granted, reply' = reply, asked' = asked
    PROVE  \A c : Leases(c)' = Leases(c)
BY DEF Leases

\* The end of a process takes its leases and no other's.
LEMMA TerminateLeases ==
    ASSUME ClientInv, NEW d \in Client, terminate(d), NEW c \in Client
    PROVE  Leases(c)' = IF c = d THEN {} ELSE Leases(c)
<1> USE ClientAssumption DEF Thread
<1>1. /\ granted'[c] = IF c = d THEN {} ELSE granted[c]
      /\ \A t \in Thread : process[t] = d => reply'[t] = NULL
      /\ \A t \in Thread : process[t] # d => asked'[t] = asked[t] /\ reply'[t] = reply[t]
  BY DEF terminate, ClientInv, ClientTypeOK
<1>2. CASE c = d
  BY <1>1, <1>2 DEF Leases
<1>3. CASE c # d
  BY <1>1, <1>3 DEF Leases
<1> QED
  BY <1>2, <1>3

\* A call that returns keeps what came in its answer, and nothing else.
LEMMA ReturnLeases ==
    ASSUME ClientInv, NEW t \in Thread, return(t), NEW c \in Client
    PROVE  Leases(c)' = Leases(c)
<1> USE ClientAssumption DEF Thread
<1>1. /\ \A u \in Thread : u # t => asked'[u] = asked[u]
      /\ reply' = [reply EXCEPT ![t] = NULL]
      /\ reply[t] # NULL /\ reply[t] \in XpcObject
      /\ reply \in [Thread -> XpcObject \cup {NULL}]
      /\ granted \in [Client -> SUBSET (Name \X Net)]
  BY DEF return, ClientInv, ClientTypeOK
<1>2. CASE decode(reply[t]) = VMNET_BROKER_SUCCESS
  <2>1. reply[t].body.network # NULL
    BY <1>1, <1>2, DecodeSuccess, NullAssumption
  <2>2. granted' = [granted EXCEPT ![process[t]] =
                      @ \cup {<<asked[t], reply[t].body.network>>}]
    BY <1>2 DEF return
  <2>3. CASE c = process[t]
    <3>1. granted'[c] = granted[c] \cup {<<asked[t], reply[t].body.network>>}
      BY <1>1, <2>2, <2>3
    <3> QED
      BY <1>1, <2>1, <2>3, <3>1 DEF Leases
  <2>4. CASE c # process[t]
    <3>1. granted'[c] = granted[c]
      BY <1>1, <2>2, <2>4
    <3> QED
      BY <1>1, <2>4, <3>1 DEF Leases
  <2> QED
    BY <2>3, <2>4
<1>3. CASE decode(reply[t]) # VMNET_BROKER_SUCCESS
  <2>1. reply[t].body.network = NULL
    BY <1>1, <1>3 DEF ClientInv, NoNetworkLost
  <2>2. granted' = granted
    BY <1>3 DEF return
  <2> QED
    BY <1>1, <2>1, <2>2 DEF Leases
<1> QED
  BY <1>2, <1>3

\* A client's own steps take no lease and give none, except that the end of a
\* process takes its own.
LEMMA ClientLeases ==
    ASSUME ClientInv, ClientNext
    PROVE  \/ \E d \in Client : terminate(d)
           \/ alive' = alive /\ \A c \in Client : Leases(c)' = Leases(c)
<1> USE ClientAssumption DEF Thread
<1>1. ASSUME NEW t \in Thread, NEW n \in Name, call(t, n), NEW c \in Client
      PROVE  alive' = alive /\ Leases(c)' = Leases(c)
  <2>1. /\ alive' = alive /\ granted' = granted /\ reply' = reply
        /\ reply[t] = NULL
        /\ \A u \in Thread : u # t => asked'[u] = asked[u]
    BY <1>1 DEF call, ClientInv, ClientTypeOK, NoCallForgotten
  <2> QED
    BY <2>1 DEF Leases
<1>2. ASSUME NEW t \in Thread, connect_to_broker(t) \/ resume(t) \/ send_message(t)
      PROVE  alive' = alive /\ \A c : Leases(c)' = Leases(c)
  BY <1>2, SameLeases DEF connect_to_broker, resume, send_message
<1>3. ASSUME NEW t \in Thread, return(t)
      PROVE  alive' = alive /\ \A c \in Client : Leases(c)' = Leases(c)
  BY <1>3, ReturnLeases DEF return
<1>4. ASSUME NEW t \in Thread, xpc_misuse(t)
      PROVE  \E d \in Client : terminate(d)
  BY <1>4 DEF xpc_misuse
<1> QED
  BY <1>1, <1>2, <1>3, <1>4 DEF ClientNext

\* A new process starts with nothing.
LEMMA StartLeases ==
    ASSUME SysInv, NEW d \in Client, client_start(d), NEW c \in Client
    PROVE  Leases(c)' = Leases(c) /\ Valid(c)' = Valid(c)
<1>1. /\ d \notin alive /\ stale' = [stale EXCEPT ![d] = {}]
      /\ granted' = granted /\ reply' = reply
      /\ \A t \in Thread : process[t] # d => asked'[t] = asked[t]
  BY DEF client_start, start
<1>2. Leases(c)' = Leases(c) /\ (c = d => Leases(c) = {})
  <2>1. c = d => Leases(c) = {}
    BY <1>1, LeasesType DEF SysInv
  <2>2. \A t \in Thread : process[t] = d => reply[t] = NULL
    BY <1>1 DEF SysInv, ClientInv, NoCallForgotten, EndedIsQuiet
  <2>3. \A t \in Thread : reply[t] # NULL => asked'[t] = asked[t]
    BY <1>1, <2>2
  <2> QED
    BY <1>1, <2>1, <2>3 DEF Leases
<1>3. c # d => stale'[c] = stale[c]
  BY <1>1 DEF SysInv
<1> QED
  BY <1>2, <1>3 DEF Valid

\* A request that is answered with a network gives its process that lease, if
\* the process still runs, and no other request gives or takes one.
LEMMA RequestLeases ==
    ASSUME SysInv, NEW t \in Thread, NEW rep \in Reply,
           on_peer_request(via[t], AcquireRequest(asked[t]), rep), send_reply(t, rep),
           stale' = [stale EXCEPT ![process[t]] = @ \ {<<asked[t], rep.network>>}],
           UNCHANGED <<alive, asked, granted>>, via[t] # NULL, NEW c \in Client
    PROVE  Valid(c)' = IF c = process[t] /\ c \in alive /\ rep.network # NULL
                       THEN Valid(c) \cup {<<asked[t], rep.network>>} ELSE Valid(c)
<1> USE ClientAssumption, XpcFacts DEF Thread
<1> DEFINE g == <<asked[t], rep.network>>
<1>0. /\ ClientInv /\ stale \in [Client -> SUBSET (Name \X Net)]
      /\ reply \in [Thread -> XpcObject \cup {NULL}]
  BY DEF SysInv, ClientInv, ClientTypeOK
<1>1. process[t] \in alive => reply[t] = NULL
  BY <1>0 DEF ClientInv, NoCallForgotten
<1>2. CASE process[t] \notin alive
  <2>1. Leases(c)' = Leases(c)
    BY <1>2, SameLeases DEF send_reply
  <2>2. c = process[t] => Leases(c) = {}
    BY <1>0, <1>2, LeasesType
  <2>3. c # process[t] => stale'[c] = stale[c]
    BY <1>0
  <2> QED
    BY <1>2, <2>1, <2>2, <2>3 DEF Valid
<1>3. CASE process[t] \in alive
  <2>1. reply' = [reply EXCEPT ![t] = XpcDictionary(rep)] /\ reply[t] = NULL
    BY <1>1, <1>3 DEF send_reply
  <2>2. Leases(c)' = IF c = process[t] /\ rep.network # NULL THEN Leases(c) \cup {g} ELSE Leases(c)
    <3>1. /\ \A u \in Thread : u # t => reply'[u] = reply[u]
          /\ reply'[t] # NULL /\ reply'[t].body.network = rep.network
      BY <1>0, <2>1
    <3>2. CASE c = process[t] /\ rep.network # NULL
      BY <2>1, <3>1, <3>2 DEF Leases
    <3>3. CASE ~(c = process[t] /\ rep.network # NULL)
      BY <2>1, <3>1, <3>3 DEF Leases
    <3> QED
      BY <3>2, <3>3
  <2>3. stale'[c] = IF c = process[t] THEN stale[c] \ {g} ELSE stale[c]
    BY <1>0
  <2>4. rep.network = NULL => g \notin stale[c]
    BY <1>0, NullAssumption
  <2> QED
    BY <1>3, <2>2, <2>3, <2>4 DEF Valid
<1> QED
  BY <1>2, <1>3

\* A lease of a running process is an old one, kept by a broker that runs on, or
\* one that the broker just gave.
LEMMA LeaseOrigin ==
    ASSUME SysInv, SysNext, NEW c \in Client, c \in alive', NEW g \in Valid(c)'
    PROVE  \/ /\ c \in alive
              /\ g \in Valid(c)
              /\ proc = "running" => proc' = "running"
           \/ Honoured(c, g[1], g[2])'
<1> USE ClientAssumption, XpcFacts DEF Thread
<1>0. ClientInv /\ BrokerInv /\ conn \subseteq Peer
  BY DEF SysInv, BrokerInv, TypeOK
<1>1. CASE client_step
  <2>1. ClientNext /\ stale' = stale /\ proc' = proc
    BY <1>1 DEF client_step, vars, brokerVars
  <2>2. ASSUME NEW d \in Client, terminate(d)
        PROVE  c \in alive /\ Leases(c)' = Leases(c)
    <3>1. alive' = alive \ {d}
      BY <2>2 DEF terminate
    <3> QED
      BY <1>0, <2>2, <3>1, TerminateLeases
  <2>3. c \in alive /\ Leases(c)' = Leases(c)
    BY <1>0, <2>1, <2>2, ClientLeases
  <2> QED
    BY <2>1, <2>3 DEF Valid
<1>2. ASSUME NEW d \in Client, client_start(d)
      PROVE  c \in alive /\ g \in Valid(c) /\ proc' = proc
  <2>1. Leases(c)' = Leases(c) /\ g \in Valid(c)
    BY <1>2, StartLeases
  <2>2. Leases(c) # {}
    BY <2>1 DEF Valid
  <2>3. proc' = proc
    BY <1>2 DEF client_start, vars, brokerVars
  <2> QED
    BY <1>0, <2>1, <2>2, <2>3, LeasesType
<1>3. CASE launch \/ timer_event \/ (\E k \in Peer : connection_event(k))
  <2>1. /\ alive' = alive /\ stale' = stale /\ granted' = granted /\ reply' = reply
        /\ asked' = asked /\ (proc = "running" => proc' = "running")
    BY <1>3 DEF launch, main, timer_event, tick, on_network_idle, brokerVars, connection_event,
                handle_connection, clientVars
  <2> QED
    BY <2>1, SameLeases DEF Valid
<1>4. ASSUME NEW k \in Peer, drop(k) \/ (invalid_event(k) /\ proc' = "running")
      PROVE  c \in alive /\ g \in Valid(c) /\ (proc = "running" => proc' = "running")
  <2>1. Lose({k}) /\ stale' = stale /\ (proc = "running" => proc' = "running")
    BY <1>4 DEF drop, invalid_event, vars, brokerVars
  <2>2. {k} \in SUBSET Peer
    OBVIOUS
  <2>3. Leases(c)' = Leases(c)
    BY <1>0, <2>1, <2>2, LoseLeases
  <2>4. alive' = alive
    BY <2>1 DEF Lose
  <2> QED
    BY <2>1, <2>3, <2>4 DEF Valid
<1>5. broker_ended => FALSE
  <2> SUFFICES ASSUME broker_ended PROVE FALSE
    OBVIOUS
  <2>1. Lose(conn) /\ stale'[c] = stale[c] \cup Leases(c)
    BY DEF broker_ended
  <2>2. Leases(c)' = Leases(c)
    BY <1>0, <2>1, LoseLeases
  <2> QED
    BY <2>1, <2>2 DEF Valid
<1>6. ASSUME NEW t \in Thread, unreachable(t)
      PROVE  c \in alive /\ g \in Valid(c) /\ proc' = proc
  <2>1. alive' = alive /\ stale' = stale /\ proc' = proc
    BY <1>6 DEF unreachable, vars, brokerVars
  <2>2. Leases(c)' = Leases(c)
    BY <1>0, <1>6, UnreachableLeases
  <2> QED
    BY <2>1, <2>2 DEF Valid
<1>7. ASSUME NEW t \in Thread, request_event(t)
      PROVE  \/ c \in alive /\ g \in Valid(c) /\ (proc = "running" => proc' = "running")
             \/ Honoured(c, g[1], g[2])'
  <2>1. PICK rep \in Reply :
             /\ on_peer_request(via[t], AcquireRequest(asked[t]), rep)
             /\ send_reply(t, rep)
             /\ stale' = [stale EXCEPT ![process[t]] = @ \ {<<asked[t], rep.network>>}]
    BY <1>7 DEF request_event
  <2>2. /\ UNCHANGED <<alive, asked, granted>> /\ via[t] # NULL
        /\ proc = "running" /\ proc' = "running"
    BY <1>7, <2>1 DEF request_event, on_peer_request, brokerVars
  <2>3. /\ via[t] \in Peer /\ asked[t] \in Name /\ process[via[t]] = process[t]
    BY <1>0, <1>7 DEF request_event, ClientInv, ClientTypeOK, NoCallForgotten, EndedIsQuiet
  <2>4. AcquireRequest(asked[t]) \in Request /\ AcquireRequest(asked[t]).network_name = asked[t]
    BY <2>3 DEF AcquireRequest, Request
  <2>5. CASE g \in Valid(c)
    BY <2>2, <2>5
  <2>6. CASE g \notin Valid(c)
    <3>1. process[t] = c /\ rep.network # NULL /\ g = <<asked[t], rep.network>>
      BY <2>1, <2>2, <2>6, RequestLeases
    <3>2. rep.error = VMNET_BROKER_SUCCESS
      BY <2>1, <2>3, <2>4, <3>1, ErrorHasNoNetwork
    <3>3. rep.network = registry'[asked[t]] /\ via[t] \in Holders(rep.network)'
      BY <1>0, <2>1, <2>3, <2>4, <3>2, RequestGrants
    <3> QED
      BY <2>2, <2>3, <3>1, <3>3 DEF Honoured, Holders
  <2> QED
    BY <2>5, <2>6
<1>8. end_event \/ (\E t \in Thread : crash_event(t)) => broker_ended
  BY DEF end_event, crash_event
<1>9. ASSUME NEW k \in Peer, invalid_event(k), proc' # "running"
      PROVE  broker_ended
  BY <1>9 DEF invalid_event
<1> QED
  BY <1>1, <1>2, <1>3, <1>4, <1>5, <1>6, <1>7, <1>8, <1>9 DEF SysNext

\* The broker keeps what a running process has.
LEMMA StepHonours ==
    ASSUME BrokerInv, [Next]_vars, NEW c \in alive, NEW n \in Name, NEW o \in Net,
           Honoured(c, n, o), proc' = "running",
           \A k \in conn \ conn' : process[k] \notin alive
    PROVE  Honoured(c, n, o)'
<1>1. PICK k \in Holders(o) : process[k] = c
  BY DEF Honoured
<1>2. k \in Peer /\ k \in conn
  BY <1>1 DEF BrokerInv, OnlyConnectedPeersHold, Holders, Occurrences
<1>3. k \in conn \cap conn'
  BY <1>1, <1>2
<1>4. registry[n] = o /\ registry[n] # NULL
  BY NullAssumption DEF Honoured
<1>5. registry'[n] = o /\ k \in Holders(registry[n])'
  BY <1>1, <1>3, <1>4, StepKeepsLease
<1> QED
  BY <1>1, <1>2, <1>4, <1>5, StepKeepsLease DEF Honoured, Holders

\* The history of lost leases keeps its type.
LEMMA StaleType ==
    ASSUME SysInv, SysNext
    PROVE  stale' \in [Client -> SUBSET (Name \X Net)]
<1>0. ClientInv /\ stale \in [Client -> SUBSET (Name \X Net)]
  BY DEF SysInv
<1>1. CASE broker_ended
  <2>1. \A c \in Client : stale[c] \cup Leases(c) \subseteq Name \X Net
    BY <1>0, LeasesType
  <2> QED
    BY <1>1, <2>1 DEF broker_ended
<1>2. CASE UNCHANGED stale
  BY <1>0, <1>2
<1>3. ASSUME NEW c \in Client, client_start(c)
      PROVE  stale' \in [Client -> SUBSET (Name \X Net)]
  BY <1>0, <1>3 DEF client_start
<1>4. ASSUME NEW t \in Thread, request_event(t)
      PROVE  stale' \in [Client -> SUBSET (Name \X Net)]
  BY <1>0, <1>4 DEF request_event
<1> QED
  BY <1>1, <1>2, <1>3, <1>4 DEF SysNext, client_step, launch, connection_event, invalid_event,
     drop, unreachable, timer_event, end_event, crash_event

\* Every step of the service keeps its invariant.
LEMMA SysNextInv == SysInv /\ [SysNext]_sysVars => SysInv'
<1> SUFFICES ASSUME SysInv, [SysNext]_sysVars PROVE SysInv'
  OBVIOUS
<1>1. CASE UNCHANGED sysVars
  <2>1. BrokerInv'
    BY <1>1, NextInv DEF sysVars, SysInv
  <2>2. ClientInv' /\ stale' = stale
    BY <1>1 DEF sysVars, clientVars, SysInv, ClientInv, ClientTypeOK, NoCallForgotten,
                OwnConnections, EndedIsQuiet, NoNetworkLost
  <2>3. LeaseHonoured'
    BY <1>1 DEF sysVars, vars, networkVars, brokerVars, clientVars, SysInv, LeaseHonoured,
                Valid, Leases, Honoured, Holders
  <2> QED
    BY <2>1, <2>2, <2>3 DEF SysInv
<1>2. CASE SysNext
  <2>1. BrokerInv'
    BY <1>2, BrokerStep, NextInv DEF SysInv
  <2>2. ClientInv'
    BY <1>2, TransportInv
  <2>3. stale' \in [Client -> SUBSET (Name \X Net)]
    BY <1>2, StaleType
  <2>4. ASSUME NEW c \in Client, c \in alive', NEW g \in Valid(c)'
        PROVE  Honoured(c, g[1], g[2])'
    <3>1. CASE /\ c \in alive
               /\ g \in Valid(c)
               /\ proc = "running" => proc' = "running"
      <4>1. g[1] \in Name /\ g[2] \in Net
        BY <3>1, LeasesType DEF SysInv, Valid
      <4>2. Honoured(c, g[1], g[2])
        BY <3>1 DEF SysInv, LeaseHonoured
      <4>3. proc = "running"
        BY <4>2 DEF Honoured
      <4> QED
        BY <1>2, <3>1, <4>1, <4>2, <4>3, BrokerStep, StepHonours DEF SysInv
    <3> QED
      BY <1>2, <2>4, <3>1, LeaseOrigin
  <2>5. LeaseHonoured'
    <3>1. alive' \subseteq Client
      BY <2>2 DEF ClientInv, ClientTypeOK
    <3> QED
      BY <2>4, <3>1 DEF LeaseHonoured
  <2> QED
    BY <2>1, <2>2, <2>3, <2>5 DEF SysInv
<1> QED
  BY <1>1, <1>2

\* The inductive invariant of the service.
THEOREM ServiceInvariant == SysSpec => []SysInv
<1>1. SysInit => SysInv
  <2> SUFFICES ASSUME SysInit PROVE SysInv
    OBVIOUS
  <2>1. BrokerInv /\ ClientInv /\ stale \in [Client -> SUBSET (Name \X Net)]
    BY BrokerInitInv, ClientInitInv DEF SysInit
  <2>2. LeaseHonoured
    BY ClientAssumption DEF SysInit, ClientInit, LeaseHonoured, Valid, Leases, Thread
  <2> QED
    BY <2>1, <2>2 DEF SysInv
<1> QED
  BY <1>1, SysNextInv, PTL DEF SysSpec

\* Type correctness of the whole service.
THEOREM ServiceTypeCorrect == SysSpec => []SysTypeOK
<1>1. SysInv => SysTypeOK
  BY DEF SysInv, BrokerInv, ClientInv, SysTypeOK
<1> QED
  BY <1>1, ServiceInvariant, PTL

\* No call is forgotten or answered twice, whatever ends or is started again.
THEOREM CallsAccounted == SysSpec => []NoCallForgotten
<1>1. SysInv => NoCallForgotten
  BY DEF SysInv, ClientInv
<1> QED
  BY <1>1, ServiceInvariant, PTL

\* What a running process was given, it has.
THEOREM LeasesHonoured == SysSpec => []LeaseHonoured
<1>1. SysInv => LeaseHonoured
  BY DEF SysInv
<1> QED
  BY <1>1, ServiceInvariant, PTL

\* Processes have the same network exactly when they asked for the same name:
\* a lease is the registry's network of its name, and the registry is one to one.
THEOREM NetworksSharedByName == SysSpec => []SharedByName
<1>1. SysInv => SharedByName
  <2> SUFFICES ASSUME SysInv, NEW c \in alive, NEW d \in alive,
                      NEW g \in Valid(c), NEW h \in Valid(d)
               PROVE  g[1] = h[1] <=> g[2] = h[2]
    BY DEF SharedByName
  <2>1. c \in Client /\ d \in Client /\ NetworkInv /\ ClientInv
    BY DEF SysInv, BrokerInv, ClientInv, ClientTypeOK
  <2>2. g \in Name \X Net /\ h \in Name \X Net
    BY <2>1, LeasesType DEF Valid
  <2>3. registry[g[1]] = g[2] /\ registry[h[1]] = h[2]
    BY DEF SysInv, LeaseHonoured, Honoured
  <2>4. g[1] \in Name /\ h[1] \in Name /\ h[2] # NULL
    BY <2>2, NullAssumption
  <2> QED
    BY <2>1, <2>3, <2>4, RegistryInjective
<1> QED
  BY <1>1, ServiceInvariant, PTL

\* The service is the broker with a restricted environment, so that whatever
\* is proved of the broker holds in the service.
THEOREM ServiceImplementsBroker == SysSpec => Spec
<1>1. SysInit => Init
  BY DEF SysInit
<1>2. SysInv /\ [SysNext]_sysVars => [Next]_vars
  BY BrokerStep DEF sysVars
<1> QED
  BY <1>1, <1>2, ServiceInvariant, PTL DEF SysSpec, Spec

\* Without connections no process has a valid lease.
LEMMA NoConnectionNoLease ==
    ASSUME SysInv, conn = {}, NEW c \in Client
    PROVE  Valid(c) = {}
<1>0. BrokerInv /\ ClientInv
  BY DEF SysInv
<1>1. \A o : Holders(o) = {}
  BY <1>0 DEF BrokerInv, OnlyConnectedPeersHold, Holders, Occurrences
<1>2. c \notin alive => Leases(c) = {}
  BY <1>0, LeasesType
<1>3. ASSUME NEW g \in Valid(c) PROVE FALSE
  <2>1. c \in alive
    BY <1>2, <1>3 DEF Valid
  <2> QED
    BY <1>1, <1>3, <2>1 DEF SysInv, LeaseHonoured, Honoured
<1> QED
  BY <1>3

\* The ways the broker ends: by itself only without connections, or by the
\* failure of its listener.
LEMMA EndCases ==
    ASSUME SysInv, end_event
    PROVE  /\ proc = "running" /\ broker_ended
           /\ \/ conn = {} /\ proc' \in {"exited", "killed"}
              \/ proc' = "failed"
<1>0. BrokerInv
  BY DEF SysInv
<1>1. CASE on_broker_idle \/ on_signal
  <2>1. proc = "running" /\ proc' = "exited"
    BY <1>1 DEF on_broker_idle, on_signal, orderly_exit
  <2> QED
    BY <1>0, <1>1, <2>1, ExitOnlyWithoutPeers DEF end_event
<1>2. CASE on_listener_error
  BY <1>2 DEF on_listener_error, end_event
<1>3. CASE launchd_reclaim
  BY <1>0, <1>3 DEF launchd_reclaim, end_event, BrokerInv, TransactionIffPeers
<1> QED
  BY <1>1, <1>2, <1>3 DEF end_event

\* When a connection ends, the broker runs on or cannot create a timer: no
\* assertion about its own state fails.
LEMMA InvalidCases ==
    ASSUME SysInv', NEW k \in Peer, invalid_event(k)
    PROVE  /\ proc = "running" /\ k \in conn /\ process[k] \notin alive
           /\ \/ proc' = "running" /\ Lose({k}) /\ UNCHANGED stale
              \/ proc' = "crashed" /\ broker_ended
<1>1. proc = "running" /\ proc' \in {"running", "crashed", "aborted"} /\ proc' # "aborted"
  BY DEF invalid_event, on_peer_disconnect, SysInv, BrokerInv, NoAssertFails
<1>2. k \in conn /\ process[k] \notin alive
  BY DEF invalid_event, on_peer_disconnect
<1> QED
  BY <1>1, <1>2 DEF invalid_event

\* A request that ends the broker is for a name that is not UTF-8.
LEMMA CrashCases ==
    ASSUME SysInv, NEW t \in Thread, crash_event(t)
    PROVE  /\ proc = "running" /\ proc' = "crashed" /\ broker_ended
           /\ via[t] \in conn /\ asked[t] \notin Utf8Name
<1>1. asked[t] \in Name
  BY DEF crash_event, SysInv, ClientInv, EndedIsQuiet
<1>2. registry_key(asked[t]) = NULL
  BY DEF crash_event, on_peer_request_crash, AcquireRequest
<1>3. asked[t] \notin Utf8Name
  BY <1>1, <1>2, NullAssumption DEF registry_key
<1> QED
  BY <1>3 DEF crash_event, on_peer_request_crash

\* A process loses its networks to a failure of the broker only: its listener, a
\* name that is not UTF-8, or a timer that cannot be created.
THEOREM LeasesLostOnlyByFailure == SysSpec => LeaseLostOnlyByFailure
<1> DEFINE Kept == \A c \in Client : stale'[c] \subseteq stale[c]
           Crashed == /\ proc' = "crashed"
                      /\ \/ \E t \in Thread : via[t] \in conn /\ asked[t] \notin Utf8Name
                         \/ \E k \in conn : process[k] \notin alive
<1>1. ASSUME SysInv, SysInv', SysNext
      PROVE  Kept \/ proc' = "failed" \/ Crashed
  <2>1. CASE end_event
    <3>1. ASSUME conn = {}, NEW c \in Client
          PROVE  stale'[c] \subseteq stale[c]
      <4>1. Leases(c) \subseteq stale[c]
        BY <1>1, <3>1, NoConnectionNoLease DEF Valid
      <4>2. stale'[c] = stale[c] \cup Leases(c)
        BY <1>1, <2>1, EndCases DEF broker_ended
      <4> QED
        BY <4>1, <4>2
    <3> QED
      BY <1>1, <2>1, <3>1, EndCases
  <2>2. ASSUME NEW k \in Peer, invalid_event(k)
        PROVE  Kept \/ Crashed
    BY <1>1, <2>2, InvalidCases
  <2>3. ASSUME NEW d \in Client, client_start(d)
        PROVE  Kept
    BY <1>1, <2>3 DEF client_start, SysInv
  <2>4. ASSUME NEW t \in Thread, request_event(t)
        PROVE  Kept
    BY <1>1, <2>4 DEF request_event, SysInv
  <2>5. ASSUME NEW t \in Thread, crash_event(t)
        PROVE  Crashed
    BY <1>1, <2>5, CrashCases
  <2> HIDE DEF Crashed
  <2> QED
    BY <1>1, <2>1, <2>2, <2>3, <2>4, <2>5 DEF SysNext, client_step, launch,
       connection_event, drop, unreachable, timer_event
<1>2. SysInv /\ SysInv' /\ [SysNext]_sysVars
      => [Kept \/ proc' = "failed" \/ Crashed]_sysVars
  BY <1>1
<1> QED
  BY <1>2, ServiceInvariant, PTL DEF SysSpec, LeaseLostOnlyByFailure

\* One step of the service answers a request for a network that its connection
\* holds with this network.
LEMMA HeldAnswer ==
    ASSUME SysInv, SysInv', SysNext, NEW t \in Thread,
           reply[t] = NULL, reply'[t] # NULL, proc' = "running",
           registry[asked[t]] # NULL, via[t] \in Holders(registry[asked[t]])
    PROVE  reply'[t] = XpcDictionary(NetworkReply(registry[asked[t]]))
<1> USE ClientAssumption DEF Thread
<1>0. /\ ClientInv /\ reply \in [Thread -> XpcObject \cup {NULL}]
      /\ via[t] \in Peer /\ via[t] # NULL
  BY DEF SysInv, ClientInv, ClientTypeOK, Holders
<1>1. asked[t] \in Name /\ process[via[t]] = process[t]
  BY <1>0 DEF ClientInv, EndedIsQuiet, NoCallForgotten
<1>2. ASSUME client_step PROVE FALSE
  <2>1. ASSUME NEW d \in Client, terminate(d)
        PROVE  reply'[t] = NULL
    BY <2>1 DEF terminate
  <2>2. ASSUME NEW u \in Thread, return(u)
        PROVE  reply'[t] = NULL
    BY <1>0, <2>2 DEF return
  <2>3. ASSUME NEW u \in Thread, xpc_misuse(u)
        PROVE  reply'[t] = NULL
    BY <2>1, <2>3 DEF xpc_misuse
  <2> QED
    BY <1>2, <2>1, <2>2, <2>3 DEF client_step, ClientNext, call, connect_to_broker, resume,
       send_message
<1>3. ASSUME NEW k \in Peer, Lose({k}), process[k] \notin alive
      PROVE  FALSE
  BY <1>1, <1>3 DEF Lose
<1>4. ASSUME \/ \E c \in Client : client_start(c)
             \/ launch \/ timer_event \/ \E k \in Peer : connection_event(k)
      PROVE  FALSE
  BY <1>4 DEF client_start, start, launch, timer_event, connection_event, clientVars
<1>5. ASSUME NEW k \in Peer, invalid_event(k) \/ drop(k)
      PROVE  FALSE
  BY <1>3, <1>5, InvalidCases DEF drop
<1>6. ASSUME end_event \/ \E u \in Thread : crash_event(u)
      PROVE  FALSE
  BY <1>6, EndCases, CrashCases
<1>7. ASSUME NEW u \in Thread, unreachable(u)
      PROVE  FALSE
  BY <1>7 DEF unreachable, vars, brokerVars
<1>8. ASSUME NEW u \in Thread, request_event(u)
      PROVE  reply'[t] = XpcDictionary(NetworkReply(registry[asked[t]]))
  <2>1. PICK rep \in Reply :
             on_peer_request(via[u], AcquireRequest(asked[u]), rep) /\ send_reply(u, rep)
    BY <1>8 DEF request_event
  <2>2. u = t /\ reply'[t] = XpcDictionary(rep)
    BY <1>0, <2>1 DEF send_reply
  <2>3. /\ AcquireRequest(asked[t]).network_name = asked[t]
        /\ AcquireRequest(asked[t]).command = "acquire"
    BY DEF AcquireRequest
  <2>4. acquire_network(via[t], asked[t], rep)
    BY <1>1, <2>1, <2>2, <2>3, NullAssumption DEF on_peer_request
  <2>5. rep = NetworkReply(registry[asked[t]])
    BY <1>0, <1>1, <2>4, AcquireHeld DEF SysInv, BrokerInv
  <2> QED
    BY <2>2, <2>5
<1> QED
  BY <1>2, <1>4, <1>5, <1>6, <1>7, <1>8 DEF SysNext

\* A peer that asks again for a network it holds is given this network, for any
\* limit and however many it holds.
THEOREM HeldGrantedAgain == SysSpec => HeldIsGrantedAgain
<1>1. SysInv /\ SysInv' /\ [SysNext]_sysVars =>
        [\A t \in Thread :
           /\ reply[t] = NULL /\ reply'[t] # NULL
           /\ proc' = "running"
           /\ registry[asked[t]] # NULL
           /\ via[t] \in Holders(registry[asked[t]])
           => reply'[t] = XpcDictionary(NetworkReply(registry[asked[t]]))]_sysVars
  BY HeldAnswer
<1> QED
  BY <1>1, ServiceInvariant, PTL DEF SysSpec, HeldIsGrantedAgain
-----------------------------------------------------------------------------
\* The service implements the lease service as its processes see it.

\* The whole service keeps the broker's promise to its connections.
THEOREM ServiceImplementsLease == SysSpec => ImplementsLease
BY ServiceImplementsBroker, BrokerImplementsLease, PTL

\* The mapped state of a service whose broker runs, and of one without.
LEMMA MappedStatus ==
    BrokerInv => /\ Up => status = "up" /\ meaning = registry
                 /\ ~Up => /\ status # "up"
                           /\ status = IF proc \in {"failed", "crashed"} THEN "failed" ELSE "stopped"
                           /\ meaning = Service!Nothing
<1> SUFFICES ASSUME BrokerInv
             PROVE  /\ Up => status = "up" /\ meaning = registry
                    /\ ~Up => /\ status # "up"
                              /\ status = IF proc \in {"failed", "crashed"} THEN "failed" ELSE "stopped"
                              /\ meaning = Service!Nothing
  OBVIOUS
<1>1. proc \in {"running", "exited", "failed", "killed", "crashed"}
  BY DEF BrokerInv, TypeOK, ProcState, NoAssertFails
<1>2. Up <=> proc = "running"
  BY DEF Up
<1>3. proc = "running" => status = "up"
  BY <1>2 DEF status
<1>4. proc # "running" => status = IF proc \in {"failed", "crashed"} THEN "failed" ELSE "stopped"
  BY <1>1, <1>2 DEF status
<1> QED
  BY <1>2, <1>3, <1>4 DEF meaning, Service!Nothing

\* A step that leaves the broker's process and registry alone, and keeps every
\* lease, is not seen.
LEMMA UnseenStep ==
    ASSUME UNCHANGED <<proc, registry, alive>>, \A c \in Client : Valid(c)' = Valid(c)
    PROVE  UNCHANGED Service!vars
<1>1. status' = status /\ meaning' = meaning
  BY DEF status, meaning, Up
<1>2. leases' = leases
  BY DEF leases
<1> QED
  BY <1>1, <1>2 DEF Service!vars

\* The steps of the clients.
LEMMA ClientServiceStep ==
    ASSUME SysInv, client_step
    PROVE  Service!Next \/ UNCHANGED Service!vars
<1>0. ClientInv /\ ClientNext /\ UNCHANGED <<proc, registry, stale>>
  BY DEF SysInv, client_step, vars, networkVars, brokerVars
<1>1. ASSUME NEW d \in Client, terminate(d)
      PROVE  Service!EndProcess(d)
  <2>1. d \in alive /\ alive' = alive \ {d}
    BY <1>1 DEF terminate
  <2>2. \A c \in Client : Valid(c)' = IF c = d THEN {} ELSE Valid(c)
    BY <1>0, <1>1, TerminateLeases DEF Valid
  <2>3. leases' = [leases EXCEPT ![d] = {}]
    BY <2>2 DEF leases
  <2>4. status' = status /\ meaning' = meaning
    BY <1>0 DEF status, meaning, Up
  <2> QED
    BY <2>1, <2>3, <2>4 DEF Service!EndProcess
<1>2. CASE alive' = alive /\ \A c \in Client : Leases(c)' = Leases(c)
  <2>1. \A c \in Client : Valid(c)' = Valid(c)
    BY <1>0, <1>2 DEF Valid
  <2> QED
    BY <1>0, <1>2, <2>1, UnseenStep
<1> QED
  BY <1>0, <1>1, <1>2, ClientLeases DEF Service!Next

\* A new process has nothing: StartProcess.
LEMMA StartServiceStep ==
    ASSUME SysInv, NEW d \in Client, client_start(d)
    PROVE  Service!StartProcess(d)
<1>1. d \notin alive /\ alive' = alive \cup {d} /\ UNCHANGED <<proc, registry>>
  BY DEF client_start, start, vars, networkVars, brokerVars
<1>2. leases' = leases
  BY StartLeases DEF leases
<1>3. status' = status /\ meaning' = meaning
  BY <1>1 DEF status, meaning, Up
<1> QED
  BY <1>1, <1>2, <1>3 DEF Service!StartProcess

\* launchd starts the broker, or fails to: Launch.
LEMMA LaunchServiceStep ==
    ASSUME SysInv, SysInv', launch
    PROVE  Service!Launch
<1>1. /\ proc # "running" /\ proc' \in {"running", "failed"}
      /\ registry' = Service!Nothing
      /\ UNCHANGED <<alive, granted, reply, asked, stale>>
  BY DEF launch, main, start_xpc_listener, clientVars, Service!Nothing
<1>2. status # "up" /\ meaning = Service!Nothing
  BY <1>1, MappedStatus DEF SysInv, Up
<1>3. status' \in {"up", "failed"} /\ meaning' = Service!Nothing
  <2>1. (BrokerInv => /\ Up => status = "up" /\ meaning = registry
                      /\ ~Up => /\ status # "up"
                                /\ status = IF proc \in {"failed", "crashed"} THEN "failed" ELSE "stopped"
                                /\ meaning = Service!Nothing)'
    BY MappedStatus, PTL
  <2>2. Service!Nothing' = Service!Nothing
    BY DEF Service!Nothing
  <2> QED
    BY <1>1, <2>1, <2>2 DEF SysInv, Up
<1>4. leases' = leases
  BY <1>1, SameLeases DEF leases, Valid
<1> QED
  BY <1>1, <1>2, <1>3, <1>4 DEF Service!Launch

\* A request that the broker serves.
LEMMA RequestServiceStep ==
    ASSUME SysInv, NEW t \in Thread, request_event(t)
    PROVE  Service!Next \/ UNCHANGED Service!vars
<1> USE ClientAssumption DEF Thread
<1>0. BrokerInv /\ ClientInv
  BY DEF SysInv
<1>1. PICK rep \in Reply :
           /\ on_peer_request(via[t], AcquireRequest(asked[t]), rep)
           /\ send_reply(t, rep)
           /\ stale' = [stale EXCEPT ![process[t]] = @ \ {<<asked[t], rep.network>>}]
  BY DEF request_event
<1> DEFINE n == asked[t]
           c == process[t]
           o == rep.network
<1>2. /\ UNCHANGED <<alive, asked, granted, proc>> /\ via[t] # NULL
      /\ proc = "running" /\ via[t] \in conn /\ UNCHANGED brokerVars
  BY <1>1 DEF request_event, on_peer_request, brokerVars
<1>3. via[t] \in Peer /\ n \in Name /\ c \in Client
  BY <1>0 DEF request_event, ClientInv, ClientTypeOK, EndedIsQuiet
<1>4. /\ AcquireRequest(n) \in Request
      /\ AcquireRequest(n).network_name = n /\ AcquireRequest(n).command = "acquire"
  BY <1>3 DEF AcquireRequest, Request
<1>5. \A d \in Client : Valid(d)' = IF d = c /\ d \in alive /\ o # NULL
                                    THEN Valid(d) \cup {<<n, o>>} ELSE Valid(d)
  BY <1>1, <1>2, RequestLeases
<1>6. CASE rep.error # VMNET_BROKER_SUCCESS
  <2>1. o = NULL
    BY <1>1, <1>3, <1>4, <1>6, ErrorHasNoNetwork
  <2>2. UNCHANGED networkVars \/ acquire_network(via[t], n, rep)
    BY <1>1, <1>3, <1>4, RequestCases
  <2>3. UNCHANGED networkVars
    BY <1>0, <1>3, <1>6, <2>2, AcquireErrorUnchanged DEF BrokerInv
  <2>4. registry' = registry
    BY <2>3 DEF networkVars
  <2> QED
    BY <1>2, <1>5, <2>1, <2>4, UnseenStep
<1>7. CASE rep.error = VMNET_BROKER_SUCCESS
  <2>1. acquire_network(via[t], n, rep)
    BY <1>1, <1>3, <1>4, <1>7, NullAssumption DEF on_peer_request
  <2>2. /\ NetworkInv /\ registry \in [Name -> Net \cup {NULL}]
    BY <1>0 DEF BrokerInv, TypeOK, NetworkTypeOK
  <2>3. /\ o \in Net
        /\ registry' = [registry EXCEPT ![n] = o]
        /\ registry[n] # NULL => registry[n] = o
        /\ registry[n] = NULL => o \notin allocated
    BY <1>3, <1>7, <2>1, <2>2, AcquireGrant
  <2>4. registry[n] = NULL => \A m \in Name : registry[m] # o
    BY <2>2, <2>3, RegisteredObject, NullAssumption
  <2>5. status = "up" /\ meaning = registry /\ status' = "up" /\ meaning' = registry'
    BY <1>2 DEF status, meaning, Up
  <2>6. Service!Mean(n, o)
    BY <2>3, <2>4, <2>5 DEF Service!Mean
  <2>7. o # NULL
    BY <2>3, NullAssumption
  <2>8. CASE c \in alive
    <3>1. leases' = [leases EXCEPT ![c] = @ \cup {<<n, o>>}]
      BY <1>3, <1>5, <2>7, <2>8 DEF leases
    <3>2. Service!Acquire(c, n, o)
      BY <1>2, <2>5, <2>6, <2>8, <3>1 DEF Service!Acquire
    <3> QED
      BY <1>3, <2>3, <3>2 DEF Service!Next
  <2>9. CASE c \notin alive
    <3>1. leases' = leases
      BY <1>5, <2>9 DEF leases
    <3>2. Service!AcquireForNobody(n, o)
      BY <1>2, <2>5, <2>6, <3>1 DEF Service!AcquireForNobody
    <3> QED
      BY <1>3, <2>3, <3>2 DEF Service!Next
  <2> QED
    BY <2>8, <2>9
<1> QED
  BY <1>6, <1>7

\* An idle timer deletes a network that no process has.
LEMMA IdleServiceStep ==
    ASSUME SysInv, NEW o \in Net, on_network_idle(o), UNCHANGED <<clientVars, stale>>
    PROVE  Service!Next
<1>0. /\ NetworkInv /\ network_idle_timeout(o) /\ proc = "running" /\ proc' = proc
      /\ registry \in [Name -> Net \cup {NULL}]
  BY DEF SysInv, BrokerInv, TypeOK, NetworkTypeOK, on_network_idle, brokerVars
<1>1. /\ o \in allocated
      /\ Holders(o) = {}
      /\ registry' = [n \in Name |-> IF registry[n] \in {o} THEN NULL ELSE registry[n]]
  BY <1>0, IdleTimeoutEffect
<1>2. PICK n \in Name : registry[n] = o
  BY <1>0, <1>1 DEF NetworkInv, RegistryConsistent, Registered
<1>3. registry' = [registry EXCEPT ![n] = NULL]
  <2>1. o # NULL
    BY NullAssumption
  <2>2. \A m \in Name \ {n} : registry[m] # o
    BY <1>0, <1>2, <2>1, RegistryInjective
  <2>3. \A m \in Name : registry'[m] = IF m = n THEN NULL ELSE registry[m]
    BY <1>1, <1>2, <2>2
  <2> QED
    BY <1>0, <1>1, <2>3
<1>4. status = "up" /\ meaning = registry /\ status' = "up" /\ meaning' = registry'
  BY <1>0 DEF status, meaning, Up
<1>5. ASSUME NEW c \in Client, <<n, o>> \in Valid(c)
      PROVE  FALSE
  <2>1. c \in alive
    BY <1>5, LeasesType DEF SysInv, Valid
  <2>2. Honoured(c, n, o)
    BY <1>5, <2>1 DEF SysInv, LeaseHonoured
  <2> QED
    BY <1>1, <2>2 DEF Honoured
<1>6. leases' = leases
  BY SameLeases DEF leases, Valid, clientVars
<1>7. Service!Delete(n)
  BY <1>2, <1>3, <1>4, <1>5, <1>6 DEF Service!Delete, leases, clientVars
<1> QED
  BY <1>7 DEF Service!Next

\* The broker ends: by itself when no process has a network, or by a failure.
LEMMA EndServiceStep ==
    ASSUME SysInv, SysInv', proc = "running", broker_ended,
           \/ conn = {} /\ proc' \in {"exited", "killed"}
           \/ proc' \in {"failed", "crashed"}
    PROVE  Service!Stop \/ Service!Fail
<1>0. ClientInv /\ conn \in SUBSET Peer /\ stale \in [Client -> SUBSET (Name \X Net)]
  BY DEF SysInv, BrokerInv, TypeOK
<1>2. Lose(conn) /\ \A c \in Client : stale'[c] = stale[c] \cup Leases(c)
  BY DEF broker_ended
<1>3. \A c \in Client : Valid(c)' = {}
  BY <1>0, <1>2, LoseLeases DEF Valid
<1>4. leases' = Service!Nobody /\ alive' = alive
  BY <1>2, <1>3 DEF leases, Service!Nobody, Lose
<1>5. status = "up"
  BY DEF status, Up
<1>6. /\ meaning' = Service!Nothing
      /\ status' = IF proc' \in {"failed", "crashed"} THEN "failed" ELSE "stopped"
  <2>1. (BrokerInv => /\ Up => status = "up" /\ meaning = registry
                      /\ ~Up => /\ status # "up"
                                /\ status = IF proc \in {"failed", "crashed"} THEN "failed" ELSE "stopped"
                                /\ meaning = Service!Nothing)'
    BY MappedStatus, PTL
  <2>2. Service!Nothing' = Service!Nothing
    BY DEF Service!Nothing
  <2> QED
    BY <2>1, <2>2 DEF SysInv, Up
<1>7. CASE conn = {} /\ proc' \in {"exited", "killed"}
  <2>1. leases = Service!Nobody
    BY <1>7, NoConnectionNoLease DEF leases, Service!Nobody
  <2> QED
    BY <1>4, <1>5, <1>6, <1>7, <2>1 DEF Service!Stop
<1>8. CASE proc' \in {"failed", "crashed"}
  BY <1>4, <1>5, <1>6, <1>8 DEF Service!Fail
<1> QED
  BY <1>7, <1>8

\* The other steps are not seen: connections that come and go, messages that are
\* lost, and the clock.
LEMMA TransportServiceStep ==
    ASSUME SysInv, SysInv',
           \/ \E k \in Peer : connection_event(k) \/ drop(k)
           \/ \E k \in Peer : invalid_event(k) /\ proc' = "running"
           \/ \E t \in Thread : unreachable(t)
           \/ tick /\ UNCHANGED <<clientVars, stale>>
    PROVE  UNCHANGED Service!vars
<1>0. ClientInv
  BY DEF SysInv
<1>1. ASSUME NEW k \in Peer, connection_event(k)
      PROVE  UNCHANGED <<proc, registry, clientVars, stale>>
  BY <1>1 DEF connection_event, handle_connection
<1>2. CASE UNCHANGED <<proc, registry, clientVars, stale>>
  <2>1. \A c \in Client : Valid(c)' = Valid(c)
    BY <1>2, SameLeases DEF Valid, clientVars
  <2> QED
    BY <1>2, <2>1, UnseenStep DEF clientVars
<1>3. ASSUME NEW k \in Peer, (invalid_event(k) /\ proc' = "running") \/ drop(k)
      PROVE  UNCHANGED Service!vars
  <2>1. Lose({k}) /\ stale' = stale /\ proc' = proc
    BY <1>3, InvalidCases DEF drop, vars, brokerVars
  <2>2. registry' = registry
    BY <1>3 DEF drop, invalid_event, on_peer_disconnect, release_peer_networks, vars, networkVars
  <2>3. {k} \in SUBSET Peer
    OBVIOUS
  <2>4. \A c \in Client : Leases(c)' = Leases(c)
    BY <1>0, <2>1, <2>3, LoseLeases
  <2>5. alive' = alive
    BY <2>1 DEF Lose
  <2> QED
    BY <2>1, <2>2, <2>4, <2>5, UnseenStep DEF Valid
<1>4. ASSUME NEW t \in Thread, unreachable(t)
      PROVE  UNCHANGED Service!vars
  <2>1. UNCHANGED <<proc, registry, stale, alive>>
    BY <1>4 DEF unreachable, vars, networkVars, brokerVars
  <2>2. \A c \in Client : Leases(c)' = Leases(c)
    BY <1>0, <1>4, UnreachableLeases
  <2> QED
    BY <2>1, <2>2, UnseenStep DEF Valid
<1>5. tick => UNCHANGED <<proc, registry>>
  BY DEF tick
<1> QED
  BY <1>1, <1>2, <1>3, <1>4, <1>5

\* Every step of the service is an abstract step or a stutter.
LEMMA ServiceStep ==
    ASSUME SysInv, SysInv', [SysNext]_sysVars
    PROVE  [Service!Next]_(Service!vars)
<1>1. CASE UNCHANGED sysVars
  <2>1. \A c \in Client : Valid(c)' = Valid(c)
    BY <1>1, SameLeases DEF Valid, sysVars, clientVars
  <2> QED
    BY <1>1, <2>1, UnseenStep DEF sysVars, clientVars, vars, networkVars, brokerVars
<1>2. CASE client_step
  BY <1>2, ClientServiceStep
<1>3. ASSUME NEW c \in Client, client_start(c)
      PROVE  Service!Next
  BY <1>3, StartServiceStep DEF Service!Next
<1>4. CASE launch
  BY <1>4, LaunchServiceStep DEF Service!Next
<1>5. ASSUME NEW t \in Thread, request_event(t)
      PROVE  [Service!Next]_(Service!vars)
  BY <1>5, RequestServiceStep
<1>6. CASE timer_event
  BY <1>6, IdleServiceStep, TransportServiceStep DEF timer_event
<1>7. CASE end_event \/ \E t \in Thread : crash_event(t)
  BY <1>7, EndCases, CrashCases, EndServiceStep DEF Service!Next
<1>8. ASSUME NEW k \in Peer, invalid_event(k)
      PROVE  [Service!Next]_(Service!vars)
  <2>1. CASE proc' = "running"
    BY <1>8, <2>1, TransportServiceStep
  <2>2. CASE proc' # "running"
    BY <1>8, <2>2, InvalidCases, EndServiceStep DEF Service!Next
  <2> QED
    BY <2>1, <2>2
<1>9. CASE \/ \E k \in Peer : connection_event(k) \/ drop(k)
           \/ \E t \in Thread : unreachable(t)
  BY <1>9, TransportServiceStep
<1> QED
  BY <1>1, <1>2, <1>3, <1>4, <1>5, <1>6, <1>7, <1>8, <1>9 DEF SysNext

\* What processes see of the service is the service that was promised: a name
\* means one network for all of them, a network stays while a process has it, a
\* process has what it acquired until it ends, and only a failure takes it away.
THEOREM ServiceImplementsService == SysSpec => ImplementsService
<1>1. SysInit => Service!Init
  <2> SUFFICES ASSUME SysInit PROVE Service!Init
    OBVIOUS
  <2>1. proc = "running" /\ registry = Service!Nothing /\ alive = Client
    BY DEF SysInit, Init, NetworkInit, ClientInit, Service!Nothing
  <2>2. status = "up" /\ meaning = Service!Nothing
    BY <2>1 DEF status, meaning, Up
  <2>3. \A c \in Client : Valid(c) = {}
    BY DEF SysInit, ClientInit, Valid, Leases
  <2>4. leases = Service!Nobody
    BY <2>3 DEF leases, Service!Nobody
  <2> QED
    BY <2>1, <2>2, <2>4 DEF Service!Init
<1>2. SysInv /\ SysInv' /\ [SysNext]_sysVars => [Service!Next]_(Service!vars)
  BY ServiceStep
<1> QED
  BY <1>1, <1>2, ServiceInvariant, PTL DEF SysSpec, ImplementsService, Service!Spec
=============================================================================
