----------------------------- MODULE ClientLib -----------------------------
(***************************************************************************)
(* The client library (client/client.c) in a set of client processes, each *)
(* with one or more threads.                                               *)
(*                                                                         *)
(* vmnet_broker_acquire_network runs step by step: the variable connection *)
(* of the process is read again for each use, and nothing protects it.  A  *)
(* thread creates a connection at most once, so the connection that thread *)
(* t creates is called t as well.                                          *)
(***************************************************************************)
EXTENDS Protocol

CONSTANTS
    Client,     \* client processes
    process     \* the process of each thread, and of the connection it creates

\* The XPC object that ends the wait: a dictionary of the broker, or an error.
XpcObject == [type : {"XPC_TYPE_DICTIONARY", "XPC_TYPE_ERROR"}, body : Reply]

XpcDictionary(rep) == [type |-> "XPC_TYPE_DICTIONARY", body |-> rep]
XpcError == [type |-> "XPC_TYPE_ERROR", body |-> ErrorReply(VMNET_BROKER_SUCCESS)]

ASSUME ClientAssumption ==
    /\ process \in [Peer -> Client]
    /\ NULL \notin Peer
    /\ NULL \notin XpcObject

Thread == Peer

VARIABLES
    alive,        \* running processes
    connection,   \* the variable of the same name, in each process
    resumed,      \* connections that were resumed
    pc,           \* where each thread is in vmnet_broker_acquire_network
    asked,        \* its argument network_name; NULL outside of a call
    via,          \* the connection that carries the thread's request, or NULL
    reply,        \* what has arrived for the waiting thread, or NULL
    granted       \* the names and networks each process got and has not given up

clientVars == <<alive, connection, resumed, pc, asked, via, reply, granted>>

ClientInit ==
    /\ alive = Client
    /\ connection = [c \in Client |-> NULL]
    /\ resumed = {}
    /\ pc = [t \in Thread |-> "idle"]
    /\ asked = [t \in Thread |-> NULL]
    /\ via = [t \in Thread |-> NULL]
    /\ reply = [t \in Thread |-> NULL]
    /\ granted = [c \in Client |-> {}]

\* The end of process c, at any moment.  A request that was sent stays on its
\* way; one that waits for its connection to be resumed was never sent.
terminate(c) ==
    /\ c \in alive
    /\ alive' = alive \ {c}
    /\ connection' = [connection EXCEPT ![c] = NULL]
    /\ pc' = [t \in Thread |-> IF process[t] = c THEN "idle" ELSE pc[t]]
    /\ via' = [t \in Thread |-> IF process[t] = c /\ via[t] \notin resumed
                                THEN NULL ELSE via[t]]
    /\ asked' = [t \in Thread |-> IF process[t] = c /\ via[t] \notin resumed
                                  THEN NULL ELSE asked[t]]
    /\ reply' = [t \in Thread |-> IF process[t] = c THEN NULL ELSE reply[t]]
    /\ granted' = [granted EXCEPT ![c] = {}]
    /\ UNCHANGED resumed

\* A new process takes the place of c.
start(c) ==
    /\ c \notin alive
    /\ \A t \in Thread : process[t] = c => via[t] = NULL
    /\ alive' = alive \cup {c}
    /\ resumed' = {k \in resumed : process[k] # c}
    /\ asked' = [t \in Thread |-> IF process[t] = c THEN NULL ELSE asked[t]]
    /\ UNCHANGED <<connection, pc, via, reply, granted>>
-----------------------------------------------------------------------------
\* vmnet_broker_acquire_network, up to the test of connection.
call(t, n) ==
    /\ process[t] \in alive
    /\ pc[t] = "idle"
    /\ asked' = [asked EXCEPT ![t] = n]
    /\ pc' = [pc EXCEPT ![t] =
          IF connection[process[t]] = NULL THEN "connect" ELSE "send"]
    /\ UNCHANGED <<alive, connection, resumed, via, reply, granted>>

\* connect_to_broker: the connection is created and stored ...
connect_to_broker(t) ==
    /\ pc[t] = "connect"
    /\ connection' = [connection EXCEPT ![process[t]] = t]
    /\ pc' = [pc EXCEPT ![t] = "resume"]
    /\ UNCHANGED <<alive, resumed, asked, via, reply, granted>>

\* Slip: a thread that finds another's connection leaves it alone.
resume_stored(t) ==
    /\ pc[t] = "resume"
    /\ resumed' = resumed \cup ({connection[process[t]]} \cap {t})
    /\ pc' = [pc EXCEPT ![t] = "send"]
    /\ UNCHANGED <<alive, connection, asked, via, reply, granted>>

\* ... its event handler is set, and the one that connection now points to is
\* resumed.
resume(t) ==
    LET k == connection[process[t]] IN
    /\ pc[t] = "resume"
    /\ k \notin resumed
    /\ resumed' = resumed \cup {k}
    /\ pc' = [pc EXCEPT ![t] = "send"]
    /\ UNCHANGED <<alive, connection, asked, via, reply, granted>>

\* A misuse of XPC that ends the process: two threads made the first call
\* together, and both resume the later connection, or one resumes it before the
\* other, which created it, has set its event handler.
xpc_misuse(t) ==
    LET k == connection[process[t]] IN
    /\ pc[t] = "resume"
    /\ k \in resumed \/ (k # t /\ pc[k] = "resume")
    /\ terminate(process[t])

\* The request is sent on the connection that is current now.
send_message(t) ==
    /\ pc[t] = "send"
    /\ via' = [via EXCEPT ![t] = connection[process[t]]]
    /\ pc' = [pc EXCEPT ![t] = "wait"]
    /\ UNCHANGED <<alive, connection, resumed, asked, reply, granted>>

\* Slip: the error code is not looked at.
decode_ignoring_error(r) ==
    IF r.type = "XPC_TYPE_ERROR" THEN VMNET_BROKER_XPC_FAILURE
    ELSE VMNET_BROKER_SUCCESS

\* The status of the call.
decode(r) ==
    IF r.type = "XPC_TYPE_ERROR" THEN VMNET_BROKER_XPC_FAILURE
    ELSE IF r.type # "XPC_TYPE_DICTIONARY" THEN VMNET_BROKER_INVALID_REPLY
    ELSE IF r.body.error # 0 THEN r.body.error
    ELSE IF r.body.network = NULL THEN VMNET_BROKER_INVALID_REPLY
    ELSE VMNET_BROKER_SUCCESS

\* The reply has arrived and the call returns.
return(t) ==
    /\ pc[t] = "wait"
    /\ reply[t] # NULL
    /\ granted' = IF decode(reply[t]) = VMNET_BROKER_SUCCESS
                  THEN [granted EXCEPT ![process[t]] =
                          @ \cup {<<asked[t], reply[t].body.network>>}]
                  ELSE granted
    /\ reply' = [reply EXCEPT ![t] = NULL]
    /\ pc' = [pc EXCEPT ![t] = "idle"]
    /\ asked' = [asked EXCEPT ![t] = NULL]
    /\ UNCHANGED <<alive, connection, resumed, via>>

ClientNext ==
    \/ \E c \in Client : terminate(c)
    \/ \E t \in Thread, n \in Name : call(t, n)
    \/ \E t \in Thread : \/ connect_to_broker(t)
                         \/ resume(t)
                         \/ xpc_misuse(t)
                         \/ send_message(t)
                         \/ return(t)
-----------------------------------------------------------------------------
ClientTypeOK ==
    /\ alive \subseteq Client
    /\ connection \in [Client -> Peer \cup {NULL}]
    /\ resumed \subseteq Peer
    /\ pc \in [Thread -> {"idle", "connect", "resume", "send", "wait"}]
    /\ asked \in [Thread -> Name \cup {NULL}]
    /\ via \in [Thread -> Peer \cup {NULL}]
    /\ reply \in [Thread -> XpcObject \cup {NULL}]
    /\ granted \in [Client -> SUBSET (Name \X Net)]

\* A thread that waits has its request on the way or its answer at hand, never
\* both and never neither: no call is forgotten and none is answered twice.
\* The request is carried by a connection of the thread's own process.
NoCallForgotten ==
    \A t \in Thread :
        /\ process[t] \in alive =>
              (pc[t] = "wait" <=> (via[t] # NULL) # (reply[t] # NULL))
        /\ pc[t] # "wait" => reply[t] = NULL
        /\ via[t] # NULL => process[via[t]] = process[t]

\* The variable connection points to a connection of its process, and is set
\* before it is used.
OwnConnections ==
    /\ \A c \in Client : connection[c] # NULL => process[connection[c]] = c
    /\ \A t \in Thread : pc[t] \in {"resume", "send"} => connection[process[t]] # NULL

\* A process that ended runs no call and has no network, and every call that
\* runs or is on its way is for a name.
EndedIsQuiet ==
    /\ \A t \in Thread : process[t] \notin alive => pc[t] = "idle"
    /\ \A t \in Thread : pc[t] # "idle" \/ via[t] # NULL => asked[t] \in Name
    /\ \A c \in Client \ alive : granted[c] = {}

\* A network that arrives is taken: the broker holds none for a process that was
\* told of an error.
NoNetworkLost ==
    \A t \in Thread :
        reply[t] # NULL /\ reply[t].body.network # NULL
        => decode(reply[t]) = VMNET_BROKER_SUCCESS

\* The inductive invariant of the clients.
ClientInv ==
    /\ ClientTypeOK
    /\ NoCallForgotten
    /\ OwnConnections
    /\ EndedIsQuiet
    /\ NoNetworkLost
=============================================================================
