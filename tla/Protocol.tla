------------------------------ MODULE Protocol ------------------------------
(***************************************************************************)
(* The vocabulary of the XPC protocol between a client and the broker:     *)
(* status codes, requests and replies (include/vmnet-broker.h).            *)
(***************************************************************************)
EXTENDS Integers

CONSTANTS
    Peer,   \* client connections; the broker has a context for each
    Name,   \* network names that clients ask for, configured or not
    Net,    \* addresses at which a struct network can be allocated
    NULL    \* the null pointer; also an absent key of a dictionary

ASSUME NullAssumption == NULL \notin Name /\ NULL \notin Net

\* vmnet_broker_return_t
VMNET_BROKER_SUCCESS         == 0
VMNET_BROKER_XPC_FAILURE     == 1
VMNET_BROKER_INVALID_REPLY   == 2
VMNET_BROKER_NOT_ALLOWED     == 3
VMNET_BROKER_INVALID_REQUEST == 4
VMNET_BROKER_NOT_FOUND       == 5
VMNET_BROKER_CREATE_FAILURE  == 6
VMNET_BROKER_INTERNAL_ERROR  == 7

Status == VMNET_BROKER_SUCCESS .. VMNET_BROKER_INTERNAL_ERROR

\* A request dictionary.  A key that is missing, or whose value is not a
\* string, reads as NULL.  "other" stands for every unknown command.
Request == [command : {"acquire", "other", NULL}, network_name : Name \cup {NULL}]

\* A reply dictionary holds either an error code or a network serialization.
\* An absent "error" key reads as 0, an absent "network" key as NULL.  The
\* serialization of a network is identified with the network itself.
Reply == [error : Status, network : Net \cup {NULL}]

NetworkReply(o) == [error |-> VMNET_BROKER_SUCCESS, network |-> o]
ErrorReply(e)   == [error |-> e, network |-> NULL]

\* The request of the client library.
AcquireRequest(n) == [command |-> "acquire", network_name |-> n]
=============================================================================
