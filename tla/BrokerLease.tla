---------------------------- MODULE BrokerLease ----------------------------
(***************************************************************************)
(* The refinement mapping from Broker to NetworkLease.                     *)
(***************************************************************************)
EXTENDS Broker

Up == proc = "running"

\* How a process that ended looks to its clients.  "aborted" has no abstract
\* counterpart: an assertion about the broker's own state breaks the refinement.
status ==
    CASE Up -> "up"
      [] proc \in {"exited", "killed"} -> "stopped"
      [] proc \in {"failed", "crashed"} -> "failed"
      [] OTHER -> proc

clients == IF Up THEN conn ELSE {}

live == {n \in Name : Up /\ registry[n] # NULL}

holders == [n \in Name |-> IF n \in live THEN Holders(registry[n]) ELSE {}]

unused == [n \in Name |-> IF n \in live /\ source[registry[n]] # Off
                          THEN IdleTimeout - source[registry[n]] ELSE 0]

Lease == INSTANCE NetworkLease WITH
    Name <- Name,
    Peer <- Peer,
    IdleTimeout <- IdleTimeout,
    status <- status,
    clients <- clients,
    live <- live,
    holders <- holders,
    unused <- unused

\* The broker implements the lease service: leases end with their connection,
\* a network is deleted only after IdleTimeout without holders, and only a
\* failure of the process - its listener, a name without a key, a timer that
\* cannot be created - takes a lease from a connected client.
ImplementsLease == Lease!Spec

\* And unused networks do expire.
ImplementsFairLease == Lease!FairSpec
=============================================================================
