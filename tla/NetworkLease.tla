---------------------------- MODULE NetworkLease ----------------------------
(***************************************************************************)
(* What the broker promises, without objects, counters, timers or          *)
(* transactions: a named network exists while some client holds a lease on *)
(* it and for IdleTimeout after that, and the service does not stop under  *)
(* a connected client.                                                     *)
(***************************************************************************)
EXTENDS Integers

CONSTANTS Name, Peer, IdleTimeout

VARIABLES
    status,     \* of the service
    clients,    \* connected clients
    live,       \* names whose network exists
    holders,    \* clients with a lease on each name
    unused      \* how long each live network has been without a holder

vars == <<status, clients, live, holders, unused>>

Empty(s) ==
    /\ status = s
    /\ clients = {}
    /\ live = {}
    /\ holders = [n \in Name |-> {}]
    /\ unused = [n \in Name |-> 0]

Init == Empty("up")

\* A stopped service is started again, with nothing left of the past.
Launch ==
    /\ status # "up"
    /\ Empty("up")' \/ Empty("failed")'

Connect(p) ==
    /\ status = "up"
    /\ clients' = clients \cup {p}
    /\ UNCHANGED <<status, live, holders, unused>>

\* Only a connected client gets a lease, on a network that exists or is made.
Acquire(p, n) ==
    /\ status = "up"
    /\ p \in clients
    /\ live' = live \cup {n}
    /\ holders' = [holders EXCEPT ![n] = @ \cup {p}]
    /\ unused' = [unused EXCEPT ![n] = 0]
    /\ UNCHANGED <<status, clients>>

\* A lease lasts exactly as long as the connection of its holder.
Disconnect(p) ==
    /\ status = "up"
    /\ clients' = clients \ {p}
    /\ holders' = [n \in Name |-> holders[n] \ {p}]
    /\ UNCHANGED <<status, live, unused>>

Tick ==
    /\ status = "up"
    /\ unused' = [n \in Name |->
          IF n \in live /\ holders[n] = {} /\ unused[n] < IdleTimeout
          THEN unused[n] + 1 ELSE unused[n]]
    /\ UNCHANGED <<status, clients, live, holders>>

\* A network is deleted only after it was unused for the whole timeout.
Expire(n) ==
    /\ status = "up"
    /\ n \in live
    /\ holders[n] = {}
    /\ unused[n] = IdleTimeout
    /\ live' = live \ {n}
    /\ unused' = [unused EXCEPT ![n] = 0]
    /\ UNCHANGED <<status, clients, holders>>

\* The service stops only when no client is connected.
Stop ==
    /\ status = "up"
    /\ clients = {}
    /\ Empty("stopped")'

\* The one way to lose leases under a connection: the service fails.
Fail ==
    /\ status = "up"
    /\ Empty("failed")'

Next ==
    \/ Launch
    \/ \E p \in Peer : Connect(p) \/ Disconnect(p)
    \/ \E p \in Peer, n \in Name : Acquire(p, n)
    \/ \E n \in Name : Expire(n)
    \/ Tick
    \/ Stop
    \/ Fail

Spec == Init /\ [][Next]_vars

Fairness == WF_vars(Tick) /\ \A n \in Name : WF_vars(Expire(n))

FairSpec == Spec /\ Fairness
=============================================================================
