---------------------------- MODULE ServiceLease ----------------------------
(***************************************************************************)
(* What the service promises the programs that use its library, without    *)
(* connections, requests, threads, timers or counters: a process that      *)
(* acquires a name has the network that the name means, shares it with     *)
(* every other process that has the name, and keeps it until it ends.      *)
(***************************************************************************)
CONSTANTS Client, Name, Net, NULL

VARIABLES
    status,     \* of the service: up, stopped or failed
    running,    \* processes
    meaning,    \* the network that each name means, or NULL
    leases      \* the names and networks that each process has

vars == <<status, running, meaning, leases>>

Nothing == [n \in Name |-> NULL]

Nobody == [c \in Client |-> {}]

Init ==
    /\ status = "up"
    /\ running = Client
    /\ meaning = Nothing
    /\ leases = Nobody

\* A stopped service is started again, or fails to.
Launch ==
    /\ status # "up"
    /\ status' \in {"up", "failed"}
    /\ UNCHANGED <<running, meaning, leases>>

StartProcess(c) ==
    /\ c \notin running
    /\ running' = running \cup {c}
    /\ UNCHANGED <<status, meaning, leases>>

\* A process has its networks until it ends ...
EndProcess(c) ==
    /\ c \in running
    /\ running' = running \ {c}
    /\ leases' = [leases EXCEPT ![c] = {}]
    /\ UNCHANGED <<status, meaning>>

\* The name n means o: it did already, or it meant nothing and o is a network
\* that no other name means.
Mean(n, o) ==
    /\ status = "up"
    /\ \/ meaning[n] = o
       \/ meaning[n] = NULL /\ \A m \in Name : meaning[m] # o
    /\ meaning' = [meaning EXCEPT ![n] = o]

Acquire(c, n, o) ==
    /\ c \in running
    /\ Mean(n, o)
    /\ leases' = [leases EXCEPT ![c] = @ \cup {<<n, o>>}]
    /\ UNCHANGED <<status, running>>

\* The process ended before it could have the network it asked for.
AcquireForNobody(n, o) ==
    /\ Mean(n, o)
    /\ UNCHANGED <<status, running, leases>>

\* A network is deleted when no process has it.
Delete(n) ==
    /\ status = "up"
    /\ \A c \in Client : <<n, meaning[n]>> \notin leases[c]
    /\ meaning' = [meaning EXCEPT ![n] = NULL]
    /\ UNCHANGED <<status, running, leases>>

\* The service stops when no process has a network ...
Stop ==
    /\ status = "up"
    /\ leases = Nobody
    /\ status' = "stopped"
    /\ meaning' = Nothing
    /\ UNCHANGED <<running, leases>>

\* ... and fails at any time; then everything is lost.
Fail ==
    /\ status = "up"
    /\ status' = "failed"
    /\ meaning' = Nothing
    /\ leases' = Nobody
    /\ UNCHANGED running

Next ==
    \/ Launch
    \/ \E c \in Client : StartProcess(c) \/ EndProcess(c)
    \/ \E c \in Client, n \in Name, o \in Net : Acquire(c, n, o)
    \/ \E n \in Name, o \in Net : AcquireForNobody(n, o)
    \/ \E n \in Name : Delete(n)
    \/ Stop
    \/ Fail

Spec == Init /\ [][Next]_vars
=============================================================================
