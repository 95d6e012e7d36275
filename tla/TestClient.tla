----------------------------- MODULE TestClient -----------------------------
(***************************************************************************)
(* The test client (test/test.c): it acquires networks one by one, starts  *)
(* a vmnet interface on each, waits for a signal and stops the interfaces  *)
(* in reverse order.                                                       *)
(*                                                                         *)
(* Two threads: main(), and the serial vmnet_queue on which vmnet runs a   *)
(* completion handler for each start and stop.  The main thread waits on a *)
(* semaphore for the handler, and either may end the process.  The broker, *)
(* vmnet and the kernel's signals are the environment.                     *)
(***************************************************************************)
EXTENDS Integers

CONSTANTS
    MAX_INTERFACES,   \* length of interfaces[] and of opt.network_names[]
    MaxArgs           \* bound: network names on the command line

ASSUME TestClientAssumption == MAX_INTERFACES \in Nat \ {0} /\ MaxArgs \in Nat

VARIABLES
    pc,                \* where main() is, or what it printed
    args,              \* names on the command line that are not parsed yet
    quick,             \* opt.quick
    network_count,     \* opt.network_count
    interface_count,   \* the counter of the same name
    running,           \* indexes of the interfaces that vmnet runs
    handler,           \* the completion handler that vmnet will run, if any
    completed,         \* the semaphore was signaled
    signals            \* what a signal does: ends the process, is lost, or is
                       \* queued for kevent; "event" when one is

optVars == <<args, quick, network_count>>

vars == <<pc, optVars, interface_count, running, handler, completed, signals>>

Ended == {"ok", "fail", "killed"}

Init ==
    /\ pc = "parse_options"
    /\ args \in 0 .. MaxArgs
    /\ quick \in BOOLEAN
    /\ network_count = 0
    /\ interface_count = 0
    /\ running = {}
    /\ handler = "none"
    /\ completed = FALSE
    /\ signals = "default"
-----------------------------------------------------------------------------
\* Slip: one name too many is accepted.
TooManyNames_off_by_one == network_count > MAX_INTERFACES

TooManyNames == network_count >= MAX_INTERFACES

\* One turn of the loop over the names, or its end: the default is "shared".
parse_options ==
    /\ pc = "parse_options"
    /\ IF args > 0
       THEN IF TooManyNames
            THEN pc' = "fail" /\ UNCHANGED <<args, network_count>>
            ELSE args' = args - 1 /\ network_count' = network_count + 1 /\ UNCHANGED pc
       ELSE /\ pc' = "setup_kq"
            /\ network_count' = IF network_count = 0 THEN 1 ELSE network_count
            /\ UNCHANGED args
    /\ UNCHANGED <<quick, interface_count, running, handler, completed, signals>>

\* setup_kq blocks the signals...
setup_kq_block ==
    /\ pc = "setup_kq"
    /\ pc' \in {"register", "fail"}
    /\ signals' = "blocked"
    /\ UNCHANGED <<optVars, interface_count, running, handler, completed>>

\* ...and then asks kevent for them: a signal in between is never reported.
setup_kq_register ==
    /\ pc = "register"
    /\ pc' \in {"acquire_network", "fail"}
    /\ signals' = "registered"
    /\ UNCHANGED <<optVars, interface_count, running, handler, completed>>

\* The loop of main(): acquire_network may fail in the broker or in vmnet.
acquire_network ==
    /\ pc = "acquire_network"
    /\ IF interface_count < network_count
       THEN pc' \in {"start_interface", "fail"}
       ELSE pc' = IF quick THEN "stop_interfaces" ELSE "wait"
    /\ UNCHANGED <<optVars, interface_count, running, handler, completed, signals>>

\* vmnet takes the start and will run the handler, or refuses it and does not.
start_interface ==
    /\ pc = "start_interface"
    /\ IF interface_count >= MAX_INTERFACES
       THEN pc' = "fail" /\ UNCHANGED handler
       ELSE pc' = "starting" /\ handler' \in {"start", "never"}
    /\ UNCHANGED <<optVars, interface_count, running, completed, signals>>

\* Slip: the handler does not signal the semaphore.
dispatch_semaphore_signal_forgotten == UNCHANGED completed

dispatch_semaphore_signal == completed' = TRUE

\* The handler of a start: the interface runs, or the process ends.
start_completed ==
    /\ pc \notin Ended
    /\ handler = "start"
    /\ handler' = "none"
    /\ \/ /\ running' = running \cup {interface_count}
          /\ dispatch_semaphore_signal
          /\ UNCHANGED pc
       \/ pc' = "fail" /\ UNCHANGED <<running, completed>>
    /\ UNCHANGED <<optVars, interface_count, signals>>

\* dispatch_semaphore_wait, and the interface is recorded.
start_interface_wait ==
    /\ pc = "starting"
    /\ completed
    /\ completed' = FALSE
    /\ interface_count' = interface_count + 1
    /\ pc' = "acquire_network"
    /\ UNCHANGED <<optVars, running, handler, signals>>

\* A signal, or an error of kevent, which is reported after the interfaces are
\* stopped.
wait_for_termination ==
    /\ pc = "wait"
    /\ \/ signals = "event" /\ pc' = "stop_interfaces"
       \/ pc' = "stop_after_error"
    /\ UNCHANGED <<optVars, interface_count, running, handler, completed, signals>>

Stopping == {"stop_interfaces", "stop_after_error"}

\* Slip: the interface 0 is forgotten.
InterfacesLeft_off_by_one == interface_count > 1

InterfacesLeft == interface_count > 0

\* One turn of the loop, up to the semaphore; at its end main() prints the result.
stop_interfaces ==
    /\ pc \in Stopping
    /\ handler = "none"
    /\ ~completed
    /\ IF InterfacesLeft
       THEN /\ interface_count' = interface_count - 1
            /\ \/ handler' = "stop" /\ UNCHANGED pc
               \/ pc' = "fail" /\ UNCHANGED handler
       ELSE /\ pc' = IF pc = "stop_interfaces" THEN "ok" ELSE "fail"
            /\ UNCHANGED <<interface_count, handler>>
    /\ UNCHANGED <<optVars, running, completed, signals>>

\* The handler of a stop.
stop_completed ==
    /\ pc \notin Ended
    /\ handler = "stop"
    /\ handler' = "none"
    /\ \/ /\ running' = running \ {interface_count}
          /\ dispatch_semaphore_signal
          /\ UNCHANGED pc
       \/ pc' = "fail" /\ UNCHANGED <<running, completed>>
    /\ UNCHANGED <<optVars, interface_count, signals>>

stop_interfaces_wait ==
    /\ pc \in Stopping
    /\ completed
    /\ completed' = FALSE
    /\ UNCHANGED <<pc, optVars, interface_count, running, handler, signals>>

\* SIGTERM or SIGINT.
signal ==
    /\ pc \notin Ended
    /\ \/ signals = "default" /\ pc' = "killed" /\ UNCHANGED signals
       \/ signals = "registered" /\ signals' = "event" /\ UNCHANGED pc
    /\ UNCHANGED <<optVars, interface_count, running, handler, completed>>

main ==
    \/ parse_options
    \/ setup_kq_block
    \/ setup_kq_register
    \/ acquire_network
    \/ start_interface
    \/ start_interface_wait
    \/ stop_interfaces
    \/ stop_interfaces_wait
    \/ signals = "event" /\ wait_for_termination

vmnet_queue == start_completed \/ stop_completed

Next == main \/ wait_for_termination \/ vmnet_queue \/ signal

Spec == Init /\ [][Next]_vars

\* The main thread runs, and vmnet runs the handlers it accepted.  kevent may
\* wait for ever if no signal comes.
FairSpec == Spec /\ WF_vars(main) /\ WF_vars(vmnet_queue)
-----------------------------------------------------------------------------
TypeOK ==
    /\ pc \in Ended \cup Stopping
              \cup {"parse_options", "setup_kq", "register", "acquire_network",
                    "start_interface", "starting", "wait"}
    /\ args \in 0 .. MaxArgs
    /\ quick \in BOOLEAN
    /\ running \subseteq 0 .. MAX_INTERFACES - 1
    /\ handler \in {"none", "start", "stop", "never"}
    /\ completed \in BOOLEAN
    /\ signals \in {"default", "blocked", "registered", "event"}

\* Neither array is written past its end, however many names are given.
\* (parse_options, start_interface)
ArraysBounded ==
    /\ network_count \in 0 .. MAX_INTERFACES
    /\ interface_count \in 0 .. MAX_INTERFACES

\* The interfaces that vmnet runs are the recorded ones and the one that a
\* handler is about; so a test that prints "ok" has stopped every interface it
\* started, and one that prints "fail kevent" too.  (start_interface,
\* stop_interfaces)
InterfacesTracked ==
    LET recorded == 0 .. interface_count - 1
        inFlight == \/ pc = "starting" /\ completed
                    \/ pc \in Stopping /\ handler = "stop"
    IN  /\ pc \notin Ended =>
              running = recorded \cup IF inFlight THEN {interface_count} ELSE {}
        /\ pc = "ok" => running = {}

\* Where main() is, what the handler is for, and who holds the semaphore.
HandlersPaired ==
    /\ pc \in {"parse_options", "setup_kq", "register"} => interface_count = 0
    /\ pc = "starting" => interface_count < MAX_INTERFACES
    /\ handler = "start" => pc \in {"starting"} \cup Ended /\ ~completed
    /\ handler = "stop" => /\ pc \in Stopping \cup Ended /\ ~completed
                           /\ interface_count < MAX_INTERFACES
    /\ handler = "never" => pc \in {"starting"} \cup Ended /\ ~completed
    /\ completed => pc \in {"starting"} \cup Stopping \cup Ended

\* The inductive invariant of the test client.
TestInv ==
    /\ TypeOK
    /\ ArraysBounded
    /\ InterfacesTracked
    /\ HandlersPaired

\* A test that got its signal, or that is quick, ends, unless vmnet refuses to
\* start an interface: then nobody signals the semaphore, the signals are
\* blocked, and the test hangs.  (start_interface, wait_for_termination)
TestEnds ==
    (quick \/ signals = "event") ~> (pc \in Ended \/ handler = "never")
=============================================================================
