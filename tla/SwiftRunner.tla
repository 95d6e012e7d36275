---------------------------- MODULE SwiftRunner ----------------------------
(***************************************************************************)
(* The Swift virtual machine runner (swift/Sources/test/main.swift): a     *)
(* main program that configures a guest step by step, and handlers on the  *)
(* main queue for signals, timers, completions and the guest's delegate.   *)
(* Unlike the Go runner, every signal starts a stop of its own.            *)
(*                                                                         *)
(* The guest (Virtualization framework) and dispatch are the environment.  *)
(***************************************************************************)
EXTENDS Integers, Sequences, FiniteSets

CONSTANTS
    StopTimeout,   \* seconds to wait for a guest that was asked to stop
    MaxStops       \* bound: stops that signals start

ASSUME SwiftRunnerAssumption == StopTimeout \in Nat \ {0} /\ MaxStops \in Nat

VARIABLES
    pc,            \* where the main program is; "loop" is RunLoop.main.run
    terminal,      \* mode of the terminal
    handled,       \* signals with a dispatch source; the others end the process
    pending,       \* signals whose handler waits for the main queue
    timers,        \* seconds until each fallback to the hard stop, oldest first
    vm,            \* state of the guest
    delegate,      \* the call of the delegate that waits: none, stop or error
    completions,   \* results of vm.stop that wait for the main queue
    said           \* what the runner says of the stop

vars == <<pc, terminal, handled, pending, timers, vm, delegate, completions, said>>

Signal == {"SIGINT", "SIGTERM"}

Ended == {"exited", "killed"}

Init ==
    /\ pc = "serial"
    /\ terminal = "normal"
    /\ handled = {}
    /\ pending = {}
    /\ timers = <<>>
    /\ vm = "created"
    /\ delegate = "none"
    /\ completions = {}
    /\ said = "none"

\* Slip: the attributes are saved and nothing is registered to restore them.
exit_without_atexit ==
    /\ pc' = "exited"
    /\ UNCHANGED terminal

\* exit() runs the handler that createSerialPortConfiguration registered.
exit ==
    /\ pc' = "exited"
    /\ terminal' = "normal"
-----------------------------------------------------------------------------
\* The main program.

createSerialPortConfiguration ==
    /\ pc = "serial"
    /\ pc' = "network"
    /\ terminal' = "raw"
    /\ UNCHANGED <<handled, pending, timers, vm, delegate, completions, said>>

\* The network of the broker, the disks, the validation: any may fail.
createNetworkDeviceConfiguration ==
    /\ pc = "network"
    /\ \/ pc' = "signals" /\ UNCHANGED terminal
       \/ exit
    /\ UNCHANGED <<handled, pending, timers, vm, delegate, completions, said>>

\* One turn of the loop.
setupShutdownSignals(sig) ==
    /\ pc = "signals"
    /\ sig \notin handled
    /\ handled' = handled \cup {sig}
    /\ pc' = IF handled' = Signal THEN "start" ELSE "signals"
    /\ UNCHANGED <<terminal, pending, timers, vm, delegate, completions, said>>

start ==
    /\ pc = "start"
    /\ pc' = "loop"
    /\ vm' = "starting"
    /\ UNCHANGED <<terminal, handled, pending, timers, delegate, completions, said>>
-----------------------------------------------------------------------------
\* Handlers on the main queue.

Stay == UNCHANGED <<pc, terminal>>

\* The completion handler of start.
started ==
    /\ pc = "loop"
    /\ vm = "starting"
    /\ \/ vm' = "running" /\ Stay
       \/ vm' = "error" /\ exit
    /\ UNCHANGED <<handled, pending, timers, delegate, completions, said>>

\* vm.stop is refused for a guest that does not run.
hardStop ==
    IF vm = "running"
    THEN vm' = "stopping" /\ UNCHANGED completions
    ELSE completions' = completions \cup {"error"} /\ UNCHANGED vm

\* Slip: a stop without its fallback.
shutdownGracefully_without_fallback ==
    \/ vm = "running" /\ UNCHANGED <<timers, vm, completions>>
    \/ hardStop /\ UNCHANGED timers

\* requestStop throws for a guest that does not run, and may throw for one that
\* does.
shutdownGracefully ==
    \/ vm = "running" /\ timers' = Append(timers, StopTimeout) /\ UNCHANGED <<vm, completions>>
    \/ hardStop /\ UNCHANGED timers

signal_handler(sig) ==
    /\ pc = "loop"
    /\ sig \in pending
    /\ pending' = pending \ {sig}
    /\ shutdownGracefully
    /\ Stay
    /\ UNCHANGED <<handled, delegate, said>>

\* The block of asyncAfter.
timer_handler ==
    /\ pc = "loop"
    /\ timers # <<>>
    /\ Head(timers) = 0
    /\ timers' = Tail(timers)
    /\ IF vm # "stopped" THEN hardStop ELSE UNCHANGED <<vm, completions>>
    /\ Stay
    /\ UNCHANGED <<handled, pending, delegate, said>>

\* Slip: the error alone decides.
StopResult_error(c) == IF c = "error" THEN "failed" ELSE "stopped"

\* An error counts only if the guest is not stopped by now.
StopResult(c) == IF c = "error" /\ vm # "stopped" THEN "failed" ELSE "stopped"

\* The completion handler of vm.stop.
stop_completion(c) ==
    /\ pc = "loop"
    /\ c \in completions
    /\ completions' = completions \ {c}
    /\ said' = StopResult(c)
    /\ exit
    /\ UNCHANGED <<handled, pending, timers, vm, delegate>>

\* guestDidStop and didStopWithError.
Delegate ==
    /\ pc = "loop"
    /\ delegate # "none"
    /\ delegate' = "none"
    /\ exit
    /\ UNCHANGED <<handled, pending, timers, vm, completions, said>>
-----------------------------------------------------------------------------
\* The environment.

\* The guest stops by itself or because it was asked to, or breaks down.
guest_stop ==
    /\ pc \notin Ended
    /\ vm = "running"
    /\ \/ vm' = "stopped" /\ delegate' = "stop"
       \/ vm' = "error" /\ delegate' = "error"
    /\ UNCHANGED <<pc, terminal, handled, pending, timers, completions, said>>

\* vm.stop ends.
stop_finished ==
    /\ pc \notin Ended
    /\ vm = "stopping"
    /\ \/ vm' = "stopped" /\ completions' = completions \cup {"ok"}
       \/ vm' = "running" /\ completions' = completions \cup {"error"}
    /\ UNCHANGED <<pc, terminal, handled, pending, timers, delegate, said>>

\* A signal; without a source for it the process ends as it is.
signal(sig) ==
    /\ pc \notin Ended
    /\ Len(timers) + Cardinality(pending) < MaxStops
    /\ IF sig \in handled
       THEN pending' = pending \cup {sig} /\ UNCHANGED pc
       ELSE pc' = "killed" /\ UNCHANGED pending
    /\ UNCHANGED <<terminal, handled, timers, vm, delegate, completions, said>>

tick ==
    /\ pc = "loop"
    /\ \E i \in DOMAIN timers : timers[i] > 0
    /\ timers' = [i \in DOMAIN timers |-> IF timers[i] > 0 THEN timers[i] - 1 ELSE 0]
    /\ UNCHANGED <<pc, terminal, handled, pending, vm, delegate, completions, said>>

main ==
    \/ createSerialPortConfiguration
    \/ createNetworkDeviceConfiguration
    \/ \E sig \in Signal : setupShutdownSignals(sig)
    \/ start

main_queue ==
    \/ started
    \/ \E sig \in Signal : signal_handler(sig)
    \/ timer_handler
    \/ \E c \in {"ok", "error"} : stop_completion(c)
    \/ Delegate

Next ==
    \/ main
    \/ main_queue
    \/ guest_stop
    \/ stop_finished
    \/ \E sig \in Signal : signal(sig)
    \/ tick

Spec == Init /\ [][Next]_vars

\* The main program goes on, every block on the main queue has its turn, the
\* clock runs, and the framework ends a start or a stop it accepted.
Fairness ==
    /\ WF_vars(main)
    /\ WF_vars(started)
    /\ \A sig \in Signal : WF_vars(signal_handler(sig))
    /\ WF_vars(timer_handler)
    /\ \A c \in {"ok", "error"} : WF_vars(stop_completion(c))
    /\ WF_vars(Delegate)
    /\ WF_vars(tick)
    /\ WF_vars(stop_finished)

FairSpec == Spec /\ Fairness
-----------------------------------------------------------------------------
TypeOK ==
    /\ pc \in {"serial", "network", "signals", "start", "loop"} \cup Ended
    /\ terminal \in {"normal", "raw"}
    /\ handled \subseteq Signal
    /\ pending \subseteq handled
    /\ timers \in Seq(0 .. StopTimeout) /\ Len(timers) <= MaxStops
    /\ vm \in {"created", "starting", "running", "stopping", "stopped", "error"}
    /\ delegate \in {"none", "stop", "error"}
    /\ completions \subseteq {"ok", "error"}
    /\ said \in {"none", "stopped", "failed"}

\* The runner says that it failed to stop the guest only if the guest was not
\* stopped, also when several stops race with each other and with the guest.
\* (hardStop)
NoFalseAlarm == said = "failed" => vm # "stopped"

\* However the runner exits, the terminal is as it was before.  SIGINT and SIGTERM,
\* the signals that the runner handles, end the process with a raw terminal only
\* before setupShutdownSignals, and then they can: the window in which the broker
\* is asked for the network.  (createSerialPortConfiguration)
TerminalRestored == pc \in Ended /\ terminal = "raw" => pc = "killed" /\ handled # Signal

\* The main program is in order: the terminal is raw from its first step on until
\* exit restores it, signals have their handlers before the run loop, the guest is
\* started last.  What is said is said on exit.
OrderOfMain ==
    /\ pc = "serial" => terminal = "normal"
    /\ pc \in {"start", "loop"} => handled = Signal
    /\ pc \in {"serial", "network"} => handled = {}
    /\ pc \in {"serial", "network", "signals", "start"} => vm = "created"
    /\ pc = "exited" => terminal = "normal"
    /\ pc = "killed" => handled # Signal
    /\ said = "failed" => pc = "exited"

\* The runner hears of every stop: one the guest makes by itself comes to the
\* delegate, one that was asked for comes as the result of vm.stop.
StopNotMissed ==
    pc = "loop" /\ vm \in {"stopped", "error"} => delegate # "none" \/ "ok" \in completions

\* Signals start no more stops than there are handlers and fallbacks for them.
StopsBounded == Len(timers) + Cardinality(pending) <= MaxStops

\* A younger fallback is never due before an older one, so the head is the next.
TimersInOrder == \A i, j \in DOMAIN timers : i <= j => timers[i] <= timers[j]

\* The inductive invariant of the runner: its safety properties, and what they
\* rest on.
SwiftInv ==
    /\ TypeOK
    /\ NoFalseAlarm
    /\ TerminalRestored
    /\ OrderOfMain
    /\ StopNotMissed
    /\ StopsBounded
    /\ TimersInOrder

\* A signal ends the runner, whatever the guest does with the request, and
\* however many signals there are.  (shutdownGracefully)
SignalEndsRunner == pending # {} ~> pc \in Ended
=============================================================================
