------------------------------ MODULE GoRunner ------------------------------
(***************************************************************************)
(* The Go virtual machine runner (go/cmd/test.go) on the Go binding of the *)
(* client library (go/vmnet_broker/vmnet_broker.go): one goroutine that    *)
(* acquires a network, starts a guest, and on a signal asks the guest to   *)
(* stop and stops it after a timeout.                                      *)
(*                                                                         *)
(* The guest (Virtualization framework), the kernel's signals and the Go   *)
(* runtime, with its collector and its timers, are the environment.        *)
(***************************************************************************)
EXTENDS Integers

CONSTANT StopTimeout   \* seconds to wait for a guest that was asked to stop

ASSUME GoRunnerAssumption == StopTimeout \in Nat \ {0}

VARIABLES
    pc,              \* where run() is
    serialization,   \* the XPC object of the network: none, live or released
    reachable,       \* the Serialization that owns it may still be used
    terminal,        \* mode of the terminal
    notify,          \* signals go to signalCh instead of ending the process
    signalCh,        \* a signal waits in signalCh, which has room for one
    vm,              \* state of the guest
    stopped,         \* the change to "stopped" waits in StateChangedNotify()
    timeout,         \* seconds until the timeout channel is ready
    result           \* what the runner says of the stop

bindingVars == <<serialization, reachable>>

vars == <<pc, bindingVars, terminal, notify, signalCh, vm, stopped, timeout, result>>

Ended == {"returned", "killed"}

Init ==
    /\ pc = "acquire"
    /\ serialization = "none"
    /\ reachable = FALSE
    /\ terminal = "normal"
    /\ notify = FALSE
    /\ signalCh = FALSE
    /\ vm = "created"
    /\ stopped = FALSE
    /\ timeout = StopTimeout
    /\ result = "none"
-----------------------------------------------------------------------------
\* The binding.

\* AcquireNetwork: the object, with a cleanup on the Serialization; or an error,
\* with which run() returns, as for any other error of the configuration.
AcquireNetwork ==
    /\ pc = "acquire"
    /\ \/ pc' = "raw" /\ serialization' = "live" /\ reachable' = TRUE
       \/ pc' = "returned" /\ UNCHANGED bindingVars
    /\ UNCHANGED <<terminal, notify, signalCh, vm, stopped, timeout, result>>

\* serialization.Raw() is the last use of the Serialization in its function.
Raw ==
    /\ pc = "raw"
    /\ pc' = "create"
    /\ reachable' = FALSE
    /\ UNCHANGED <<serialization, terminal, notify, signalCh, vm, stopped, timeout, result>>

\* The collector runs the cleanup of an unreachable Serialization, at any time.
cleanup ==
    /\ pc \notin Ended
    /\ serialization = "live"
    /\ ~reachable
    /\ serialization' = "released"
    /\ UNCHANGED <<pc, reachable, terminal, notify, signalCh, vm, stopped, timeout, result>>

\* The network and its device are made from the pointer, and the guest from them.
create_devices ==
    /\ pc = "create"
    /\ pc' \in {"terminal", "returned"}
    /\ UNCHANGED <<bindingVars, terminal, notify, signalCh, vm, stopped, timeout, result>>
-----------------------------------------------------------------------------
\* run() from the terminal on.

\* Slip: a return without the deferred call.
Return_without_defer == pc' = "returned" /\ UNCHANGED terminal

\* A return after the terminal was switched runs the deferred restoreTerminalMode.
Return == pc' = "returned" /\ terminal' = "normal"

switchTerminalToRawMode ==
    /\ pc = "terminal"
    /\ \/ pc' = "notify" /\ terminal' = "raw"
       \/ pc' = "returned" /\ UNCHANGED terminal
    /\ UNCHANGED <<bindingVars, notify, signalCh, vm, stopped, timeout, result>>

setupShutdownSignals ==
    /\ pc = "notify"
    /\ pc' = "start"
    /\ notify' = TRUE
    /\ UNCHANGED <<bindingVars, terminal, signalCh, vm, stopped, timeout, result>>

vm_Start ==
    /\ pc = "start"
    /\ \/ pc' = "wait" /\ vm' = "running" /\ UNCHANGED terminal
       \/ Return /\ UNCHANGED vm
    /\ UNCHANGED <<bindingVars, notify, signalCh, stopped, timeout, result>>

\* waitForTermination and the loop of shutdownGracefully return when the guest
\* stopped; other changes of its state are skipped.
guest_stopped ==
    /\ pc \in {"wait", "graceful"}
    /\ stopped
    /\ stopped' = FALSE
    /\ Return
    /\ UNCHANGED <<bindingVars, notify, signalCh, vm, timeout, result>>

waitForTermination ==
    /\ pc = "wait"
    /\ signalCh
    /\ signalCh' = FALSE
    /\ pc' = "request"
    /\ UNCHANGED <<bindingVars, terminal, notify, vm, stopped, timeout, result>>

\* RequestStop: a guest that does not run cannot be asked, and one that runs may
\* refuse.
shutdownGracefully ==
    /\ pc = "request"
    /\ \/ vm = "running" /\ pc' = "graceful"
       \/ pc' = "hard"
    /\ timeout' = StopTimeout
    /\ UNCHANGED <<bindingVars, terminal, notify, signalCh, vm, stopped, result>>

\* Slip: a runner that waits for the guest only.
timeoutReady_never == FALSE

timeoutReady == timeout = 0

\* The timeout channel is ready; so may be the other, and select takes either.
timed_out ==
    /\ pc = "graceful"
    /\ timeoutReady
    /\ pc' = "hard"
    /\ UNCHANGED <<bindingVars, terminal, notify, signalCh, vm, stopped, timeout, result>>

\* hardStop: vm.Stop() returns when the guest is stopped, or fails: always if it
\* does not run.
hardStop ==
    /\ pc = "hard"
    /\ \/ /\ vm = "running"
          /\ vm' = "stopped"
          /\ result' = "stopped"
          /\ Return
       \/ /\ pc' = "check"
          /\ UNCHANGED <<vm, result, terminal>>
    /\ UNCHANGED <<bindingVars, notify, signalCh, stopped, timeout>>

\* Slip: the error alone decides.
StopResult_error == "failed"

\* The error of vm.Stop() counts only if the guest is not stopped by now.
StopResult == IF vm = "stopped" THEN "stopped" ELSE "failed"

hardStop_check ==
    /\ pc = "check"
    /\ result' = StopResult
    /\ Return
    /\ UNCHANGED <<bindingVars, notify, signalCh, vm, stopped, timeout>>
-----------------------------------------------------------------------------
\* The environment.

\* The guest stops, because it was asked to or by itself.
guest_poweroff ==
    /\ pc \notin Ended
    /\ vm = "running"
    /\ vm' = "stopped"
    /\ stopped' = TRUE
    /\ UNCHANGED <<pc, bindingVars, terminal, notify, signalCh, timeout, result>>

\* SIGTERM or SIGINT: one waits in the channel, more are dropped; before
\* signal.Notify the process ends as it is.
signal ==
    /\ pc \notin Ended
    /\ IF notify
       THEN signalCh' = TRUE /\ UNCHANGED pc
       ELSE pc' = "killed" /\ UNCHANGED signalCh
    /\ UNCHANGED <<bindingVars, terminal, notify, vm, stopped, timeout, result>>

tick ==
    /\ pc = "graceful"
    /\ timeout > 0
    /\ timeout' = timeout - 1
    /\ UNCHANGED <<pc, bindingVars, terminal, notify, signalCh, vm, stopped, result>>

run ==
    \/ AcquireNetwork
    \/ Raw
    \/ create_devices
    \/ switchTerminalToRawMode
    \/ setupShutdownSignals
    \/ vm_Start
    \/ guest_stopped
    \/ waitForTermination
    \/ shutdownGracefully
    \/ timed_out
    \/ hardStop
    \/ hardStop_check

Next == run \/ cleanup \/ guest_poweroff \/ signal \/ tick

Spec == Init /\ [][Next]_vars

\* The goroutine runs, the clock too; the guest, the collector and whoever sends
\* signals do what they like.
FairSpec == Spec /\ WF_vars(run) /\ WF_vars(tick)
-----------------------------------------------------------------------------
TypeOK ==
    /\ pc \in Ended \cup {"acquire", "raw", "create", "terminal", "notify", "start", "wait",
                          "request", "graceful", "hard", "check"}
    /\ serialization \in {"none", "live", "released"}
    /\ terminal \in {"normal", "raw"}
    /\ vm \in {"created", "running", "stopped"}
    /\ timeout \in 0 .. StopTimeout
    /\ result \in {"none", "stopped", "failed"}
    /\ reachable \in BOOLEAN /\ notify \in BOOLEAN /\ signalCh \in BOOLEAN /\ stopped \in BOOLEAN

\* The runner says that it failed to stop the guest only if the guest was not
\* stopped, also when the guest stops just as the timeout expires and the hard
\* stop is refused for that.  (hardStop)
NoFalseAlarm == result = "failed" => vm # "stopped"

\* However run() returns, an error in any step included, the terminal is as it was
\* before.  SIGINT and SIGTERM, the signals that the runner handles, end the
\* process with a raw terminal only before setupShutdownSignals.  (Of a terminal
\* that accepts its old mode: restoreTerminalMode only logs a refusal.)
TerminalRestored == pc \in Ended /\ terminal = "raw" => pc = "killed" /\ ~notify

\* The runner cannot miss that the guest stopped: as long as it may wait for that,
\* the change waits in the channel.
StopNotMissed ==
    /\ stopped => vm = "stopped"
    /\ vm = "stopped" /\ pc \in {"wait", "request", "graceful"} => stopped

\* The Serialization keeps its object.
ReachableIsLive == reachable => serialization = "live"

\* Nothing is to be undone before the terminal is switched, the guest is started
\* after that, no signal ends the process once they are notified, and the runner
\* speaks last.
OrderOfRun ==
    /\ pc \in {"acquire", "raw", "create", "terminal"} => terminal = "normal" /\ ~notify
    /\ pc \in {"notify", "killed"} => ~notify
    /\ pc \in {"acquire", "raw", "create", "terminal", "notify", "start"} => vm = "created"
    /\ pc = "returned" => terminal = "normal"
    /\ result = "failed" => pc = "returned"

\* The inductive invariant of the runner: its safety properties, and what they
\* rest on.  The runner never waits longer than the timeout, never misses the
\* stop of its guest, and the terminal is undone in the order it was set up.
GoInv ==
    /\ TypeOK
    /\ NoFalseAlarm
    /\ TerminalRestored
    /\ StopNotMissed
    /\ ReachableIsLive
    /\ OrderOfRun

\* A signal ends the runner, though the guest may ignore the request, refuse it,
\* or stop at any moment.  (shutdownGracefully)
SignalEndsRunner == signalCh ~> pc \in Ended

\* "This pointer [...] remains valid as long as the Serialization object is
\* reachable." (go/vmnet_broker/vmnet_broker.go:76, of Raw)  The runner uses the
\* pointer when the object may be released.
PointerValidWhenUsed == pc = "create" => serialization = "live"
=============================================================================
