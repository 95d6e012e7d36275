--------------------------- MODULE GoRunnerProofs ---------------------------
(***************************************************************************)
(* Proofs about the Go virtual machine runner, for every timeout.          *)
(*                                                                         *)
(* GoInv is inductive.  NoFalseAlarm rests on the runner speaking last     *)
(* (OrderOfRun): what it said of the guest is not looked at again.         *)
(* TerminalRestored rests on the deferred restoreTerminalMode, and on the  *)
(* terminal being as it was in every step that returns without it.         *)
(***************************************************************************)
EXTENDS GoRunner, TLAPS

\* The runner begins in its invariant, before it has asked for a network.
LEMMA InitGoInv == Init => GoInv
  <1> SUFFICES ASSUME Init PROVE GoInv
    OBVIOUS
  <1> USE DEF Init
  <1>1. timeout \in 0 .. StopTimeout
    BY GoRunnerAssumption
  <1>2. TypeOK
    BY <1>1, Zenon DEF TypeOK, Ended
  <1>3. NoFalseAlarm /\ TerminalRestored
    BY DEF NoFalseAlarm, TerminalRestored, Ended
  <1>4. StopNotMissed /\ ReachableIsLive /\ OrderOfRun
    BY DEF StopNotMissed, ReachableIsLive, OrderOfRun
  <1> QED
    BY <1>2, <1>3, <1>4 DEF GoInv

\* Every step keeps the types: the wait never gets longer than the timeout.
LEMMA TypeStep == GoInv /\ [Next]_vars => TypeOK'
  <1> SUFFICES ASSUME TypeOK, [Next]_vars PROVE TypeOK'
    BY DEF GoInv
  <1> USE GoRunnerAssumption DEF TypeOK, bindingVars, Ended
  <1>1. CASE AcquireNetwork
    BY <1>1 DEF AcquireNetwork
  <1>2. CASE Raw
    BY <1>2 DEF Raw
  <1>3. CASE create_devices
    BY <1>3 DEF create_devices
  <1>4. CASE switchTerminalToRawMode
    BY <1>4 DEF switchTerminalToRawMode
  <1>5. CASE setupShutdownSignals
    BY <1>5 DEF setupShutdownSignals
  <1>6. CASE vm_Start
    BY <1>6 DEF vm_Start, Return
  <1>7. CASE guest_stopped
    BY <1>7 DEF guest_stopped, Return
  <1>8. CASE waitForTermination
    BY <1>8 DEF waitForTermination
  <1>9. CASE shutdownGracefully
    BY <1>9 DEF shutdownGracefully
  <1>10. CASE timed_out
    BY <1>10 DEF timed_out
  <1>11. CASE hardStop
    BY <1>11 DEF hardStop, Return
  <1>12. CASE hardStop_check
    BY <1>12 DEF hardStop_check, StopResult, Return
  <1>13. CASE cleanup
    BY <1>13 DEF cleanup
  <1>14. CASE guest_poweroff
    BY <1>14 DEF guest_poweroff
  <1>15. CASE signal
    BY <1>15 DEF signal
  <1>16. CASE tick
    BY <1>16 DEF tick
  <1>17. CASE UNCHANGED vars
    BY <1>17 DEF vars
  <1> QED
    BY <1>1, <1>2, <1>3, <1>4, <1>5, <1>6, <1>7, <1>8, <1>9, <1>10, <1>11, <1>12, <1>13,
       <1>14, <1>15, <1>16, <1>17 DEF Next, run

\* The steps of run() keep the order.
LEMMA RunStep ==
  ASSUME GoInv, run
  PROVE  StopNotMissed' /\ ReachableIsLive' /\ OrderOfRun'
  <1> USE DEF GoInv, TypeOK, StopNotMissed, ReachableIsLive, OrderOfRun, bindingVars, Ended
  <1>1. CASE AcquireNetwork
    BY <1>1 DEF AcquireNetwork
  <1>2. CASE Raw
    BY <1>2 DEF Raw
  <1>3. CASE create_devices
    BY <1>3 DEF create_devices
  <1>4. CASE switchTerminalToRawMode
    BY <1>4 DEF switchTerminalToRawMode
  <1>5. CASE setupShutdownSignals
    BY <1>5 DEF setupShutdownSignals
  <1>6. CASE vm_Start
    BY <1>6 DEF vm_Start, Return
  <1>7. CASE guest_stopped
    BY <1>7 DEF guest_stopped, Return
  <1>8. CASE waitForTermination
    BY <1>8 DEF waitForTermination
  <1>9. CASE shutdownGracefully
    BY <1>9 DEF shutdownGracefully
  <1>10. CASE timed_out
    BY <1>10 DEF timed_out
  <1>11. CASE hardStop
    BY <1>11 DEF hardStop, Return
  <1>12. CASE hardStop_check
    BY <1>12 DEF hardStop_check, StopResult, Return
  <1> QED
    BY <1>1, <1>2, <1>3, <1>4, <1>5, <1>6, <1>7, <1>8, <1>9, <1>10, <1>11, <1>12 DEF run

\* So do the steps of the environment.
LEMMA EnvironmentStep ==
  ASSUME GoInv, cleanup \/ guest_poweroff \/ signal \/ tick
  PROVE  StopNotMissed' /\ ReachableIsLive' /\ OrderOfRun'
  <1> USE DEF GoInv, TypeOK, StopNotMissed, ReachableIsLive, OrderOfRun, bindingVars, Ended
  <1>1. CASE cleanup
    BY <1>1 DEF cleanup
  <1>2. CASE guest_poweroff
    BY <1>2 DEF guest_poweroff
  <1>3. CASE signal
    BY <1>3 DEF signal
  <1>4. CASE tick
    BY <1>4 DEF tick
  <1> QED
    BY <1>1, <1>2, <1>3, <1>4

\* The error of vm.Stop() is looked at when it cannot be wrong any more.
LEMMA NoFalseAlarmStep == GoInv /\ [Next]_vars => NoFalseAlarm'
  <1> SUFFICES ASSUME GoInv, [Next]_vars PROVE NoFalseAlarm'
    OBVIOUS
  <1> USE DEF GoInv, NoFalseAlarm, OrderOfRun, bindingVars, Ended
  <1>1. CASE hardStop_check
    BY <1>1 DEF hardStop_check, StopResult
  <1>2. CASE hardStop
    BY <1>2 DEF hardStop
  <1>3. CASE guest_poweroff
    BY <1>3 DEF guest_poweroff
  <1>4. CASE vm_Start
    BY <1>4 DEF vm_Start
  <1>5. CASE UNCHANGED <<vm, result>>
    BY <1>5
  <1>6. AcquireNetwork \/ Raw \/ create_devices \/ switchTerminalToRawMode
        \/ setupShutdownSignals \/ guest_stopped \/ waitForTermination \/ shutdownGracefully
        \/ timed_out \/ cleanup \/ signal \/ tick \/ UNCHANGED vars
        => UNCHANGED <<vm, result>>
    BY DEF AcquireNetwork, Raw, create_devices, switchTerminalToRawMode, setupShutdownSignals,
           guest_stopped, waitForTermination, shutdownGracefully, timed_out, cleanup, signal,
           tick, vars
  <1> QED
    BY <1>1, <1>2, <1>3, <1>4, <1>5, <1>6 DEF Next, run

\* Every step of runner, guest, collector and clock keeps the invariant.
LEMMA GoInvStep == GoInv /\ [Next]_vars => GoInv'
  <1> SUFFICES ASSUME GoInv, [Next]_vars PROVE GoInv'
    OBVIOUS
  <1>1. TypeOK' /\ NoFalseAlarm'
    BY TypeStep, NoFalseAlarmStep
  <1>2. StopNotMissed' /\ ReachableIsLive' /\ OrderOfRun'
    <2>1. CASE UNCHANGED vars
      BY <2>1 DEF GoInv, StopNotMissed, ReachableIsLive, OrderOfRun, vars, bindingVars
    <2> QED
      BY <2>1, RunStep, EnvironmentStep DEF Next
  <1>3. TerminalRestored'
    BY <1>2 DEF TerminalRestored, OrderOfRun, Ended
  <1> QED
    BY <1>1, <1>2, <1>3 DEF GoInv

\* The runner's invariant, for every timeout.  (go/cmd/test.go, run)
THEOREM GoRunnerInvariant == Spec => []GoInv
  BY InitGoInv, GoInvStep, PTL DEF Spec

\* A guest that was stopped in time is never reported as one that could not be
\* stopped.  (hardStop)
THEOREM GoNoFalseAlarm == Spec => []NoFalseAlarm
  <1>1. GoInv => NoFalseAlarm
    BY DEF GoInv
  <1> QED
    BY <1>1, GoRunnerInvariant, PTL

\* Every return leaves the terminal as it was, and neither SIGINT nor SIGTERM ends
\* the runner with a raw terminal once they are notified.  (restoreTerminalMode)
THEOREM GoTerminalRestored == Spec => []TerminalRestored
  <1>1. GoInv => TerminalRestored
    BY DEF GoInv
  <1> QED
    BY <1>1, GoRunnerInvariant, PTL
=============================================================================
