------------------------- MODULE SwiftRunnerProofs -------------------------
(***************************************************************************)
(* Proofs about the Swift virtual machine runner, for every timeout and    *)
(* any number of signals.                                                  *)
(*                                                                         *)
(* SwiftInv is inductive.  What a runner that starts a stop for every      *)
(* signal needs beyond the Go runner is the order of its timers, which     *)
(* all run at once, and that a stop is heard of by the delegate or by a    *)
(* completion handler, whichever of the stops ended the guest.             *)
(***************************************************************************)
EXTENDS SwiftRunner, SequenceTheorems, FiniteSetTheorems, TLAPS

\* The runner begins in its invariant, with the terminal as it found it.
LEMMA InitSwiftInv == Init => SwiftInv
  <1> SUFFICES ASSUME Init PROVE SwiftInv
    OBVIOUS
  <1> USE DEF Init
  <1>1. Cardinality(pending) = 0
    BY FS_EmptySet
  <1>2. TypeOK
    BY SwiftRunnerAssumption DEF TypeOK, Ended
  <1>3. NoFalseAlarm /\ TerminalRestored
    BY DEF NoFalseAlarm, TerminalRestored, Ended
  <1>4. OrderOfMain /\ StopNotMissed
    BY DEF OrderOfMain, StopNotMissed
  <1>5. StopsBounded /\ TimersInOrder
    BY <1>1, SwiftRunnerAssumption DEF StopsBounded, TimersInOrder
  <1> QED
    BY <1>2, <1>3, <1>4, <1>5 DEF SwiftInv

\* There are two signals.
LEMMA SignalFinite == IsFiniteSet(Signal)
  <1>1. Signal = {"SIGINT"} \cup {"SIGTERM"}
    BY DEF Signal
  <1>2. IsFiniteSet({"SIGINT"})
    BY FS_Singleton, Zenon
  <1> QED
    BY <1>1, <1>2, FS_AddElement, Zenon

\* The signals that wait are finitely many.
LEMMA PendingFinite ==
  ASSUME TypeOK
  PROVE  IsFiniteSet(pending) /\ Cardinality(pending) \in Nat
  <1>1. IsFiniteSet(Signal)
    BY SignalFinite
  <1>2. pending \subseteq Signal
    BY DEF TypeOK
  <1> QED
    BY <1>1, <1>2, FS_Subset, FS_CardinalityType

\* A handler takes its signal from those that wait, so there is room for its
\* fallback.
LEMMA HandlerMakesRoom ==
  ASSUME TypeOK, NEW sig \in pending
  PROVE  Cardinality(pending \ {sig}) = Cardinality(pending) - 1
  BY PendingFinite, FS_RemoveElement

\* The fallbacks stay in order, and within the timeout, when one is added at the
\* end with the whole timeout to run ...
LEMMA AppendTimer ==
  ASSUME timers \in Seq(0 .. StopTimeout), TimersInOrder, timers' = Append(timers, StopTimeout)
  PROVE  /\ timers' \in Seq(0 .. StopTimeout)
         /\ Len(timers') = Len(timers) + 1
         /\ TimersInOrder'
  <1>1. /\ timers' \in Seq(0 .. StopTimeout)
        /\ Len(timers') = Len(timers) + 1
    BY SwiftRunnerAssumption
  <1>2. \A i \in DOMAIN timers' :
            /\ timers'[i] \in 0 .. StopTimeout
            /\ i # Len(timers') => i \in DOMAIN timers /\ timers'[i] = timers[i]
            /\ i = Len(timers') => timers'[i] = StopTimeout
    BY SwiftRunnerAssumption
  <1>3. DOMAIN timers' = 1 .. Len(timers') /\ Len(timers') \in Nat
    BY <1>1
  <1> QED
    BY <1>1, <1>2, <1>3, SwiftRunnerAssumption DEF TimersInOrder

\* ... when the first is taken ...
LEMMA TailTimer ==
  ASSUME timers \in Seq(0 .. StopTimeout), TimersInOrder, timers # <<>>,
         timers' = Tail(timers)
  PROVE  /\ timers' \in Seq(0 .. StopTimeout)
         /\ Len(timers') = Len(timers) - 1
         /\ TimersInOrder'
  <1>1. /\ timers' \in Seq(0 .. StopTimeout)
        /\ Len(timers') = Len(timers) - 1
    OBVIOUS
  <1>2. \A i \in DOMAIN timers' : i + 1 \in DOMAIN timers /\ timers'[i] = timers[i + 1]
    OBVIOUS
  <1>3. \A i \in DOMAIN timers' : i \in Int
    BY <1>1
  <1> QED
    BY <1>1, <1>2, <1>3 DEF TimersInOrder

\* ... and when a second passes for all of them.
LEMMA TickTimers ==
  ASSUME timers \in Seq(0 .. StopTimeout), TimersInOrder,
         timers' = [i \in DOMAIN timers |-> IF timers[i] > 0 THEN timers[i] - 1 ELSE 0]
  PROVE  /\ timers' \in Seq(0 .. StopTimeout)
         /\ Len(timers') = Len(timers)
         /\ TimersInOrder'
  <1>1. DOMAIN timers = 1 .. Len(timers) /\ Len(timers) \in Nat
    BY LenProperties
  <1>2. DOMAIN timers' = 1 .. Len(timers)
    BY <1>1
  <1>3. \A i \in 1 .. Len(timers) : timers[i] \in 0 .. StopTimeout
    BY ElementOfSeq
  <1>4. timers' \in Seq(0 .. StopTimeout) /\ Len(timers') = Len(timers)
    <2>1. \A i \in 1 .. Len(timers) :
              (IF timers[i] > 0 THEN timers[i] - 1 ELSE 0) \in 0 .. StopTimeout
      BY <1>3, SwiftRunnerAssumption
    <2>2. timers' \in [1 .. Len(timers) -> 0 .. StopTimeout]
      BY <1>1, <2>1
    <2> QED
      BY <1>1, <2>2, LenProperties, SeqDef
  <1>5. TimersInOrder'
    BY <1>1, <1>2, <1>3 DEF TimersInOrder
  <1> QED
    BY <1>4, <1>5

\* The steps that start no stop, run none down and see no signal.
Quiet ==
    \/ main
    \/ started
    \/ \E c \in {"ok", "error"} : stop_completion(c)
    \/ Delegate
    \/ guest_stop
    \/ stop_finished
    \/ UNCHANGED vars

\* A step is quiet, or one of the four that touch signals or timers.
LEMMA NextIsQuietOrStop ==
  ASSUME [Next]_vars
  PROVE  \/ Quiet
         \/ \E sig \in Signal : signal_handler(sig)
         \/ timer_handler
         \/ \E sig \in Signal : signal(sig)
         \/ tick
  BY DEF Next, main_queue, Quiet

\* A quiet step does not touch signals or timers.
LEMMA QuietTimers ==
  ASSUME Quiet
  PROVE  UNCHANGED <<timers, pending>>
  BY DEF Quiet, main, createSerialPortConfiguration, createNetworkDeviceConfiguration,
         setupShutdownSignals, start, started, stop_completion, Delegate, guest_stop,
         stop_finished, vars

\* Every step keeps the fallbacks in order, and their number within the bound.
LEMMA TimersStep ==
  ASSUME SwiftInv, [Next]_vars
  PROVE  timers' \in Seq(0 .. StopTimeout) /\ StopsBounded' /\ TimersInOrder'
  <1> USE DEF SwiftInv, StopsBounded
  <1>1. timers \in Seq(0 .. StopTimeout) /\ Len(timers) \in Nat /\ MaxStops \in Nat
    BY SwiftRunnerAssumption, LenProperties DEF TypeOK
  <1>2. Cardinality(pending) \in Nat
    BY PendingFinite
  <1>3. CASE UNCHANGED timers /\ pending' = pending
    BY <1>1, <1>3 DEF TimersInOrder
  <1>4. ASSUME NEW sig \in Signal, signal_handler(sig)
        PROVE  timers' \in Seq(0 .. StopTimeout) /\ StopsBounded' /\ TimersInOrder'
    <2>1. Cardinality(pending') = Cardinality(pending) - 1
      BY <1>4, HandlerMakesRoom DEF signal_handler
    <2>2. CASE timers' = Append(timers, StopTimeout)
      BY <1>1, <1>2, <2>1, <2>2, AppendTimer
    <2>3. CASE UNCHANGED timers
      BY <1>1, <1>2, <2>1, <2>3 DEF TimersInOrder
    <2> QED
      BY <1>4, <2>2, <2>3 DEF signal_handler, shutdownGracefully
  <1>5. CASE timer_handler
    <2>1. pending' = pending /\ timers' = Tail(timers) /\ timers # <<>>
      BY <1>5 DEF timer_handler
    <2> QED
      BY <1>1, <1>2, <2>1, TailTimer
  <1>6. ASSUME NEW sig \in Signal, signal(sig)
        PROVE  timers' \in Seq(0 .. StopTimeout) /\ StopsBounded' /\ TimersInOrder'
    <2>1. UNCHANGED timers /\ Len(timers) + Cardinality(pending) < MaxStops
      BY <1>6 DEF signal
    <2>2. IsFiniteSet(pending) /\ (pending' = pending \/ pending' = pending \cup {sig})
      BY <1>6, PendingFinite DEF signal
    <2>3. Cardinality(pending') \in Nat /\ Cardinality(pending') <= Cardinality(pending) + 1
      <3>1. CASE pending' = pending
        BY <1>2, <3>1
      <3>2. CASE pending' = pending \cup {sig}
        <4>1. Cardinality(pending \cup {sig})
                = IF sig \in pending THEN Cardinality(pending) ELSE Cardinality(pending) + 1
          BY <2>2, FS_AddElement, Zenon
        <4> QED
          BY <1>2, <3>2, <4>1
      <3> QED
        BY <2>2, <3>1, <3>2
    <2> QED
      BY <1>1, <1>2, <2>1, <2>3 DEF TimersInOrder
  <1>7. CASE tick
    <2>1. pending' = pending
      BY <1>7 DEF tick
    <2>2. timers' = [i \in DOMAIN timers |-> IF timers[i] > 0 THEN timers[i] - 1 ELSE 0]
      BY <1>7 DEF tick
    <2> QED
      BY <1>1, <2>1, <2>2, TickTimers
  <1> QED
    BY <1>3, <1>4, <1>5, <1>6, <1>7, QuietTimers, NextIsQuietOrStop

\* The main program and the order of its steps.
LEMMA MainStep ==
  ASSUME SwiftInv, main
  PROVE  /\ pc' \in {"serial", "network", "signals", "start", "loop"} \cup Ended
         /\ terminal' \in {"normal", "raw"}
         /\ handled \subseteq handled' /\ handled' \subseteq Signal
         /\ vm' \in {"created", "starting"}
         /\ OrderOfMain' /\ StopNotMissed'
         /\ UNCHANGED <<pending, timers, delegate, completions, said>>
  <1> USE DEF SwiftInv, TypeOK, OrderOfMain, StopNotMissed, Ended, Signal
  <1>1. CASE createSerialPortConfiguration
    BY <1>1 DEF createSerialPortConfiguration
  <1>2. CASE createNetworkDeviceConfiguration
    BY <1>2 DEF createNetworkDeviceConfiguration, exit
  <1>3. ASSUME NEW sig \in Signal, setupShutdownSignals(sig)
        PROVE  /\ pc' \in {"signals", "start"} /\ pc = "signals"
               /\ (pc' = "start" => handled' = Signal)
               /\ handled \subseteq handled' /\ handled' \subseteq Signal
               /\ UNCHANGED <<terminal, pending, timers, vm, delegate, completions, said>>
    BY <1>3 DEF setupShutdownSignals
  <1>4. CASE \E sig \in Signal : setupShutdownSignals(sig)
    BY <1>3, <1>4
  <1>5. CASE start
    BY <1>5 DEF start
  <1> QED
    BY <1>1, <1>2, <1>4, <1>5 DEF main

\* The handlers on the main queue: each stays in the loop, or exits and restores
\* the terminal.
LEMMA QueueStep ==
  ASSUME SwiftInv, main_queue
  PROVE  /\ pc = "loop"
         /\ UNCHANGED <<pc, terminal>> \/ exit
         /\ handled' = handled /\ pending' \subseteq pending
         /\ vm' \in {"created", "starting", "running", "stopping", "stopped", "error"}
         /\ delegate' \in {delegate, "none"}
         /\ completions' \subseteq {"ok", "error"}
         /\ said' \in {said, "stopped", "failed"}
         /\ StopNotMissed'
         /\ said' = "failed" => said = "failed" \/ (pc' = "exited" /\ vm' # "stopped")
  <1> USE DEF SwiftInv, TypeOK, StopNotMissed, Stay
  <1>1. CASE started
    BY <1>1 DEF started, exit
  <1>2. ASSUME NEW sig \in Signal, signal_handler(sig)
        PROVE  /\ pc = "loop" /\ UNCHANGED <<pc, terminal>>
               /\ handled' = handled /\ pending' \subseteq pending
               /\ delegate' = delegate /\ said' = said
               /\ vm' \in {"created", "starting", "running", "stopping", "stopped", "error"}
               /\ completions' \subseteq {"ok", "error"}
               /\ StopNotMissed'
    BY <1>2 DEF signal_handler, shutdownGracefully, hardStop
  <1>3. CASE \E sig \in Signal : signal_handler(sig)
    BY <1>2, <1>3
  <1>4. CASE timer_handler
    BY <1>4 DEF timer_handler, hardStop
  <1>5. ASSUME NEW c \in {"ok", "error"}, stop_completion(c)
        PROVE  /\ pc = "loop" /\ exit
               /\ UNCHANGED <<handled, pending, vm, delegate>>
               /\ completions' \subseteq {"ok", "error"}
               /\ said' \in {"stopped", "failed"}
               /\ said' = "failed" => vm' # "stopped"
    BY <1>5 DEF stop_completion, StopResult
  <1>6. CASE \E c \in {"ok", "error"} : stop_completion(c)
    BY <1>5, <1>6 DEF exit
  <1>7. CASE Delegate
    BY <1>7 DEF Delegate, exit
  <1> QED
    BY <1>1, <1>3, <1>4, <1>6, <1>7 DEF main_queue

\* The guest and the framework stop it while the runner runs.
LEMMA GuestStep ==
  ASSUME SwiftInv, guest_stop \/ stop_finished
  PROVE  /\ pc \notin Ended
         /\ vm \in {"running", "stopping"} /\ vm' \in {"running", "stopped", "error"}
         /\ delegate' \in {"none", "stop", "error"}
         /\ completions' \subseteq {"ok", "error"}
         /\ StopNotMissed'
         /\ UNCHANGED <<pc, terminal, handled, pending, timers, said>>
  BY DEF SwiftInv, TypeOK, StopNotMissed, guest_stop, stop_finished

\* A signal ends the process only while one of the two has no handler.
LEMMA SignalStep ==
  ASSUME SwiftInv, NEW sig \in Signal, signal(sig)
  PROVE  /\ pc \notin Ended
         /\ pc' \in {pc, "killed"} /\ (pc' = "killed" => handled # Signal)
         /\ pending' \subseteq handled
         /\ UNCHANGED <<terminal, handled, timers, vm, delegate, completions, said>>
  <1> USE DEF SwiftInv, TypeOK, signal
  <1>1. CASE sig \in handled
    BY <1>1 DEF Ended
  <1>2. CASE sig \notin handled
    BY <1>2
  <1> QED
    BY <1>1, <1>2

\* Time changes the timers only.
LEMMA TickStep ==
  ASSUME tick
  PROVE  UNCHANGED <<pc, terminal, handled, pending, vm, delegate, completions, said>>
  BY DEF tick

\* The types that TimersStep leaves.
LEMMA TypeStep ==
  ASSUME SwiftInv, [Next]_vars
  PROVE  TypeOK'
  <1>1. timers' \in Seq(0 .. StopTimeout) /\ StopsBounded'
    BY TimersStep
  <1> DEFINE Rest ==
        /\ pc \in {"serial", "network", "signals", "start", "loop"} \cup Ended
        /\ terminal \in {"normal", "raw"}
        /\ handled \subseteq Signal
        /\ pending \subseteq handled
        /\ vm \in {"created", "starting", "running", "stopping", "stopped", "error"}
        /\ delegate \in {"none", "stop", "error"}
        /\ completions \subseteq {"ok", "error"}
        /\ said \in {"none", "stopped", "failed"}
  <1>2. Rest'
    <2>0. Rest
      BY DEF SwiftInv, TypeOK
    <2>1. CASE main
      BY <2>0, <2>1, MainStep
    <2>2. CASE main_queue
      BY <2>0, <2>2, QueueStep DEF exit, Ended
    <2>3. CASE guest_stop \/ stop_finished
      BY <2>0, <2>3, GuestStep
    <2>4. ASSUME NEW sig \in Signal, signal(sig) PROVE Rest'
      BY <2>0, <2>4, SignalStep DEF Ended
    <2>5. CASE tick
      BY <2>0, <2>5, TickStep
    <2>6. CASE UNCHANGED vars
      BY <2>0, <2>6 DEF vars
    <2> QED
      BY <2>1, <2>2, <2>3, <2>4, <2>5, <2>6 DEF Next
  <1>3. Len(timers') <= MaxStops
    <2>1. IsFiniteSet(pending')
      <3>1. IsFiniteSet(Signal)
        BY SignalFinite
      <3>2. pending' \subseteq Signal
        BY <1>2
      <3> QED
        BY <3>1, <3>2, FS_Subset
    <2>2. Cardinality(pending') \in Nat
      BY <2>1, FS_CardinalityType
    <2>3. Len(timers') \in Nat
      BY <1>1, LenProperties
    <2> QED
      BY <1>1, <2>2, <2>3, SwiftRunnerAssumption DEF StopsBounded
  <1> QED
    BY <1>1, <1>2, <1>3 DEF TypeOK

\* What is said, the order of the main program, and that no stop is missed.
LEMMA OrderStep ==
  ASSUME SwiftInv, [Next]_vars
  PROVE  NoFalseAlarm' /\ OrderOfMain' /\ StopNotMissed'
  <1> USE DEF SwiftInv, NoFalseAlarm, OrderOfMain, Ended
  <1>1. CASE main
    BY <1>1, MainStep
  <1>2. CASE main_queue
    BY <1>2, QueueStep DEF exit
  <1>3. CASE guest_stop \/ stop_finished
    BY <1>3, GuestStep
  <1>4. ASSUME NEW sig \in Signal, signal(sig)
        PROVE  NoFalseAlarm' /\ OrderOfMain' /\ StopNotMissed'
    BY <1>4, SignalStep DEF StopNotMissed
  <1>5. CASE tick
    BY <1>5, TickStep DEF StopNotMissed
  <1>6. CASE UNCHANGED vars
    BY <1>6 DEF StopNotMissed, vars
  <1> QED
    BY <1>1, <1>2, <1>3, <1>4, <1>5, <1>6 DEF Next

\* The runner's invariant, for every timeout and any number of signals.
\* (swift/Sources/test/main.swift)
THEOREM SwiftRunnerInvariant == Spec => []SwiftInv
  <1>1. SwiftInv /\ [Next]_vars => SwiftInv'
    <2> SUFFICES ASSUME SwiftInv, [Next]_vars PROVE SwiftInv'
      OBVIOUS
    <2>1. TypeOK' /\ StopsBounded' /\ TimersInOrder'
      BY TypeStep, TimersStep
    <2>2. NoFalseAlarm' /\ OrderOfMain' /\ StopNotMissed'
      BY OrderStep
    <2>3. TerminalRestored'
      BY <2>2 DEF TerminalRestored, OrderOfMain, Ended
    <2> QED
      BY <2>1, <2>2, <2>3 DEF SwiftInv
  <1> QED
    BY <1>1, InitSwiftInv, PTL DEF Spec

\* A guest that is stopped is never reported as one that could not be stopped,
\* however many stops race.  (hardStop)
THEOREM SwiftNoFalseAlarm == Spec => []NoFalseAlarm
  <1>1. SwiftInv => NoFalseAlarm
    BY DEF SwiftInv
  <1> QED
    BY <1>1, SwiftRunnerInvariant, PTL

\* Every exit leaves the terminal as it was, and neither SIGINT nor SIGTERM ends
\* the runner with a raw terminal once both are handled.
\* (createSerialPortConfiguration)
THEOREM SwiftTerminalRestored == Spec => []TerminalRestored
  <1>1. SwiftInv => TerminalRestored
    BY DEF SwiftInv
  <1> QED
    BY <1>1, SwiftRunnerInvariant, PTL
=============================================================================
