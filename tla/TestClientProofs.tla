-------------------------- MODULE TestClientProofs --------------------------
(***************************************************************************)
(* The arrays and the interfaces of the test client, for any length of the *)
(* arrays and any number of names.                                         *)
(***************************************************************************)
EXTENDS TestClient, TLAPS

USE TestClientAssumption
    DEF Ended, Stopping, vars, optVars, TooManyNames, InterfacesLeft, dispatch_semaphore_signal

\* The test client starts in its invariant.
LEMMA TestInitInv == Init => TestInv
<1> SUFFICES ASSUME Init PROVE TestInv
  OBVIOUS
<1>1. TypeOK
  BY DEF Init, TypeOK
<1>2. ArraysBounded /\ InterfacesTracked /\ HandlersPaired
  BY DEF Init, ArraysBounded, InterfacesTracked, HandlersPaired
<1> QED
  BY <1>1, <1>2 DEF TestInv

\* Before the first interface: parsing, and the set-up of the signals.
LEMMA SetupInv ==
    ASSUME TestInv, parse_options \/ setup_kq_block \/ setup_kq_register \/ signal
    PROVE  TestInv'
<1> USE DEF TestInv
<1>1. TypeOK'
  <2> USE DEF TypeOK, parse_options, setup_kq_block, setup_kq_register, signal
  <2>1. /\ pc' \in Ended \cup Stopping
                   \cup {"parse_options", "setup_kq", "register", "acquire_network",
                         "start_interface", "starting", "wait"}
        /\ signals' \in {"default", "blocked", "registered", "event"}
    OBVIOUS
  <2>2. args' \in 0 .. MaxArgs
    OBVIOUS
  <2>3. UNCHANGED <<quick, running, handler, completed>>
    OBVIOUS
  <2> QED
    BY <2>1, <2>2, <2>3
<1>2. ArraysBounded'
  BY DEF ArraysBounded, parse_options, setup_kq_block, setup_kq_register, signal
<1>3. InterfacesTracked'
  BY DEF InterfacesTracked, HandlersPaired, TypeOK, parse_options, setup_kq_block,
         setup_kq_register, signal
<1>4. HandlersPaired'
  BY DEF HandlersPaired, TypeOK, parse_options, setup_kq_block, setup_kq_register, signal
<1> QED
  BY <1>1, <1>2, <1>3, <1>4

\* The loop that acquires networks and starts interfaces.
LEMMA StartInv ==
    ASSUME TestInv, acquire_network \/ start_interface \/ start_completed \/ start_interface_wait
    PROVE  TestInv'
<1> USE DEF TestInv
<1>1. TypeOK'
  <2> USE DEF TypeOK, acquire_network, start_interface, start_completed, start_interface_wait
  <2>1. /\ pc' \in Ended \cup Stopping
                   \cup {"parse_options", "setup_kq", "register", "acquire_network",
                         "start_interface", "starting", "wait"}
        /\ handler' \in {"none", "start", "stop", "never"}
    OBVIOUS
  <2>2. running' \subseteq 0 .. MAX_INTERFACES - 1
    <3>1. CASE start_completed
      <4>1. interface_count \in 0 .. MAX_INTERFACES - 1
        BY <3>1 DEF HandlersPaired, ArraysBounded
      <4> QED
        BY <3>1, <4>1
    <3>2. CASE UNCHANGED running
      BY <3>2
    <3> QED
      BY <3>1, <3>2
  <2>3. completed' \in BOOLEAN
    OBVIOUS
  <2>4. UNCHANGED <<args, quick, signals>>
    OBVIOUS
  <2> QED
    BY <2>1, <2>2, <2>3, <2>4
<1>2. ArraysBounded'
  BY DEF ArraysBounded, HandlersPaired, acquire_network, start_interface, start_completed,
         start_interface_wait
<1>3. InterfacesTracked'
  <2> USE DEF InterfacesTracked, HandlersPaired, ArraysBounded, TypeOK
  <2>1. CASE acquire_network \/ start_interface
    BY <2>1 DEF acquire_network, start_interface
  <2>2. CASE start_completed
    BY <2>2 DEF start_completed
  <2>3. CASE start_interface_wait
    BY <2>3 DEF start_interface_wait
  <2> QED
    BY <2>1, <2>2, <2>3
<1>4. HandlersPaired'
  BY DEF HandlersPaired, ArraysBounded, TypeOK, acquire_network, start_interface,
         start_completed, start_interface_wait
<1> QED
  BY <1>1, <1>2, <1>3, <1>4

\* The wait for a signal, and the loop that stops the interfaces.
LEMMA StopInv ==
    ASSUME TestInv,
           wait_for_termination \/ stop_interfaces \/ stop_completed \/ stop_interfaces_wait
    PROVE  TestInv'
<1> USE DEF TestInv
<1>1. TypeOK'
  BY DEF TypeOK, wait_for_termination, stop_interfaces, stop_completed, stop_interfaces_wait
<1>2. ArraysBounded'
  BY DEF ArraysBounded, wait_for_termination, stop_interfaces, stop_completed,
         stop_interfaces_wait
<1>3. InterfacesTracked'
  <2> USE DEF InterfacesTracked, HandlersPaired, ArraysBounded, TypeOK
  <2>1. CASE wait_for_termination \/ stop_interfaces_wait
    BY <2>1 DEF wait_for_termination, stop_interfaces_wait
  <2>2. CASE stop_interfaces
    BY <2>2 DEF stop_interfaces
  <2>3. CASE stop_completed
    BY <2>3 DEF stop_completed
  <2> QED
    BY <2>1, <2>2, <2>3
<1>4. HandlersPaired'
  BY DEF HandlersPaired, ArraysBounded, TypeOK, wait_for_termination, stop_interfaces,
         stop_completed, stop_interfaces_wait
<1> QED
  BY <1>1, <1>2, <1>3, <1>4

\* The invariant of the test client holds in every reachable state.
THEOREM TestInvariant == Spec => []TestInv
<1>1. TestInv /\ [Next]_vars => TestInv'
  <2> SUFFICES ASSUME TestInv, [Next]_vars PROVE TestInv'
    OBVIOUS
  <2>1. CASE UNCHANGED vars
    BY <2>1 DEF TestInv, TypeOK, ArraysBounded, InterfacesTracked, HandlersPaired
  <2> QED
    BY <2>1, SetupInv, StartInv, StopInv DEF Next, main, vmnet_queue
<1> QED
  BY <1>1, TestInitInv, PTL DEF Spec

\* No array of the test client is written past its end.
THEOREM ArraysNeverOverflow == Spec => []ArraysBounded
<1>1. TestInv => ArraysBounded
  BY DEF TestInv
<1> QED
  BY <1>1, TestInvariant, PTL

\* A test that prints "ok" has stopped every interface that it started.
THEOREM InterfacesAreTracked == Spec => []InterfacesTracked
<1>1. TestInv => InterfacesTracked
  BY DEF TestInv
<1> QED
  BY <1>1, TestInvariant, PTL
=============================================================================
