--------------------------- MODULE InstallProofs ---------------------------
(***************************************************************************)
(* The install and uninstall scripts beside the broker, for any number of  *)
(* peers, names and addresses, and any timeout.                            *)
(***************************************************************************)
EXTENDS Install, BrokerLeaseProofs

\* What the scripts see of the broker never changes the broker: every step is one
\* of the broker, or leaves it alone.
LEMMA ScriptStep == [InstallNext]_installVars => [Next]_vars
<1> SUFFICES ASSUME [InstallNext]_installVars PROVE [Next]_vars
  OBVIOUS
<1>1. CASE launch \/ client_event \/ broker_event \/ sigterm_exit \/ exit_timeout
  BY <1>1 DEF launch, client_event, broker_event, sigterm_exit, exit_timeout, Next
<1>2. CASE sigterm_ignored \/ (\E t \in Task : run_script(t)) \/ UNCHANGED installVars
  BY <1>2 DEF sigterm_ignored, run_script, installVars
<1>3. CASE script_step
  BY <1>3 DEF script_step, service_installed, service_pid, kill_term, poll, bootout,
              delete_plist, install_files, delete_files, postinstall, Goto
<1> QED
  BY <1>1, <1>2, <1>3 DEF InstallNext

\* The scripts start in their invariant.
LEMMA InstallInitInv == InstallInit => InstallInv
<1> SUFFICES ASSUME InstallInit PROVE InstallInv
  OBVIOUS
<1>1. InstallTypeOK
  <2>1. /\ task \in Task /\ step \in Commands \cup Ended /\ pid \in {"none", "alive", "gone"}
        /\ attempt \in 0 .. stop_timeout /\ service \in {"loaded", "removing", "absent"}
        /\ since \subseteq Peer
    BY InstallAssumption DEF InstallInit, Task, Commands, Ended
  <2>2. term \in BOOLEAN /\ plist \in BOOLEAN /\ program \in BOOLEAN
    BY DEF InstallInit
  <2> QED
    BY <2>1, <2>2 DEF InstallTypeOK
<1>2. ScriptProgress /\ StayingPeerStopsScript
  BY DEF InstallInit, ScriptProgress, StayingPeerStopsScript
<1>3. CompletedMeansDone /\ NoOldBroker
  BY DEF InstallInit, CompletedMeansDone, NoOldBroker
<1> QED
  BY <1>1, <1>2, <1>3 DEF InstallInv

\* A step of the broker, and what the scripts see of it, keeps the invariant.
LEMMA FollowInv ==
    ASSUME InstallInv, Follow, TypeOK', proc = "running" \/ service = "loaded"
    PROVE  InstallInv'
<1>1. InstallTypeOK'
  <2>1. /\ task' \in Task /\ step' \in Commands \cup Ended /\ pid' \in {"none", "alive", "gone"}
        /\ attempt' \in 0 .. stop_timeout /\ service' \in {"loaded", "removing", "absent"}
    BY DEF InstallInv, InstallTypeOK, Follow
  <2>2. term' \in BOOLEAN
    BY DEF Follow
  <2>3. plist' \in BOOLEAN /\ program' \in BOOLEAN
    BY DEF InstallInv, InstallTypeOK, Follow
  <2>4. since' \subseteq Peer
    BY DEF InstallInv, InstallTypeOK, Follow
  <2> QED
    BY <2>1, <2>2, <2>3, <2>4 DEF InstallTypeOK
<1>2. since' \subseteq since
  BY DEF Follow
<1>3. pid' = "alive" => pid = "alive" /\ proc' = "running"
  BY DEF Follow
<1>4. since' # {} => pid' = "alive"
  BY <1>2 DEF Follow, InstallInv, ScriptProgress
<1>5. service' = "loaded" <=> service = "loaded"
  BY DEF Follow
<1>6. UNCHANGED <<task, step, attempt, plist, program>>
  BY DEF Follow
<1>7. ScriptProgress'
  BY <1>2, <1>3, <1>4, <1>5, <1>6 DEF InstallInv, ScriptProgress
<1>8. StayingPeerStopsScript'
  BY <1>2, <1>6 DEF InstallInv, StayingPeerStopsScript
<1>9. CompletedMeansDone'
  BY <1>5, <1>6 DEF InstallInv, CompletedMeansDone
<1>10. NoOldBroker'
  BY DEF InstallInv, NoOldBroker, Follow
<1> QED
  BY <1>1, <1>7, <1>8, <1>9, <1>10 DEF InstallInv

\* So does a command of a script.
LEMMA CommandInv ==
    ASSUME InstallInv, TypeOK,
           sigterm_ignored \/ (\E t \in Task : run_script(t)) \/ script_step
    PROVE  InstallInv'
<1> USE InstallAssumption DEF Goto, vars, brokerVars
<1>1. InstallTypeOK'
  <2>1. /\ task' \in Task /\ step' \in Commands \cup Ended
        /\ pid' \in {"none", "alive", "gone"} /\ service' \in {"loaded", "removing", "absent"}
    BY DEF InstallInv, InstallTypeOK, sigterm_ignored, run_script, script_step,
           service_installed, service_pid, kill_term, poll, bootout, delete_plist,
           install_files, delete_files, postinstall, Commands, Ended
  <2>2. attempt' \in 0 .. stop_timeout
    <3>1. CASE poll
      BY <3>1 DEF poll, InstallInv, InstallTypeOK, ScriptProgress
    <3>2. CASE attempt' \in {0, attempt}
      BY <3>2 DEF InstallInv, InstallTypeOK
    <3> QED
      BY <3>1, <3>2
         DEF sigterm_ignored, run_script, script_step,
           service_installed, service_pid, kill_term, poll, bootout, delete_plist,
           install_files, delete_files, postinstall
  <2>3. term' \in BOOLEAN
    BY DEF InstallInv, InstallTypeOK, sigterm_ignored, run_script, script_step,
           service_installed, service_pid, kill_term, poll, bootout, delete_plist,
           install_files, delete_files, postinstall
  <2>4. plist' \in BOOLEAN /\ program' \in BOOLEAN
    BY DEF InstallInv, InstallTypeOK, sigterm_ignored, run_script, script_step,
           service_installed, service_pid, kill_term, poll, bootout, delete_plist,
           install_files, delete_files, postinstall
  <2>5. since' \subseteq Peer
    BY DEF InstallInv, InstallTypeOK, TypeOK, sigterm_ignored, run_script, script_step,
           service_installed, service_pid, kill_term, poll, bootout, delete_plist,
           install_files, delete_files, postinstall
  <2> QED
    BY <2>1, <2>2, <2>3, <2>4, <2>5 DEF InstallTypeOK
<1>2. /\ ScriptProgress'
      /\ StayingPeerStopsScript'
      /\ CompletedMeansDone'
      /\ NoOldBroker'
  <2> USE DEF InstallInv, InstallTypeOK, ScriptProgress, StayingPeerStopsScript,
              CompletedMeansDone, NoOldBroker, Ended, Commands
  <2>1. CASE sigterm_ignored
    BY <2>1 DEF sigterm_ignored
  <2>2. CASE \E t \in Task : run_script(t)
    BY <2>2 DEF run_script
  <2>3. CASE service_installed
    BY <2>3 DEF service_installed
  <2>4. CASE service_pid
    BY <2>4 DEF service_pid
  <2>5. CASE kill_term
    BY <2>5 DEF kill_term
  <2>6. CASE poll
    BY <2>6 DEF poll
  <2>7. CASE bootout
    <3>1. /\ step = "bootout" /\ step' = IF task = "install" THEN "files" ELSE "plist"
          /\ service' = service \/ service' = "removing" \/ proc # "running" \/ service = "absent"
          /\ UNCHANGED <<proc, task, pid, attempt, plist, program, since>>
      BY <2>7 DEF bootout
    <3> QED
      BY <3>1 DEF Task
  <2>8. CASE delete_plist
    BY <2>8 DEF delete_plist
  <2>9. CASE install_files
    BY <2>9 DEF install_files
  <2>10. CASE delete_files
    BY <2>10 DEF delete_files
  <2>11. CASE postinstall
    BY <2>11 DEF postinstall
  <2> QED
    BY <2>1, <2>2, <2>3, <2>4, <2>5, <2>6, <2>7, <2>8, <2>9, <2>10, <2>11 DEF script_step
<1> QED
  BY <1>1, <1>2 DEF InstallInv

LEMMA InstallNextInv ==
    TypeOK /\ TypeOK' /\ InstallInv /\ [InstallNext]_installVars => InstallInv'
<1> SUFFICES ASSUME TypeOK, TypeOK', InstallInv, [InstallNext]_installVars
             PROVE  InstallInv'
  OBVIOUS
<1>1. CASE launch
  BY <1>1, FollowInv DEF launch
<1>2. CASE client_event \/ broker_event \/ sigterm_exit \/ exit_timeout
  <2>1. Follow
    BY <1>2 DEF client_event, broker_event, sigterm_exit, exit_timeout
  <2>2. proc = "running"
    BY <1>2 DEF client_event, broker_event, sigterm_exit, exit_timeout, handle_connection,
       on_peer_disconnect, on_peer_request, on_peer_request_crash, on_network_idle,
       on_broker_idle, on_signal, on_listener_error, launchd_reclaim, tick
  <2> QED
    BY <2>1, <2>2, FollowInv
<1>3. CASE sigterm_ignored \/ (\E t \in Task : run_script(t)) \/ script_step
  BY <1>3, CommandInv
<1>4. CASE UNCHANGED installVars
  BY <1>4 DEF installVars, scriptVars, vars, brokerVars, InstallInv, InstallTypeOK,
              ScriptProgress, StayingPeerStopsScript, CompletedMeansDone, NoOldBroker
<1> QED
  BY <1>1, <1>2, <1>3, <1>4 DEF InstallNext

\* The scripts and launchd do nothing to a broker that it is not ready for: with
\* them around it is still the broker whose properties are proved.
THEOREM InstallImplementsBroker == InstallSpec => Spec
<1>1. InstallInit => Init
  BY DEF InstallInit
<1> QED
  BY <1>1, ScriptStep, PTL DEF InstallSpec, Spec

\* So clients keep the promise of the lease service while scripts run: no command
\* of a script takes a lease, and launchd's ExitTimeOut, the only new way to lose
\* one, looks to them like a service that failed.
THEOREM ScriptsKeepLease == InstallSpec => ImplementsLease
BY InstallImplementsBroker, BrokerImplementsLease, PTL

\* What a script knows at each of its commands is true, whatever clients, timers
\* and launchd do in between.
THEOREM InstallInvariant == InstallSpec => []InstallInv
<1>1. InstallSpec => []TypeOK
  BY InstallImplementsBroker, TypeCorrect, PTL
<1> QED
  BY <1>1, InstallInitInv, InstallNextInv, PTL DEF InstallSpec

\* The variables of the scripts keep their types.
THEOREM ScriptsTypeCorrect == InstallSpec => []InstallTypeOK
<1>1. InstallInv => InstallTypeOK
  BY DEF InstallInv
<1> QED
  BY <1>1, InstallInvariant, PTL

\* A script never boots the service out under a client that was connected when it
\* looked and stays connected, for any timeout and any number of clients.
THEOREM StayingPeersSpared == InstallSpec => []StayingPeerStopsScript
<1>1. InstallInv => StayingPeerStopsScript
  BY DEF InstallInv
<1> QED
  BY <1>1, InstallInvariant, PTL

\* A script that says it completed did what it is for, although it ignores a
\* bootout that failed.
THEOREM CompletedScriptsDone == InstallSpec => []CompletedMeansDone
<1>1. InstallInv => CompletedMeansDone
  BY DEF InstallInv
<1> QED
  BY <1>1, InstallInvariant, PTL
=============================================================================
