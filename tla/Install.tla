------------------------------ MODULE Install ------------------------------
(***************************************************************************)
(* The install and uninstall scripts (scripts/install.sh.in,               *)
(* scripts/uninstall.sh.in, scripts/common.sh) against a broker in use.    *)
(*                                                                         *)
(* A script stops the broker, boots the service out of launchd, replaces   *)
(* or deletes the files and, when it installs, bootstraps the service.     *)
(* Each of its commands is one action; between two of them clients connect *)
(* and leave, timers fire and launchd starts the broker again.             *)
(***************************************************************************)
EXTENDS Broker

CONSTANT stop_timeout   \* attempts to see the broker gone, one second apart

ASSUME InstallAssumption == stop_timeout \in Nat \ {0}

VARIABLES
    task,      \* what the script is for
    step,      \* the next command of the script, or how it ended
    pid,       \* the process whose pid the script holds: none, alive or gone
    attempt,   \* the variable i of the loop in try_stop_service
    term,      \* a SIGTERM waits for the main queue of the broker
    service,   \* the service in launchd
    plist,     \* the service is defined in /Library/LaunchDaemons
    program,   \* the broker is installed
    since      \* peers of that process since the script read its pid

scriptVars == <<task, step, pid, attempt, term, service, plist, program, since>>

installVars == <<vars, scriptVars>>

Task == {"install", "uninstall"}

Ended == {"refused", "failed", "completed"}

Commands == {"service_installed", "service_pid", "kill", "poll", "bootout", "plist",
             "files", "bootstrap"}

\* The service is installed and runs, and no script was started yet.
InstallInit ==
    /\ Init
    /\ task = "install"
    /\ step = "completed"
    /\ pid = "none"
    /\ attempt = 0
    /\ term = FALSE
    /\ service = "loaded"
    /\ plist = TRUE
    /\ program = TRUE
    /\ since = {}
-----------------------------------------------------------------------------
\* The environment of the scripts: what they see of a step of the broker.  When
\* the process ends, its pid is free, its pending signal is dropped, and launchd
\* finishes a removal that waited for it.
Follow ==
    /\ pid' = IF pid = "alive" /\ proc' # "running" THEN "gone" ELSE pid
    /\ term' = (term /\ proc' = "running")
    /\ since' = IF proc' = "running" THEN since \cap conn' ELSE {}
    /\ service' = IF service = "removing" /\ proc' # "running" THEN "absent" ELSE service
    /\ UNCHANGED <<task, step, attempt, plist, program>>

\* launchd starts the broker for a client while the service is loaded and has its
\* program.
launch == service = "loaded" /\ program /\ main /\ Follow

\* Clients connect (or were waiting for the listener), ask and leave.
client_event ==
    /\ \/ \E p \in Peer : handle_connection(p) \/ on_peer_disconnect(p)
       \/ \E p \in Peer, req \in Request, rep \in Reply : on_peer_request(p, req, rep)
       \/ \E p \in Peer, req \in Request : on_peer_request_crash(p, req)
    /\ Follow

\* The other events of the broker; on_signal is a signal of anybody else.
broker_event ==
    /\ \/ \E o \in Net : on_network_idle(o)
       \/ on_broker_idle \/ on_signal \/ on_listener_error \/ launchd_reclaim \/ tick
    /\ Follow

\* The broker exits on the SIGTERM of the script or of launchd...
sigterm_exit == term /\ on_signal /\ Follow

\* ...or ignores it, once and for all, because peers are connected.
sigterm_ignored ==
    /\ term
    /\ proc = "running"
    /\ connected_peers > 0
    /\ term' = FALSE
    /\ UNCHANGED <<vars, task, step, pid, attempt, service, plist, program, since>>

\* launchd's ExitTimeOut: SIGKILL for a service that was booted out and still
\* runs.  As with a broken listener, no handler runs and the networks are lost.
exit_timeout ==
    /\ service = "removing"
    /\ on_listener_error
    /\ Follow
-----------------------------------------------------------------------------
\* The commands of the scripts.

\* Somebody runs a script, as root and with its tarball at hand.
run_script(t) ==
    /\ step \in Ended
    /\ step' = "service_installed"
    /\ task' = t
    /\ pid' = "none"
    /\ attempt' = 0
    /\ since' = {}
    /\ UNCHANGED <<vars, term, service, plist, program>>

Goto(s) ==
    /\ step' = s
    /\ UNCHANGED <<vars, task>>

service_installed ==
    /\ step = "service_installed"
    /\ Goto(IF service = "absent" THEN "files" ELSE "service_pid")
    /\ UNCHANGED <<pid, attempt, term, service, plist, program, since>>

\* try_stop_service: nothing to stop if the service has no process.
service_pid ==
    /\ step = "service_pid"
    /\ IF proc = "running"
       THEN Goto("kill") /\ pid' = "alive" /\ since' = conn
       ELSE Goto("bootout") /\ UNCHANGED <<pid, since>>
    /\ UNCHANGED <<attempt, term, service, plist, program>>

\* kill -TERM; that it fails for a process that is gone changes nothing, as
\* errexit is off inside an if condition.
kill_term ==
    /\ step = "kill"
    /\ Goto("poll")
    /\ term' = (term \/ pid = "alive")
    /\ UNCHANGED <<pid, attempt, service, plist, program, since>>

\* Slip: a script that does not stop after the timeout.
poll_without_timeout ==
    /\ step = "poll"
    /\ Goto(IF pid = "alive" THEN "poll" ELSE "bootout")
    /\ UNCHANGED <<pid, attempt, term, service, plist, program, since>>

\* Slip: the loop ends and its result is success.
poll_returning_success ==
    /\ step = "poll"
    /\ attempt' = attempt + 1
    /\ Goto(IF pid = "alive" /\ attempt' < stop_timeout THEN "poll" ELSE "bootout")
    /\ UNCHANGED <<pid, term, service, plist, program, since>>

\* One turn of the loop: sleep 1 and kill -0.
poll ==
    /\ step = "poll"
    /\ attempt' = attempt + 1
    /\ Goto(IF pid # "alive" THEN "bootout"
            ELSE IF attempt' < stop_timeout THEN "poll" ELSE "refused")
    /\ UNCHANGED <<pid, term, service, plist, program, since>>

\* launchctl bootout.  launchd takes the service away from clients; if a process
\* runs it is sent a SIGTERM, and the command may return before it is gone.  Or
\* the command fails and changes nothing: the script ignores its result.
bootout ==
    /\ step = "bootout"
    /\ Goto(IF task = "install" THEN "files" ELSE "plist")
    /\ \/ UNCHANGED <<service, term>>
       \/ /\ service' = IF proc = "running" /\ service # "absent" THEN "removing" ELSE "absent"
          /\ term' = (term \/ service' = "removing")
    /\ UNCHANGED <<pid, attempt, plist, program, since>>

\* The uninstall script deletes the property list of a service that was loaded.
\* Here and below, a command that fails ends the script.
delete_plist ==
    /\ step = "plist"
    /\ \/ Goto("files") /\ plist' = FALSE
       \/ Goto("failed") /\ UNCHANGED plist
    /\ UNCHANGED <<pid, attempt, term, service, program, since>>

\* Slip: the script goes on when tar fails.
install_files_ignoring_result ==
    /\ step = "files"
    /\ task = "install"
    /\ Goto("bootstrap")
    /\ plist' \in {plist, TRUE} /\ program' \in {program, TRUE}
    /\ UNCHANGED <<pid, attempt, term, service, since>>

\* install_files, after preinstall has made the group and the user.  tar may
\* fail with only some of the files extracted.
install_files ==
    /\ step = "files"
    /\ task = "install"
    /\ \/ Goto("bootstrap") /\ plist' = TRUE /\ program' = TRUE
       \/ Goto("failed") /\ plist' \in {plist, TRUE} /\ program' \in {program, TRUE}
    /\ UNCHANGED <<pid, attempt, term, service, since>>

\* The other deletions of the uninstall script: program, logs, group and user.
delete_files ==
    /\ step = "files"
    /\ task = "uninstall"
    /\ \/ Goto("completed") /\ program' = FALSE
       \/ Goto("failed") /\ program' \in {program, FALSE}
    /\ UNCHANGED <<pid, attempt, term, service, plist, since>>

\* Slip: the result of launchctl bootstrap is ignored.
postinstall_ignoring_result ==
    /\ step = "bootstrap"
    /\ Goto("completed")
    /\ service' = IF service = "absent" THEN "loaded" ELSE service
    /\ UNCHANGED <<pid, attempt, term, plist, program, since>>

\* postinstall: launchctl bootstrap refuses a service that launchd still has.
postinstall ==
    /\ step = "bootstrap"
    /\ \/ service = "absent" /\ Goto("completed") /\ service' = "loaded"
       \/ Goto("failed") /\ UNCHANGED service
    /\ UNCHANGED <<pid, attempt, term, plist, program, since>>

script_step ==
    \/ service_installed
    \/ service_pid
    \/ kill_term
    \/ poll
    \/ bootout
    \/ delete_plist
    \/ install_files
    \/ delete_files
    \/ postinstall

InstallNext ==
    \/ launch
    \/ client_event
    \/ broker_event
    \/ sigterm_exit
    \/ sigterm_ignored
    \/ exit_timeout
    \/ \E t \in Task : run_script(t)
    \/ script_step

InstallSpec == InstallInit /\ [][InstallNext]_installVars

\* A script that runs goes on; nobody else has to do anything.
InstallFairness == WF_installVars(script_step)

InstallFairSpec == InstallSpec /\ InstallFairness
-----------------------------------------------------------------------------
InstallTypeOK ==
    /\ task \in Task
    /\ step \in Commands \cup Ended
    /\ pid \in {"none", "alive", "gone"}
    /\ attempt \in 0 .. stop_timeout
    /\ term \in BOOLEAN
    /\ service \in {"loaded", "removing", "absent"}
    /\ plist \in BOOLEAN
    /\ program \in BOOLEAN
    /\ since \subseteq Peer

\* A client that was connected when the script looked at the broker, and stays
\* connected, stops the script: it is never booted out.  (try_stop_service,
\* with the broker's signal handler)
StayingPeerStopsScript ==
    step \in {"bootout", "plist", "files", "bootstrap", "failed", "completed"} => since = {}

\* A script that says it completed did what it is for, although it ignores a
\* bootout that failed: after an install the service is loaded with its files in
\* place; after an uninstall the program is gone, and of the service at most one
\* half is left, loaded until the next boot or defined and not loaded.
\* (preinstall, postinstall, uninstall.sh)
CompletedMeansDone ==
    step = "completed" =>
        IF task = "install"
        THEN service = "loaded" /\ plist /\ program
        ELSE ~program /\ ~(service = "loaded" /\ plist)

\* An install never completes over a broker of the release before: a process
\* outlives the files it was started from, but while it runs launchd has its
\* service and refuses to bootstrap another.  (preinstall, postinstall)
NoOldBroker == service = "absent" => proc # "running"

\* How far a script is: what it knows of the process, of the service and of the
\* files at each of its commands.
ScriptProgress ==
    /\ pid = "alive" => proc = "running"
    /\ since # {} => pid = "alive" /\ step \in {"kill", "poll", "refused"}
    /\ step \in {"service_installed", "service_pid", "kill"} => attempt = 0
    /\ step = "poll" => attempt < stop_timeout
    /\ step = "plist" => task = "uninstall"
    /\ step = "files" /\ task = "uninstall" => ~(service = "loaded" /\ plist)
    /\ step = "bootstrap" => task = "install" /\ plist /\ program

\* The inductive invariant of the scripts beside the broker.
InstallInv ==
    /\ InstallTypeOK
    /\ ScriptProgress
    /\ StayingPeerStopsScript
    /\ CompletedMeansDone
    /\ NoOldBroker

\* Every script ends: refusing, failing or completing.  (stop_timeout)
ScriptEnds == step \in Commands ~> step \in Ended
=============================================================================
