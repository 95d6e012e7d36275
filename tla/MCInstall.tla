----------------------------- MODULE MCInstall -----------------------------
(***************************************************************************)
(* Instances of Install for TLC, and two claims of docs/installation.md    *)
(* that the scripts do not keep.                                           *)
(***************************************************************************)
EXTENDS Install, TLC

CONSTANT shared

\* The one network that the clients of these instances ask for.
SharedNetwork == shared :> [mode |-> "VMNET_SHARED_MODE", subnet |-> "none", mask |-> "none"]

\* "The install will fail if VMs are currently using the broker, to prevent
\* breaking running virtual machines." (docs/installation.md:19)  The script
\* looks before it boots out, so a client may connect in between: the bootout
\* that takes the service away finds it in use.
InstallFailsIfUsed ==
    [][step = "bootout" /\ task = "install" /\ service = "loaded" /\ service' # "loaded"
            => proc # "running" \/ conn = {}]_installVars

\* The uninstall script "Removes the launchd service" (docs/installation.md:49),
\* which the install script put in /Library/LaunchDaemons.  The script deletes
\* the property list only if launchd has the service loaded.
UninstallRemovesService ==
    step = "completed" /\ task = "uninstall" => ~plist
=============================================================================
