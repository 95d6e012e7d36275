---------------------------- MODULE NetworkConfig ----------------------------
(***************************************************************************)
(* The network configuration table and its translation into a vmnet        *)
(* configuration (broker/config.c).                                        *)
(*                                                                         *)
(* The functions are modelled by the set of statuses they can end with:    *)
(* the vmnet framework may refuse any call, a malformed address always     *)
(* fails.  The configuration object itself is created, used and released   *)
(* within one request and has no state of its own.                         *)
(***************************************************************************)
EXTENDS Protocol

CONSTANT
    builtin_networks    \* function from the configured names to their settings

\* struct network_config.  Addresses are told apart only by whether they are
\* given at all and whether inet_pton accepts them.
Address == {"none", "wellformed", "malformed"}

NetworkSettings == [mode   : {"VMNET_SHARED_MODE", "VMNET_HOST_MODE"},
                    subnet : Address,
                    mask   : Address]

ASSUME ConfigAssumption ==
    /\ DOMAIN builtin_networks \subseteq Name
    /\ \A n \in DOMAIN builtin_networks : builtin_networks[n] \in NetworkSettings

\* A subnet without a mask, or a mask without a subnet, is ignored.
create_vmnet_configuration(config) ==
    IF /\ config.subnet # "none"
       /\ config.mask # "none"
       /\ "malformed" \in {config.subnet, config.mask}
    THEN {VMNET_BROKER_CREATE_FAILURE}
    ELSE {VMNET_BROKER_SUCCESS, VMNET_BROKER_CREATE_FAILURE}

find_network_config(n) == n \in DOMAIN builtin_networks

create_network_configuration(n) ==
    IF find_network_config(n)
    THEN create_vmnet_configuration(builtin_networks[n])
    ELSE {VMNET_BROKER_NOT_FOUND}
=============================================================================
