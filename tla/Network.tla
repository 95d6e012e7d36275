------------------------------ MODULE Network ------------------------------
(***************************************************************************)
(* The network registry (broker/network.c): shared networks, counted by    *)
(* the peers that use them, deleted when idle for IdleTimeout.             *)
(*                                                                         *)
(* Each operator that changes state is the network.c function of the same  *)
(* name; the XPC layer and the broker call them (module Broker).  All of   *)
(* them run on the main dispatch queue, so each call is one atomic step.   *)
(*                                                                         *)
(* A struct network is identified with its address, and each field is a    *)
(* function of the address, or the set of the addresses where it is not    *)
(* NULL.  Addresses are reused after free(), so comparing stale pointers   *)
(* may succeed by accident, as in C.  The dispatch timer of an object is   *)
(* kept apart from the pointer to it in the struct: forgetting one does    *)
(* not cancel the other.                                                   *)
(***************************************************************************)
EXTENDS NetworkConfig, FiniteSets, Sequences

CONSTANTS
    Utf8Name,            \* the names that are valid UTF-8
    MAX_PEER_NETWORKS,   \* length of broker_context.networks
    IdleTimeout          \* idle_timeout_sec, in clock ticks

ASSUME NetworkAssumption ==
    /\ IsFiniteSet(Peer)
    /\ Utf8Name \subseteq Name
    /\ MAX_PEER_NETWORKS \in Nat \ {0}
    /\ IdleTimeout \in Nat \ {0}

VARIABLES
    registry,      \* registry: name -> object, NULL where the key is absent
    allocated,     \* addresses returned by calloc() and not yet freed
    name,          \* network->name
    peers,         \* network->peers
    vmnet,         \* objects whose vmnet_network_ref has not been released;
                   \* a registered network has its serialization as well
    idle_timers,   \* objects with network->idle_timer != NULL
    source,        \* ticks until the dispatch timer of an object is due, or Off
    networks       \* broker_context.networks[0 .. network_count - 1] of each peer

objectVars == <<allocated, name, peers, vmnet, idle_timers, source>>

networkVars == <<registry, objectVars, networks>>

Off == -1

Registered == {registry[n] : n \in Name} \ {NULL}

\* The peers that have the object in their array, and how many times.
Occurrences(o, seq) == {i \in 1 .. Len(seq) : seq[i] = o}

Holders(o) == {p \in Peer : Occurrences(o, networks[p]) # {}}

NetworkInit ==
    /\ registry = [n \in Name |-> NULL]
    /\ allocated = {}
    /\ name = [o \in Net |-> NULL]
    /\ peers = [o \in Net |-> 0]
    /\ vmnet = {}
    /\ idle_timers = {}
    /\ source = [o \in Net |-> Off]
    /\ networks = [p \in Peer |-> <<>>]
-----------------------------------------------------------------------------
\* Network functions.

\* Frees the objects S of a heap with the given addresses and references.  A
\* freed struct is kept all zero, as the next calloc() returns it.
free_network(S, addresses, refs) ==
    /\ allocated' = addresses \ S
    /\ vmnet' = refs \ S
    /\ name' = [o \in Net |-> IF o \in S THEN NULL ELSE name[o]]
    /\ peers' = [o \in Net |-> IF o \in S THEN 0 ELSE peers[o]]
    /\ idle_timers' = idle_timers \ S
    /\ source' = [o \in Net |-> IF o \in S \cap idle_timers THEN Off ELSE source[o]]

\* The object o, complete, on success.
create_network(o, n) ==
    /\ allocated' = allocated \cup {o}
    /\ name' = [name EXCEPT ![o] = n]
    /\ vmnet' = vmnet \cup {o}

\* Variants of the next definition, and of others below, that differ from it by
\* a slip are used to show that the properties are sensitive to it.

\* Slip: the failure path returns without freeing what was built.
create_network_failure_leaking(o) ==
    \E ref \in {{}, {o}} :
        /\ allocated' = allocated \cup {o}
        /\ vmnet' = vmnet \cup ref
        /\ UNCHANGED <<name, peers, idle_timers, source>>

\* The failure path: the vmnet reference may have been created or not.
create_network_failure(o) ==
    \E ref \in {{}, {o}} : free_network({o}, allocated \cup {o}, vmnet \cup ref)
-----------------------------------------------------------------------------
\* Network registry functions.

\* The key of a name in the dictionary.  CFStringCreateWithCString makes a string
\* of UTF-8 only; of anything else it makes NULL, which nobody looks for and
\* which ends the process in registry_get.
registry_key(n) == IF n \in Utf8Name THEN n ELSE NULL

registry_get(n) == registry[registry_key(n)]

\* Here and in registry_remove the name has a key: registry_get had one for it.
registry_set(n, o) == registry' = [registry EXCEPT ![n] = o]

\* Slip: the dictionary drops the key without the value's release callback.
registry_remove_only(n) ==
    /\ registry' = [registry EXCEPT ![n] = NULL]
    /\ UNCHANGED objectVars

\* The release callback of the dictionary, for the values that it drops.
registry_release(S) == free_network(S, allocated, vmnet)

registry_remove(n) ==
    /\ registry' = [registry EXCEPT ![n] = NULL]
    /\ registry_release({registry[n]} \ {NULL})

\* Releasing the dictionary releases every value.
release_registry ==
    /\ registry' = [n \in Name |-> NULL]
    /\ registry_release(Registered)

\* The networks that the release of peer p's array leaves without peers.  The
\* count of an object drops by its number of occurrences.
Released(p, o) == Cardinality(Occurrences(o, networks[p]))

Emptied(p) == {o \in Net : peers[o] \in 1 .. Released(p, o)}

\* assert(net->idle_timer == NULL) of remove_later, in every round of the loop.
assert_no_idle_timer(p) == Emptied(p) \cap idle_timers = {}

\* Arms the idle timers of the objects S.
remove_later(S) ==
    /\ idle_timers' = idle_timers \cup S
    /\ source' = [o \in Net |-> IF o \in S THEN IdleTimeout ELSE source[o]]

\* The timer's handler.  The source is due when it has no ticks left.
network_idle_timeout(o) ==
    /\ source[o] = 0
    /\ registry_remove(name[o])
    /\ UNCHANGED networks

\* Slip: the pointer is cleared, the timer still runs.
cancel_remove_later_pointer(o) ==
    /\ idle_timers' = idle_timers \ {o}
    /\ UNCHANGED source

\* A canceled source never runs its handler, even if it was already due: the
\* handler is delivered on the queue that cancels it.
cancel_remove_later(o) ==
    /\ idle_timers' = idle_timers \ {o}
    /\ source' = IF o \in idle_timers THEN [source EXCEPT ![o] = Off] ELSE source
-----------------------------------------------------------------------------
\* Peer ownership helpers.

peer_owns_network(p, o) == Occurrences(o, networks[p]) # {}

\* Slip: allows one element too many.
can_add_network_to_peer_off_by_one(p) == Len(networks[p]) <= MAX_PEER_NETWORKS

can_add_network_to_peer(p) == Len(networks[p]) < MAX_PEER_NETWORKS

\* Slip: counts every acquire.
update_peer_ownership_recounting(p, o) ==
    /\ peers' = [peers EXCEPT ![o] = @ + 1]
    /\ networks' = IF peer_owns_network(p, o) THEN networks
                   ELSE [networks EXCEPT ![p] = Append(@, o)]

\* Slip: the room is checked first.
may_own_network_if_room(p, o) == can_add_network_to_peer(p)

\* update_peer_ownership succeeds, with nothing to do if p owns o already.
may_own_network(p, o) == peer_owns_network(p, o) \/ can_add_network_to_peer(p)

\* Its success path.
update_peer_ownership(p, o) ==
    IF peer_owns_network(p, o)
    THEN UNCHANGED <<peers, networks>>
    ELSE /\ peers' = [peers EXCEPT ![o] = @ + 1]
         /\ networks' = [networks EXCEPT ![p] = Append(@, o)]
-----------------------------------------------------------------------------
\* Public API.  rep is the reply that the caller sends.

acquire_registered_network(p, n, rep) ==
    LET o == registry_get(n) IN
    /\ o # NULL
    /\ may_own_network(p, o)
    /\ update_peer_ownership(p, o)
    /\ cancel_remove_later(o)
    /\ rep = NetworkReply(o)
    /\ UNCHANGED <<registry, allocated, name, vmnet>>

acquire_new_network(p, n, rep) ==
    /\ registry_get(n) = NULL
    /\ can_add_network_to_peer(p)
    /\ VMNET_BROKER_SUCCESS \in create_network_configuration(n)
    /\ \E o \in Net \ allocated :
          /\ create_network(o, n)
          /\ registry_set(n, o)
          /\ update_peer_ownership(p, o)
          /\ cancel_remove_later(o)
          /\ rep = NetworkReply(o)

\* A peer at its limit gets nothing new, registered or not.
acquire_too_many(p, n, rep) ==
    /\ IF registry_get(n) = NULL
       THEN ~can_add_network_to_peer(p)
       ELSE ~may_own_network(p, registry_get(n))
    /\ rep = ErrorReply(VMNET_BROKER_INTERNAL_ERROR)
    /\ UNCHANGED networkVars

acquire_bad_configuration(p, n, rep) ==
    /\ registry_get(n) = NULL
    /\ can_add_network_to_peer(p)
    /\ \E error \in create_network_configuration(n) \ {VMNET_BROKER_SUCCESS} :
          rep = ErrorReply(error)
    /\ UNCHANGED networkVars

\* calloc() fails and there is nothing to free, or a later call fails.
acquire_create_failure(p, n, rep) ==
    /\ registry_get(n) = NULL
    /\ can_add_network_to_peer(p)
    /\ VMNET_BROKER_SUCCESS \in create_network_configuration(n)
    /\ \/ UNCHANGED objectVars
       \/ \E o \in Net \ allocated : create_network_failure(o)
    /\ rep = ErrorReply(VMNET_BROKER_CREATE_FAILURE)
    /\ UNCHANGED <<registry, networks>>

acquire_network(p, n, rep) ==
    /\ registry_key(n) # NULL
    /\ \/ acquire_registered_network(p, n, rep)
       \/ acquire_new_network(p, n, rep)
       \/ acquire_too_many(p, n, rep)
       \/ acquire_bad_configuration(p, n, rep)
       \/ acquire_create_failure(p, n, rep)

\* Slip: forgets the networks, does not count them down.
release_peer_networks_forgetting(p) ==
    /\ networks' = [networks EXCEPT ![p] = <<>>]
    /\ UNCHANGED <<registry, objectVars>>

\* The loop, from the last element to the first, as its total effect.  Where
\* assert_no_idle_timer(p) fails, the process aborts.
release_peer_networks(p) ==
    /\ networks' = [networks EXCEPT ![p] = <<>>]
    /\ peers' = [o \in Net |-> peers[o] - Released(p, o)]
    /\ remove_later(Emptied(p))
    /\ UNCHANGED <<registry, allocated, name, vmnet>>

shutdown_networks == release_registry /\ UNCHANGED networks
-----------------------------------------------------------------------------
NetworkTypeOK ==
    /\ registry \in [Name -> Net \cup {NULL}]
    /\ allocated \subseteq Net
    /\ name \in [Net -> Name \cup {NULL}]
    /\ peers \in [Net -> Int]
    /\ vmnet \subseteq Net
    /\ idle_timers \subseteq Net
    /\ source \in [Net -> Off .. IdleTimeout]
    /\ networks \in [Peer -> Seq(Net)]

\* The registry holds exactly the allocated networks, each under its own name
\* and with a live vmnet network: nothing dangles, nothing leaks, and no
\* network is created twice.  And each name has a key, so that no timer can end
\* the process when it removes one.  (registry_set, registry_release,
\* create_network)
RegistryConsistent ==
    /\ Registered = allocated
    /\ vmnet = allocated
    /\ \A n \in Name : registry[n] # NULL => name[registry[n]] = n /\ registry_key(n) # NULL

\* Every pointer in a peer's array is to an allocated network, and no network
\* is in an array twice.  (peer_owns_network, release_peer_networks)
PeerArraysSound ==
    \A p \in Peer :
        /\ \A i \in 1 .. Len(networks[p]) : networks[p][i] \in allocated
        /\ \A i, j \in 1 .. Len(networks[p]) :
              networks[p][i] = networks[p][j] => i = j

\* network_count never passes the end of broker_context.networks.
\* (can_add_network_to_peer)
PeerArraysBounded == \A p \in Peer : Len(networks[p]) <= MAX_PEER_NETWORKS

\* The counter of a network is the number of peers that hold it, however often
\* they asked for it.  (update_peer_ownership, release_peer_networks)
RefCountExact ==
    \A o \in Net : peers[o] = Cardinality(Holders(o))

\* The removal of a network is scheduled exactly when nobody uses it, and its
\* timer runs exactly when the struct points to it: no used network is about to
\* be deleted, and no unused one stays for ever.  (remove_later,
\* cancel_remove_later, free_network)
RemovalScheduledIffUnused ==
    /\ idle_timers = {o \in allocated : Holders(o) = {}}
    /\ \A o \in Net : source[o] # Off <=> o \in idle_timers

\* A freed struct is kept blank, as the next calloc() returns it; the counter
\* and the timer are zero by the invariants above.
FreedHasNoName == \A o \in Net \ allocated : name[o] = NULL

\* The inductive invariant of the registry.
NetworkInv ==
    /\ NetworkTypeOK
    /\ RegistryConsistent
    /\ PeerArraysSound
    /\ PeerArraysBounded
    /\ RefCountExact
    /\ RemovalScheduledIffUnused
    /\ FreedHasNoName
=============================================================================
