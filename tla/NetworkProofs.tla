--------------------------- MODULE NetworkProofs ---------------------------
(***************************************************************************)
(* Every function of the registry preserves its invariant, for any number  *)
(* of peers, names and addresses, any limit and any timeout.               *)
(***************************************************************************)
EXTENDS Network, FiniteSetTheorems, TLAPS

USE DEF Off

\* An appended element is the only new occurrence.
LEMMA OccurrencesAppend ==
    ASSUME NEW seq \in Seq(Net), NEW o \in Net, NEW x \in Net
    PROVE  /\ Occurrences(x, Append(seq, o)) # {} <=> x = o \/ Occurrences(x, seq) # {}
           /\ Occurrences(x, <<>>) = {}
<1>1. Occurrences(x, <<>>) = {}
  BY DEF Occurrences
<1>2. ASSUME Occurrences(x, Append(seq, o)) # {}
      PROVE  x = o \/ Occurrences(x, seq) # {}
  <2>1. PICK i \in 1 .. Len(Append(seq, o)) : Append(seq, o)[i] = x
    BY <1>2 DEF Occurrences
  <2>2. CASE i = Len(seq) + 1
    BY <2>1, <2>2
  <2>3. CASE i \in 1 .. Len(seq)
    BY <2>1, <2>3 DEF Occurrences
  <2> QED
    BY <2>1, <2>2, <2>3
<1>3. ASSUME x = o
      PROVE  Occurrences(x, Append(seq, o)) # {}
  <2>1. Append(seq, o)[Len(seq) + 1] = o /\ Len(seq) + 1 \in 1 .. Len(Append(seq, o))
    OBVIOUS
  <2> QED
    BY <1>3, <2>1 DEF Occurrences
<1>4. ASSUME Occurrences(x, seq) # {}
      PROVE  Occurrences(x, Append(seq, o)) # {}
  <2>1. PICK i \in 1 .. Len(seq) : seq[i] = x
    BY <1>4 DEF Occurrences
  <2>2. Append(seq, o)[i] = x /\ i \in 1 .. Len(Append(seq, o))
    BY <2>1
  <2> QED
    BY <2>2 DEF Occurrences
<1> QED
  BY <1>1, <1>2, <1>3, <1>4

\* The holders after a peer gets one more network.
LEMMA HoldersAppend ==
    ASSUME networks \in [Peer -> Seq(Net)], NEW p \in Peer, NEW o \in Net,
           networks' = [networks EXCEPT ![p] = Append(@, o)]
    PROVE  \A x \in Net : Holders(x)' = IF x = o THEN Holders(x) \cup {p} ELSE Holders(x)
<1> TAKE x \in Net
<1>1. networks[p] \in Seq(Net)
  OBVIOUS
<1>2. Occurrences(x, networks'[p]) # {} <=> x = o \/ Occurrences(x, networks[p]) # {}
  BY <1>1, OccurrencesAppend
<1>3. \A q \in Peer \ {p} : networks'[q] = networks[q]
  OBVIOUS
<1> QED
  BY <1>2, <1>3 DEF Holders

\* The holders after a peer's array is emptied.
LEMMA HoldersEmptied ==
    ASSUME networks \in [Peer -> Seq(Net)], NEW p \in Peer,
           networks' = [networks EXCEPT ![p] = <<>>]
    PROVE  \A x \in Net : Holders(x)' = Holders(x) \ {p}
<1> TAKE x \in Net
<1>1. Occurrences(x, networks'[p]) = {}
  BY DEF Occurrences
<1>2. \A q \in Peer \ {p} : networks'[q] = networks[q]
  OBVIOUS
<1> QED
  BY <1>1, <1>2 DEF Holders

\* Counting holders: the number of peers is finite, and a holder counts one.
LEMMA HoldersCount ==
    ASSUME NEW x, NEW p \in Peer
    PROVE  /\ IsFiniteSet(Holders(x))
           /\ Cardinality(Holders(x)) \in Nat
           /\ Cardinality(Holders(x)) = 0 <=> Holders(x) = {}
           /\ p \notin Holders(x) =>
                Cardinality(Holders(x) \cup {p}) = Cardinality(Holders(x)) + 1
           /\ p \in Holders(x) =>
                Cardinality(Holders(x) \ {p}) = Cardinality(Holders(x)) - 1
<1>1. Holders(x) \subseteq Peer
  BY DEF Holders
<1>2. IsFiniteSet(Holders(x))
  BY <1>1, FS_Subset, NetworkAssumption
<1> QED
  BY <1>2, FS_CardinalityType, FS_EmptySet, FS_AddElement, FS_RemoveElement

\* A name is bound to the object that carries it, so to one object only.
LEMMA RegistryInjective ==
    ASSUME NetworkInv, NEW m \in Name, NEW n \in Name,
           registry[m] = registry[n], registry[n] # NULL
    PROVE  m = n
BY DEF NetworkInv, RegistryConsistent

\* A name that has a key is looked up under itself.
LEMMA KeyIsName ==
    ASSUME NEW n \in Name, registry_key(n) # NULL
    PROVE  registry_get(n) = registry[n]
BY DEF registry_get, registry_key

\* A peer array stays sound and bounded when it gets one more network, if there
\* is room and the network is allocated and not yet in it.
LEMMA ArraysAppend ==
    ASSUME NetworkTypeOK, PeerArraysSound, PeerArraysBounded,
           NEW p \in Peer, NEW o \in Net,
           ~peer_owns_network(p, o), can_add_network_to_peer(p),
           networks' = [networks EXCEPT ![p] = Append(@, o)],
           allocated \subseteq allocated', o \in allocated'
    PROVE  networks' \in [Peer -> Seq(Net)] /\ PeerArraysSound' /\ PeerArraysBounded'
<1> DEFINE seq == networks[p]
<1>1. seq \in Seq(Net) /\ Len(seq) \in Nat /\ networks \in [Peer -> Seq(Net)]
  BY DEF NetworkTypeOK
<1>2. networks'[p] = Append(seq, o) /\ \A q \in Peer \ {p} : networks'[q] = networks[q]
  BY <1>1
<1>3. Len(Append(seq, o)) = Len(seq) + 1 /\ Append(seq, o)[Len(seq) + 1] = o
  BY <1>1
<1>4. \A i \in 1 .. Len(seq) : Append(seq, o)[i] = seq[i] /\ seq[i] # o
  BY <1>1 DEF peer_owns_network, Occurrences
<1>5. networks' \in [Peer -> Seq(Net)]
  BY <1>1
<1>6. PeerArraysBounded'
  BY <1>1, <1>2, <1>3, NetworkAssumption DEF PeerArraysBounded, can_add_network_to_peer
<1>7. ASSUME NEW q \in Peer, NEW i \in 1 .. Len(networks'[q])
      PROVE  networks'[q][i] \in allocated'
  <2>1. CASE q # p
    BY <2>1, <1>2, <1>7 DEF PeerArraysSound
  <2>2. CASE q = p
    <3>1. \A k \in 1 .. Len(seq) : seq[k] \in allocated
      BY DEF PeerArraysSound
    <3> QED
      BY <2>2, <3>1, <1>1, <1>2, <1>3, <1>4, <1>7
  <2> QED
    BY <2>1, <2>2
<1>8. ASSUME NEW q \in Peer, NEW i \in 1 .. Len(networks'[q]), NEW j \in 1 .. Len(networks'[q]),
             networks'[q][i] = networks'[q][j]
      PROVE  i = j
  <2>1. CASE q # p
    BY <2>1, <1>2, <1>8 DEF PeerArraysSound
  <2>2. CASE q = p
    <3>1. \A k, l \in 1 .. Len(seq) : seq[k] = seq[l] => k = l
      BY DEF PeerArraysSound
    <3> HIDE DEF seq
    <3> QED
      BY <2>2, <3>1, <1>1, <1>2, <1>3, <1>4, <1>8
  <2> QED
    BY <2>1, <2>2
<1> QED
  BY <1>5, <1>6, <1>7, <1>8 DEF PeerArraysSound

\* The effect of update_peer_ownership and cancel_remove_later on counters,
\* holders and timers, whether p owned o before or not.
LEMMA GrantEffect ==
    ASSUME NetworkTypeOK, RefCountExact, NEW p \in Peer, NEW o \in Net,
           update_peer_ownership(p, o), cancel_remove_later(o)
    PROVE  /\ peers' \in [Net -> Int]
           /\ idle_timers' = idle_timers \ {o}
           /\ source' \in [Net -> Off .. IdleTimeout]
           /\ \A x \in Net : source'[x] = IF x = o /\ o \in idle_timers THEN Off ELSE source[x]
           /\ \A x \in Net : Holders(x)' = IF x = o THEN Holders(x) \cup {p} ELSE Holders(x)
           /\ RefCountExact'
<1>1. /\ idle_timers' = idle_timers \ {o}
      /\ source' \in [Net -> Off .. IdleTimeout]
      /\ \A x \in Net : source'[x] = IF x = o /\ o \in idle_timers THEN Off ELSE source[x]
  BY NetworkAssumption DEF cancel_remove_later, NetworkTypeOK
<1>2. CASE peer_owns_network(p, o)
  <2>1. peers' = peers /\ networks' = networks
    BY <1>2 DEF update_peer_ownership
  <2>2. \A x \in Net : Holders(x)' = Holders(x)
    BY <2>1 DEF Holders
  <2>3. p \in Holders(o)
    BY <1>2 DEF Holders, peer_owns_network
  <2>4. peers' \in [Net -> Int]
    BY <2>1 DEF NetworkTypeOK
  <2>5. RefCountExact'
    BY <2>1, <2>2 DEF RefCountExact
  <2> QED
    BY <1>1, <2>2, <2>3, <2>4, <2>5
<1>3. CASE ~peer_owns_network(p, o)
  <2>1. /\ peers' = [peers EXCEPT ![o] = @ + 1]
        /\ networks' = [networks EXCEPT ![p] = Append(@, o)]
    BY <1>3 DEF update_peer_ownership
  <2>2. \A x \in Net : Holders(x)' = IF x = o THEN Holders(x) \cup {p} ELSE Holders(x)
    BY <2>1, HoldersAppend DEF NetworkTypeOK
  <2>3. p \notin Holders(o)
    BY <1>3 DEF Holders, peer_owns_network
  <2>4. Holders(o)' = Holders(o) \cup {p}
    BY <2>2
  <2>5. Cardinality(Holders(o))' = Cardinality(Holders(o)) + 1
    BY <2>3, <2>4, HoldersCount
  <2>6. \A x \in Net \ {o} : Cardinality(Holders(x))' = Cardinality(Holders(x))
    BY <2>2
  <2>7. peers' \in [Net -> Int]
    BY <2>1 DEF NetworkTypeOK
  <2>8. RefCountExact'
    BY <2>1, <2>5, <2>6 DEF RefCountExact, NetworkTypeOK
  <2> QED
    BY <1>1, <2>2, <2>7, <2>8
<1> QED
  BY <1>2, <1>3

\* The effect of update_peer_ownership on the arrays.
LEMMA GrantArrays ==
    ASSUME NetworkTypeOK, PeerArraysSound, PeerArraysBounded,
           NEW p \in Peer, NEW o \in Net,
           update_peer_ownership(p, o),
           peer_owns_network(p, o) \/ can_add_network_to_peer(p),
           allocated \subseteq allocated', o \in allocated'
    PROVE  networks' \in [Peer -> Seq(Net)] /\ PeerArraysSound' /\ PeerArraysBounded'
<1>1. CASE peer_owns_network(p, o)
  <2>1. networks' = networks
    BY <1>1 DEF update_peer_ownership
  <2>2. networks' \in [Peer -> Seq(Net)]
    BY <2>1 DEF NetworkTypeOK
  <2>3. PeerArraysSound'
    BY <2>1 DEF PeerArraysSound
  <2>4. PeerArraysBounded'
    BY <2>1 DEF PeerArraysBounded
  <2> QED
    BY <2>2, <2>3, <2>4
<1>2. CASE ~peer_owns_network(p, o)
  BY <1>2, ArraysAppend DEF update_peer_ownership
<1> QED
  BY <1>1, <1>2

\* A network that is registered is granted to a peer.
LEMMA AcquireRegisteredInv ==
    ASSUME NetworkInv, NEW p \in Peer, NEW n \in Name, NEW rep,
           registry_key(n) # NULL, acquire_registered_network(p, n, rep)
    PROVE  NetworkInv'
<1> DEFINE o == registry[n]
<1>1. /\ o \in Net /\ o \in allocated
      /\ registry' = registry /\ allocated' = allocated
      /\ name' = name /\ vmnet' = vmnet
      /\ peer_owns_network(p, o) \/ can_add_network_to_peer(p)
      /\ update_peer_ownership(p, o)
      /\ cancel_remove_later(o)
  BY KeyIsName DEF acquire_registered_network, may_own_network, NetworkInv,
         NetworkTypeOK, RegistryConsistent, Registered
<1> HIDE DEF o
<1>2. NetworkTypeOK /\ RefCountExact /\ PeerArraysSound /\ PeerArraysBounded
  BY DEF NetworkInv
<1>3. /\ peers' \in [Net -> Int]
      /\ idle_timers' = idle_timers \ {o}
      /\ source' \in [Net -> Off .. IdleTimeout]
      /\ \A x \in Net : source'[x] = IF x = o /\ o \in idle_timers THEN Off ELSE source[x]
      /\ \A x \in Net : Holders(x)' = IF x = o THEN Holders(x) \cup {p} ELSE Holders(x)
      /\ RefCountExact'
  BY <1>1, <1>2, GrantEffect
<1>4. networks' \in [Peer -> Seq(Net)] /\ PeerArraysSound' /\ PeerArraysBounded'
  BY <1>1, <1>2, GrantArrays
<1>5. NetworkTypeOK'
  BY <1>1, <1>3, <1>4 DEF NetworkInv, NetworkTypeOK
<1>6. RegistryConsistent'
  BY <1>1 DEF NetworkInv, RegistryConsistent, Registered
<1>7. RemovalScheduledIffUnused'
  BY <1>1, <1>3 DEF NetworkInv, NetworkTypeOK, RemovalScheduledIffUnused
<1>8. FreedHasNoName'
  BY <1>1 DEF NetworkInv, FreedHasNoName
<1> QED
  BY <1>3, <1>4, <1>5, <1>6, <1>7, <1>8 DEF NetworkInv

\* A network is created, registered and granted to a peer.
LEMMA AcquireNewInv ==
    ASSUME NetworkInv, NEW p \in Peer, NEW n \in Name, NEW rep,
           registry_key(n) # NULL, acquire_new_network(p, n, rep)
    PROVE  NetworkInv'
<1>1. PICK o \in Net \ allocated :
        /\ create_network(o, n)
        /\ registry_set(n, o)
        /\ update_peer_ownership(p, o)
        /\ cancel_remove_later(o)
  BY DEF acquire_new_network
<1>2. /\ registry[n] = NULL
      /\ can_add_network_to_peer(p)
      /\ registry' = [registry EXCEPT ![n] = o]
      /\ allocated' = allocated \cup {o}
      /\ name' = [name EXCEPT ![o] = n]
      /\ vmnet' = vmnet \cup {o}
  BY <1>1, KeyIsName DEF acquire_new_network, registry_set, create_network
<1>3. NetworkTypeOK /\ RefCountExact /\ PeerArraysSound /\ PeerArraysBounded
  BY DEF NetworkInv
<1>4. /\ peers' \in [Net -> Int]
      /\ idle_timers' = idle_timers \ {o}
      /\ source' \in [Net -> Off .. IdleTimeout]
      /\ \A x \in Net : source'[x] = IF x = o /\ o \in idle_timers THEN Off ELSE source[x]
      /\ \A x \in Net : Holders(x)' = IF x = o THEN Holders(x) \cup {p} ELSE Holders(x)
      /\ RefCountExact'
  BY <1>1, <1>3, GrantEffect
<1>5. networks' \in [Peer -> Seq(Net)] /\ PeerArraysSound' /\ PeerArraysBounded'
  BY <1>1, <1>2, <1>3, GrantArrays
<1>6. NetworkTypeOK'
  BY <1>2, <1>4, <1>5 DEF NetworkInv, NetworkTypeOK
<1>7. RegistryConsistent'
  <2>1. Registered' = Registered \cup {o}
    BY <1>2, NullAssumption DEF NetworkInv, NetworkTypeOK, Registered
  <2>2. Registered' = allocated' /\ vmnet' = allocated'
    BY <1>2, <2>1 DEF NetworkInv, RegistryConsistent
  <2>3. \A m \in Name : registry'[m] # NULL => name'[registry'[m]] = m /\ registry_key(m) # NULL
    BY <1>2 DEF NetworkInv, NetworkTypeOK, RegistryConsistent, Registered
  <2> QED
    BY <2>2, <2>3 DEF RegistryConsistent
<1>8. RemovalScheduledIffUnused'
  BY <1>2, <1>4 DEF NetworkInv, NetworkTypeOK, RemovalScheduledIffUnused
<1>9. FreedHasNoName'
  BY <1>2 DEF NetworkInv, NetworkTypeOK, FreedHasNoName
<1> QED
  BY <1>4, <1>5, <1>6, <1>7, <1>8, <1>9 DEF NetworkInv

\* An object that is not allocated has no peer, no timer and no holder.
LEMMA FreeObject ==
    ASSUME NetworkInv, NEW o \in Net \ allocated
    PROVE  /\ Holders(o) = {} /\ peers[o] = 0 /\ name[o] = NULL
           /\ o \notin vmnet /\ o \notin idle_timers /\ source[o] = Off
<1>1. Holders(o) = {}
  BY DEF NetworkInv, PeerArraysSound, Holders, Occurrences
<1>2. peers[o] = 0
  BY <1>1, FS_EmptySet DEF NetworkInv, RefCountExact
<1> QED
  BY <1>1, <1>2 DEF NetworkInv, RegistryConsistent, RemovalScheduledIffUnused, FreedHasNoName

\* A network whose creation fails half-way leaves nothing behind.
LEMMA CreateFailureUnchanged ==
    ASSUME NetworkInv, NEW o \in Net \ allocated, create_network_failure(o)
    PROVE  UNCHANGED objectVars
<1>1. PICK ref \in {{}, {o}} : free_network({o}, allocated \cup {o}, vmnet \cup ref)
  BY DEF create_network_failure
<1>2. /\ peers[o] = 0 /\ name[o] = NULL /\ o \notin vmnet /\ o \notin idle_timers
  BY FreeObject
<1>3. allocated' = allocated /\ vmnet' = vmnet /\ idle_timers' = idle_timers
  BY <1>1, <1>2 DEF free_network
<1>4. name' = name /\ peers' = peers /\ source' = source
  BY <1>1, <1>2 DEF free_network, NetworkInv, NetworkTypeOK
<1> QED
  BY <1>3, <1>4 DEF objectVars

\* A request that fails has no effect on the registry.
LEMMA AcquireErrorUnchanged ==
    ASSUME NetworkInv, NEW p \in Peer, NEW n \in Name, NEW rep,
           acquire_network(p, n, rep), rep.error # VMNET_BROKER_SUCCESS
    PROVE  UNCHANGED networkVars
<1>1. CASE acquire_registered_network(p, n, rep)
  BY <1>1 DEF acquire_registered_network, NetworkReply
<1>2. CASE acquire_new_network(p, n, rep)
  BY <1>2 DEF acquire_new_network, NetworkReply
<1>3. CASE acquire_too_many(p, n, rep)
  BY <1>3 DEF acquire_too_many
<1>4. CASE acquire_bad_configuration(p, n, rep)
  BY <1>4 DEF acquire_bad_configuration
<1>5. CASE acquire_create_failure(p, n, rep)
  <2>1. UNCHANGED objectVars
    BY <1>5, CreateFailureUnchanged DEF acquire_create_failure
  <2> QED
    BY <1>5, <2>1 DEF acquire_create_failure, networkVars
<1> QED
  BY <1>1, <1>2, <1>3, <1>4, <1>5 DEF acquire_network

\* The invariant depends on the variables of the registry only.
LEMMA NetworkStutter ==
    ASSUME NetworkInv, UNCHANGED networkVars
    PROVE  NetworkInv'
<1> USE DEF networkVars, objectVars
<1>1. \A x \in Net : Holders(x)' = Holders(x)
  BY DEF Holders
<1>2. NetworkTypeOK' /\ PeerArraysSound' /\ PeerArraysBounded'
  BY DEF NetworkInv, NetworkTypeOK, PeerArraysSound, PeerArraysBounded
<1>3. RegistryConsistent' /\ FreedHasNoName'
  BY DEF NetworkInv, RegistryConsistent, Registered, FreedHasNoName
<1>4. RefCountExact' /\ RemovalScheduledIffUnused'
  BY <1>1 DEF NetworkInv, NetworkTypeOK, RefCountExact, RemovalScheduledIffUnused
<1> QED
  BY <1>2, <1>3, <1>4 DEF NetworkInv

\* Whatever acquire_network does, it keeps the invariant.
THEOREM AcquireInv ==
    ASSUME NetworkInv, NEW p \in Peer, NEW n \in Name, NEW rep,
           acquire_network(p, n, rep)
    PROVE  NetworkInv'
<1>1. CASE acquire_registered_network(p, n, rep)
  BY <1>1, AcquireRegisteredInv DEF acquire_network
<1>2. CASE acquire_new_network(p, n, rep)
  BY <1>2, AcquireNewInv DEF acquire_network
<1>3. CASE acquire_too_many(p, n, rep)
  BY <1>3, NetworkStutter DEF acquire_too_many
<1>4. CASE acquire_bad_configuration(p, n, rep)
  BY <1>4, NetworkStutter DEF acquire_bad_configuration
<1>5. CASE acquire_create_failure(p, n, rep)
  <2>1. UNCHANGED objectVars
    BY <1>5, CreateFailureUnchanged DEF acquire_create_failure
  <2>2. UNCHANGED networkVars
    BY <1>5, <2>1 DEF acquire_create_failure, networkVars
  <2> QED
    BY <2>2, NetworkStutter
<1> QED
  BY <1>1, <1>2, <1>3, <1>4, <1>5 DEF acquire_network

\* Freeing registered objects that nobody holds, together with their keys.
LEMMA FreeInv ==
    ASSUME NetworkInv, NEW S \in SUBSET allocated,
           \A o \in S : Holders(o) = {},
           free_network(S, allocated, vmnet),
           registry' = [n \in Name |-> IF registry[n] \in S THEN NULL ELSE registry[n]],
           networks' = networks
    PROVE  NetworkInv'
<1>1. \A x \in Net : Holders(x)' = Holders(x)
  BY DEF Holders
<1>2. NetworkTypeOK'
  BY NetworkAssumption DEF NetworkInv, NetworkTypeOK, free_network
<1>3. RegistryConsistent'
  <2>1. Registered' = Registered \ S
    BY NullAssumption DEF NetworkInv, NetworkTypeOK, Registered
  <2>2. Registered' = allocated' /\ vmnet' = allocated'
    BY <2>1 DEF NetworkInv, RegistryConsistent, free_network
  <2>3. \A n \in Name : registry'[n] # NULL => name'[registry'[n]] = n /\ registry_key(n) # NULL
    BY DEF NetworkInv, NetworkTypeOK, RegistryConsistent, free_network
  <2> QED
    BY <2>2, <2>3 DEF RegistryConsistent
<1>4. PeerArraysSound'
  <2>1. ASSUME NEW p \in Peer, NEW i \in 1 .. Len(networks[p])
        PROVE  networks[p][i] \in allocated'
    <3>1. networks[p][i] \in allocated
      BY <2>1 DEF NetworkInv, PeerArraysSound
    <3>2. p \in Holders(networks[p][i])
      BY DEF Holders, Occurrences
    <3> QED
      BY <3>1, <3>2 DEF free_network
  <2> QED
    BY <2>1 DEF NetworkInv, PeerArraysSound
<1>5. PeerArraysBounded'
  BY DEF NetworkInv, PeerArraysBounded
<1>6. RefCountExact'
  BY <1>1, FS_EmptySet DEF NetworkInv, NetworkTypeOK, RefCountExact, free_network
<1>7. RemovalScheduledIffUnused'
  BY <1>1 DEF NetworkInv, NetworkTypeOK, RemovalScheduledIffUnused, free_network
<1>8. FreedHasNoName'
  BY DEF NetworkInv, NetworkTypeOK, FreedHasNoName, free_network
<1> QED
  BY <1>2, <1>3, <1>4, <1>5, <1>6, <1>7, <1>8 DEF NetworkInv

\* A timer that is due belongs to a registered network that nobody holds, and
\* its handler removes that network and no other.
LEMMA IdleTimeoutEffect ==
    ASSUME NetworkInv, NEW o \in Net, network_idle_timeout(o)
    PROVE  /\ o \in allocated
           /\ Holders(o) = {}
           /\ free_network({o}, allocated, vmnet)
           /\ registry' = [n \in Name |-> IF registry[n] \in {o} THEN NULL ELSE registry[n]]
           /\ networks' = networks
<1>1. o \in allocated /\ Holders(o) = {}
  BY DEF network_idle_timeout, NetworkInv, RemovalScheduledIffUnused
<1>2. PICK n \in Name : registry[n] = o
  BY <1>1 DEF NetworkInv, RegistryConsistent, Registered
<1>3. name[o] = n /\ o # NULL
  BY <1>2, NullAssumption DEF NetworkInv, RegistryConsistent
<1>4. /\ registry' = [registry EXCEPT ![n] = NULL]
      /\ free_network({o}, allocated, vmnet)
      /\ networks' = networks
  <2>1. {registry[n]} \ {NULL} = {o}
    BY <1>2, <1>3
  <2> QED
    BY <1>3, <2>1 DEF network_idle_timeout, registry_remove, registry_release
<1>5. \A m \in Name : registry[m] = o => m = n
  BY <1>2, <1>3, RegistryInjective
<1> QED
  BY <1>1, <1>2, <1>4, <1>5 DEF NetworkInv, NetworkTypeOK

\* The idle timer of a network keeps the invariant: it only ever deletes a
\* network without holders.
THEOREM IdleTimeoutInv ==
    ASSUME NetworkInv, NEW o \in Net, network_idle_timeout(o)
    PROVE  NetworkInv'
<1>1. /\ o \in allocated
      /\ Holders(o) = {}
      /\ free_network({o}, allocated, vmnet)
      /\ registry' = [n \in Name |-> IF registry[n] \in {o} THEN NULL ELSE registry[n]]
      /\ networks' = networks
  BY IdleTimeoutEffect
<1>2. {o} \in SUBSET allocated /\ \A x \in {o} : Holders(x) = {}
  BY <1>1
<1> QED
  BY <1>1, <1>2, FreeInv

\* shutdown_networks keeps the invariant if no peer holds anything, and leaves
\* no network.
THEOREM ShutdownInv ==
    ASSUME NetworkInv, \A p \in Peer : networks[p] = <<>>, shutdown_networks
    PROVE  NetworkInv' /\ allocated' = {} /\ vmnet' = {}
<1>1. \A o \in allocated : Holders(o) = {}
  BY DEF Holders, Occurrences
<1>2. Registered = allocated /\ vmnet = allocated
  BY DEF NetworkInv, RegistryConsistent
<1>3. /\ free_network(allocated, allocated, vmnet)
      /\ networks' = networks
      /\ registry' = [n \in Name |-> NULL]
  BY <1>2 DEF shutdown_networks, release_registry, registry_release
<1>4. \A n \in Name : registry[n] = NULL \/ registry[n] \in allocated
  BY <1>2 DEF Registered
<1>5. registry' = [n \in Name |-> IF registry[n] \in allocated THEN NULL ELSE registry[n]]
  BY <1>3, <1>4
<1>6. NetworkInv'
  BY <1>1, <1>3, <1>5, FreeInv
<1> QED
  BY <1>2, <1>3, <1>6 DEF free_network

\* Each network of a peer is released once.
LEMMA ReleasedOnce ==
    ASSUME NetworkInv, NEW p \in Peer, NEW o \in Net
    PROVE  Released(p, o) = IF p \in Holders(o) THEN 1 ELSE 0
<1>1. CASE p \notin Holders(o)
  <2>1. Occurrences(o, networks[p]) = {}
    BY <1>1 DEF Holders
  <2> QED
    BY <1>1, <2>1, FS_EmptySet DEF Released
<1>2. CASE p \in Holders(o)
  <2>1. PICK i \in 1 .. Len(networks[p]) : networks[p][i] = o
    BY <1>2 DEF Holders, Occurrences
  <2>2. Occurrences(o, networks[p]) = {i}
    BY <2>1 DEF Occurrences, NetworkInv, PeerArraysSound
  <2>3. Cardinality({i}) = 1
    BY FS_Singleton
  <2> QED
    BY <1>2, <2>2, <2>3 DEF Released
<1> QED
  BY <1>1, <1>2

\* The networks emptied by the release of p are those that only p holds, and
\* no removal of them is scheduled: the assertion of remove_later holds.
LEMMA EmptiedHolders ==
    ASSUME NetworkInv, NEW p \in Peer
    PROVE  /\ Emptied(p) = {o \in allocated : Holders(o) = {p}}
           /\ assert_no_idle_timer(p)
<1>1. ASSUME NEW o \in Net
      PROVE  o \in Emptied(p) <=> Holders(o) = {p}
  <2>1. peers[o] = Cardinality(Holders(o)) /\ Cardinality(Holders(o)) \in Nat
    BY HoldersCount DEF NetworkInv, RefCountExact
  <2>2. o \in Emptied(p) <=> peers[o] = 1 /\ p \in Holders(o)
    BY <2>1, ReleasedOnce DEF Emptied
  <2>3. ASSUME p \in Holders(o), Cardinality(Holders(o)) = 1
        PROVE  Holders(o) = {p}
    <3>1. IsFiniteSet(Holders(o) \ {p}) /\ Cardinality(Holders(o) \ {p}) = 0
      BY <2>3, HoldersCount, FS_RemoveElement
    <3>2. Holders(o) \ {p} = {}
      BY <3>1, FS_EmptySet
    <3> QED
      BY <2>3, <3>2
  <2>4. Cardinality({p}) = 1
    BY FS_Singleton
  <2> QED
    BY <2>1, <2>2, <2>3, <2>4
<1>2. ASSUME NEW o \in Net, Holders(o) = {p}
      PROVE  o \in allocated
  BY <1>2, FreeObject
<1>3. Emptied(p) = {o \in allocated : Holders(o) = {p}}
  BY <1>1, <1>2 DEF Emptied, NetworkInv, NetworkTypeOK
<1>4. assert_no_idle_timer(p)
  BY <1>3 DEF assert_no_idle_timer, NetworkInv, RemovalScheduledIffUnused
<1> QED
  BY <1>3, <1>4

\* The release of a peer's networks keeps the invariant.
THEOREM ReleaseInv ==
    ASSUME NetworkInv, NEW p \in Peer, release_peer_networks(p)
    PROVE  NetworkInv'
<1>1. /\ networks' = [networks EXCEPT ![p] = <<>>]
      /\ peers' = [o \in Net |-> peers[o] - Released(p, o)]
      /\ idle_timers' = idle_timers \cup Emptied(p)
      /\ source' = [o \in Net |-> IF o \in Emptied(p) THEN IdleTimeout ELSE source[o]]
      /\ registry' = registry /\ allocated' = allocated /\ name' = name /\ vmnet' = vmnet
  BY DEF release_peer_networks, remove_later
<1>2. \A x \in Net : Holders(x)' = Holders(x) \ {p}
  BY <1>1, HoldersEmptied DEF NetworkInv, NetworkTypeOK
<1>3. Emptied(p) = {o \in allocated : Holders(o) = {p}}
  BY EmptiedHolders
<1>4. \A o \in Net : Released(p, o) = IF p \in Holders(o) THEN 1 ELSE 0
  BY ReleasedOnce
<1>5. networks' \in [Peer -> Seq(Net)] /\ PeerArraysSound' /\ PeerArraysBounded'
  <2>1. networks' \in [Peer -> Seq(Net)]
    BY <1>1 DEF NetworkInv, NetworkTypeOK
  <2>2. /\ networks'[p] = <<>> /\ Len(networks'[p]) = 0
        /\ \A q \in Peer \ {p} : networks'[q] = networks[q]
    BY <1>1 DEF NetworkInv, NetworkTypeOK
  <2>3. PeerArraysSound'
    BY <1>1, <2>2 DEF NetworkInv, PeerArraysSound
  <2>4. PeerArraysBounded'
    BY <2>2, NetworkAssumption DEF NetworkInv, PeerArraysBounded
  <2> QED
    BY <2>1, <2>3, <2>4
<1>6. NetworkTypeOK'
  <2>1. peers' \in [Net -> Int]
    <3>1. \A o \in Net : peers[o] \in Int /\ Released(p, o) \in Int
      BY <1>4 DEF NetworkInv, NetworkTypeOK
    <3> QED
      BY <1>1, <3>1
  <2>2. idle_timers' \subseteq Net
    BY <1>1, <1>3 DEF NetworkInv, NetworkTypeOK
  <2>3. source' \in [Net -> Off .. IdleTimeout]
    BY <1>1, NetworkAssumption DEF NetworkInv, NetworkTypeOK
  <2> QED
    BY <1>1, <1>5, <2>1, <2>2, <2>3 DEF NetworkInv, NetworkTypeOK
<1>7. RegistryConsistent' /\ FreedHasNoName'
  BY <1>1 DEF NetworkInv, RegistryConsistent, Registered, FreedHasNoName
<1>8. RefCountExact'
  <2>1. ASSUME NEW o \in Net
        PROVE  peers'[o] = Cardinality(Holders(o))'
    <3>1. peers[o] = Cardinality(Holders(o)) /\ Cardinality(Holders(o)) \in Nat
      BY HoldersCount DEF NetworkInv, RefCountExact
    <3>2. CASE p \in Holders(o)
      BY <1>1, <1>2, <1>4, <3>1, <3>2, HoldersCount
    <3>3. CASE p \notin Holders(o)
      <4>1. Holders(o)' = Holders(o)
        BY <1>2, <3>3
      <4> QED
        BY <1>1, <1>4, <3>1, <3>3, <4>1
    <3> QED
      BY <3>2, <3>3
  <2> QED
    BY <2>1 DEF RefCountExact
<1>9. RemovalScheduledIffUnused'
  <2>1. idle_timers' = {o \in allocated' : Holders(o)' = {}}
    BY <1>1, <1>2, <1>3 DEF NetworkInv, NetworkTypeOK, RemovalScheduledIffUnused
  <2>2. \A o \in Net : source'[o] # Off <=> o \in idle_timers'
    BY <1>1, NetworkAssumption DEF NetworkInv, NetworkTypeOK, RemovalScheduledIffUnused
  <2> QED
    BY <2>1, <2>2 DEF RemovalScheduledIffUnused
<1> QED
  BY <1>5, <1>6, <1>7, <1>8, <1>9 DEF NetworkInv

\* The registry starts empty.
LEMMA InitInv == NetworkInit => NetworkInv
<1> SUFFICES ASSUME NetworkInit PROVE NetworkInv
  OBVIOUS
<1>1. \A x \in Net : Holders(x) = {}
  BY DEF NetworkInit, Holders, Occurrences
<1>2. NetworkTypeOK
  BY NetworkAssumption DEF NetworkInit, NetworkTypeOK
<1>3. RegistryConsistent /\ PeerArraysSound /\ PeerArraysBounded /\ FreedHasNoName
  BY NetworkAssumption DEF NetworkInit, RegistryConsistent, Registered,
     PeerArraysSound, PeerArraysBounded, FreedHasNoName
<1>4. RefCountExact /\ RemovalScheduledIffUnused
  BY <1>1, FS_EmptySet DEF NetworkInit, RefCountExact, RemovalScheduledIffUnused
<1> QED
  BY <1>2, <1>3, <1>4 DEF NetworkInv
=============================================================================
