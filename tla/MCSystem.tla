------------------------------ MODULE MCSystem ------------------------------
(***************************************************************************)
(* Instances of System for TLC.                                            *)
(***************************************************************************)
EXTENDS SystemLease, TLC

CONSTANTS shared, c1, c2, t1, t2, t3

\* One configured network; other names are unknown to the broker.
OneNetwork ==
    shared :> [mode |-> "VMNET_SHARED_MODE", subnet |-> "none", mask |-> "none"]

\* No network at all: every call that arrives is answered with an error.
NoNetwork == <<>>

\* c1 has two threads, c2 has one.
TwoAndOne == (t1 :> c1) @@ (t2 :> c1) @@ (t3 :> c2)

\* One process with three threads.
Three == (t1 :> c1) @@ (t2 :> c1) @@ (t3 :> c1)

\* Two processes with a thread each.
OneEach == (t1 :> c1) @@ (t2 :> c2)

\* Addresses, and the threads of c1, are interchangeable.
Symmetry == Permutations(Net) \cup Permutations({t1, t2})
=============================================================================
