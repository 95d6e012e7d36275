---------------------------- MODULE SystemLease ----------------------------
(***************************************************************************)
(* The refinement mapping from System to ServiceLease.                     *)
(***************************************************************************)
EXTENDS System, BrokerLease

\* The memory of a broker that ended means nothing.
meaning == IF Up THEN registry ELSE [n \in Name |-> NULL]

leases == [c \in Client |-> Valid(c)]

Service == INSTANCE ServiceLease WITH
    Client <- Client,
    Name <- Name,
    Net <- Net,
    NULL <- NULL,
    status <- status,
    running <- alive,
    meaning <- meaning,
    leases <- leases

\* Through the library, XPC and the broker, with their threads, races, retries
\* and restarts, a process sees the promised service: what it acquires is what
\* every other process has under that name, it stays until the process ends,
\* and only a failure of the broker takes it away (LeaseLostOnlyByFailure says
\* which failures there are).
\* (vmnet_broker_acquire_network)
ImplementsService == Service!Spec

\* Two processes have the same network exactly when they asked for the same
\* name: machines that should see each other do, and the others do not.
\* (acquire_network, registry_get)
SharedByName ==
    \A c, d \in alive : \A g \in Valid(c), h \in Valid(d) : g[1] = h[1] <=> g[2] = h[2]
=============================================================================
