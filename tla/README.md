# A TLA+ model of vmnet-broker

vmnet-broker is a launchd service for macOS that lets unprivileged programs
share vmnet networks. A client connects over XPC, asks for a network by name,
and gets a serialization of a `vmnet_network_ref` that the broker owns. The
lease is the connection: when the connection ends, whatever the client held is
released. The broker creates a network for its first user, deletes it some time
after its last one, and exits some time after its last peer.

This directory holds the specification of that system, the TLC instances that
check it, and proofs that TLAPS checks.

## 1. The system

| Component | Source | State | Operations |
|---|---|---|---|
| XPC protocol | `include/vmnet-broker.h`, `include/broker-xpc.h` | none | status codes, request and reply dictionaries |
| Network configuration | `broker/config.c` | none (a constant table) | `find_network_config`, `create_network_configuration` |
| Network registry | `broker/network.c` | registry dictionary, `struct network` objects (name, peers, vmnet reference, serialization, idle timer), `broker_context.networks` of each peer | `acquire_network`, `release_peer_networks`, `shutdown_networks`, the idle timer handler |
| Broker process | `broker/broker.c`, `broker/xpc.c` | `connected_peers`, the XPC transaction, `idle_timer`, event handlers of the connections | connect, request, disconnect, idle timer, SIGINT/SIGTERM, listener error |
| Client library | `client/client.c` | one lazily created connection | `vmnet_broker_acquire_network` |
| Go and Swift bindings | `go/vmnet_broker`, `swift/Sources/VmnetBroker` | Go: the object and the cleanup that releases it | one call of the client library each; Go: `Raw`, cleanup |
| VM runners | `go/cmd/test.go`, `swift/Sources/test/main.swift` | terminal mode, signal handlers, VM state, stop timeouts | acquire, start, graceful stop, timeout, hard stop |
| Test client | `test/test.c` | options, `interfaces[]`, a semaphore, signals | acquire, start, wait, stop |
| Install scripts | `scripts/*.sh*` | launchd service, installed files | install, uninstall, `try_stop_service` |
| Common library, build tooling | `lib/common.c`, `Makefile`, ... | none | formatting, packaging |

How the parts interact:

- A client talks to the broker only by XPC: a connection, requests on it with
  or without a return address, and its end. launchd starts the broker when a
  client looks up the Mach service.
- The XPC layer calls `on_peer_connect`, `acquire_network` and
  `on_peer_disconnect`; the broker calls the registry. Timers call back into
  both. All of this happens on the main dispatch queue.
- launchd learns from the XPC transaction whether the broker is in use, and may
  reclaim a broker that has none open.
- The install script signals the broker, polls until it is gone, and then
  removes the service, while clients and launchd may start it again.

What is hard:

- *Interleavings on one queue.* Handlers do not overlap, but their order is
  free: a timer that is already due when a peer acquires the network again, a
  connection that arrives when the broker is about to exit, a signal between
  two disconnections.
- *Raw pointers and timers.* Peers keep pointers to objects that timers free,
  and `calloc` reuses addresses. A dispatch timer outlives the pointer to it.
- *Counters.* `peers`, `connected_peers` and the transaction are balanced by
  different handlers, and asserted rather than checked.
- *Partial failure.* `create_network` can stop after any of its parts is made.
- *Two checks and an act.* The install script looks at the broker, waits, and
  then removes the service, with clients and launchd running in between; any of
  its commands may fail and leave the earlier ones done.
- *Stopping a machine.* A guest may stop by itself at the moment a timeout
  expires or a hard stop is under way; several signals start several stops.
- *Process ends.* Idle exit, signal, listener error, launchd, a call of the
  system that returns NULL, abort; the first three run different amounts of
  clean-up, the others none, and a new process starts empty.

PROJECT.json lists the hazards one by one, each at its line and with the
properties that cover it.

What makes each component correct:

- registry: an allocated network is registered, under its name, and has its
  vmnet network; its counter is the number of its holders; its removal is
  scheduled exactly while it has none; pointers in peers' arrays are valid,
  distinct and within the array;
- broker: one transaction exactly while a peer is connected; idle shutdown only
  without peers; no end of the process under a peer by idle timer, signal or
  launchd; no timer is armed twice; a failed request leaves nothing behind;
- both together: the lease service of `NetworkLease`;
- all of it, as a process sees it: the service of `ServiceLease`;
- client library: every call returns, with an error or with a network that the
  broker holds for it; a reply is decoded to what the broker sent;
- install: the service is not removed under a client that stays connected; a
  script ends, and says that it completed only if it did what it is for;
- runners: a signal ends the runner, which reports a failure only if the guest
  was not stopped, and leaves the terminal as it was;
- test client: it stops exactly the interfaces it started, within its arrays,
  and ends.

## 2. Modules

```
Protocol <- NetworkConfig <- Network <- Broker <- BrokerLease <- MCBroker
    ^                                     ^            ^   INSTANCE NetworkLease
    |                                     |            |
    +----------- ClientLib <----------- System <- SystemLease <- MCSystem
                                                       INSTANCE ServiceLease
Broker <- Install <- MCInstall
TestClient      GoRunner      SwiftRunner

proofs:  NetworkProofs <- BrokerProofs <- BrokerLeaseProofs <- SystemProofs
                                                 ^
                                            InstallProofs
         TestClientProofs    GoRunnerProofs    SwiftRunnerProofs
```

(an arrow points to the module that is extended; a proof module also extends the
module it is named after).

| Module | Stands for |
|---|---|
| `Protocol` | status codes, requests, replies |
| `NetworkConfig` | `broker/config.c`: the statuses that the configuration of a name can end with |
| `Network` | `broker/network.c`: registry, objects, peer arrays and per-network timers |
| `Broker` | `broker/broker.c`, `broker/xpc.c`; launchd and the clock as environment |
| `NetworkLease` | the abstract promise: leases on names, no objects or counters |
| `BrokerLease` | the refinement mapping from `Broker` to `NetworkLease` |
| `ClientLib` | `client/client.c` in processes with several threads |
| `System` | clients, XPC and broker together |
| `ServiceLease` | the abstract promise to processes: names that mean networks, and who has which |
| `SystemLease` | the refinement mapping from `System` to `ServiceLease` |
| `MCSystem` | instances of `SystemLease`, hence of `System`, for TLC |
| `MCBroker` | instances of `BrokerLease`, hence of `Broker`, for TLC |
| `Install` | `scripts/install.sh.in`, `uninstall.sh.in`, `common.sh` beside `Broker` and launchd |
| `MCInstall` | instances of `Install` for TLC, and two claims of the documentation that the scripts do not keep |
| `GoRunner` | `go/cmd/test.go` on `go/vmnet_broker`: one goroutine, the guest, the collector |
| `SwiftRunner` | `swift/Sources/test/main.swift`: the main program and the handlers of the main queue |
| `TestClient` | `test/test.c`: the main thread and the vmnet queue |
| `NetworkProofs`, `BrokerProofs`, `BrokerLeaseProofs`, `SystemProofs`, `InstallProofs`, `TestClientProofs`, `GoRunnerProofs`, `SwiftRunnerProofs` | the proofs |

`GoRunner`, `SwiftRunner` and `TestClient` are clients of the library and see the
rest of the system only through calls that succeed or fail; they share no state
with `System`, where a client is a process with threads that call and end, and
are checked by themselves, without an MC module.

### State

An object is its address in `Net`, and each field of `struct network` is a
function of the address (`name`, `peers`) or the set of the addresses where it
is not NULL (`vmnet`, `idle_timers`). `registry` maps a name to an object or
NULL. `networks[p]` is the used part of `broker_context.networks` of peer `p`.
Addresses are reused after `free()`, so that a stale pointer could compare equal
to a new network, as in C.

A timer has two parts: the pointer in the struct (`idle_timers`, `idle_timer`)
and the dispatch source that it points to (`source`, `idle_source`: ticks until
it is due, or `Off`). Losing the pointer does not stop the source, and
canceling the source does not clear the pointer; that the two always agree is a
property, not a part of the model.

`conn` is the set of the peers whose connection has an event handler.
`connected_peers` and `transactions` are separate integers, changed where the
code changes them. `proc` says whether the process runs, and if not how it
ended: `exited` (idle timer or signal), `failed` (the listener), `killed`
(launchd), `crashed` (a CFString or a timer that the system did not create),
`aborted` (an assertion about the broker's own state). What an ended process leaves in its memory
stays visible until `main` of the next one, so that invariants can speak about
the moment of its end.

### Actions

Each action is a whole handler of the main queue: `handle_connection` (with
`init_context` and `on_peer_connect`), `on_peer_request` (with
`acquire_network` and all it calls), `on_peer_disconnect` (with
`release_peer_networks` and `shutdown_later`), `on_network_idle`,
`on_broker_idle`, `on_signal`, `on_listener_error`. A request for a name that is
not UTF-8 is `on_peer_request_crash`: `registry_key` is NULL and the process
ends, whoever is connected. The environment adds `main`
(launchd starts the service), `launchd_reclaim` and `tick`.

`acquire_network` is the disjunction of its five paths: the network is
registered, it is created, the peer is at its limit, the configuration is
refused, the creation fails. The reply is a parameter `rep` of the action: the
action is possible only with a reply that the code would send.

`System` conjoins these actions with what happens to the clients.
`vmnet_broker_acquire_network` is five steps of a thread: `call` (the test of
`connection`), `connect_to_broker` (create and store), `resume`, `send_message`
and `return`. Between them the other threads of the process run, and each use
of `connection` reads it again, as the compiler must after an opaque call. So
two first calls may both create a connection; a request may be sent on a
connection that is not resumed yet, and then waits for that; and both threads
may resume the later connection, or one of them may resume it when its event
handler was set on the earlier one, which XPC answers by ending the process
(`xpc_misuse`). A connection is named after the thread that created it and is
the broker's peer.

`via[t]` is the connection that carries the request of thread `t`, `reply[t]`
what has arrived for it. XPC delivers the connection with its first message
(`connection_event`), the requests (`request_event`, or `crash_event` for one
that ends the broker) and, after the process
ended, that it is invalid (`invalid_event`). When the broker ends, requests on
connections that it had accepted fail at once; those that it had not accepted
wait for the next broker or fail too (`unreachable`). A process can end at any
moment (`terminate`); its requests may still be served, or vanish with it
(`drop`, `invalid_event`). launchd starts the broker when a message waits for
it.

`granted` and `stale` are history: the networks a process got, and those of
them whose broker ended since. `Leases(c)` adds to the first the networks in
replies that are still on their way, and `Valid(c)` takes the second away. A
pair that the next broker grants again is no longer stale, so `LeaseHonoured`
is also about what a process gets after a restart.

`Install` conjoins the broker's actions with what the scripts see of them
(`Follow`). A script is one command per step: `service_installed`, then
`try_stop_service` as `service_pid`, `kill_term` and up to `stop_timeout` times
`poll`, then `bootout`, the files and `postinstall`. `pid` is the process whose
pid the script holds, which may be gone while a new broker runs; `term` is a
SIGTERM that waits for the broker's main queue, where the broker exits
(`sigterm_exit`) or ignores it (`sigterm_ignored`). `bootout` fails, which the
scripts ignore, and leaves the service as it is, or takes it
from clients at once; a process that still runs keeps it in `removing` until it
exits or launchd kills it (`exit_timeout`), and bootstrap refuses such a service.
`since` is history: the peers that were connected when the script read the pid
and still are. Scripts run one after another, any number of times, and each may
fail at each command that can fail.

`GoRunner` has one program counter, that of `run()`, and the channels it waits
on: `signalCh`, with room for one signal, `stopped`, the state change that waits
in `StateChangedNotify()`, and `timeout`. When several are ready, `select` takes
any. `reachable` ends with the last use of the Serialization, not with its
function, as in the Go runtime; from then on `cleanup` may run. In
`SwiftRunner`, after the main program has entered the run loop, each handler of
the main queue is an action: signals, one timer for each graceful stop, the
results of `vm.stop`, the delegate. In `TestClient` the main thread waits for
the semaphore that the completion handler signals on the vmnet queue; each may
end the process.

### The two promises

`NetworkLease` is what the broker promises a connection: names are live or not,
have holders, and expire. `ServiceLease` is what library, XPC and broker together
promise a process, and is what `vmnet_broker.h` tells its readers: a name means a
network, `Acquire` gives a process the network of the name, another process with
the name has the same one, the process keeps it until it ends, the service stops
when nobody has anything, and `Fail`, a failure of the broker, is the only step that
takes a network from a process. There are no connections in it, no threads, no
requests, no counters and no time. The mapping is short: a name means what the
registry says while the broker runs, and the leases of a process are `Valid(c)`.
The moment of `Acquire` is that in which the broker sends the reply, before the
process has decoded it, so a reply that is decoded wrongly breaks the refinement
when the call returns without the network that the process is said to have.
`AcquireForNobody` is the request of a process that ended before it was served.

### Slips

Definitions with a comment that begins with `Slip:` are variants of the next
definition by a small mistake. Nothing uses them in the specification; putting
one in the place of the original shows that a property notices the mistake
(`mutants` in PROJECT.json).

### Abstractions

- One handler, one step. All sources, listeners and connections target the main
  queue, so no two handlers overlap.
- A canceled source does not run its handler, even if it was due: cancel and
  handler are on the same serial queue.
- `release_peer_networks` is given by its total effect: a counter drops by the
  number of the object's occurrences in the array, and an object whose counter
  passes through zero gets its timer. The definition does not assume that the
  array has no duplicates.
- The assertion checks of `remove_later` and `shutdown_later` decide whether
  the step ends in `aborted` (a timer runs already) or may end in `crashed`
  (the new timer could not be created).
- A name is a key of the dictionary if it is in `Utf8Name`; the key of any other
  is NULL. `CFStringCreateWithCString` does not fail for a name in UTF-8.
- `create_network` may fail before or after it has the vmnet reference; either
  way `free_network` runs. A freed struct is kept blank, as the next `calloc`
  returns it.
- The serialization lives and dies with the vmnet reference, and is one with it.
- A dictionary is a record of what the code reads from it: a missing key or a
  value of another type reads as NULL, and every unknown command is `"other"`.
- An address of the configuration is absent, accepted by `inet_pton` or refused.
- A thread has at most one request on its way. Requests of different threads on
  one connection are not ordered: the threads race to send them.
- A reply is decoded by `decode`, in the order of the code's tests. The error is
  an `int` from the broker's own enumeration, so cutting the 64 bit value to 32
  bits changes nothing and is left out.
- What XPC does is modelled from how the code uses it: a message is delivered or
  its sender is told; "invalid" is the last event of a connection.
- Scripts: the commands that make users, groups, logs and permissions are one
  with the next or the previous command that matters; each may fail. A pid is
  not reused within the `stop_timeout` seconds of a script, one script runs at a
  time, nobody else loads the service, and the machine does not reboot.
  `launchctl bootout` may fail and then changes nothing.
- Runners: the guest's states are those the code tells apart. In Swift a signal
  between `signal(sig, SIG_IGN)` and the creation of its source is lost; the
  model takes the two as one step, as a signal that is lost changes nothing.
  Setting the mode of the terminal succeeds (`restoreTerminalMode` in Go logs a
  failure and leaves the terminal raw). The signals are the two that the runners
  handle, SIGINT and SIGTERM; any other one, such as SIGQUIT or SIGHUP, ends a
  runner at any moment with the terminal as it is.
- Test client: one signal stands for both, as the first one ends the wait.
- Left out: logging, `dispatch_source_create` returning NULL for the two signal
  sources at the start, when there is no peer yet, the lazily created registry dictionary (empty and absent behave
  alike), the reference that a reply holds on the serialization while it is
  sent, and errors of a connection other than "invalid", which are only logged.

## 3. What TLC checks

| Run | Instance | Shows |
|---|---|---|
| `broker_safety` | 3 peers, 4 names (two built in, one unknown, one not UTF-8), 3 objects, arrays of 2, timeout 2 | the safety invariants, `FailedRequestHasNoEffect`, `GrantIsHeld`, `LeaseKept`, `ImplementsLease` |
| `broker_live` | 2 peers, arrays of 2, 3 objects, timeout 2, a table of 4 with static and malformed addresses, fair timers | `PeerArraysBounded`, `IdleNetworkRemoved`, `AbandonedBrokerExits`, `ImplementsFairLease`; `BrokerInv`, the inductive invariant of the proofs |
| `system_safety` | a process with 2 threads and one with 1, 1 name, 2 objects, timeout 1 | `NoCallForgotten`, `LeaseHonoured`, `HeldIsGrantedAgain`, `ImplementsService` |
| `system_live` | 2 processes with 1 thread, a name that is not UTF-8 beside the network's, fair threads, delivery and timers | `LeaseLostOnlyByFailure`, `CallReturns`, `DeadClientsNetworkRemoved`; `SysInv`, the inductive invariant of the proofs |
| `system_race` | 1 process with 3 threads, no network configured, fair | `CallReturns` |
| `install` | 3 clients, 1 network and a name that is not UTF-8, timeout 2, `stop_timeout` 5, fair scripts | `StayingPeerStopsScript`, `CompletedMeansDone`, `ScriptEnds`; `InstallInv`, the inductive invariant of the proofs |
| `go_runner` | timeout 10, fair | `NoFalseAlarm`, `TerminalRestored`, `SignalEndsRunner`; `GoInv`, the inductive invariant of the proofs |
| `swift_runner` | timeout 10, up to 3 stops at a time, fair | `NoFalseAlarm`, `TerminalRestored`, `SignalEndsRunner`; `SwiftInv`, the inductive invariant of the proofs |
| `test_client` | arrays of 16, up to 18 names, fair | `InterfacesTracked`, `TestEnds`; `TestInv`, the inductive invariant of the proofs, with `ArraysBounded` |
| `doc_install` | 2 clients | violated: "The install will fail if VMs are currently using the broker" |
| `doc_uninstall` | 2 clients | violated: the uninstall script "Removes the launchd service" |
| `doc_raw` | | violated: the raw pointer "remains valid as long as the Serialization object is reachable" |

The type invariants are the first conjuncts of the inductive invariants that
these runs check. `ShutdownOnlyIfIdle` is part of `BrokerInv`, and `SharedByName`
follows from `SysInv`; they have a theorem and no line of their own in a run.

The state space is finite without further bounds: the number of peers bounds
the counters, and the timers count down from `IdleTimeout`.

Why the bounds are enough for the interesting cases:

- Three peers: a first, a last and one between, so that "first" and "last" are
  not "every". With two, a counter of holders is never between its ends.
- Two configured names and one that is not: a peer can hold several networks,
  and the arrays of two peers can have them in different orders. One address
  more than the configured names, so that a new object need not take the
  address of the last one freed; fewer in the other runs, so that it must.
- `MAX_PEER_NETWORKS` is 2. With the two built-in networks no peer meets the
  limit; with the three usable ones of the other table it does, with the third
  network registered and with it absent.
- A timeout of 2 has a state in which a timer runs and is not due, and timers
  that were armed at different times are due at different times.
- For the race on `connection`, two threads can both create one, and three are
  needed for a request that waits on a connection which its creator will no
  longer resume. That run configures no network, so that every call fails in
  the broker: the race is about connections only.
- The second process shares the network with the first, so that a network
  outlives the process that made it.
- The scripts' and runners' timeouts and the test client's arrays have the sizes
  of the code (5 attempts, 10 seconds, 16 interfaces), and the test client gets
  up to two names more than fit. Three clients let one stay, one leave and one
  come while a script polls.
- `MaxStops` = 3 bounds the signals and timers that are open at once in the Swift
  runner: with three, a stop meets one that waits and one that is under way.
- Peers and addresses are interchangeable, and so are the threads of a process
  (`Symmetry`); only the two safety runs use it.

`FairSpec` assumes weak fairness of `tick` and of the two timer handlers:
dispatch delivers a timer that is due and not canceled, and time passes. Nothing
is assumed of peers, signals or launchd: a peer may stay for ever or never come
back. `main` is not fair either.

`SysFairSpec` adds that threads inside the library are scheduled, and that XPC
delivers: a message reaches the broker or its sender is told (`transport`, one
weakly fair action, so that a broker that keeps failing does not starve it), and
the end of a process reaches the broker (`invalid_event`). No process has to
call, to end or to start. `CallReturns` matters because the wait in
`xpc_connection_send_message_with_reply_sync` has no timeout.
`DeadClientsNetworkRemoved` excepts a network that a running process asks for: a
stream of clients that ask and die can keep it for ever, each request being
served after its sender ended.

`InstallFairSpec` assumes of the script only: a shell that runs goes on. Neither
broker, nor clients, nor launchd have to do anything, so a broker that never
looks at its signal is included. The runners' `FairSpec` assumes that the
runner's own code runs and that time passes; in Swift each kind of handler has
its own weak fairness, because the main queue is served in order and signals
must not starve a timer, and `vm.stop` ends once it was accepted. The guest need
not react to a request. The test client's `FairSpec` assumes that both threads
run and that vmnet calls the handlers of the operations it accepted.

Three of these runs may stop: a runner or a test that ended does nothing more,
so they do not check deadlock. `SignalEndsRunner` and `TestEnds` say instead
that they do not stop too early. `TestEnds` excepts the case in which vmnet
refuses a start (`handler = "never"`): then nothing signals the semaphore, and
as SIGTERM and SIGINT are blocked the test hangs until it is killed.

### Where the code and its comments differ

Three runs show a disagreement:

- `docs/installation.md:19` says that the install fails if VMs use the broker.
  When the script looks no broker runs, so `try_stop_service` succeeds at once
  (`common.sh:89-92`). A client that connects now makes launchd start a broker,
  and is booted out (`install.sh.in:70`): nothing looks again. The same can
  happen after the process that the script signaled is gone (`common.sh:102`).
  `StayingPeerStopsScript` is what does hold.
- `docs/installation.md:49` says that the uninstall script removes the service.
  It deletes the property list only if the service is loaded
  (`uninstall.sh.in:17`). After an install that failed before bootstrap it
  completes, and leaves a property list for a program it deleted, which launchd
  loads at the next start of the system.
- `go/vmnet_broker/vmnet_broker.go:76` says that the pointer of `Raw` is valid
  while the Serialization is reachable. `go/cmd/test.go:202` does not use the
  Serialization again and does not keep it alive, so the object may be released
  before vmnet has read it.

Others that the model makes plain, and that no run is needed for:

- `include/broker-network.h:20` says that a network without peers is deleted.
  The code schedules the deletion; the network stays for `idle_timeout_sec`
  (`RemovalScheduledIffUnused`). `docs/protocol.md:89` describes what the code
  does.
- `broker/broker.c:30` says that the broker shuts down when it is idle. The
  timer is armed when the last peer leaves, and not at the start, so a broker
  that never gets a peer stays (`AbandonedBrokerExits` is about one that had a
  peer). launchd may reclaim it, as it has no transaction, but nothing makes it
  do so.
- `include/vmnet-broker.h:57` says that a network stays active as long as the
  calling process is using it. Three failures end the broker, and the networks
  of connected processes with it: any error of the listener
  (`broker/xpc.c:138-146`); a request for a name that is not UTF-8, of which
  `registry_get` makes a NULL key that it looks up and releases
  (`broker/network.c:183-187`); and a timer that cannot be created when a peer
  leaves (`broker/network.c:228`, `broker/broker.c:79`). The clients are not
  told. `LeaseLostOnlyByFailure` shows that within the model, where memory does
  not run out and nobody sends SIGKILL, there is no fourth way.
- The scripts write `launchctl bootout ... || true`. If it fails and the service
  stays loaded, an install fails at bootstrap with the new files in place, and
  an uninstall completes: the program and the property list are deleted, and
  launchd has the service until the next start of the system.
  `CompletedMeansDone` says what is left to rely on.
- `swift/Sources/test/main.swift:184` says that the terminal is restored at exit.
  The handlers for signals are installed later (line 57), and a signal before
  that, for example while the broker is asked for the network, ends the process
  with a raw terminal. The Go runner has the same window between two adjacent
  statements. `TerminalRestored` shows that there is no other.
- `test/test.c:94` says that at most 8 networks are accepted; the code accepts
  `MAX_INTERFACES`, which is 16.
- launchd is not part of the model, but: the property list spells the key
  `ExitTimeout`, and the comment in `common.sh:84` relies on `ExitTimeOut`,
  launchd's spelling.

## 4. What is proved

The theorems hold for every finite set of peers (hence of threads), every set of
processes, every set of names and of
addresses, every configuration table, every array length and every timeout. The
assumptions are those of the modules: NULL is neither a name nor an address
(`NullAssumption`), the table is of the type of the C struct
(`ConfigAssumption`), the peers are finite and the array length and the timeout
are positive and the names in UTF-8 are names (`NetworkAssumption`), and every thread has a process and NULL is
neither a connection nor an XPC object (`ClientAssumption`). TLC evaluates them in every run. `InstallAssumption` and
`TestClientAssumption` ask for a positive `stop_timeout` and array length,
`GoRunnerAssumption` and `SwiftRunnerAssumption` for a positive timeout; the
bound on the stops that are open at once in Swift is any natural number.

The argument for the service has five layers; the scripts, the test client and
the runners each add one.

1. `NetworkProofs`: each operation of the registry keeps `NetworkInv`
   (`AcquireInv`, `ReleaseInv`, `IdleTimeoutInv`, `ShutdownInv`). The counter
   is the heart of it: `RefCountExact` is about the cardinality of the set of
   holders, and `update_peer_ownership` adds one to both because
   `peer_owns_network` said that the peer is not among them, while release takes
   one from both because `PeerArraysSound` says that no object occurs twice in
   an array.
2. `BrokerProofs`: each action of `Broker` keeps `BrokerInv`, hence
   `Spec => []BrokerInv` (`BrokerInvariant`).
3. `BrokerLeaseProofs`: under `BrokerInv`, every step of `Broker` is a step or
   a stutter of `NetworkLease` through the mapping of `BrokerLease`
   (`BrokerImplementsLease`).
4. `SystemProofs`: under `SysInv`, every step of `System` is a step of `Broker`
   or leaves it alone (`ServiceImplementsBroker`), so the broker's part of the
   invariant comes from layer 2. `NoCallForgotten` needs to know that
   `connection` is set before it is used (`OwnConnections`) and that an ended
   process has no thread in a call (`EndedIsQuiet`). `LeaseHonoured` has two
   sources: a lease is either an old one, which `StepKeepsLease` of layer 2
   keeps because only connections of ended processes go away, or one that
   the broker just gave, for which `RequestGrants` shows that the connection of
   the request holds the network. `NetworksSharedByName` follows: a lease is the
   registry's network of its name, and the registry is one to one.
   `LeaseLostOnlyByFailure` goes through the ways in which the broker can end:
   without peers no process has a lease to lose, and with them only the failures
   are left. `HeldIsGrantedAgain` goes through the ways in which a waiting thread
   gets an answer (`HeldAnswer`): the one of a running broker is that of
   `acquire_network`, which for a registered network that the peer holds has one
   path only.
5. `SystemProofs`, second half: under `SysInv`, every step of `System` is a step
   or a stutter of `ServiceLease` (`ServiceImplementsService`). `Delete` and
   `Stop` ask that no process has the network, which is `LeaseHonoured` read
   backwards: who has a network holds it by a connection, and the broker deletes
   what has no holder and ends without peers. `Acquire` asks that a new network
   has no other name, which is the address that `create_network` found free.
   That a `return` is a stutter needs `NoNetworkLost`: the network of a reply
   moves into `granted` and none is dropped on the way. With
   `BrokerImplementsLease`, `ServiceImplementsBroker` gives the promise to
   connections inside the service too (`ServiceImplementsLease`).
6. `InstallProofs`: every step of `Install` is a step of `Broker` or leaves it
   alone (`InstallImplementsBroker`). `StayingPeerStopsScript` is about four
   commands after the one that establishes it, so `ScriptProgress` carries what
   each command knows: while a peer of the process stays, the process lives
   (the broker exits only without peers, or takes its peers along), `pid` is
   alive, and `poll` can only go on or refuse. `CompletedMeansDone` cannot rest
   on `bootout`, which may fail: for an install it rests on bootstrap, which
   refuses a service that launchd has, for an uninstall on the property list
   being deleted of every service that was found loaded. `NoOldBroker` adds that
   a process of the release before cannot run beside the service that bootstrap
   loads.
7. `TestClientProofs`: `TestInv` relates `interfaces[]` to what vmnet runs.
   `HandlersPaired` says what a pending handler is for and that the semaphore is
   not signaled meanwhile; without it a late handler could be about another
   interface than the counter says.
8. `GoRunnerProofs` and `SwiftRunnerProofs`: neither `NoFalseAlarm` nor
   `TerminalRestored` is inductive. A runner that has said "failed" must not go
   on, or the guest could stop afterwards; one that returns early must not have
   switched the terminal yet; and a signal may kill the process only while its
   handlers are missing. `OrderOfRun` and `OrderOfMain` say where the program is
   when each of these is so. The Swift runner starts a stop and a timer for every
   signal, and the model fires the head of `timers` first: `TimersInOrder` shows
   that no younger timer is due before it, because all of them get the same
   timeout and run at the same pace, and `StopsBounded` that the bound on the
   signals bounds the timers, a handler turning one into the other.
   `StopNotMissed` says in both that the end of the guest cannot pass unnoticed.

Why the parts of `BrokerInv` need each other:

- `NoAssertFails` does not stand alone: no timer runs when `remove_later` is
  called because a timer exists only for networks without holders, and that because
  counters are exact.
- `NeverEndsWithPeers` for launchd needs `TransactionIffPeers`, for signals
  `PeersCounted`, for the idle timer `ShutdownOnlyIfIdle`.
- `LeaseKept` needs `RemovalScheduledIffUnused` for the object of a timer that
  is due, and `RegistryConsistent` so that the name the handler removes is the
  one under which that object is registered.
- `OnlyConnectedPeersHold` lets a connection begin with an empty array without
  losing counts.
- `FreedHasNoName` says that `free_network` on a partly built object restores
  the heap exactly, which is what `FailedRequestHasNoEffect` claims.

| Theorem | States |
|---|---|
| `TypeCorrect` | `Spec => []TypeOK` |
| `BrokerInvariant` | `Spec => []BrokerInv` |
| `RegistryIsConsistent`, `PeerArraysAreSound`, `PeerArraysAreBounded`, `RefCountsExact`, `RemovalExact` | the registry's invariants, one by one |
| `ShutdownSafe` | `Spec => []ShutdownOnlyIfIdle` |
| `AssertionsHold` | `Spec => []NoAssertFails` |
| `NeverEndsUnderPeers` | `Spec => []NeverEndsWithPeers` |
| `TransactionBalanced` | `Spec => []TransactionIffPeers` |
| `FailuresHarmless`, `GrantsHeld`, `LeasesKept` | the action properties |
| `BrokerImplementsLease` | `Spec => ImplementsLease` |
| `ServiceInvariant`, `ServiceTypeCorrect` | `SysSpec => []SysInv`, `SysSpec => []SysTypeOK` |
| `CallsAccounted` | `SysSpec => []NoCallForgotten` |
| `LeasesHonoured` | `SysSpec => []LeaseHonoured` |
| `LeasesLostOnlyByFailure` | `SysSpec => LeaseLostOnlyByFailure` |
| `HeldGrantedAgain` | `SysSpec => HeldIsGrantedAgain` |
| `ServiceImplementsBroker` | `SysSpec => Spec` |
| `NetworksSharedByName` | `SysSpec => []SharedByName` |
| `ServiceImplementsLease` | `SysSpec => ImplementsLease` |
| `ServiceImplementsService` | `SysSpec => ImplementsService` |
| `InstallInvariant`, `ScriptsTypeCorrect` | `InstallSpec => []InstallInv`, `InstallSpec => []InstallTypeOK` |
| `StayingPeersSpared` | `InstallSpec => []StayingPeerStopsScript` |
| `CompletedScriptsDone` | `InstallSpec => []CompletedMeansDone` |
| `InstallImplementsBroker`, `ScriptsKeepLease` | `InstallSpec => Spec`, `InstallSpec => ImplementsLease` |
| `TestInvariant` | `TestClient`'s `Spec => []TestInv` |
| `ArraysNeverOverflow`, `InterfacesAreTracked` | its parts `ArraysBounded` and `InterfacesTracked` |
| `GoRunnerInvariant`, `SwiftRunnerInvariant` | the runners' `Spec => []GoInv` and `Spec => []SwiftInv` |
| `GoNoFalseAlarm`, `GoTerminalRestored`, `SwiftNoFalseAlarm`, `SwiftTerminalRestored` | their parts `NoFalseAlarm` and `TerminalRestored` |

Only model-checked: `IdleNetworkRemoved`, `AbandonedBrokerExits`,
`ImplementsFairLease`, `CallReturns`, `DeadClientsNetworkRemoved`, `ScriptEnds`,
`SignalEndsRunner` and `TestEnds`, which are liveness under fairness, outside
the reach of the proof system. Every invariant and every action property that a
passing run checks is also proved.

## 5. What is not modelled, and the plan

Every component with state of its own is modelled, and every safety property of
the runs is a theorem. What would come next:

1. The scripts beside `System` instead of `Broker`, so that the claims about
   clients of a service that is being removed are about processes and calls.
2. The safety half of the liveness properties: for example, that a timer which
   is armed comes closer to its end with each tick and is otherwise only
   canceled, which is the ranking that `IdleNetworkRemoved` rests on.

Not modelled:

- `lib/common.c` and `log.h`: formatting of addresses and messages, without state.
- The build and packaging scripts, `create-vm`, and the download of a release:
  batch jobs outside the running system, without concurrency.
- Loading and building the configuration of the virtual machines: calls into the
  Virtualization framework that succeed or end the runner.
- vmnet, XPC, launchd, dispatch and the Virtualization framework themselves: they
  appear as the calls and events that the code sees, which may fail where the
  code has a path for it.
- Reuse of a pid while a script polls, two scripts at the same time, and a reboot:
  the scripts do nothing about them.
