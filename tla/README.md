# A verification of Quantumcat in TLA+

Quantumcat (`qcat`) joins two machines by an authenticated WireGuard tunnel that
is carried over DERP relays. Before WireGuard starts, client and server run a
post-quantum handshake that authenticates both ends and derives a pre-shared key
(PSK) for the tunnel. The server admits the client under a lease of an hour, the
client renews it while applications go on using the tunnel, and an operator may
revoke a peer at any time.

This directory models that system in TLA+, checks the models with TLC on small
instances, and proves the most important theorems with TLAPS for all instances.
`PROJECT.json` gives, for every definition, the lines of the source it models, and
lists the runs, the hazards and the theorems.

## 1. The system and its parts

| Part | Source | State | Operations | What makes it correct |
|---|---|---|---|---|
| Handshake | `internal/protocol/handshake.go` | pending transcripts, replay table, rate buckets, one survivor per source | `NewClient`, `Complete`, `Accepted`; `Handle`, `Expire`, `Close`, `Session.Installed` | a hello counts once; a session is never older than the last; an acknowledgement means the PSK is installed |
| Admission | `third_party/tailcat/quantumcat.go`, `tailcat.go` (`startLocked`) | five peer tables, hooks in flight, routes | the worker's select loop, `completeBootstrapLocked`, `DisconnectClient`, expiry sweep, shutdown | tables and routes agree; each session is answered once; quotas; no late installation |
| Transport | `internal/transport/transport.go` | the two above | `Bootstrap`, `BootstrapCleanup` | both ends agree on PSKs |
| Peer store, revocation | `internal/config`, `cmd/qcat/authorization.go`, `main.go` | peer files, authorizations, failure count, two tickers | `peer add`, `peer remove`, `reloadAuthorizations`, sweep | a removed peer loses its session in bounded time |
| Renewal | `internal/transport/renew.go` | deadlines on the wall clock, `recovering` | `watch` | the lease is kept; an outage ends in bounded time |
| Client | `tailcat.go`, `quantumcat.go` (`Client`) | two mutexes, backend, PSK | start, ping, dial, probe, refresh, renew, status, close | no deadlock, no leaked backend, newest PSK in force |
| UDP framing | `internal/proxy/udp_frame.go` | assemblies | `Write`, `Read`, `accept` | datagrams arrive whole or not at all |
| UDP forwarder | `internal/proxy/udp.go` (`ForwardUDP`) | flow table, queues, sockets | receive loop, flow and reader goroutines, stop | replies reach their application; order; it returns |
| UDP services | `udp.go` (`UDPServices`), `tailcat.go` (`idlePacketConn`) | slots, sockets, idle timer | handler, two pumps, `checkIdle`, `touch`, `Close` | active flows live, idle ones end, nothing is left |
| Control socket | `internal/control/control.go` | the socket's path, listeners, requests | `StartPeer`, accept loop, `Query`, exit, kill | a running command can be reached and stopped |
| Enclave identity | `internal/crypto/provider/se` | helper process, pipe, public key | `Sign`, `load`, `call`, `Close` | every caller gets its own signature, or an error, in time |
| TCP streams | `main.go` (forward, socks, connect, serve), `internal/proxy/socks.go`, `tailcat.go` (`ProxyConns`, `closeProxyConnTimeout`) | connections, copies, slots, negotiation | `Accept`, dial, SOCKS on both ends, copy, half-close, drain | all data before an end; slots return; both proxies end |
| Commands | `cmd/qcat/main.go`, `mosh.go`, `lifecycle.go` | resources held, deferred calls, goroutines, child | acquire, spawn, wait, return, be stopped or killed | nothing is closed under its users, nothing is left, a cancelled command ends |
| Arguments | `main.go`, `udp.go`, `mosh.go` | options | parsing of published services and of mosh-server's announcement | exactly the valid lists are accepted, with the right targets |
| Listeners | `listen.go`, `tailcat.go` (filter, flow handlers) | listener tables, packet filter | `Listen`, `Accept`, `handle`, `Close`, `Server.Close` | the filter follows the listeners; no connection is stranded |

How they interact: the relay delivers packets to the server's worker, which runs
the handshake's `Handle` and completes the session it returns by admission; the
outcome goes back into the handshake by `Session.Installed`, and only then is the
client's finish acknowledged. Revocation changes what `Handle` and the leases'
validity test see. On the client, renewal drives the same handshake through the
client lifecycle. UDP services, forwarders, TCP streams and listeners run on top of the
tunnel; a command holds all of these while it runs, and is reached by its control
socket; the Enclave identity stands beside them.

The behaviours that make this hard are listed as hazards in `PROJECT.json`, each at
its line: a relay that loses, repeats and reorders; admission hooks of any length
beside disconnection and shutdown; a server that restarts; a lost acknowledgement;
two tickers of unknown phase and reloads that fail; sleep and clocks that are set;
goroutines that share maps, mutexes, timers and pipes; processes that are killed.

## 2. Modules

Definitions whose name begins with `Bug` are plausible errors of the definition that
follows them. Nothing uses them: each serves to show that a property notices the error.

* `Maps`, `RateLimit`: partial functions, and the token buckets of `allow` with
  the tables that hold them (`Second` units of a token's fraction per second).
* `Handshake`: client, relay and server of the handshake. Packets are sets
  that only grow, so the relay may deliver any packet again, late, or never. A
  transcript hash is the number of the encapsulation that made it, and names its PSK.
  `Handle` is split by outcome: one action per early return and per success
  (`HelloStale`, `HelloRefused`, `HelloOverloaded`, `HelloReplayed`, `HelloFailed`,
  `HelloEncapsulated`, `FinishDropped`, `FinishAcked`, `FinishSelected`), each with the
  charges and sweeps that the code has made by then. Cryptography is abstracted to
  what it authenticates. Stamps and clocks count whole seconds; the code's rounding
  of stamps is less than one of these, and the margin between twice the window (240 s)
  and the retention (300 s) covers it.
* `Admission`: the worker, one step per critical section of `peerLifecycleMu`.
  `Expire` and the sweep are one step: they commute with all that can come between.
* `Transport`: composes both (`EXTENDS Handshake`, `INSTANCE Admission`), with each joint
  step one action. `PSKAgreement` is the abstract specification of what the pair promises:
  the server installs ever newer PSKs for a source and may drop it at any time; the
  client only adopts a PSK newer than its own that the server installed.
  `AgreementHolds` states the refinement, with the mapping of the two PSKs, and
  `HandshakeHolds` that the composed server still implements `Handshake`, so that the
  theorems about the handshake speak of the composed server.
  Orderly shutdown is in `Admission` alone; here the server crashes.
* `Revocation`: peer files, commands that may be killed between their steps, the server
  reading the directory file by file, both tickers with a phase of their own.
* `Renewal`: `watch` in units of its ticker (5 s), the server's lease, and a machine that
  sleeps, loses its network and has its clock set, also in the middle of a call.
* `ClientLifecycle`: the client's methods as steps between taking and letting go of mutexes.
* `UDPFrame`, `ForwardUDP`, `UDPService`: the three UDP parts. A `Write`'s identifier is
  its number (the code starts at a random 64-bit value, which does not wrap in practice).
* `TCPForward`: a stream of forward, socks or connect, from the local program through
  the client's goroutine and the server's handler to the target. Each hop is a short
  sequence of tokens that ends with a fin; what the hops do (half-close, reset, a fin
  that is sent again while its endpoint lives) is external, as the proxies see it.
  `Copy` and `EndCopy` are `io.Copy` and the `CloseWrite` after it, `ProxyCloses` and
  `DrainExpires` the two ends of `closeProxyConnTimeout`.
* `Command`: `EXTENDS Control`. A command is a program of steps; a step takes
  resources, starts a goroutine or waits, and pushes its deferred call, and a return pops
  them, last first. `ControlHolds` states that commands implement `Control`.
* `Arguments`: the parsing as operators on abstract inputs (ports up to `MaxPort` stand for
  ports up to 65535), against definitions that say with quantifiers what is accepted.
* `Control`, `SEIdentity`, `Listener`: the parts of the same names. Closing a Unix listener
  unlinks the path by name (Go's `net`); `cmd.Wait` closes the pipe when it reaps
  the helper; an unbuffered Go channel hands over only when one side waits.
* `HandshakeProofs`, `TransportProofs`, `AdmissionProofs`, `IdentityProofs`, `ClientProofs`,
  `UDPProofs`, `CommandProofs`, `TCPProofs`: theorems, each about the modules it
  extends. `TransportProofs` builds on `HandshakeProofs`. `AdmissionProofs` is about `Admission`
  and `Listener`, the two halves of a server's `tailcat` state; `IdentityProofs` about `Revocation`
  and `SEIdentity`; `ClientProofs` about `Renewal` and `ClientLifecycle`; and `UDPProofs` about
  `ForwardUDP` and `UDPService`. Models in one proof module share no name (hence
  `ListenerSpec`, `RenewalSpec`, `SESpec`, `ServiceSpec`).
* `MC...`: the instances for TLC. `MCStandalone` puts `Renewal`, `UDPFrame` and `Arguments`
  side by side: the initial state chooses one, and the others rest.

## 3. Runs

Twelve runs, each within two and a half minutes on two cores. A bound is
chosen for the case it must let happen, named in the last column; the constants
that are sizes of tables in the code are a few entries here, so that the models meet
a full table.

| Run | Question | Bounds, and what they reach |
|---|---|---|
| `handshake` | Can a hello count twice, a client lose its transcript, an older PSK replace a newer one, or an acknowledgement come early? Is there room for the nonce of every hello that the rates allow? Also the invariant that is proved. | one client process with two attempts; clock error of one unit either way; one restart; window 1, retention 3, time to 3: a nonce is forgotten within the run; half a token each unit from the global bucket and a replay table of two, the fewest that `CapacityAssumption` allows |
| `admission` | Hooks beside disconnection, revocation, expiry and shutdown; renewal, eviction, a full table, routes that cannot be added or deleted | three node keys, two identities, two sessions to an identity, two to the table, one hook in flight, three jobs: the third job evicts, is refused or renews |
| `transport` | Does the composition implement the handshake's specification and the agreement on PSKs? | one source, two attempts, one crash, hooks that outlive the transcript, lease of 3 |
| `revocation` | Is a removed peer's session gone in time, and does the server converge? | two identities, two file names, a period of two units so that both tickers take every phase, two failed reloads |
| `standalone` | Renewal: is the lease kept, is an outage bounded, is a clock that lags noticed? Framing: are datagrams whole, and returned whenever the decoder can? Arguments: are exactly the valid ones accepted? | renewal: three disturbances; interval 9, lease 19, probe period 6 and its timeout 2, in units of the 5 s ticker: shorter than in the code, with the same order and with the margin that `MarginAssumption` states. Framing: three datagrams for two assemblies, sizes empty and of two fragments, one repeated fragment, lifetime 2. Arguments: ports to 3, two entries, three lines: ranges that end at the last port, pass it, overlap or are reversed |
| `client` | Locks, backends and PSKs of one client; every call returns; status is not held up by a renewal | three goroutines, two backends, three PSKs; with authentication and without |
| `forward_udp` | Flow replacement, a full queue, failures, the end | two applications for one flow slot, queue of two, four packets, three flows |
| `udp_service` | The idle timer against datagrams; slots and sockets at failure and cancellation | two flows for one slot, timeout 2 |
| `command` | Two runs of forward, up, serve or mosh under one name: is anything closed under its users or left behind, do they use the control socket as specified, and do they end? | two processes, one `qcat down`, one kill; every step may fail. Starts do not overlap, except of mosh |
| `tcp_forward` | A stream of forward, socks or connect: is data lost before an end, do SOCKS and payload mix, do proxies end and slots return? | one connection (the slots are proved for any number), hops of one token, one data token each way, two lost fins where two are the 5 s of the drain |
| `se_identity` | Signatures, keys and helper processes; no caller blocks | two callers, two requests, two helpers, two keys: a request meets what a failed one left |
| `listener` | Listeners, the filter, connections being handed over | three listeners on two TCP ports and one UDP port, two connections, one `Accept` |

In most modules one state invariant (`AdmissionInv`, `ClientInv`, ...) is the conjunction of
the type invariant and of the named statements about single states. What makes it
inductive is defined below it, and section 4 says why it is needed. What the properties say is written above each definition; `PROJECT.json` lists the
properties of each run, and for each a mutant that breaks it. Symmetry is used in
`revocation` only, which checks invariants only.

Deadlock is checked in `revocation` and `client`, where it would mean that the tickers or
the mutexes block each other. In the other runs a bound stops the model (time,
attempts, packets) or the system really ends.

What the bounds leave open: `handshake` and `transport` have a single client process (the
theorems of section 4 hold for any number), `admission` a single discovery key, so a
renewal under another discovery key is not exercised.

### Where the code and what is said of it differ

The models show four. The first three statements are definitions of their
modules that no run lists, because they do not hold: adding one to its module's `.cfg`
makes TLC print the behaviour.

* `UnknownAllocatesNothing` (`Handshake`, action property): `Handle` charges, and so stores, a rate
  bucket for the source (`handshake.go`, 325) before it resolves the identity (334); its
  comment says that no work or state is allocated for unknown identities (225-226).
* `RevokedWithinTwo` (`Revocation`): failed reloads keep the previous authorizations
  (`authorization.go`, 39), so a session may outlive the two seconds that `peer remove`
  announces (`main.go`, 208). The bound that holds, and is proved, is
  `(MaxFailures + 1) * Period`, four seconds with the code's constants.
* `NoneOpenAfterClose` (`Listener`): a `Listen` that is between its two mutexes (`listen.go`, 61 and
  73) during `Server.Close` returns an open listener on the closed server; the
  comment on `Close` says it closes any listener created by `Listen`
  (`tailcat.go`, 1129-1130).
* With `Overlap = TRUE` in `MCCommand.cfg`, `Reachable` fails: of two runs of one command that start
  together, one may take the other's new socket for a stale one and remove it
  (`control.go`, 46).

Two more are limits of the code that a property has to name:

* `ReplyFirst` (`TCPForward`) excepts a `Serve` whose deadline of 15 s passed during its dial
  of up to 10 s (`socks.go`, 137): its answer is lost, the deadline is then lifted, and
  the program gets data where it expects the answer.
* `Ends` (`TCPForward`) excepts a client whose process has gone: no keepalive is set, so
  the handler of an idle stream waits in `ProxyConns` until the target ends it.

### Fairness

* `Admission.FairSpec`: the worker goroutine runs, and Go's select does not pass over a ready
  case for ever. Nothing makes a hook return: no property waits for one.
* `ForwardUDP`, `UDPService`: goroutines run, dials end within 10 s and writes within
  5 s by their deadlines, reads of a closed socket fail, timers fire. `IdleEnds` has as
  its hypothesis that datagrams stop.
* `ClientLifecycle.FairSpec`: Go's mutexes do not starve a waiter; a start and a probe end by
  their contexts. A renewal need not end: `Returns` has that as a hypothesis (`RenewalsEnd`,
  the 25 s of the caller's context), and `StatusAnswered` does without it.
* `SEIdentity.FairSpec`: mutexes as above, and every caller's context ends. The helper need not do
  anything.
* `TCPForward`: goroutines run, calls with a deadline return, the tunnel carries what it is
  given, the two programs read. They need not send or end: `Ends` has as its hypothesis
  that they did.
* `Command`: of what a process can do by itself, something is done (`Own`), and its accept loop
  runs (`Loop`). A command that nobody cancels may wait for ever; `mosh-client` ends
  when the context does, by `WaitDelay` at the latest.
* `Listener`: goroutines run.

## 4. Proofs

TLAPS proves what follows for every value of the constants: any number of clients,
identities, flows, processes and table entries. TLC checks each inductive invariant on
the small instances first. Every proof of an invariant has the same shape: one lemma
per action, one step per conjunct that the action can disturb, and a last theorem that
combines them.

**Handshake** (`HandshakeProofs`).

* `TypeCorrect`: the type invariant, on lemmas about the bucket arithmetic of `allow`.
* `Invariance`: `Inv`, the inductive strengthening. None of the
  promises is inductive: that a hello is encapsulated once needs that the replay table
  covers every transcript younger than the retention (`ReplayCovers`) and that transcripts
  come from hellos inside the window (`OriginsSound`); that sessions do not roll back
  needs that the last one handed out is the oldest still pending (`PendingSound`); that a
  transcript outlives its client needs that it began after the attempt (`OriginsSound`,
  `ClientsSound`). The argument of `ReplayProtection` in one line: a hello accepted at time
  t has a stamp within `Window` of t, so it is stale after t + 2 `Window`, before its nonce
  is forgotten at t + `Retention`.
* From it follow `ReplayProtection`, `InstalledFirst`, `NeverRollsBack` (an action property),
  `FinishOutlivesClient`, `SurvivorUnique` and `OutstandingUnique`.
* `ReplayRoom`: when the global bucket allows a hello, the replay table has
  room for its nonce, so that its limit refuses nobody whom the rates allow. The invariant
  (`BudgetKept`) bounds, for every time t, the nonces recorded since t together with the
  tokens left by what the bucket can have given since t. It needs all t at once: the
  sweep removes the oldest nonces, at a moment that depends on when each arrived.

**Admission and listeners** (`AdmissionProofs`).

* `AdmissionSound`: `AdmissionInv`. It needs that a session is in one place
  (`JobsApart`): the worker holds at most one job, of a source without a hook in flight,
  and no two live jobs carry one PSK. What was aborted stays out because its hook is marked
  as cancelled until it is answered (`AbortsMarked`).
* `TakeoverFree`: `NoTakeover`, an action property. It needs the counts: no identity has more
  sessions than its limit, and the oldest of them is one session (`SessionsBounded`).
* `ListenerSound`: `ListenerInv`. The table's exactness needs the converse as well: what
  it names is open, under that port (`TableOpen`).

**Transport** (`TransportProofs`), on top of `Invariance`, for any number of client processes.

* `TInvariance`: `TInv`, the handshake's `Inv` with what ties it to admission. A session on
  its way to installation (a job, a hook in flight) is the last that the protocol handed out
  for its source, and unanswered (`JobsHanded`); only sessions that were handed out are
  answered, and only those answered with success are installed (`AnswersSound`); the
  server's session of a source uses the newest PSK installed for it (`ServerNewest`); and
  every transcript of the attempt that a client is making is newer than its PSK
  (`ClientsForward`).
* `ImplementsHandshake`: `HandshakeHolds`. Each joint step is a step of `Handshake` or leaves
  its variables alone. The steps that call `Installed` need `JobsHanded`: `Handshake`
  lets a session be installed once, while it is outstanding. With this refinement every
  theorem of `HandshakeProofs` holds of the composed server.
* `HalvesAgree`: `InstallationsSound`. Its parts follow from `TInv`; that the server is not
  behind its client is `ServerNewest` together with the handshake's `InstalledFirst`.
* `ImplementsAgreement`: `AgreementHolds`, the refinement of `PSKAgreement`. That an installation
  is newer than all that came before is `JobsHanded` with `AnswersSound` (what is
  installed now was handed out last), and that a client moves forward is `ClientsForward`.

**Revocation** (`IdentityProofs`).

* `Deadlines` and `RevocationInTime`: an identity that is authorized
  without a descriptor lost it no longer ago than the failed reloads account for
  (`Due`); the argument does not depend on what commands do to the directory.
* `Followed`: `Converges`. A reload in progress has read and has still to read what makes up
  the directory (`ScanFollows`), and until the authorizations follow, the reload that
  makes them follow is ahead, within the period (`Reflected`).

**Client and renewal** (`ClientProofs`).

* `ClientSound`: `ClientInv`. It needs which place in a method holds which mutex
  (`MutexesHeld`), and what a client that is started or being started has (`BackendFollows`).
* `PSKNeverOlder`: `NewestPSK`, an action property. The PSK that a renewal is about to install
  is newer than the one in use (`PSKsOrdered`): renewals hold `renewMu`.
* `RenewalSound`: `RenewalInv`. A bound on time is inductive only together with what is
  left of it at each point of the loop: how long a call has run and what that says of the
  time since the last answer (`CallsSound`), how far the two deadlines can be away
  (`DeadlinesKept`), how much of an outage may be left from each place, with the path
  noticed as broken and without (`OutageEnds`), and that what is left of the lease covers
  the wait or the calls that stand before its renewal (`LeaseLasts`). No bound on sleep,
  clock steps or their number enters.

**UDP** (`UDPProofs`).

* `ForwardSound`: `ForwardInv`. A socket may outlive neither its goroutine nor the entry of
  its flow (`FlowsInTable`); the bound on sockets follows by counting, because each has an
  entry of its own.
* `DatagramsInOrder`: `SentInOrder`, the safety half of `QueueKept`. Every queue is
  ordered, and what is queued is newer than what was sent (`QueuesOrdered`).
* `ServiceSound`: `ServiceInv`, with the slots as the handlers past `begin` (`SlotsExact`).
* `NeverClosedEarly`: `NotClosedEarly`, no flow is closed as idle before its time, an action property.

**Commands** (`CommandProofs`).

* `Implements`: commands implement `Control`, for any number of runs. The
  one step that is not immediate is `ControlBegins` of mosh, which `Control` allows only
  to a process that is alone: by the invariant (`PortInv`) whoever is in `StartPeer` holds
  the UDP socket, which one process can hold.
* `DownStops`: `AnsweredStopped`, whoever has its answer has stopped its server.
* `CommandSound`: `CommandInv`. The stack of a run is the first so many of its command's
  deferred calls (`Stacked`), so that what a call releases was deferred before all of its
  users; a run holds and serves what its stack will end (`Kept`, `Socket`); and the path
  names the run that bound it (`Binding`). The theorem has the hypothesis `~Overlap`, starts
  of one name that do not overlap, which is also what the run checks: without it `Reachable`
  does not hold (section 3).

**Enclave identity** (`IdentityProofs`).

* `HelperSound`: `HelperInv`. That a signature is of the caller's own message needs that
  an unclosed helper has at most one request, of the caller that waits for it (`InStep`),
  so that there is no answer of an earlier request to take; and that every helper ever
  started is closed, the identity's, or being loaded (`Owned`).
* `KeyStays`: `KeyKept`, an action property.

**Streams** (`TCPProofs`).

* `SlotsReturned`: the slots taken are the goroutines at work, for any
  number of connections, through every way that a goroutine ends. The TLC run has one
  connection; the proof adds the counting.

Assumptions, all of them on constants: `2 * Window < Retention` and `Budget < PendingTTL`
(`TimingAssumption`; 240 < 300 and 25 < 30 in the code), constants are natural numbers, an
owner for every source; for revocation a positive period and number of failures; for
`ReplayRoom`, `GlobalRate * (Second + Retention - 1) <= Second * MaxReplay`
(`CapacityAssumption`; the code has 64 * 301 for a rate of 64 and a retention of 300 s);
for commands the four kinds; for streams, flows and listeners finite sets and positive
sizes; for renewal `MarginAssumption`: the interval, two timeouts and two ticks fit into the
lifetime, and a retry comes before a probe is due (in units of 5 s the code has a probe
period of 6, timeouts of 2 and 5, a retry of 1); that "nobody" is not a caller, a helper, a listener or a job.

Only model-checked:

* liveness: fairness and `ENABLED` are out of the prover's reach;
* `UDPFrame` and `Arguments`: operators defined by recursion over their input, for which
  the provers have no induction;
* `ReplyFirst` and `Complete` of `TCPForward`: what is in the hops is a sequence of sequences,
  again by induction over data;
* the action properties that no theorem above names.

## 5. What is left out, and why

* The byte layouts of `wire.go`, key generation, signatures, the KEM and WireGuard itself: the
  models use what these authenticate. Every packet in the relay was sent by the
  party it names.
* The limits of the packet queues between relay and worker (`onDERPRecv`): a packet dropped there
  is a packet lost.
* Admission without authentication (`onMeow`): no command uses it, see the plan.
* `DrainTCP` and `ProxyPacketConns`, which no command calls; the quoting of mosh's remote
  command, and its environment.
* Relay selection, DERP map caching, path and permission tests, version: I/O or pure tests.
* Revocation assumes one peer command at a time; two `peer add` commands at once may pair
  an identity twice, and two removals of one peer at once may each move a file to the
  backup that the other one tested for (`Lstat`, then `Rename`). It also takes the reload and the sweep to take no time.
* Renewal assumes that a call that nothing hinders ends within one tick.
* Listener leaves out exit-node forwarding and TUN filters, and assumes that a program does not call
  `Listen` after `Close`. Control leaves out `info` and `status`, which change nothing.
* Command takes the steps of one row at once, and a process that is killed before it has a
  control socket for one that has not started.

## 6. Plan

In the order of importance:

1. Done: handshake, admission, their composition and refinement, revocation, renewal; the
   theorems about the handshake and revocation.
2. Done: client lifecycle, UDP framing, forwarder and services, control socket, Enclave
   identity, listeners.
3. Done: TCP streams with SOCKS, the life of the commands with mosh, the arguments; the
   theorems about the replay table's capacity, the slots and the control socket.
   Then the state invariants of admission, client, UDP, commands, Enclave, listeners and
   renewal, and the refinements of the composed server.
4. Next modules: `LegacyAdmission` (`onMeow` and its hook), the KEM helpers of the Enclave
   provider.
5. Next compositions: `Renewal` over `ClientLifecycle`, `UDPFrame` under `UDPService`,
   `ForwardUDP` inside `Command`.
6. Next theorems: `ReplyFirst` and `Complete` of `TCPForward`; that no datagram has more
   fragments than an assembly has bits.
