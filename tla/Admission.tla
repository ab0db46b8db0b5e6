----------------------------- MODULE Admission -----------------------------
(***************************************************************************)
(* The server's admission of authenticated peers: the bootstrap worker of  *)
(* third_party/tailcat/tailcat.go (startLocked), completeBootstrapLocked   *)
(* of quantumcat.go, the disconnection and removal of peers, and the host  *)
(* routes of internal/tunnel/tunnel.go.                                    *)
(*                                                                         *)
(* A job is a session that the Bootstrap callback returned; it is named by *)
(* its PSK, a number.  The protocol hands out each session once, and those *)
(* of one source in increasing order (NoRollback of module Handshake).     *)
(* The worker is one goroutine; DisconnectClient, Close, the admission     *)
(* hooks and the reload of the authorized peers run beside it.  Each step  *)
(* below is one critical section of peerLifecycleMu.                       *)
(*                                                                         *)
(* Definitions whose name begins with Bug are plausible errors, each kept  *)
(* before the definition it would replace; no other definition uses them.  *)
(***************************************************************************)
EXTENDS Maps

CONSTANTS
    Source,        \* node keys of client processes
    Peer,          \* identities
    Disco,         \* discovery keys
    Hook,          \* whether Server.AllowClient is set
    Lifetime,      \* the lease of a session (1 hour)
    MaxSessions,   \* sessions of one identity (maxSessionsPerIdentity, 16)
    MaxPeers,      \* admitted peers (4096)
    MaxAdmissions, \* hooks in flight (maxPendingAdmissions, 64)
    MaxTime, MaxJobs   \* bounds of the model

ASSUME AdmissionAssumption ==
    /\ Hook \in BOOLEAN
    /\ {Lifetime, MaxSessions, MaxPeers, MaxAdmissions, MaxTime, MaxJobs} \subseteq Nat
    /\ MaxSessions > 0

VARIABLES
    now, authorized,
    work,           \* jobs in the worker's hands: none or one
    admissions,     \* source -> job whose hook is in flight
    cancelled,      \* sources whose admission in flight was cancelled
    \* the tables of locoBackend
    peerPSKs, peerValid, peerOwners, peerInstalled, clients,
    nextClientID,
    instant,        \* the last time.Now() of an installation: they never repeat
    routes,         \* Tunnel.routes
    life,           \* "up", "closing" (bootstrapDone closed), "stopped" (the
                    \* worker has returned), "closed"
    \* history
    issued,         \* the sessions handed out so far
    answered,       \* PSK -> what Installed was told
    aborted,        \* sessions whose admission was cancelled by DisconnectClient
    stuck           \* sources whose route could not be deleted

tableVars == <<peerPSKs, peerValid, peerOwners, peerInstalled, clients, nextClientID, instant>>
jobVars   == <<work, admissions, cancelled>>
historyVars == <<issued, answered, aborted, stuck>>
vars == <<now, authorized, jobVars, tableVars, routes, life, historyVars>>

\* AuthenticatedPeer.Valid: the lease, and the public key found for the
\* identity when the session was made (pinned), which must still be there.
Lease == [id : Peer, expires : Nat, pinned : BOOLEAN]
valid(l) == now < l.expires /\ l.pinned /\ l.id \in authorized

Job == [src : Source, psk : Nat, disco : Disco, lease : Lease]

\* The jobs not yet answered.
liveJobs == work \cup {admissions[k] : k \in DOMAIN admissions}

TypeOK ==
    /\ now \in Nat /\ authorized \subseteq Peer
    /\ work \subseteq Job
    /\ DOMAIN admissions \subseteq Source /\ admissions \in [DOMAIN admissions -> Job]
    /\ cancelled \subseteq DOMAIN admissions
    /\ DOMAIN peerPSKs \subseteq Source /\ peerPSKs \in [DOMAIN peerPSKs -> Nat]
    /\ DOMAIN peerValid \subseteq Source /\ peerValid \in [DOMAIN peerValid -> Lease]
    /\ DOMAIN peerOwners \subseteq Source /\ peerOwners \in [DOMAIN peerOwners -> Peer]
    /\ DOMAIN peerInstalled \subseteq Source /\ peerInstalled \in [DOMAIN peerInstalled -> Nat]
    /\ DOMAIN clients \subseteq Source
    /\ clients \in [DOMAIN clients -> [id : Nat, disco : Disco]]
    /\ nextClientID \in Nat /\ instant \in Nat
    /\ routes \subseteq Source /\ stuck \subseteq Source
    /\ life \in {"up", "closing", "stopped", "closed"}
    /\ issued \subseteq Nat /\ aborted \subseteq issued
    /\ DOMAIN answered \subseteq issued /\ answered \in [DOMAIN answered -> BOOLEAN]

Init ==
    /\ now = 0 /\ authorized = Peer
    /\ work = {} /\ admissions = Empty /\ cancelled = {}
    /\ peerPSKs = Empty /\ peerValid = Empty /\ peerOwners = Empty
    /\ peerInstalled = Empty /\ clients = Empty
    /\ nextClientID = 2 /\ instant = 0
    /\ routes = {} /\ stuck = {}
    /\ life = "up"
    /\ issued = {} /\ answered = Empty
    /\ aborted = {}

-----------------------------------------------------------------------------
(***************************************************************************)
(* Tables and routes.                                                      *)
(***************************************************************************)

\* The entries of the peers in K leave every table (removeAuthenticatedPeer,
\* and the worker's periodic cleanup).
RemovePeers(K) ==
    /\ peerPSKs' = Without(peerPSKs, K) /\ peerValid' = Without(peerValid, K)
    /\ peerOwners' = Without(peerOwners, K)
    /\ peerInstalled' = Without(peerInstalled, K)
    /\ clients' = Without(clients, K)

\* tunnelPeer(k, false) for the peers in K: the command may fail, and then
\* the route stays and the error is only logged.
DeleteRoutes(K) ==
    \E failed \in SUBSET (K \cap routes) :
        /\ routes' = routes \ (K \ failed)
        /\ stuck' = stuck \cup failed

\* bootstrapAdmission.finish: the session learns whether it was installed.
Answer(j, ok) == answered' = Put(answered, j.psk, ok)

-----------------------------------------------------------------------------
(***************************************************************************)
(* completeBootstrapLocked.                                                *)
(***************************************************************************)

Acceptable(j) == life = "up" /\ valid(j.lease)

\* A renewal needs the same identity and discovery key, and a live lease.
Renewable(j) ==
    /\ peerOwners[j.src] = j.lease.id
    /\ j.src \in DOMAIN clients /\ clients[j.src].disco = j.disco
    /\ valid(peerValid[j.src])

Refused(j) ==
    /\ ~Acceptable(j) \/ (j.src \in DOMAIN peerPSKs /\ ~Renewable(j))
    /\ Answer(j, FALSE)
    /\ UNCHANGED <<tableVars, routes, stuck>>

Renewed(j) ==
    /\ Acceptable(j) /\ j.src \in DOMAIN peerPSKs /\ Renewable(j)
    /\ peerPSKs' = [peerPSKs EXCEPT ![j.src] = j.psk]
    /\ peerValid' = Put(peerValid, j.src, j.lease)
    /\ peerInstalled' = Put(peerInstalled, j.src, instant + 1)
    /\ instant' = instant + 1
    /\ Answer(j, TRUE)
    /\ UNCHANGED <<peerOwners, clients, nextClientID, routes, stuck>>

sessionsOf(id) == {k \in DOMAIN peerOwners : peerOwners[k] = id}

oldestSessionForIdentity(id) ==
    {k \in sessionsOf(id) : \A o \in sessionsOf(id) : peerInstalled[k] <= peerInstalled[o]}

\* The session that makes room for j: the oldest of an identity at its limit.
evicted(j) == IF Cardinality(sessionsOf(j.lease.id)) >= MaxSessions
                THEN oldestSessionForIdentity(j.lease.id)
                ELSE {}

BugUnknown(j) == Acceptable(j)
Unknown(j) == Acceptable(j) /\ j.src \notin DOMAIN peerPSKs
HasRoom(j) == Cardinality(DOMAIN peerPSKs \ evicted(j)) < MaxPeers

\* The eviction is not undone when the table is full nevertheless.
OverCapacity(j) ==
    /\ Unknown(j) /\ ~HasRoom(j)
    /\ RemovePeers(evicted(j)) /\ DeleteRoutes(evicted(j))
    /\ Answer(j, FALSE)
    /\ UNCHANGED <<nextClientID, instant>>

\* addClientLocked: node IDs are never reused.
addClientLocked(c, j) ==
    IF j.src \in DOMAIN c THEN c
    ELSE Put(c, j.src, [id |-> nextClientID, disco |-> j.disco])

nextID(j) == IF j.src \in DOMAIN clients THEN nextClientID ELSE nextClientID + 1

Admitted(j) ==
    LET E == evicted(j) IN
    /\ Unknown(j) /\ HasRoom(j)
    /\ peerPSKs' = Put(Without(peerPSKs, E), j.src, j.psk)
    /\ peerValid' = Put(Without(peerValid, E), j.src, j.lease)
    /\ peerOwners' = Put(Without(peerOwners, E), j.src, j.lease.id)
    /\ peerInstalled' = Put(Without(peerInstalled, E), j.src, instant + 1)
    /\ clients' = addClientLocked(Without(clients, E), j)
    /\ nextClientID' = nextID(j) /\ instant' = instant + 1
    /\ \E failed \in SUBSET (E \cap routes) :
         /\ routes' = (routes \ (E \ failed)) \cup {j.src}
         /\ stuck' = (stuck \cup failed) \ {j.src}
    /\ Answer(j, TRUE)

\* The route could not be added: the new peer is rolled back, the evicted
\* one is not restored.
RouteFailed(j) ==
    /\ Unknown(j) /\ HasRoom(j) /\ j.src \notin routes
    /\ RemovePeers(evicted(j) \cup {j.src}) /\ DeleteRoutes(evicted(j))
    /\ nextClientID' = nextID(j) /\ instant' = instant + 1
    /\ Answer(j, FALSE)

completeBootstrapLocked(j) ==
    Refused(j) \/ Renewed(j) \/ OverCapacity(j) \/ Admitted(j) \/ RouteFailed(j)

-----------------------------------------------------------------------------
(***************************************************************************)
(* The worker.                                                             *)
(***************************************************************************)

\* The worker takes a packet of s; it drops those of a source whose hook is
\* in flight.
BugReceives(s) == life \in {"up", "closing"} /\ work = {}
Receives(s) == life \in {"up", "closing"} /\ work = {} /\ s \notin DOMAIN admissions

\* Bootstrap returned a session.  The key is looked up once more when the
\* lease is made, and may be gone just then.
Bootstrap(s, id, d, pinned, p) ==
    /\ Receives(s)
    /\ work' = {[src |-> s, psk |-> p, disco |-> d,
                 lease |-> [id |-> id, expires |-> now + Lifetime, pinned |-> pinned]]}
    /\ issued' = issued \cup {p}
    /\ UNCHANGED <<now, authorized, admissions, cancelled, tableVars, routes, life,
                   answered, aborted, stuck>>

NeedsHook(j) == Hook /\ j.src \notin DOMAIN clients

HookRefused(j) ==
    /\ NeedsHook(j)
    /\ ~valid(j.lease) \/ Cardinality(DOMAIN admissions) >= MaxAdmissions
    /\ work' = {} /\ Answer(j, FALSE)
    /\ UNCHANGED <<now, authorized, admissions, cancelled, tableVars, routes, life,
                   issued, aborted, stuck>>

HookStarted(j) ==
    /\ NeedsHook(j) /\ valid(j.lease) /\ Cardinality(DOMAIN admissions) < MaxAdmissions
    /\ work' = {} /\ admissions' = Put(admissions, j.src, j)
    /\ UNCHANGED <<now, authorized, cancelled, tableVars, routes, life, historyVars>>

Completed(j) ==
    /\ ~NeedsHook(j)
    /\ work' = {} /\ completeBootstrapLocked(j)
    /\ UNCHANGED <<now, authorized, admissions, cancelled, life, issued, aborted>>

Dispatch(j) == HookRefused(j) \/ HookStarted(j) \/ Completed(j)

\* The worker takes the answer of a hook.
HookReturned(s) ==
    /\ life \in {"up", "closing"} /\ work = {}
    /\ admissions' = Without(admissions, {s}) /\ cancelled' = cancelled \ {s}
    /\ UNCHANGED <<now, authorized, work, life, issued, aborted>>

HookAllowed(s) ==
    /\ s \notin cancelled /\ completeBootstrapLocked(admissions[s])
    /\ HookReturned(s)

HookDenied(s) ==
    /\ Answer(admissions[s], FALSE)
    /\ HookReturned(s)
    /\ UNCHANGED <<tableVars, routes, stuck>>

\* The ticker: sessions that expired or were revoked are removed.
BugInvalid == {k \in DOMAIN peerValid : now >= peerValid[k].expires}
invalid == {k \in DOMAIN peerValid : ~valid(peerValid[k])}

Cleanup ==
    /\ life \in {"up", "closing"} /\ work = {}
    /\ RemovePeers(invalid) /\ DeleteRoutes(invalid)
    /\ UNCHANGED <<now, authorized, jobVars, nextClientID, instant, life,
                   issued, answered, aborted>>

BugWorkerWaits ==
    /\ life = "closing" /\ work = {} /\ admissions = Empty
    /\ life' = "stopped"
    /\ UNCHANGED <<now, authorized, jobVars, tableVars, routes, historyVars>>

\* The worker returns: hooks still in flight are answered for it.
WorkerStopped ==
    /\ life = "closing" /\ work = {}
    /\ life' = "stopped"
    /\ answered' = [p \in DOMAIN answered \cup {j.psk : j \in liveJobs} |->
                      IF p \in DOMAIN answered THEN answered[p] ELSE FALSE]
    /\ admissions' = Empty /\ cancelled' = {}
    /\ UNCHANGED <<now, authorized, work, tableVars, routes, issued, aborted, stuck>>

-----------------------------------------------------------------------------
(***************************************************************************)
(* What runs beside the worker.                                            *)
(***************************************************************************)

BugDisconnectClient(k) ==
    /\ cancelled' = cancelled \cup ({k} \cap DOMAIN admissions)
    /\ aborted' = aborted \cup {admissions[s].psk : s \in {k} \cap DOMAIN admissions}
    /\ RemovePeers({k})
    /\ UNCHANGED <<now, authorized, work, admissions, nextClientID, instant, routes, life,
                   issued, answered, stuck>>

DisconnectClient(k) ==
    /\ cancelled' = cancelled \cup ({k} \cap DOMAIN admissions)
    /\ aborted' = aborted \cup {admissions[s].psk : s \in {k} \cap DOMAIN admissions}
    /\ RemovePeers({k})
    /\ DeleteRoutes({k} \cap DOMAIN clients)
    /\ UNCHANGED <<now, authorized, work, admissions, nextClientID, instant, life,
                   issued, answered>>

Close ==
    /\ life = "up" /\ life' = "closing"
    /\ UNCHANGED <<now, authorized, jobVars, tableVars, routes, historyVars>>

\* The rest of locoBackend.Close after the worker has returned, then Tunnel.Close.
Closed ==
    /\ life = "stopped" /\ life' = "closed"
    /\ peerPSKs' = Empty /\ DeleteRoutes(routes)
    /\ UNCHANGED <<now, authorized, jobVars, peerValid, peerOwners, peerInstalled,
                   clients, nextClientID, instant, issued, answered, aborted>>

Authorize(p) ==
    /\ authorized' = IF p \in authorized THEN authorized \ {p} ELSE authorized \cup {p}
    /\ UNCHANGED <<now, jobVars, tableVars, routes, life, historyVars>>

Tick ==
    /\ now < MaxTime /\ now' = now + 1
    /\ UNCHANGED <<authorized, jobVars, tableVars, routes, life, historyVars>>

Next ==
    \/ /\ Cardinality(issued) < MaxJobs
       /\ \E s \in Source, id \in Peer, d \in Disco, pinned \in BOOLEAN :
            Bootstrap(s, id, d, pinned, Cardinality(issued) + 1)
    \/ \E j \in work : Dispatch(j)
    \/ \E s \in DOMAIN admissions : HookAllowed(s) \/ HookDenied(s)
    \/ \E k \in Source : DisconnectClient(k)
    \/ \E p \in Peer : Authorize(p)
    \/ Cleanup \/ WorkerStopped \/ Close \/ Closed \/ Tick

Spec == Init /\ [][Next]_vars

\* The worker goroutine keeps running, and its select chooses among the ready
\* cases at random, so a ready ticker, or the closed bootstrapDone, is not
\* passed over for ever.  Nothing makes a hook return.
FairSpec ==
    /\ Spec
    /\ WF_vars(\E j \in work : Dispatch(j)) /\ SF_vars(Cleanup) /\ SF_vars(WorkerStopped)

-----------------------------------------------------------------------------
(***************************************************************************)
(* What admission promises.                                                *)
(***************************************************************************)

\* The five tables of locoBackend describe the same peers at the end of every
\* critical section, whatever was interrupted, evicted or rolled back, and
\* the PSK in use is one whose session was told that it is installed.
TablesAgree ==
    life # "closed" =>
        /\ DOMAIN peerPSKs = DOMAIN clients /\ DOMAIN peerValid = DOMAIN clients
        /\ DOMAIN peerOwners = DOMAIN clients /\ DOMAIN peerInstalled = DOMAIN clients
        /\ \A k \in DOMAIN clients :
             /\ peerValid[k].id = peerOwners[k]
             /\ peerPSKs[k] \in DOMAIN answered /\ answered[peerPSKs[k]]

\* Every admitted peer has its host route, and no other peer has one unless
\* the command that deletes it failed: a disconnected, evicted or expired peer
\* cannot acquire a late route.
RoutesFollowPeers ==
    /\ life # "closed" => DOMAIN clients \subseteq routes /\ routes \subseteq DOMAIN clients \cup stuck
    /\ life = "closed" => routes \subseteq stuck

\* Session.Installed is called exactly once for every session handed out: a
\* session is either answered or still with the worker or its hook, never
\* both, and shutting down answers all of them.
AnsweredOnce ==
    /\ \A j \in liveJobs : j.psk \notin DOMAIN answered
    /\ DOMAIN answered \cup {j.psk : j \in liveJobs} = issued
    /\ life \in {"stopped", "closed"} => liveJobs = {}

\* A session disconnected while its hook was in flight is never installed,
\* whatever the hook answers.
AbortedNotInstalled ==
    \A p \in aborted :
        /\ p \in DOMAIN answered => ~answered[p]
        /\ \A k \in DOMAIN peerPSKs : peerPSKs[k] # p

\* The state invariant of admission: tables, routes and answers agree, and
\* what was aborted stays out.
AdmissionInv ==
    TypeOK /\ TablesAgree /\ RoutesFollowPeers /\ AnsweredOnce /\ AbortedNotInstalled

\* What makes AdmissionInv inductive.  A session is in one place: the worker
\* holds at most one job, of a source without a hook in flight, and no two live
\* jobs carry the same PSK.
JobsApart ==
    /\ IsFiniteSet(issued) /\ issued = 1..Cardinality(issued)
    /\ \A i, j \in work : i = j
    /\ \A k \in DOMAIN admissions : admissions[k].src = k
    /\ \A j \in work : j.src \notin DOMAIN admissions
    /\ \A i, j \in liveJobs : i.psk = j.psk => i = j

\* An aborted session was refused, or its hook is still in flight and its
\* admission is marked as cancelled.  A closed server has no PSK left.
AbortsMarked ==
    /\ \A p \in aborted : \/ p \in DOMAIN answered /\ ~answered[p]
                          \/ \E s \in cancelled : admissions[s].psk = p
    /\ life = "closed" => DOMAIN peerPSKs = {}

\* No identity has more sessions than its limit, and no two sessions were
\* installed or renewed at the same instant: the oldest is one session.
SessionsBounded ==
    /\ IsFiniteSet(DOMAIN peerOwners) /\ DOMAIN peerOwners = DOMAIN clients
    /\ \A id \in Peer : Cardinality(sessionsOf(id)) <= MaxSessions
    /\ \A k \in DOMAIN peerInstalled : peerInstalled[k] <= instant
    /\ \A k, o \in DOMAIN peerInstalled : peerInstalled[k] = peerInstalled[o] => k = o

Inv == AdmissionInv /\ JobsApart /\ AbortsMarked /\ SessionsBounded

\* While a node stays admitted its identity, discovery key and node ID do not change.
SessionKept ==
    \A k \in DOMAIN clients \cap DOMAIN clients' :
        clients'[k] = clients[k] /\ peerOwners'[k] = peerOwners[k]

\* A session that a new one displaces is its identity's own, when that
\* identity is at its limit, and the one installed or renewed longest ago.
OwnDisplaced ==
    \A k \in DOMAIN peerPSKs' \ DOMAIN peerPSKs :
        LET own == sessionsOf(peerOwners'[k])
            gone == DOMAIN peerPSKs \ DOMAIN peerPSKs'
        IN /\ Cardinality(own) + 1 - Cardinality(gone) <= MaxSessions
           /\ Cardinality(DOMAIN peerPSKs') <= MaxPeers
           /\ \A g \in gone : /\ g \in own /\ Cardinality(own) = MaxSessions
                              /\ \A o \in own \ {g} : peerInstalled[g] < peerInstalled[o]

\* No session is taken over or pushed out by another identity
\* (completeBootstrapLocked, quantumcat.go, 162-203).
NoTakeover == [][SessionKept /\ OwnDisplaced]_vars

\* Sessions that expired or were revoked are removed by the ticker: again and
\* again none is left, unless the server shuts down.
Stale == {k \in DOMAIN peerValid : ~valid(peerValid[k])}
InvalidRemoved == Stale # {} ~> (Stale = {} \/ life # "up")

\* Shutting down never waits for an admission hook: the worker returns, and
\* every session it still held has been answered.
ShutdownAnswers ==
    life = "closing" ~> (life \in {"stopped", "closed"} /\ liveJobs = {})
=============================================================================
