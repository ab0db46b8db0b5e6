-------------------------- MODULE ClientLifecycle --------------------------
(***************************************************************************)
(* The life of a tailcat.Client (tailcat.go, quantumcat.go): any number of *)
(* goroutines ping, dial, probe, refresh, renew, ask for the status and    *)
(* close it, serialised by two mutexes.  renewMu is taken before startMu;  *)
(* a renewal keeps only the former while it talks to the server, the first *)
(* start keeps the latter.                                                 *)
(*                                                                         *)
(* Backends (WireGuard engine, netstack, relay connections) are numbered   *)
(* as they are built.  A PSK is the number of the handshake that made it.  *)
(***************************************************************************)
EXTENDS Integers, FiniteSets

CONSTANTS
    Caller,         \* goroutines that use the client
    NoOne,          \* the holder of a free mutex
    Methods,        \* Methods[c]: what goroutine c may call
    MaxBackends, MaxPSK   \* bounds of the model

ASSUME NoOneAssumption == NoOne \notin Caller
ASSUME MethodAssumption ==
    Methods \in [Caller -> SUBSET {"ping", "dial", "probe", "status", "refresh", "renew", "close"}]
ASSUME BoundAssumption == {MaxBackends, MaxPSK} \subseteq Nat

VARIABLES
    Bootstrap,  \* whether Client.Bootstrap is set, for good (quantumcat always sets it)
    startMu, renewMu,   \* who holds each mutex
    closed, started, upDone,
    meowed,     \* meowWait is closed
    lb,         \* the current backend, 0 for nil
    built,      \* backends built so far
    open,       \* backends not closed yet
    psk,        \* psk[b]: the presharedKey of backend b, 0 for none
    made,       \* PSKs agreed with the server so far
    op,         \* the method each goroutine is in
    pc,         \* and where it is
    held        \* what a renewal keeps across its handshake: backend and new PSK

shared == <<Bootstrap, closed, started, upDone, meowed, lb, built, open, psk, made>>
vars == <<startMu, renewMu, shared, op, pc, held>>

Method == {"ping", "dial", "probe", "status", "refresh", "renew", "close"}
Place == {"ready", "renewMu", "startMu", "network", "bootstrap", "agreed",
          "meowing", "dialing", "probing", "renewing", "renewed"}
Backend == 1..MaxBackends

TypeOK ==
    /\ startMu \in Caller \cup {NoOne} /\ renewMu \in Caller \cup {NoOne}
    /\ Bootstrap \in BOOLEAN /\ closed \in BOOLEAN /\ started \in BOOLEAN
    /\ upDone \in BOOLEAN /\ meowed \in BOOLEAN
    /\ built \in 0..MaxBackends /\ lb \in 0..built /\ open \subseteq 1..built
    /\ psk \in [Backend -> 0..MaxPSK] /\ made \in 0..MaxPSK
    /\ op \in [Caller -> Method] /\ pc \in [Caller -> Place]
    /\ held \in [Caller -> [lb : 0..MaxBackends, psk : 0..MaxPSK]]
    /\ \A c \in Caller :
         /\ startMu = c => pc[c] \in {"network", "bootstrap", "agreed"}
         /\ renewMu = c => pc[c] \in {"startMu", "renewing", "renewed"}

Init ==
    /\ Bootstrap \in BOOLEAN
    /\ startMu = NoOne /\ renewMu = NoOne
    /\ closed = FALSE /\ started = FALSE /\ upDone = FALSE /\ meowed = FALSE
    /\ lb = 0 /\ built = 0 /\ open = {} /\ psk = [b \in Backend |-> 0] /\ made = 0
    /\ op = [c \in Caller |-> "ping"] /\ pc = [c \in Caller |-> "ready"]
    /\ held = [c \in Caller |-> [lb |-> 0, psk |-> 0]]

-----------------------------------------------------------------------------
Goto(c, place) == pc' = [pc EXCEPT ![c] = place]

\* The deferred unlocks, and the return to the caller.
Return(c) ==
    /\ Goto(c, "ready")
    /\ startMu' = IF startMu = c THEN NoOne ELSE startMu
    /\ renewMu' = IF renewMu = c THEN NoOne ELSE renewMu
    /\ held' = [held EXCEPT ![c] = [lb |-> 0, psk |-> 0]]
    /\ UNCHANGED op

\* locoBackend.Close: the second call of it does nothing (closeOnce).
CloseBackend(b) ==
    /\ open' = open \ {b}
    /\ psk' = IF b \in open THEN [psk EXCEPT ![b] = 0] ELSE psk

BugFirstMutex(o) == IF o \in {"refresh", "renew"} THEN "renewMu" ELSE "startMu"

\* The mutex a method takes first; a dial on a client that is up takes none.
FirstMutex(o) == IF o \in {"refresh", "renew", "close"} THEN "renewMu" ELSE "startMu"

Call(c, o) ==
    /\ pc[c] = "ready"
    /\ op' = [op EXCEPT ![c] = o]
    /\ Goto(c, IF o = "dial" /\ upDone THEN "dialing" ELSE FirstMutex(o))
    /\ UNCHANGED <<startMu, renewMu, shared, held>>

LockRenew(c) ==
    /\ pc[c] = "renewMu" /\ renewMu = NoOne
    /\ renewMu' = c /\ Goto(c, "startMu")
    /\ UNCHANGED <<startMu, shared, op, held>>

\* startMu is free and c takes it.
AtStart(c, o) == pc[c] = "startMu" /\ op[c] = o /\ startMu = NoOne

-----------------------------------------------------------------------------
(***************************************************************************)
(* ensureStarted, for Ping and for the dials: startMu is held from the     *)
(* first step to the return.                                               *)
(***************************************************************************)

Entering(c) == AtStart(c, "ping") \/ AtStart(c, "dial")

\* ensureStarted has succeeded: a dial goes on, and without Bootstrap the
\* caller still waits for the server to acknowledge it (ping).
EnsuredNext(c) ==
    IF ~Bootstrap THEN "meowing" ELSE IF op[c] = "dial" THEN "dialing" ELSE "ready"

AlreadyStarted(c) ==
    /\ Entering(c) /\ ~closed /\ started
    /\ Goto(c, EnsuredNext(c))
    /\ UNCHANGED <<startMu, renewMu, shared, op, held>>

\* The client is closed, or the engine cannot be built.
StartRefused(c) ==
    /\ Entering(c) /\ (closed \/ (~started /\ lb = 0))
    /\ Return(c) /\ UNCHANGED shared

\* initLocked: a backend left by a failed attempt is used again.
initLocked(c) ==
    /\ Entering(c) /\ ~closed /\ ~started
    /\ startMu' = c /\ Goto(c, "network")
    /\ IF lb # 0 THEN UNCHANGED <<lb, built, open, meowed>>
       ELSE /\ built < MaxBackends
            /\ built' = built + 1 /\ lb' = built + 1 /\ open' = open \cup {built + 1}
            /\ meowed' = FALSE
    /\ UNCHANGED <<Bootstrap, renewMu, closed, started, upDone, psk, made, op, held>>

\* Resolving the relay's region or starting the backend fails; it is kept.
StartFailed(c) ==
    /\ pc[c] = "network" /\ Return(c) /\ UNCHANGED shared

\* The backend runs: the first handshake follows, if there is one.
Started(c) ==
    /\ pc[c] = "network"
    /\ IF Bootstrap
       THEN Goto(c, "bootstrap") /\ UNCHANGED <<started, startMu>>
       ELSE Goto(c, "meowing") /\ started' = TRUE /\ startMu' = NoOne
    /\ UNCHANGED <<Bootstrap, renewMu, closed, upDone, meowed, lb, built, open, psk, made, op, held>>

\* The handshake fails or runs out of time: the backend is discarded.
BootstrapFailed(c) ==
    /\ pc[c] = "bootstrap" /\ Return(c)
    /\ CloseBackend(lb) /\ lb' = 0
    /\ UNCHANGED <<Bootstrap, closed, started, upDone, meowed, built, made>>

BootstrapAgreed(c) ==
    /\ pc[c] = "bootstrap" /\ made < MaxPSK
    /\ made' = made + 1 /\ psk' = [psk EXCEPT ![lb] = made + 1]
    /\ Goto(c, "agreed")
    /\ UNCHANGED <<Bootstrap, startMu, renewMu, closed, started, upDone, meowed, lb, built, open, op, held>>

\* The PSK is in place before upDone lets dials pass without the mutex.
BootstrapDone(c) ==
    /\ pc[c] = "agreed"
    /\ upDone' = TRUE /\ meowed' = TRUE /\ started' = TRUE
    /\ Goto(c, EnsuredNext(c)) /\ startMu' = NoOne
    /\ UNCHANGED <<Bootstrap, renewMu, closed, lb, built, open, psk, made, op, held>>

\* ping, without Bootstrap: meowWait is closed by the server's first answer.
Meowed ==
    /\ ~Bootstrap /\ lb \in open /\ ~meowed
    /\ \E c \in Caller : pc[c] = "meowing"
    /\ meowed' = TRUE
    /\ UNCHANGED <<Bootstrap, startMu, renewMu, closed, started, upDone, lb, built, open, psk, made,
                   op, pc, held>>

PingAnswered(c) ==
    /\ pc[c] = "meowing" /\ meowed
    /\ upDone' = TRUE /\ Goto(c, IF op[c] = "dial" THEN "dialing" ELSE "ready")
    /\ UNCHANGED <<Bootstrap, startMu, renewMu, closed, started, meowed, lb, built, open, psk, made, op, held>>

BugPingTimeout(c) == pc[c] = "meowing" /\ UNCHANGED vars

PingTimeout(c) == pc[c] = "meowing" /\ Return(c) /\ UNCHANGED shared

\* The dial uses c.lb with no mutex held.
Dialed(c) == pc[c] = "dialing" /\ Return(c) /\ UNCHANGED shared

-----------------------------------------------------------------------------
(***************************************************************************)
(* The methods of a running client.                                        *)
(***************************************************************************)

Status(c) == AtStart(c, "status") /\ Return(c) /\ UNCHANGED shared

\* A TSMP ping is sent under startMu; the answer is awaited without it.
ProbeSent(c) ==
    /\ AtStart(c, "probe") /\ ~closed /\ lb # 0
    /\ Goto(c, "probing")
    /\ UNCHANGED <<startMu, renewMu, shared, op, held>>

ProbeRefused(c) ==
    /\ AtStart(c, "probe") /\ (closed \/ lb = 0)
    /\ Return(c) /\ UNCHANGED shared

ProbeAgain(c) ==
    /\ pc[c] = "probing" /\ Goto(c, "startMu")
    /\ UNCHANGED <<startMu, renewMu, shared, op, held>>

ProbeEnds(c) == pc[c] = "probing" /\ Return(c) /\ UNCHANGED shared

\* Rebind and ReSTUN, or the refusal: neither changes what is modelled.
RefreshNetwork(c) == AtStart(c, "refresh") /\ Return(c) /\ UNCHANGED shared

RenewRefused(c) ==
    /\ AtStart(c, "renew") /\ (closed \/ ~started \/ lb = 0 \/ ~Bootstrap)
    /\ Return(c) /\ UNCHANGED shared

BugRenewBegins(c) ==
    /\ AtStart(c, "renew") /\ ~closed /\ started /\ lb # 0 /\ Bootstrap
    /\ held' = [held EXCEPT ![c].lb = lb] /\ Goto(c, "renewing")
    /\ renewMu' = NoOne
    /\ UNCHANGED <<startMu, shared, op>>

BugRenewHolds(c) ==
    /\ AtStart(c, "renew") /\ ~closed /\ started /\ lb # 0 /\ Bootstrap
    /\ held' = [held EXCEPT ![c].lb = lb] /\ Goto(c, "renewing")
    /\ startMu' = c
    /\ UNCHANGED <<renewMu, shared, op>>

\* The handshake runs with renewMu only.
RenewBegins(c) ==
    /\ AtStart(c, "renew") /\ ~closed /\ started /\ lb # 0 /\ Bootstrap
    /\ held' = [held EXCEPT ![c].lb = lb] /\ Goto(c, "renewing")
    /\ UNCHANGED <<startMu, renewMu, shared, op>>

RenewFailed(c) == pc[c] = "renewing" /\ Return(c) /\ UNCHANGED shared

RenewAgreed(c) ==
    /\ pc[c] = "renewing" /\ made < MaxPSK
    /\ made' = made + 1 /\ held' = [held EXCEPT ![c].psk = made + 1]
    /\ Goto(c, "renewed")
    /\ UNCHANGED <<Bootstrap, startMu, renewMu, closed, started, upDone, meowed, lb, built, open, psk, op>>

RenewInstalls(c) ==
    /\ pc[c] = "renewed"
    /\ psk' = [psk EXCEPT ![held[c].lb] = held[c].psk]
    /\ Return(c)
    /\ UNCHANGED <<Bootstrap, closed, started, upDone, meowed, lb, built, open, made>>

Close(c) ==
    /\ AtStart(c, "close")
    /\ closed' = TRUE
    /\ IF lb # 0 THEN CloseBackend(lb) ELSE UNCHANGED <<open, psk>>
    /\ Return(c)
    /\ UNCHANGED <<Bootstrap, started, upDone, meowed, lb, built, made>>

-----------------------------------------------------------------------------
Locks(c) ==
    \/ LockRenew(c)
    \/ AlreadyStarted(c) \/ StartRefused(c) \/ initLocked(c)
    \/ Status(c) \/ ProbeSent(c) \/ ProbeRefused(c) \/ RefreshNetwork(c)
    \/ RenewRefused(c) \/ RenewBegins(c) \/ Close(c)

StartSteps(c) ==
    \/ StartFailed(c) \/ Started(c) \/ BootstrapFailed(c) \/ BootstrapAgreed(c)
    \/ BootstrapDone(c) \/ PingAnswered(c) \/ PingTimeout(c) \/ Dialed(c)

RenewSteps(c) == RenewFailed(c) \/ RenewAgreed(c) \/ RenewInstalls(c)

Next ==
    \/ \E c \in Caller :
         \/ \E o \in Methods[c] : Call(c, o)
         \/ Locks(c) \/ StartSteps(c) \/ RenewSteps(c) \/ ProbeAgain(c) \/ ProbeEnds(c)
    \/ Meowed

Spec == Init /\ [][Next]_vars

\* A Go mutex does not starve a waiter; the first start and a probe end with
\* the contexts of their callers.  The handshake of a renewal may never end.
FairSpec ==
    /\ Spec
    /\ \A c \in Caller :
         SF_vars(Locks(c)) /\ WF_vars(StartSteps(c)) /\ SF_vars(ProbeEnds(c))

\* A renewal's handshake ends within its 25 seconds (transport.go, line 69).
RenewalsEnd == \A c \in Caller : WF_vars(RenewSteps(c))

-----------------------------------------------------------------------------
\* "Close also holds renewMu, so this backend remains live through renewal"
\* (quantumcat.go, line 100): a PSK is never installed in, and the engine of
\* a renewal never taken from, a backend that has been closed or replaced.
RenewalOnLive ==
    \A c \in Caller : pc[c] \in {"renewing", "renewed"} => held[c].lb = lb /\ lb \in open

\* At most one backend is open, and it is the current one: neither a failed
\* start, nor a retry, nor a Close that races either leaves an engine running.
OneBackend == open \subseteq {lb} /\ (closed => open = {})

\* A dial that passed up() without a mutex finds a backend, and one whose
\* handshake has given it a PSK unless Close has cleared it since.
DialHasBackend ==
    \A c \in Caller :
        pc[c] = "dialing" => lb # 0 /\ (Bootstrap => lb \notin open \/ psk[lb] # 0)

\* The state invariant of the client: whoever uses a backend has the live one.
ClientInv == TypeOK /\ RenewalOnLive /\ OneBackend /\ DialHasBackend

\* What makes ClientInv inductive.  Who is where holds which mutex: startMu
\* through the first start, renewMu in the methods that take it first.
MutexesHeld ==
    \A c \in Caller :
        /\ pc[c] \in {"network", "bootstrap", "agreed"} => startMu = c
        /\ pc[c] = "renewMu" \/ renewMu = c => op[c] \in {"refresh", "renew", "close"}
        /\ pc[c] = "startMu" /\ op[c] \in {"refresh", "renew", "close"} => renewMu = c
        /\ pc[c] \in {"renewing", "renewed"} => renewMu = c
        /\ pc[c] = "probing" => op[c] = "probe"

\* A client that is being started is neither started nor closed, and has an
\* open backend; a backend that is kept is open until Close, and a started
\* client has one.
BackendFollows ==
    /\ startMu # NoOne => ~closed /\ ~started /\ lb \in open
    /\ upDone => started
    /\ started => lb # 0
    /\ lb # 0 /\ ~closed => lb \in open
    /\ started /\ Bootstrap /\ lb \in open => psk[lb] # 0
    /\ \A c \in Caller :
         /\ pc[c] \in {"bootstrap", "agreed"} => Bootstrap
         /\ pc[c] = "agreed" => psk[lb] # 0
         /\ pc[c] \in {"meowing", "dialing", "renewing", "renewed"} => started

\* No PSK is in use that was not agreed, and the one that a renewal is about
\* to install is newer than the one in use.
PSKsOrdered ==
    /\ \A b \in Backend : psk[b] <= made
    /\ \A c \in Caller : pc[c] = "renewed" => held[c].psk <= made /\ psk[lb] < held[c].psk

Inv == ClientInv /\ MutexesHeld /\ BackendFollows /\ PSKsOrdered

\* No open backend's PSK is replaced by an older one.
NotOlder == \A b \in open \cap open' : psk'[b] >= psk[b]

\* A backend never goes back to an older PSK: renewals that overlap install
\* theirs in the order in which the server agreed to them.
NewestPSK == [][NotOlder]_vars

\* If renewals end then every call returns: no order of calls leaves two
\* goroutines waiting for each other's mutex, and Close waits only for what
\* has a deadline.
Returns == RenewalsEnd => \A c \in Caller : pc[c] # "ready" ~> pc[c] = "ready"

\* A status query is answered even while a renewal hangs and others, Close
\* included, wait behind it (renewMu "serializes renewal and Close without
\* blocking status", tailcat.go, line 2256).
StatusAnswered ==
    \A c \in Caller : (pc[c] # "ready" /\ op[c] = "status") ~> pc[c] = "ready"
=============================================================================
