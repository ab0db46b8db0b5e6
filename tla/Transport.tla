----------------------------- MODULE Transport -----------------------------
(***************************************************************************)
(* internal/transport/transport.go puts the two halves of the server       *)
(* together: the handshake (module Handshake) hands a session to the       *)
(* admission of peers (module Admission), which answers it by calling      *)
(* Installed.  The worker runs Handle, the installation and the cleanup    *)
(* one at a time; disconnection, hooks, clients and reloads interleave.    *)
(***************************************************************************)
EXTENDS Handshake

CONSTANTS
    Disco,     \* the discovery keys: a client process derives its own from its node key
    Hook, Lifetime, MaxSessions, MaxPeers, MaxAdmissions

VARIABLES
    work, admissions, cancelled,
    peerPSKs, peerValid, peerOwners, peerInstalled, clients, nextClientID, instant,
    routes, life, issued, answered, aborted, stuck

A == INSTANCE Admission WITH MaxJobs <- 0

admissionVars == <<work, admissions, cancelled,
    peerPSKs, peerValid, peerOwners, peerInstalled, clients, nextClientID, instant,
    routes, life, issued, answered, aborted, stuck>>

handshakeVars == <<clientVars, relayVars, serverVars, historyVars>>

all == <<now, authorized, handshakeVars, admissionVars>>

TInit == Init /\ A!Init

-----------------------------------------------------------------------------
\* Bootstrap: Handle, and for a session the lease that goes with it.
ServeHello(m) ==
    A!Receives(m.src) /\ HandleHello(m) /\ UNCHANGED admissionVars

ServeFinish(m) ==
    /\ A!Receives(m.src)
    /\ \/ (FinishDropped(m) \/ FinishAcked(m)) /\ UNCHANGED admissionVars
       \/ /\ FinishSelected(m)
          /\ \E pinned \in BOOLEAN, d \in Disco :
               A!Bootstrap(m.src, Owner[m.src], d, pinned, m.hash)

\* The worker's steps that answer a session run its Installed callback, and
\* a success sends the acknowledgement.
Dispatch(j) ==
    \/ A!HookStarted(j) /\ UNCHANGED handshakeVars
    \/ /\ A!HookRefused(j) \/ A!Completed(j)
       /\ InstallResult(j.psk, answered'[j.psk])

BugHookReturned(s) ==
    /\ A!HookAllowed(s) \/ A!HookDenied(s)
    /\ acks' = acks \cup {[dst |-> s, hash |-> admissions[s].psk]}
    /\ UNCHANGED <<clientVars, hellos, replies, finishes, serverVars, historyVars>>

HookReturned(s) ==
    /\ A!HookAllowed(s) \/ A!HookDenied(s)
    /\ InstallResult(admissions[s].psk, answered'[admissions[s].psk])

Cleanup == A!Cleanup /\ Expire

Disconnect(k) == A!DisconnectClient(k) /\ UNCHANGED handshakeVars

\* The server process ends without ceremony and another one starts.
Crash ==
    /\ Restart
    /\ work' = {} /\ admissions' = Empty /\ cancelled' = {}
    /\ peerPSKs' = Empty /\ peerValid' = Empty /\ peerOwners' = Empty
    /\ peerInstalled' = Empty /\ clients' = Empty /\ nextClientID' = 2
    /\ routes' = {} /\ stuck' = {}
    /\ UNCHANGED <<instant, life, issued, answered, aborted>>

TNext ==
    \/ /\ UNCHANGED admissionVars
       /\ \/ \E s \in Source :
               \/ \E d \in -Skew..Skew : NewClient(s, now + d)
               \/ \E m \in replies : Complete(s, m)
               \/ \E m \in acks : Accepted(s, m)
               \/ GiveUp(s)
          \/ \E p \in Peer : Authorize(p)
          \/ Tick
    \/ \E m \in hellos : ServeHello(m)
    \/ \E m \in finishes : ServeFinish(m)
    \/ \E j \in work : Dispatch(j)
    \/ \E s \in DOMAIN admissions : HookReturned(s)
    \/ \E k \in Source : Disconnect(k)
    \/ Cleanup \/ Crash

TSpec == TInit /\ [][TNext]_all

-----------------------------------------------------------------------------
\* At most one session of a source is on its way to installation, even when
\* its transcript expired while a hook kept it waiting (the per-source drop in
\* the worker completes the rule that Handle applies to pending transcripts).
OneInstallation ==
    \A i, j \in A!liveJobs : i.src = j.src => i = j

\* The server is never behind: when the client has switched to a PSK, the
\* server's session for it, if it still has one, uses that PSK or a newer one.
ServerNotBehind ==
    \A s \in DOMAIN peerPSKs : peerPSKs[s] >= psk[s]

\* The two records of success agree: the protocol sends acknowledgements only
\* for sessions whose installation was answered with success.
AckMeansInstalled ==
    /\ \A m \in acks : m.hash \in DOMAIN answered /\ answered[m.hash]
    /\ \A h \in DOMAIN pending : pending[h].accepted => answered[h]

\* The state invariant of the composition: what the handshake and admission
\* each know of a session agrees.
InstallationsSound == OneInstallation /\ ServerNotBehind /\ AckMeansInstalled

\* The composition implements the handshake of module Handshake: hooks,
\* disconnections and crashes call Installed and restart the server only as
\* that module allows, so what is proved there holds of the whole server.
HandshakeHolds == Spec

\* The bootstrap implements the agreement on ever newer PSKs.
Agreement == INSTANCE PSKAgreement WITH
    server <- [s \in Source |-> IF s \in DOMAIN peerPSKs THEN peerPSKs[s] ELSE 0],
    client <- psk,
    past   <- [s \in Source |-> {h \in installed : origin[h].src = s}]

AgreementHolds == Agreement!Spec
-----------------------------------------------------------------------------
(***************************************************************************)
(* Why these properties hold (TransportProofs): the inductive invariant of *)
(* the composition, beside the one of module Handshake.                    *)
(***************************************************************************)

\* A session on its way to installation is the last that the protocol handed
\* out for its source, and has not been answered.
JobsHanded ==
    /\ \A j \in A!liveJobs :
         /\ j.psk \in sessions /\ j.psk \notin DOMAIN answered
         /\ origin[j.psk].src = j.src /\ j.psk = handed[j.src]
    /\ \A k \in DOMAIN admissions : admissions[k].src = k
    /\ \A j \in work : j.src \notin DOMAIN admissions /\ work = {j}

\* Only sessions that were handed out have been answered, and a session is
\* installed only if the answer was success.
AnswersSound ==
    /\ \A h \in DOMAIN answered : h \in DOMAIN origin /\ h <= handed[origin[h].src]
    /\ \A h \in installed : h \in DOMAIN answered /\ answered[h]

\* The server's session of a source uses the newest PSK installed for it.
ServerNewest ==
    \A s \in DOMAIN peerPSKs :
        /\ s \in Source /\ peerPSKs[s] \in Nat
        /\ \A h \in installed : origin[h].src = s => h <= peerPSKs[s]

\* A client's PSK is its own, and older than every transcript of the attempt
\* that it is making.
ClientsForward ==
    \A s \in Source :
        /\ psk[s] # 0 => origin[psk[s]].src = s
        /\ phase[s] # "idle" =>
             \A h \in DOMAIN origin :
                 origin[h].src = s /\ origin[h].nonce = nonce[s] => h > psk[s]

TInv == Inv /\ JobsHanded /\ AnswersSound /\ ServerNewest /\ ClientsForward
=============================================================================
