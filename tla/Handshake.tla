----------------------------- MODULE Handshake -----------------------------
(***************************************************************************)
(* The authenticated bootstrap of internal/protocol/handshake.go and the   *)
(* client's retry loop of internal/transport/transport.go, over a DERP     *)
(* relay that loses, delays, duplicates and reorders packets.              *)
(*                                                                         *)
(* A source is a client process (its WireGuard node key); it acts for the  *)
(* identity Owner[source].  A hello is named by its source and its nonce.  *)
(* A transcript hash is the index in `origin' of the encapsulation that    *)
(* produced it; the PSK and the confirmation key derived from it are named *)
(* by the same number.  Signatures, tags and MACs are abstracted to what   *)
(* they authenticate: every packet in the relay was sent by the party it   *)
(* names.                                                                  *)
(*                                                                         *)
(* Definitions whose name begins with Bug are plausible errors, each kept  *)
(* before the definition it would replace; no other definition uses them.  *)
(***************************************************************************)
EXTENDS RateLimit, Sequences

CONSTANTS
    Source,       \* client processes
    Peer,         \* identities
    Owner,        \* the identity each client process signs with
    Window,       \* accepted difference between a hello's stamp and now (120 s)
    Skew,         \* largest error of a client's clock in the model
    Retention,    \* how long a nonce stays in the replay table (5 min)
    PendingTTL,   \* how long a pending transcript lives (30 s)
    Budget,       \* how long a client tries one handshake (25 s)
    SourceRate, PeerRate, GlobalRate,   \* tokens per second (4, 4, 64)
    MaxBuckets,   \* entries of a rate table (4096)
    MaxReplay,    \* entries of the replay table (64*301)
    MaxPending,   \* pending transcripts (256)
    MaxOwned,     \* pending transcripts of one identity (8)
    MaxTime, MaxAttempts, MaxRestarts   \* bounds of the model

ASSUME OwnerAssumption == Owner \in [Source -> Peer]

\* The replay table outlives every hello it guards, and a pending
\* transcript outlives the handshake that waits for it.
ASSUME TimingAssumption ==
    /\ {Window, Skew, Retention, PendingTTL, Budget} \subseteq Nat
    /\ 2 * Window < Retention
    /\ Budget < PendingTTL

ASSUME LimitAssumption ==
    {SourceRate, PeerRate, GlobalRate, MaxBuckets, MaxReplay, MaxPending,
     MaxOwned, MaxTime, MaxAttempts, MaxRestarts} \subseteq Nat

\* The replay table has room for the nonces of a full global bucket and of
\* what refills it while a nonce stays: 64 * (1 + 300) of them.
ASSUME CapacityAssumption ==
    GlobalRate * (Second + Retention - 1) <= Second * MaxReplay

VARIABLES
    now,          \* the server's clock
    authorized,   \* the identities Server.Authorized enumerates
    \* the client processes
    phase,        \* "idle", "hello" (awaits ServerHello) or "finish" (awaits ServerAccepted)
    nonce,        \* the nonce of the current or last attempt; 0 before the first
    deadline,     \* when the attempt's context expires
    hash,         \* the transcript the client confirmed in this attempt
    psk,          \* the transcript whose PSK the client uses; 0 before the first
    \* the relay: every packet sent so far, each deliverable at any time, any
    \* number of times or never
    hellos, replies, finishes, acks,
    \* the server
    pending, replay, limits, peerLimits, global,
    sessions,     \* transcripts handed to the transport, Installed not yet called
    \* history
    epoch,        \* server processes started before this one
    origin,       \* origin[h]: the hello, time and server process of transcript h
    handed,       \* handed[s]: the last transcript handed to the transport for s
    installed,    \* transcripts whose installation succeeded
    expired       \* transcripts deleted because their time was up

clientVars  == <<phase, nonce, deadline, hash, psk>>
relayVars   == <<hellos, replies, finishes, acks>>
limitVars   == <<limits, peerLimits, global>>
serverVars  == <<pending, replay, limits, peerLimits, global, sessions>>
historyVars == <<epoch, origin, handed, installed, expired>>
vars == <<now, authorized, clientVars, relayVars, serverVars, historyVars>>

Hash  == Nat
Hello == [src : Source, nonce : Nat, stamp : Int]
Reply == [dst : Source, nonce : Nat, hash : Hash]
Finish == [src : Source, hash : Hash]
Ack   == [dst : Source, hash : Hash]
Pending == [src : Source, nonce : Nat, expires : Nat,
            installing : BOOLEAN, accepted : BOOLEAN]
Origin == [src : Source, nonce : Nat, at : Nat, stamp : Int, epoch : Nat]

TypeOK ==
    /\ now \in Nat /\ authorized \subseteq Peer
    /\ phase \in [Source -> {"idle", "hello", "finish"}]
    /\ nonce \in [Source -> Nat] /\ deadline \in [Source -> Nat]
    /\ hash \in [Source -> Hash] /\ psk \in [Source -> Hash]
    /\ hellos \subseteq Hello /\ replies \subseteq Reply
    /\ finishes \subseteq Finish /\ acks \subseteq Ack
    /\ DOMAIN pending \subseteq DOMAIN origin
    /\ pending \in [DOMAIN pending -> Pending]
    /\ DOMAIN replay \subseteq Source \X Nat
    /\ replay \in [DOMAIN replay -> Nat]
    /\ DOMAIN limits \subseteq Source /\ limits \in [DOMAIN limits -> Bucket]
    /\ DOMAIN peerLimits \subseteq Peer /\ peerLimits \in [DOMAIN peerLimits -> Bucket]
    /\ global \in Bucket
    /\ sessions \subseteq DOMAIN origin
    /\ epoch \in Nat /\ origin \in Seq(Origin)
    /\ handed \in [Source -> Hash]
    /\ installed \subseteq DOMAIN origin /\ expired \subseteq DOMAIN origin

Init ==
    /\ now = 0 /\ authorized = Peer
    /\ phase = [s \in Source |-> "idle"]
    /\ nonce = [s \in Source |-> 0] /\ deadline = [s \in Source |-> 0]
    /\ hash = [s \in Source |-> 0] /\ psk = [s \in Source |-> 0]
    /\ hellos = {} /\ replies = {} /\ finishes = {} /\ acks = {}
    /\ pending = Empty /\ replay = Empty
    /\ limits = Empty /\ peerLimits = Empty /\ global = fresh(0, GlobalRate)
    /\ sessions = {}
    /\ epoch = 0 /\ origin = <<>>
    /\ handed = [s \in Source |-> 0]
    /\ installed = {} /\ expired = {}

-----------------------------------------------------------------------------
(***************************************************************************)
(* The client: one call of Bootstrap at a time per process.  The packet is *)
(* resent every second; the relay keeps it, so a resend changes nothing.   *)
(***************************************************************************)

\* NewClient and the first send: a fresh nonce, stamped by the client's clock.
NewClient(s, stamp) ==
    /\ phase[s] = "idle" /\ nonce[s] < MaxAttempts
    /\ phase' = [phase EXCEPT ![s] = "hello"]
    /\ nonce' = [nonce EXCEPT ![s] = @ + 1]
    /\ deadline' = [deadline EXCEPT ![s] = now + Budget]
    /\ hellos' = hellos \cup {[src |-> s, nonce |-> nonce[s] + 1, stamp |-> stamp]}
    /\ UNCHANGED <<now, authorized, hash, psk, replies, finishes, acks,
                   serverVars, historyVars>>

\* A ServerHello signed over the transcript of this attempt's hello; any
\* other one is refused by Complete and skipped.
Complete(s, m) ==
    /\ phase[s] = "hello" /\ m.dst = s /\ m.nonce = nonce[s]
    /\ phase' = [phase EXCEPT ![s] = "finish"]
    /\ hash' = [hash EXCEPT ![s] = m.hash]
    /\ finishes' = finishes \cup {[src |-> s, hash |-> m.hash]}
    /\ UNCHANGED <<now, authorized, nonce, deadline, psk, hellos, replies, acks,
                   serverVars, historyVars>>

\* The acknowledgement of the confirmed transcript ends the attempt, and
\* the caller (ensureStarted or Renew) switches to its PSK.
Accepted(s, m) ==
    /\ phase[s] = "finish" /\ m.dst = s /\ m.hash = hash[s]
    /\ phase' = [phase EXCEPT ![s] = "idle"]
    /\ psk' = [psk EXCEPT ![s] = m.hash]
    /\ UNCHANGED <<now, authorized, nonce, deadline, hash, relayVars,
                   serverVars, historyVars>>

\* The attempt's context expired or was cancelled, or a send failed.
GiveUp(s) ==
    /\ phase[s] # "idle"
    /\ phase' = [phase EXCEPT ![s] = "idle"]
    /\ UNCHANGED <<now, authorized, nonce, deadline, hash, psk, relayVars,
                   serverVars, historyVars>>

-----------------------------------------------------------------------------
(***************************************************************************)
(* The server.  Handle holds the mutex throughout, so each outcome of a    *)
(* call is one step; every call first deletes what has expired, as Expire  *)
(* does on the transport's ticker.                                         *)
(***************************************************************************)

BugLivePending == Restrict(pending, {h \in DOMAIN pending : now + 1 < pending[h].expires})
livePending == Restrict(pending, {h \in DOMAIN pending : now < pending[h].expires})
BugLiveReplay == Restrict(replay, {k \in DOMAIN replay : now + 2 < replay[k]})
liveReplay  == Restrict(replay, {k \in DOMAIN replay : now < replay[k]})
liveLimits  == recent(limits, now)
livePeerLimits == recent(peerLimits, now)
nowExpired  == expired \cup (DOMAIN pending \ DOMAIN livePending)

Expire ==
    /\ pending' = livePending /\ replay' = liveReplay
    /\ limits' = liveLimits /\ peerLimits' = livePeerLimits
    /\ expired' = nowExpired
    /\ UNCHANGED <<now, authorized, clientVars, relayVars, global, sessions,
                   epoch, origin, handed, installed>>

\* Server.Close and the start of a new process: nothing is persisted.
Restart ==
    /\ epoch < MaxRestarts
    /\ epoch' = epoch + 1
    /\ pending' = Empty /\ replay' = Empty
    /\ limits' = Empty /\ peerLimits' = Empty /\ global' = fresh(now, GlobalRate)
    /\ sessions' = {}
    /\ UNCHANGED <<now, authorized, clientVars, relayVars,
                   origin, handed, installed, expired>>

\* What a ClientHello must pass, in the order Handle checks it.  The replay
\* table is keyed by the identity and the nonce, drawn at random; here the
\* source, which acts for one identity, makes the nonce unique.
BugInWindow(m) == m.stamp <= now + Window
InWindow(m)  == m.stamp >= now - Window /\ m.stamp <= now + Window
SourceOK(m)  == permits(liveLimits, m.src, now, SourceRate)
resolve(m)   == Owner[m.src] \in authorized
GlobalOK     == allows(global, now, GlobalRate)
Replayed(m)  == <<m.src, m.nonce>> \in DOMAIN liveReplay
AtCapacity   == \/ Cardinality(DOMAIN liveReplay) >= MaxReplay
                \/ Cardinality(DOMAIN livePending) >= MaxPending
PeerOK(m)    == permits(livePeerLimits, Owner[m.src], now, PeerRate)
Owned(m)     == {h \in DOMAIN livePending : Owner[livePending[h].src] = Owner[m.src]}

\* The charges made on the way.
ChargeSource(m) == limits' \in charged(liveLimits, m.src, now, SourceRate, MaxBuckets)
BugChargeGlobal == global' = refill(global, now, GlobalRate)
ChargeGlobal    == global' = allow(global, now, GlobalRate)
ChargePeer(m)   == peerLimits' \in charged(livePeerLimits, Owner[m.src], now, PeerRate, MaxBuckets)

\* A dropped packet leaves only the deletions behind.
Dropped ==
    /\ pending' = livePending /\ replay' = liveReplay /\ expired' = nowExpired
    /\ UNCHANGED <<now, authorized, clientVars, relayVars, sessions,
                   epoch, origin, handed, installed>>

HelloStale(m) ==
    /\ ~InWindow(m)
    /\ Dropped /\ limits' = liveLimits /\ peerLimits' = livePeerLimits
    /\ UNCHANGED global

\* The source's bucket is charged before the identity is known.
HelloRefused(m) ==
    /\ InWindow(m) /\ ~(SourceOK(m) /\ resolve(m))
    /\ Dropped /\ ChargeSource(m) /\ peerLimits' = livePeerLimits
    /\ UNCHANGED global

PassedGlobal(m) == InWindow(m) /\ SourceOK(m) /\ resolve(m) /\ GlobalOK

HelloOverloaded(m) ==
    /\ InWindow(m) /\ SourceOK(m) /\ resolve(m)
    /\ ~GlobalOK \/ (~Replayed(m) /\ AtCapacity)
    /\ Dropped /\ ChargeSource(m) /\ ChargeGlobal /\ peerLimits' = livePeerLimits

\* A known nonce: the cached response is resent while its transcript is
\* still pending, and the packet is dropped otherwise.
HelloReplayed(m) ==
    /\ PassedGlobal(m) /\ Replayed(m)
    /\ replies' = replies \cup
         { [dst |-> m.src, nonce |-> m.nonce, hash |-> h] :
             h \in {g \in DOMAIN livePending :
                      livePending[g].src = m.src /\ livePending[g].nonce = m.nonce} }
    /\ pending' = livePending /\ replay' = liveReplay /\ expired' = nowExpired
    /\ ChargeSource(m) /\ ChargeGlobal /\ peerLimits' = livePeerLimits
    /\ UNCHANGED <<now, authorized, clientVars, hellos, finishes, acks, sessions,
                   epoch, origin, handed, installed>>

Verified(m) == PassedGlobal(m) /\ ~Replayed(m) /\ ~AtCapacity

\* Refused after authentication: by the identity's rate or its quota, or
\* because encapsulation or the server's signature failed.
HelloFailed(m) ==
    /\ Verified(m)
    /\ Dropped /\ ChargeSource(m) /\ ChargeGlobal /\ ChargePeer(m)

HelloEncapsulated(m) ==
    LET h == Len(origin) + 1 IN
    /\ Verified(m) /\ PeerOK(m) /\ Cardinality(Owned(m)) < MaxOwned
    /\ origin' = Append(origin, [src |-> m.src, nonce |-> m.nonce, at |-> now,
                                 stamp |-> m.stamp, epoch |-> epoch])
    /\ replies' = replies \cup {[dst |-> m.src, nonce |-> m.nonce, hash |-> h]}
    /\ pending' = Put(livePending, h,
                      [src |-> m.src, nonce |-> m.nonce, expires |-> now + PendingTTL,
                       installing |-> FALSE, accepted |-> FALSE])
    /\ replay' = Put(liveReplay, <<m.src, m.nonce>>, now + Retention)
    /\ expired' = nowExpired
    /\ ChargeSource(m) /\ ChargeGlobal /\ ChargePeer(m)
    /\ UNCHANGED <<now, authorized, clientVars, hellos, finishes, acks, sessions,
                   epoch, handed, installed>>

HandleHello(m) ==
    \/ HelloStale(m) \/ HelloRefused(m) \/ HelloOverloaded(m)
    \/ HelloReplayed(m) \/ HelloFailed(m) \/ HelloEncapsulated(m)

\* A ClientFinish for a pending transcript of its sender, still authorized.
Matches(m) ==
    /\ m.hash \in DOMAIN livePending
    /\ livePending[m.hash].src = m.src
    /\ Owner[m.src] \in authorized

\* The other pending transcripts of the same source.
Rivals(h) == {g \in DOMAIN livePending \ {h} : livePending[g].src = livePending[h].src}

BugBusy(h) == livePending[h].installing

\* An installation for this source has been handed out and not answered.
Busy(h) ==
    \/ livePending[h].installing
    \/ \E g \in Rivals(h) : livePending[g].installing /\ ~livePending[g].accepted

SweepLimits ==
    limits' = liveLimits /\ peerLimits' = livePeerLimits /\ UNCHANGED global

FinishDropped(m) ==
    /\ Matches(m) => ~livePending[m.hash].accepted /\ Busy(m.hash)
    /\ Dropped /\ SweepLimits

\* A retry after the installation: the cached acknowledgement only.
FinishAcked(m) ==
    /\ Matches(m) /\ livePending[m.hash].accepted
    /\ acks' = acks \cup {[dst |-> m.src, hash |-> m.hash]}
    /\ pending' = livePending /\ replay' = liveReplay /\ expired' = nowExpired
    /\ SweepLimits
    /\ UNCHANGED <<now, authorized, clientVars, hellos, replies, finishes, sessions,
                   epoch, origin, handed, installed>>

BugFinishSelected(m) ==
    /\ Matches(m) /\ ~livePending[m.hash].accepted /\ ~Busy(m.hash)
    /\ pending' = [livePending EXCEPT ![m.hash].installing = TRUE]
    /\ sessions' = sessions \cup {m.hash}
    /\ handed' = [handed EXCEPT ![m.src] = m.hash]
    /\ replay' = liveReplay /\ expired' = nowExpired
    /\ SweepLimits
    /\ UNCHANGED <<now, authorized, clientVars, relayVars, epoch, origin, installed>>

\* The transcript is chosen: its rivals are discarded and its PSK is handed
\* to the transport.  The acknowledgement goes with it, to be sent once the
\* installation has succeeded.
FinishSelected(m) ==
    /\ Matches(m) /\ ~livePending[m.hash].accepted /\ ~Busy(m.hash)
    /\ pending' = [Without(livePending, Rivals(m.hash)) EXCEPT ![m.hash].installing = TRUE]
    /\ sessions' = sessions \cup {m.hash}
    /\ handed' = [handed EXCEPT ![m.src] = m.hash]
    /\ replay' = liveReplay /\ expired' = nowExpired
    /\ SweepLimits
    /\ UNCHANGED <<now, authorized, clientVars, relayVars, epoch, origin, installed>>

HandleFinish(m) == FinishDropped(m) \/ FinishAcked(m) \/ FinishSelected(m)

\* Session.Installed, called once by the transport.  Nothing is left to
\* update when the transcript expired while the installation was under way.
Installed(h, ok) ==
    /\ sessions' = sessions \ {h}
    /\ installed' = IF ok THEN installed \cup {h} ELSE installed
    /\ pending' = IF h \notin DOMAIN pending THEN pending
                  ELSE IF ok THEN [pending EXCEPT ![h].accepted = TRUE]
                  ELSE Without(pending, {h})

BugInstallResult(h, ok) ==
    /\ Installed(h, ok)
    /\ acks' = acks \cup {[dst |-> origin[h].src, hash |-> h]}
    /\ UNCHANGED <<now, authorized, clientVars, hellos, replies, finishes,
                   replay, limitVars, epoch, origin, handed, expired>>

\* The transport answers, and on success sends the acknowledgement.
InstallResult(h, ok) ==
    /\ Installed(h, ok)
    /\ acks' = IF ok THEN acks \cup {[dst |-> origin[h].src, hash |-> h]} ELSE acks
    /\ UNCHANGED <<now, authorized, clientVars, hellos, replies, finishes,
                   replay, limitVars, epoch, origin, handed, expired>>

-----------------------------------------------------------------------------
\* Pairing a peer again, or revoking it, as the configuration is reloaded.
Authorize(p) ==
    /\ authorized' = IF p \in authorized THEN authorized \ {p} ELSE authorized \cup {p}
    /\ UNCHANGED <<now, clientVars, relayVars, serverVars, historyVars>>

\* Time passes; a client whose context has expired returns before more does.
Tick ==
    /\ now < MaxTime
    /\ \A s \in Source : phase[s] # "idle" => now < deadline[s]
    /\ now' = now + 1
    /\ UNCHANGED <<authorized, clientVars, relayVars, serverVars, historyVars>>

Next ==
    \/ \E s \in Source :
         \/ \E d \in -Skew..Skew : NewClient(s, now + d)
         \/ \E m \in replies : Complete(s, m)
         \/ \E m \in acks : Accepted(s, m)
         \/ GiveUp(s)
    \/ \E m \in hellos : HandleHello(m)
    \/ \E m \in finishes : HandleFinish(m)
    \/ \E h \in sessions, ok \in BOOLEAN : InstallResult(h, ok)
    \/ \E p \in Peer : Authorize(p)
    \/ Expire \/ Restart \/ Tick

Spec == Init /\ [][Next]_vars

-----------------------------------------------------------------------------
(***************************************************************************)
(* What the handshake promises.                                            *)
(***************************************************************************)

\* A hello is encapsulated at most once by a server process, however often
\* and however late the relay delivers it: by the time the replay table
\* forgets a nonce (Retention), its stamp has left the accepted window.
EncapsulatedOnce ==
    \A g, h \in DOMAIN origin :
        /\ origin[g].src = origin[h].src /\ origin[g].nonce = origin[h].nonce
        /\ origin[g].epoch = origin[h].epoch
        => g = h

\* A session handed to the transport is newer than every session handed out
\* before for the same source: a delayed, duplicated or retried ClientFinish
\* never reinstalls an older PSK, nor the same one again (Handle, lines 266-280).
NoRollback ==
    [][\A h \in sessions' \ sessions : h > handed[origin[h].src]]_vars

\* A ServerAccepted exists only for a transcript whose PSK the transport has
\* installed, so a client only ever switches to a PSK that the server has had.
AckAfterInstall ==
    /\ \A m \in acks : m.hash \in installed /\ origin[m.hash].src = m.dst
    /\ \A s \in Source : psk[s] # 0 => psk[s] \in installed

\* A client that waits for its acknowledgement never loses the transcript to
\* the pending timeout: the client's budget (25 s) ends first (30 s).
FinishNotExpired ==
    \A s \in Source : phase[s] = "finish" => hash[s] \notin expired

\* Of the transcripts of one source at most one is being installed or has
\* been, and what else is pending is newer: only the surviving transcript can
\* resend its cached acknowledgement.
OneSurvivor ==
    \A g, h \in DOMAIN pending :
        pending[h].installing /\ pending[g].src = pending[h].src =>
            g = h \/ (g > h /\ ~pending[g].installing)

\* At most one session of a source is outstanding at the transport, unless
\* its transcript expired there (Handle, lines 266-273).
OneOutstanding ==
    \A g, h \in sessions \ expired : origin[g].src = origin[h].src => g = h

\* A hello that the shared budget pays for is not refused because the replay
\* table is full: "Replay retention covers the full global token budget over
\* five minutes, including its initial burst" (Handle, lines 352-353).
ReplayHasRoom == GlobalOK => Cardinality(DOMAIN liveReplay) < MaxReplay

\* "No work or state is allocated for unknown identities" (the comment on
\* Handle, lines 225-226): a source enters the rate table only when its
\* identity is authorized.  The code does not keep this: the source's bucket
\* is charged (line 325) before the identity is resolved (line 334).
UnknownAllocatesNothing ==
    [][\A s \in DOMAIN limits' \ DOMAIN limits : Owner[s] \in authorized]_vars

-----------------------------------------------------------------------------
(***************************************************************************)
(* The inductive invariant behind these properties.                        *)
(***************************************************************************)

\* A nonce is used for one hello, and is not larger than its client's last.
HellosFresh ==
    /\ \A m \in hellos : m.nonce <= nonce[m.src]
    /\ \A m, n \in hellos : m.src = n.src /\ m.nonce = n.nonce => m = n

\* A transcript was made from a hello that was in the window, by this server
\* process or an earlier one, and not before its client's attempt began.
OriginsSound ==
    \A h \in DOMAIN origin :
        /\ origin[h].at <= now /\ origin[h].epoch <= epoch
        /\ origin[h].stamp <= origin[h].at + Window
        /\ [src |-> origin[h].src, nonce |-> origin[h].nonce, stamp |-> origin[h].stamp] \in hellos
        /\ origin[h].nonce = nonce[origin[h].src] => deadline[origin[h].src] <= origin[h].at + Budget

\* The replay table remembers every hello that could still be accepted.
ReplayCovers ==
    \A h \in DOMAIN origin :
        origin[h].epoch = epoch /\ now < origin[h].at + Retention =>
            /\ <<origin[h].src, origin[h].nonce>> \in DOMAIN replay
            /\ replay[<<origin[h].src, origin[h].nonce>>] >= origin[h].at + Retention

\* Pending transcripts carry what they were made with; the last one handed
\* out for a source is the oldest that is still pending.
PendingSound ==
    \A h \in DOMAIN pending :
        LET p == pending[h] IN
        /\ p.src = origin[h].src /\ p.nonce = origin[h].nonce
        /\ p.expires = origin[h].at + PendingTTL
        /\ h >= handed[p.src] /\ (p.installing <=> h = handed[p.src])
        /\ p.accepted => p.installing /\ h \in installed

\* An outstanding session is pending and unanswered, or has expired.
SessionsSound ==
    \A h \in sessions :
        h \in expired \/ (h \in DOMAIN pending /\ pending[h].installing /\ ~pending[h].accepted)

HandedSound == \A s \in Source : handed[s] <= Len(origin)

ExpiredSound == \A h \in expired : h \notin DOMAIN pending /\ origin[h].at + PendingTTL <= now

RepliesSound ==
    \A m \in replies :
        /\ m.hash \in DOMAIN origin
        /\ origin[m.hash].src = m.dst /\ origin[m.hash].nonce = m.nonce

\* A client acts within its budget, on a transcript of its own attempt.
ClientsSound ==
    \A s \in Source :
        /\ deadline[s] <= now + Budget
        /\ phase[s] # "idle" => now <= deadline[s]
        /\ phase[s] = "finish" =>
             /\ hash[s] \in DOMAIN origin
             /\ origin[hash[s]].src = s /\ origin[hash[s]].nonce = nonce[s]

Inv ==
    /\ TypeOK
    /\ HellosFresh /\ OriginsSound /\ ReplayCovers /\ EncapsulatedOnce
    /\ PendingSound /\ SessionsSound /\ HandedSound /\ ExpiredSound
    /\ RepliesSound /\ ClientsSound /\ AckAfterInstall

\* Why the replay table has room: the nonces recorded since any time, and the
\* tokens that are left, were paid for by one full bucket and its refills
\* since then.
recordedSince(t) == {k \in DOMAIN replay : replay[k] >= t + Retention}

BudgetKept ==
    /\ IsFiniteSet(DOMAIN replay) /\ \A k \in DOMAIN replay : replay[k] \in Retention..now + Retention
    /\ global.start <= now /\ global.tokens <= GlobalRate * Second
    /\ \A t \in 0..now :
         Second * Cardinality(recordedSince(t)) + refill(global, now, GlobalRate).tokens
           <= GlobalRate * (Second + now - t)
=============================================================================
