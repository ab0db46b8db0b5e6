-------------------------- MODULE HandshakeProofs --------------------------
(* Proofs of the properties of module Handshake, for every set of client   *)
(* processes and identities and every value of the limits.                 *)
EXTENDS Handshake, FiniteSetTheorems, TLAPS

-----------------------------------------------------------------------------
(* Facts about maps and rate tables.                                       *)

\* A product of naturals is a natural.
LEMMA Product ==
    ASSUME NEW a \in Nat, NEW b \in Nat
    PROVE  a * b \in Nat
OBVIOUS

\* Charging a bucket (allow) leaves a bucket: tokens never become negative.
LEMMA AllowType ==
    ASSUME NEW b \in Bucket, NEW t \in Nat, NEW max \in Nat
    PROVE  allow(b, t, max) \in Bucket
<1>1. max * Second \in Nat
  BY SecondAssumption, Product
<1>2. t > b.start => (t - b.start) * max \in Nat
  BY Product DEF Bucket
<1>3. refill(b, t, max) \in Bucket
  BY <1>1, <1>2 DEF refill, Bucket
<1> QED
  BY <1>3, SecondAssumption DEF allow, allows, Bucket

\* The tables that charging a key may leave are tables of buckets.
LEMMA ChargedType ==
    ASSUME NEW K, NEW table, DOMAIN table \subseteq K, table \in [DOMAIN table -> Bucket],
           NEW k \in K, NEW t \in Nat, NEW max \in Nat, NEW size,
           NEW new \in charged(table, k, t, max, size)
    PROVE  DOMAIN new \subseteq K /\ new \in [DOMAIN new -> Bucket]
<1>1. PICK r \in room(table, k, size) :
        new = Put(r, k, allow(bucketOf(r, k, t, max), t, max))
  BY DEF charged
<1>2. DOMAIN r \subseteq K /\ r \in [DOMAIN r -> Bucket]
  BY <1>1, Zenon DEF room, evictOldest, Without, Restrict
<1>3. max * Second \in Nat
  BY SecondAssumption, Product
<1>4. bucketOf(r, k, t, max) \in Bucket
  BY <1>2, <1>3 DEF bucketOf, fresh, Bucket
<1>5. allow(bucketOf(r, k, t, max), t, max) \in Bucket
  BY <1>4, AllowType
<1> QED
  BY <1>1, <1>2, <1>5 DEF Put

\* The table without its idle buckets is a table of buckets.
LEMMA RecentType ==
    ASSUME NEW K, NEW table, DOMAIN table \subseteq K, table \in [DOMAIN table -> Bucket],
           NEW t \in Nat
    PROVE  DOMAIN recent(table, t) \subseteq K /\ recent(table, t) \in [DOMAIN recent(table, t) -> Bucket]
BY DEF recent, Restrict

\* What a sweep keeps: the unexpired entries, unchanged (Expire, Handle 234-252).
LEMMA LiveFacts ==
    ASSUME TypeOK
    PROVE  /\ DOMAIN livePending = {h \in DOMAIN pending : now < pending[h].expires}
           /\ \A h \in DOMAIN livePending : livePending[h] = pending[h]
           /\ livePending \in [DOMAIN livePending -> Pending]
           /\ DOMAIN liveReplay = {k \in DOMAIN replay : now < replay[k]}
           /\ \A k \in DOMAIN liveReplay : liveReplay[k] = replay[k]
           /\ liveReplay \in [DOMAIN liveReplay -> Nat]
           /\ DOMAIN liveLimits \subseteq Source /\ liveLimits \in [DOMAIN liveLimits -> Bucket]
           /\ DOMAIN livePeerLimits \subseteq Peer
           /\ livePeerLimits \in [DOMAIN livePeerLimits -> Bucket]
<1>1. /\ DOMAIN liveLimits \subseteq Source /\ liveLimits \in [DOMAIN liveLimits -> Bucket]
      /\ DOMAIN livePeerLimits \subseteq Peer
      /\ livePeerLimits \in [DOMAIN livePeerLimits -> Bucket]
  BY RecentType, Zenon DEF TypeOK, liveLimits, livePeerLimits
<1> QED
  BY <1>1 DEF TypeOK, livePending, liveReplay, Restrict

-----------------------------------------------------------------------------
(* Type correctness.                                                       *)

\* A server that has just started, with idle clients, is well typed.
LEMMA InitType == Init => TypeOK
<1> SUFFICES ASSUME Init PROVE TypeOK
  OBVIOUS
<1>1. fresh(0, GlobalRate) \in Bucket
  BY SecondAssumption, LimitAssumption, Product DEF fresh, Bucket
<1>2. origin = <<>> /\ <<>> \in Seq(Origin) /\ DOMAIN origin = {}
  BY DEF Init
<1> QED
  BY <1>1, <1>2 DEF Init, TypeOK, Empty, Hash

\* The rate tables and the global bucket stay well typed in every step that charges them.
LEMMA ChargesType ==
    ASSUME TypeOK, NEW m \in Hello
    PROVE  /\ ChargeSource(m) => DOMAIN limits' \subseteq Source /\ limits' \in [DOMAIN limits' -> Bucket]
           /\ ChargePeer(m) => DOMAIN peerLimits' \subseteq Peer /\ peerLimits' \in [DOMAIN peerLimits' -> Bucket]
           /\ ChargeGlobal => global' \in Bucket
<1>1. m.src \in Source /\ Owner[m.src] \in Peer
  BY OwnerAssumption DEF Hello
<1>2. ASSUME ChargeSource(m)
      PROVE  DOMAIN limits' \subseteq Source /\ limits' \in [DOMAIN limits' -> Bucket]
  <2>1. limits' \in charged(liveLimits, m.src, now, SourceRate, MaxBuckets)
    BY <1>2 DEF ChargeSource
  <2>2. now \in Nat /\ SourceRate \in Nat
    BY LimitAssumption DEF TypeOK
  <2>3. DOMAIN liveLimits \subseteq Source /\ liveLimits \in [DOMAIN liveLimits -> Bucket]
    BY LiveFacts
  <2> QED
    BY <1>1, <2>1, <2>2, <2>3, ChargedType, Zenon
<1>3. ASSUME ChargePeer(m)
      PROVE  DOMAIN peerLimits' \subseteq Peer /\ peerLimits' \in [DOMAIN peerLimits' -> Bucket]
  <2>1. peerLimits' \in charged(livePeerLimits, Owner[m.src], now, PeerRate, MaxBuckets)
    BY <1>3 DEF ChargePeer
  <2>2. now \in Nat /\ PeerRate \in Nat
    BY LimitAssumption DEF TypeOK
  <2>3. DOMAIN livePeerLimits \subseteq Peer /\ livePeerLimits \in [DOMAIN livePeerLimits -> Bucket]
    BY LiveFacts
  <2> QED
    BY <1>1, <2>1, <2>2, <2>3, ChargedType, Zenon
<1>4. ChargeGlobal => global' \in Bucket
  BY AllowType, LimitAssumption, SMTT(30) DEF ChargeGlobal, TypeOK
<1> QED
  BY <1>2, <1>3, <1>4

\* The client's actions.
LEMMA ClientType ==
    ASSUME TypeOK, NEW s \in Source
    PROVE  /\ \A d \in -Skew..Skew : NewClient(s, now + d) => TypeOK'
           /\ \A m \in replies : Complete(s, m) => TypeOK'
           /\ \A m \in acks : Accepted(s, m) => TypeOK'
           /\ GiveUp(s) => TypeOK'
<1>1. ASSUME NEW d \in -Skew..Skew, NewClient(s, now + d) PROVE TypeOK'
  <2>1. now + d \in Int /\ now + Budget \in Nat /\ nonce[s] + 1 \in Nat
    <3>1. now \in Nat /\ nonce[s] \in Nat
      BY DEF TypeOK
    <3>2. Budget \in Nat /\ Skew \in Nat
      BY TimingAssumption
    <3> QED
      BY <3>1, <3>2
  <2>2. hellos' \subseteq Hello
    <3>1. hellos \subseteq Hello /\ nonce[s] + 1 \in Nat
      BY <2>1 DEF TypeOK
    <3>2. [src |-> s, nonce |-> nonce[s] + 1, stamp |-> now + d] \in Hello
      BY <2>1 DEF Hello
    <3>3. hellos' = hellos \cup {[src |-> s, nonce |-> nonce[s] + 1, stamp |-> now + d]}
      BY <1>1 DEF NewClient
    <3> QED
      BY <3>1, <3>2, <3>3
  <2> QED
    BY <1>1, <2>1, <2>2, Zenon DEF TypeOK, NewClient, serverVars, historyVars
<1>2. ASSUME NEW m \in replies, Complete(s, m) PROVE TypeOK'
  <2>1. m.hash \in Hash /\ finishes' \subseteq Finish
    BY <1>2, SMTT(30) DEF TypeOK, Complete, Reply, Finish
  <2> QED
    BY <1>2, <2>1, SMTT(30) DEF TypeOK, Complete, serverVars, historyVars
<1>3. ASSUME NEW m \in acks, Accepted(s, m) PROVE TypeOK'
  BY <1>3 DEF TypeOK, Accepted, serverVars, historyVars, relayVars, Ack
<1>4. ASSUME GiveUp(s) PROVE TypeOK'
  BY <1>4, Zenon DEF TypeOK, GiveUp, serverVars, historyVars, relayVars
<1> QED
  BY <1>1, <1>2, <1>3, <1>4

\* Packets that Handle drops.
LEMMA DroppedType ==
    ASSUME TypeOK, Dropped,
           DOMAIN limits' \subseteq Source, limits' \in [DOMAIN limits' -> Bucket],
           DOMAIN peerLimits' \subseteq Peer, peerLimits' \in [DOMAIN peerLimits' -> Bucket],
           global' \in Bucket
    PROVE  TypeOK'
BY LiveFacts, Zenon DEF TypeOK, Dropped, nowExpired, clientVars, relayVars

\* A ClientHello, whatever Handle does with it (lines 301-413).
LEMMA HelloType ==
    ASSUME TypeOK, NEW m \in hellos, HandleHello(m)
    PROVE  TypeOK'
<1>0. m \in Hello
  BY DEF TypeOK
<1>1. CASE HelloStale(m)
  BY <1>1, LiveFacts, DroppedType, Zenon DEF HelloStale, TypeOK
<1>2. CASE HelloRefused(m)
  BY <1>0, <1>2, LiveFacts, ChargesType, DroppedType, Zenon DEF HelloRefused, TypeOK
<1>3. CASE HelloOverloaded(m)
  BY <1>0, <1>3, LiveFacts, ChargesType, DroppedType DEF HelloOverloaded
<1>4. CASE HelloReplayed(m)
  <2>1. DOMAIN livePending \subseteq Nat
    BY LiveFacts, SMTT(30) DEF TypeOK
  <2>2. replies' \subseteq Reply
    <3> SUFFICES ASSUME NEW r \in replies' PROVE r \in Reply
      OBVIOUS
    <3>1. CASE r \in replies
      BY <3>1 DEF TypeOK
    <3>2. CASE r \notin replies
      <4>1. PICK h \in DOMAIN livePending : r = [dst |-> m.src, nonce |-> m.nonce, hash |-> h]
        BY <1>4, <3>2 DEF HelloReplayed
      <4> QED
        BY <1>0, <2>1, <4>1 DEF Reply, Hello, Hash
    <3> QED
      BY <3>1, <3>2
  <2> QED
    BY <1>0, <1>4, <2>2, LiveFacts, ChargesType, Zenon DEF HelloReplayed, TypeOK, nowExpired, clientVars
<1>5. CASE HelloFailed(m)
  BY <1>0, <1>5, ChargesType, DroppedType DEF HelloFailed
<1>6. CASE HelloEncapsulated(m)
  <2> DEFINE h == Len(origin) + 1
             o == [src |-> m.src, nonce |-> m.nonce, at |-> now, stamp |-> m.stamp, epoch |-> epoch]
             p == [src |-> m.src, nonce |-> m.nonce, expires |-> now + PendingTTL,
                   installing |-> FALSE, accepted |-> FALSE]
  <2>1. o \in Origin /\ p \in Pending /\ now + Retention \in Nat /\ h \in Nat
    <3>1. /\ now \in Nat /\ epoch \in Nat /\ Len(origin) \in Nat
          /\ m.src \in Source /\ m.nonce \in Nat /\ m.stamp \in Int
      BY <1>0 DEF TypeOK, Hello
    <3>2. now + PendingTTL \in Nat /\ now + Retention \in Nat
      BY <3>1, TimingAssumption, SMTT(30)
    <3> QED
      BY <3>1, <3>2 DEF Origin, Pending
  <2>2. origin' = Append(origin, o) /\ origin' \in Seq(Origin) /\ DOMAIN origin' = DOMAIN origin \cup {h}
    BY <1>6, <2>1 DEF HelloEncapsulated, TypeOK
  <2>3. replies' \subseteq Reply
    <3>1. replies \subseteq Reply
      BY DEF TypeOK
    <3>2. [dst |-> m.src, nonce |-> m.nonce, hash |-> h] \in Reply
      BY <1>0, <2>1 DEF Reply, Hello, Hash
    <3>3. replies' = replies \cup {[dst |-> m.src, nonce |-> m.nonce, hash |-> h]}
      BY <1>6 DEF HelloEncapsulated
    <3> QED
      BY <3>1, <3>2, <3>3
  <2>4. pending' = Put(livePending, h, p)
    BY <1>6 DEF HelloEncapsulated
  <2>5. DOMAIN pending' \subseteq DOMAIN origin' /\ pending' \in [DOMAIN pending' -> Pending]
    BY <2>1, <2>2, <2>4, LiveFacts, Zenon DEF Put, TypeOK
  <2>6. replay' = Put(liveReplay, <<m.src, m.nonce>>, now + Retention)
    BY <1>6 DEF HelloEncapsulated
  <2>7. DOMAIN replay' \subseteq Source \X Nat /\ replay' \in [DOMAIN replay' -> Nat]
    <3>1. <<m.src, m.nonce>> \in Source \X Nat
      BY <1>0 DEF Hello
    <3>2. DOMAIN liveReplay \subseteq Source \X Nat /\ liveReplay \in [DOMAIN liveReplay -> Nat]
      BY LiveFacts, Zenon DEF TypeOK
    <3> HIDE DEF h, o, p
    <3> QED
      BY <2>1, <2>6, <3>1, <3>2 DEF Put
  <2> QED
    BY <1>0, <1>6, <2>2, <2>3, <2>5, <2>7, LiveFacts, ChargesType, Zenon
       DEF HelloEncapsulated, TypeOK, nowExpired, clientVars
<1> QED
  BY <1>1, <1>2, <1>3, <1>4, <1>5, <1>6 DEF HandleHello

\* The table after a transcript is chosen: its rivals are gone and it is marked.
LEMMA SelectedFacts ==
    ASSUME TypeOK, NEW m \in finishes, FinishSelected(m)
    PROVE  /\ DOMAIN pending' = DOMAIN livePending \ Rivals(m.hash)
           /\ pending' = [h \in DOMAIN pending' |-> pending'[h]]
           /\ \A h \in DOMAIN pending' :
                pending'[h] = IF h = m.hash THEN [livePending[h] EXCEPT !.installing = TRUE]
                                            ELSE livePending[h]
<1> DEFINE f == Without(livePending, Rivals(m.hash))
<1>1. /\ DOMAIN f = DOMAIN livePending \ Rivals(m.hash)
      /\ \A h \in DOMAIN f : f[h] = livePending[h]
  BY DEF Without, Restrict
<1>2. pending' = [f EXCEPT ![m.hash].installing = TRUE]
  BY DEF FinishSelected
<1>3. pending' = [h \in DOMAIN f |-> IF h = m.hash THEN [f[h] EXCEPT !.installing = TRUE] ELSE f[h]]
  <2> HIDE DEF f
  <2> QED
    BY <1>2, Zenon
<1> HIDE DEF f
<1> QED
  BY <1>1, <1>3, Zenon

\* A ClientFinish, whatever Handle does with it.
LEMMA FinishType ==
    ASSUME TypeOK, NEW m \in finishes, HandleFinish(m)
    PROVE  TypeOK'
<1>1. CASE FinishDropped(m)
  BY <1>1, LiveFacts, DroppedType, Zenon DEF FinishDropped, SweepLimits, TypeOK
<1>2. CASE FinishAcked(m)
  <2>1. acks' \subseteq Ack
    BY <1>2 DEF FinishAcked, TypeOK, Finish, Ack
  <2> QED
    BY <1>2, <2>1, LiveFacts, Zenon DEF FinishAcked, SweepLimits, TypeOK, nowExpired, clientVars
<1>3. CASE FinishSelected(m)
  <2>1. m.hash \in DOMAIN livePending /\ m.hash \in DOMAIN origin /\ m.hash \in Hash
    BY <1>3, LiveFacts, Zenon DEF FinishSelected, Matches, TypeOK, Finish
  <2>2. /\ DOMAIN pending' = DOMAIN livePending \ Rivals(m.hash)
        /\ pending' = [h \in DOMAIN pending' |-> pending'[h]]
        /\ \A h \in DOMAIN pending' :
             pending'[h] = IF h = m.hash THEN [livePending[h] EXCEPT !.installing = TRUE]
                                         ELSE livePending[h]
    BY <1>3, SelectedFacts
  <2>4. \A h \in DOMAIN pending' : pending'[h] \in Pending
    <3> SUFFICES ASSUME NEW h \in DOMAIN pending' PROVE pending'[h] \in Pending
      OBVIOUS
    <3>1. livePending[h] \in Pending
      BY <2>2, LiveFacts, Zenon DEF TypeOK
    <3> QED
      BY <2>2, <3>1, Zenon DEF Pending
  <2>5. DOMAIN pending' \subseteq DOMAIN origin /\ pending' \in [DOMAIN pending' -> Pending]
    BY <2>2, <2>4, LiveFacts, Zenon DEF TypeOK
  <2> QED
    BY <1>3, <2>1, <2>5, LiveFacts, Zenon DEF FinishSelected, SweepLimits, TypeOK, nowExpired, clientVars, relayVars
<1> QED
  BY <1>1, <1>2, <1>3 DEF HandleFinish

\* The table after Session.Installed: one entry marked or deleted.
LEMMA InstalledFacts ==
    ASSUME TypeOK, NEW h, NEW ok \in BOOLEAN, Installed(h, ok)
    PROVE  /\ DOMAIN pending' = IF ok THEN DOMAIN pending ELSE DOMAIN pending \ {h}
           /\ \A g \in DOMAIN pending' :
                pending'[g] = IF g = h THEN [pending[g] EXCEPT !.accepted = TRUE] ELSE pending[g]
           /\ pending' \in [DOMAIN pending' -> Pending]
<1>1. CASE h \notin DOMAIN pending
  BY <1>1, Zenon DEF Installed, TypeOK
<1>2. CASE h \in DOMAIN pending /\ ok
  <2>1. pending' = [pending EXCEPT ![h].accepted = TRUE]
    BY <1>2 DEF Installed
  <2>2. pending[h] \in Pending
    BY <1>2 DEF TypeOK
  <2>3. [pending[h] EXCEPT !.accepted = TRUE] \in Pending
    BY <2>2, Zenon DEF Pending
  <2> QED
    BY <1>2, <2>1, <2>3, Zenon DEF TypeOK
<1>3. CASE h \in DOMAIN pending /\ ~ok
  BY <1>3 DEF Installed, TypeOK, Without, Restrict
<1> QED
  BY <1>1, <1>2, <1>3

\* Session.Installed and the acknowledgement that follows a success.
LEMMA InstallType ==
    ASSUME TypeOK, NEW h \in sessions, NEW ok \in BOOLEAN, InstallResult(h, ok)
    PROVE  TypeOK'
<1>1. h \in DOMAIN origin /\ origin[h].src \in Source /\ h \in Hash
  <2>1. h \in DOMAIN origin /\ DOMAIN origin = 1..Len(origin) /\ Len(origin) \in Nat
    BY DEF TypeOK
  <2>2. origin[h] \in Origin
    BY <2>1 DEF TypeOK
  <2> QED
    BY <2>1, <2>2 DEF Origin, Hash
<1>2. acks' \subseteq Ack
  BY <1>1 DEF InstallResult, TypeOK, Ack
<1>3. DOMAIN pending' \subseteq DOMAIN origin /\ pending' \in [DOMAIN pending' -> Pending]
  BY InstalledFacts, Zenon DEF InstallResult, TypeOK
<1>4. sessions' \subseteq DOMAIN origin /\ installed' \subseteq DOMAIN origin
  BY <1>1 DEF InstallResult, Installed, TypeOK
<1> QED
  BY <1>2, <1>3, <1>4, Zenon DEF InstallResult, TypeOK, clientVars, limitVars

\* The rest: reloads, the ticker, a restart and the passage of time.
LEMMA OtherType ==
    ASSUME TypeOK
    PROVE  /\ \A p \in Peer : Authorize(p) => TypeOK'
           /\ Expire => TypeOK'
           /\ Restart => TypeOK'
           /\ Tick => TypeOK'
<1>1. ASSUME NEW p \in Peer, Authorize(p) PROVE TypeOK'
  BY <1>1, Zenon DEF Authorize, TypeOK, clientVars, relayVars, serverVars, historyVars
<1>2. ASSUME Expire PROVE TypeOK'
  BY <1>2, LiveFacts, Zenon DEF Expire, TypeOK, nowExpired, clientVars, relayVars
<1>3. ASSUME Restart PROVE TypeOK'
  <2>1. fresh(now, GlobalRate) \in Bucket
    BY SecondAssumption, LimitAssumption, Product, Zenon DEF fresh, Bucket, TypeOK
  <2> QED
    BY <1>3, <2>1 DEF Restart, TypeOK, Empty, clientVars, relayVars
<1>4. ASSUME Tick PROVE TypeOK'
  BY <1>4, SMTT(30) DEF Tick, TypeOK, clientVars, relayVars, serverVars, historyVars
<1> QED
  BY <1>1, <1>2, <1>3, <1>4

\* Every step of Next, and a stutter, keeps the types.
LEMMA StepType == TypeOK /\ [Next]_vars => TypeOK'
<1> SUFFICES ASSUME TypeOK, [Next]_vars PROVE TypeOK'
  OBVIOUS
<1>1. CASE UNCHANGED vars
  BY <1>1, Zenon DEF vars, TypeOK, clientVars, relayVars, serverVars, historyVars
<1>2. CASE Next
  BY <1>2, ClientType, HelloType, FinishType, InstallType, OtherType DEF Next
<1> QED
  BY <1>1, <1>2

\* Every variable of the handshake keeps its type, whatever the relay does.
THEOREM TypeCorrect == Spec => []TypeOK
<1>1. Init => TypeOK
  BY InitType
<1>2. TypeOK /\ [Next]_vars => TypeOK'
  BY StepType
<1> QED
  BY <1>1, <1>2, PTL DEF Spec

-----------------------------------------------------------------------------
(* The replay table has room for every hello that the global bucket pays   *)
(* for, whatever the rate, the retention and the number of clients.        *)

\* Arithmetic and buckets.

\* Multiplication by a natural is monotone and distributes over a successor.
LEMMA Times ==
    ASSUME NEW a \in Nat, NEW b \in Nat, NEW c \in Nat
    PROVE  /\ a * (b + 1) = a * b + a
           /\ (b + 1) * a = b * a + a
           /\ b <= c => a * b <= a * c
OBVIOUS

\* A factor that is not zero can be cancelled.
LEMMA Cancel ==
    ASSUME NEW a \in Nat \ {0}, NEW b \in Nat, NEW c \in Nat, a * b <= a * c
    PROVE  b <= c
<1> SUFFICES ASSUME c < b PROVE FALSE
  OBVIOUS
<1>1. c + 1 <= b /\ c + 1 \in Nat
  OBVIOUS
<1>2. a * (c + 1) <= a * b /\ a * (c + 1) = a * c + a
  BY <1>1, Times
<1>3. a * b \in Nat /\ a * c \in Nat
  BY Product
<1> QED
  BY <1>2, <1>3

\* The tokens a bucket has at time t are at most a full bucket, and another
\* tick adds at most max units.
LEMMA RefillFacts ==
    ASSUME NEW b \in Bucket, NEW t \in Nat, NEW max \in Nat,
           b.start <= t, b.tokens <= max * Second
    PROVE  /\ refill(b, t, max) \in Bucket
           /\ refill(b, t, max).tokens <= max * Second
           /\ refill(b, t + 1, max).tokens <= refill(b, t, max).tokens + max
<1>1. max * Second \in Nat /\ b.start \in Nat /\ b.tokens \in Nat /\ t - b.start \in Nat
  BY SecondAssumption, Product DEF Bucket
<1>2. PICK u \in Nat : u = t + 1
  OBVIOUS
<1>3. (t - b.start) * max \in Nat /\ (u - b.start) * max = (t - b.start) * max + max
  <2>1. u - b.start = (t - b.start) + 1
    BY <1>1, <1>2
  <2>2. \A d \in Nat : d * max \in Nat /\ (d + 1) * max = d * max + max
    BY Times, Product
  <2> QED
    BY <1>1, <2>1, <2>2
<1>4. b.start = t => (u - b.start) * max = max
  BY <1>1, <1>2
<1>5. refill(b, u, max) =
        [start |-> u, tokens |-> IF b.tokens + (u - b.start) * max < max * Second
                                 THEN b.tokens + (u - b.start) * max ELSE max * Second]
  <2>1. u > b.start
    BY <1>1, <1>2
  <2> QED
    BY <2>1 DEF refill
<1>6. CASE t > b.start
  <2>1. refill(b, t, max) =
          [start |-> t, tokens |-> IF b.tokens + (t - b.start) * max < max * Second
                                   THEN b.tokens + (t - b.start) * max ELSE max * Second]
    BY <1>6 DEF refill
  <2>2. /\ refill(b, t, max) \in Bucket /\ refill(b, t, max).tokens <= max * Second
        /\ refill(b, u, max).tokens <= refill(b, t, max).tokens + max
    BY <1>1, <1>3, <1>5, <2>1 DEF Bucket
  <2> QED
    BY <1>2, <2>2
<1>7. CASE b.start = t
  <2>1. refill(b, t, max) = b
    BY <1>1, <1>7 DEF refill
  <2>2. refill(b, u, max).tokens <= refill(b, t, max).tokens + max
    BY <1>1, <1>4, <1>5, <1>7, <2>1
  <2> QED
    BY <1>2, <2>1, <2>2
<1> QED
  BY <1>1, <1>6, <1>7

\* allow leaves what the bucket had at that time, less the token it took.
LEMMA AllowFacts ==
    ASSUME NEW b \in Bucket, NEW t \in Nat, NEW max \in Nat,
           b.start <= t, b.tokens <= max * Second
    PROVE  /\ allow(b, t, max).start <= t
           /\ refill(allow(b, t, max), t, max) = allow(b, t, max)
           /\ allow(b, t, max).tokens <= refill(b, t, max).tokens
           /\ allows(b, t, max) => allow(b, t, max).tokens = refill(b, t, max).tokens - Second
<1>1. refill(b, t, max) \in Bucket /\ refill(b, t, max).start = t
  <2>1. refill(b, t, max) \in Bucket
    BY RefillFacts
  <2>2. b.start \in Nat /\ (~(t > b.start) => b.start = t)
    BY DEF Bucket
  <2>3. refill(b, t, max).start = t
    BY <2>2 DEF refill
  <2> QED
    BY <2>1, <2>3
<1>2. Second \in Nat
  BY SecondAssumption
<1>3. allow(b, t, max).start = t
  BY <1>1 DEF allow, Bucket
<1>4. refill(allow(b, t, max), t, max) = allow(b, t, max)
  BY <1>3 DEF refill
<1>5. /\ allow(b, t, max).tokens <= refill(b, t, max).tokens
      /\ allows(b, t, max) => allow(b, t, max).tokens = refill(b, t, max).tokens - Second
  BY <1>1, <1>2 DEF allow, Bucket
<1> QED
  BY <1>3, <1>4, <1>5

-----------------------------------------------------------------------------
(* The budget.                                                             *)

\* A server that has just started has recorded nothing and has a full bucket.
LEMMA InitBudget == Init => BudgetKept
<1> SUFFICES ASSUME Init PROVE BudgetKept
  OBVIOUS
<1>1. GlobalRate \in Nat /\ Second \in Nat /\ GlobalRate * Second \in Nat
  BY SecondAssumption, LimitAssumption, Product
<1>2. now = 0 /\ DOMAIN replay = {} /\ global = [start |-> 0, tokens |-> GlobalRate * Second]
  BY DEF Init, Empty, fresh
<1>3. refill(global, now, GlobalRate) = global
  BY <1>2 DEF refill
<1>4. \A t \in 0..now : recordedSince(t) = {}
  BY <1>2 DEF recordedSince
<1>5. IsFiniteSet(DOMAIN replay) /\ Cardinality({}) = 0
  BY <1>2, FS_EmptySet
<1>6. ASSUME NEW t \in 0..now
      PROVE  Second * Cardinality(recordedSince(t)) + refill(global, now, GlobalRate).tokens
               <= GlobalRate * (Second + now - t)
  <2>1. Second + now - t = Second /\ Second * 0 = 0
    BY <1>1, <1>2
  <2>2. Cardinality(recordedSince(t)) = 0 /\ refill(global, now, GlobalRate).tokens = GlobalRate * Second
    BY <1>2, <1>3, <1>4, <1>5
  <2> QED
    BY <1>1, <2>1, <2>2
<1>7. global.start <= now /\ global.tokens <= GlobalRate * Second
  BY <1>1, <1>2
<1> QED
  BY <1>2, <1>5, <1>6, <1>7 DEF BudgetKept

\* The products that BudgetKept compares are naturals.
LEMMA BudgetTypes ==
    ASSUME TypeOK, BudgetKept, NEW t \in 0..now
    PROVE  /\ IsFiniteSet(recordedSince(t)) /\ Cardinality(recordedSince(t)) \in Nat
           /\ Second * Cardinality(recordedSince(t)) \in Nat
           /\ refill(global, now, GlobalRate).tokens \in Nat
           /\ GlobalRate * (Second + now - t) \in Nat
<1>1. GlobalRate \in Nat /\ Second \in Nat /\ now \in Nat /\ global \in Bucket
  BY SecondAssumption, LimitAssumption DEF TypeOK
<1>2. recordedSince(t) \subseteq DOMAIN replay
  BY DEF recordedSince
<1>3. IsFiniteSet(recordedSince(t)) /\ Cardinality(recordedSince(t)) \in Nat
  BY <1>2, FS_Subset, FS_CardinalityType DEF BudgetKept
<1>4. refill(global, now, GlobalRate) \in Bucket
  BY <1>1, RefillFacts DEF BudgetKept
<1>5. Second + now - t \in Nat
  BY <1>1
<1> QED
  BY <1>1, <1>3, <1>4, <1>5, Product DEF Bucket

\* A step that deletes entries, and may charge the global bucket (Expire, and
\* every outcome of Handle but a new transcript).
LEMMA SweepBudget ==
    ASSUME TypeOK, TypeOK', BudgetKept, now' = now,
           DOMAIN replay' \subseteq DOMAIN replay,
           \A k \in DOMAIN replay' : replay'[k] = replay[k],
           global' = global \/ global' = allow(global, now, GlobalRate)
    PROVE  BudgetKept'
<1>1. GlobalRate \in Nat /\ Second \in Nat /\ now \in Nat /\ global \in Bucket /\ global' \in Bucket
  BY SecondAssumption, LimitAssumption DEF TypeOK
<1>2. /\ refill(global', now, GlobalRate).tokens <= refill(global, now, GlobalRate).tokens
      /\ global'.start <= now /\ global'.tokens <= GlobalRate * Second
  <2>1. /\ refill(global, now, GlobalRate) \in Bucket
        /\ refill(global, now, GlobalRate).tokens <= GlobalRate * Second
    BY <1>1, RefillFacts DEF BudgetKept
  <2>2. GlobalRate * Second \in Nat
    BY <1>1, Product
  <2>3. CASE global' = global
    BY <2>1, <2>3 DEF BudgetKept, Bucket
  <2>4. CASE global' = allow(global, now, GlobalRate)
    <3>1. /\ allow(global, now, GlobalRate).start <= now
          /\ refill(allow(global, now, GlobalRate), now, GlobalRate) = allow(global, now, GlobalRate)
          /\ allow(global, now, GlobalRate).tokens <= refill(global, now, GlobalRate).tokens
      BY <1>1, AllowFacts DEF BudgetKept
    <3> QED
      BY <1>1, <2>1, <2>2, <2>4, <3>1 DEF Bucket
  <2> QED
    BY <2>3, <2>4
<1>3. IsFiniteSet(DOMAIN replay') /\ \A k \in DOMAIN replay' : replay'[k] \in Retention..now' + Retention
  BY FS_Subset DEF BudgetKept
<1>4. ASSUME NEW t \in 0..now
      PROVE  Second * Cardinality(recordedSince(t)') + refill(global', now, GlobalRate).tokens
               <= GlobalRate * (Second + now - t)
  <2>1. recordedSince(t)' \subseteq recordedSince(t)
    BY DEF recordedSince
  <2>2. IsFiniteSet(recordedSince(t)) /\ Cardinality(recordedSince(t)) \in Nat
        /\ Second * Cardinality(recordedSince(t)) \in Nat
        /\ refill(global, now, GlobalRate).tokens \in Nat /\ GlobalRate * (Second + now - t) \in Nat
    BY BudgetTypes
  <2>3. /\ Cardinality(recordedSince(t)') <= Cardinality(recordedSince(t))
        /\ Cardinality(recordedSince(t)') \in Nat
    BY <2>1, <2>2, FS_Subset, FS_CardinalityType
  <2>4. /\ Second * Cardinality(recordedSince(t)') <= Second * Cardinality(recordedSince(t))
        /\ Second * Cardinality(recordedSince(t)') \in Nat
    BY <1>1, <2>2, <2>3, Times, Product
  <2>5. refill(global', now, GlobalRate).tokens \in Nat
    BY <1>1, <1>2, RefillFacts DEF Bucket
  <2>6. Second * Cardinality(recordedSince(t)) + refill(global, now, GlobalRate).tokens
          <= GlobalRate * (Second + now - t)
    BY DEF BudgetKept
  <2> QED
    BY <1>2, <2>2, <2>4, <2>5, <2>6
<1> QED
  BY <1>2, <1>3, <1>4 DEF BudgetKept

\* A new transcript: one more nonce is recorded, for one token.
LEMMA RecordBudget ==
    ASSUME TypeOK, TypeOK', BudgetKept, NEW m \in hellos, HelloEncapsulated(m)
    PROVE  BudgetKept'
<1> DEFINE key == <<m.src, m.nonce>>
<1>1. GlobalRate \in Nat /\ Second \in Nat /\ now \in Nat /\ Retention \in Nat /\ global \in Bucket
  BY SecondAssumption, LimitAssumption, TimingAssumption DEF TypeOK
<1>2. /\ now' = now /\ global' = allow(global, now, GlobalRate) /\ allows(global, now, GlobalRate)
      /\ replay' = Put(liveReplay, key, now + Retention)
  BY Zenon DEF HelloEncapsulated, Verified, PassedGlobal, GlobalOK, ChargeGlobal
<1>3. /\ DOMAIN replay' \subseteq DOMAIN replay \cup {key}
      /\ replay'[key] = now + Retention
      /\ \A k \in DOMAIN replay' : k = key \/ (k \in DOMAIN replay /\ replay'[k] = replay[k])
  BY <1>2, LiveFacts DEF Put
<1>4. /\ global'.start <= now
      /\ refill(global', now, GlobalRate).tokens = refill(global, now, GlobalRate).tokens - Second
      /\ global'.tokens = refill(global, now, GlobalRate).tokens - Second
  BY <1>1, <1>2, AllowFacts DEF BudgetKept
<1>5. global'.tokens <= GlobalRate * Second
  <2>1. /\ refill(global, now, GlobalRate).tokens \in Nat
        /\ refill(global, now, GlobalRate).tokens <= GlobalRate * Second
    BY <1>1, RefillFacts DEF BudgetKept, Bucket
  <2>2. GlobalRate * Second \in Nat
    BY <1>1, Product
  <2> QED
    BY <1>1, <1>4, <2>1, <2>2
<1>6. IsFiniteSet(DOMAIN replay') /\ \A k \in DOMAIN replay' : replay'[k] \in Retention..now' + Retention
  <2>1. IsFiniteSet(DOMAIN replay \cup {key})
    BY FS_AddElement, Zenon DEF BudgetKept
  <2> QED
    BY <1>1, <1>2, <1>3, <2>1, FS_Subset DEF BudgetKept
<1>7. ASSUME NEW t \in 0..now
      PROVE  Second * Cardinality(recordedSince(t)') + refill(global', now, GlobalRate).tokens
               <= GlobalRate * (Second + now - t)
  <2>1. recordedSince(t)' \subseteq recordedSince(t) \cup {key}
    BY <1>3 DEF recordedSince
  <2>2. /\ IsFiniteSet(recordedSince(t)) /\ Cardinality(recordedSince(t)) \in Nat
        /\ Second * Cardinality(recordedSince(t)) \in Nat
        /\ refill(global, now, GlobalRate).tokens \in Nat /\ GlobalRate * (Second + now - t) \in Nat
    BY BudgetTypes
  <2>3. /\ IsFiniteSet(recordedSince(t) \cup {key})
        /\ Cardinality(recordedSince(t) \cup {key}) <= Cardinality(recordedSince(t)) + 1
        /\ Cardinality(recordedSince(t) \cup {key}) \in Nat
    <3>1. /\ IsFiniteSet(recordedSince(t) \cup {key})
          /\ \/ Cardinality(recordedSince(t) \cup {key}) = Cardinality(recordedSince(t))
             \/ Cardinality(recordedSince(t) \cup {key}) = Cardinality(recordedSince(t)) + 1
      BY <2>2, FS_AddElement, Zenon
    <3> QED
      BY <2>2, <3>1
  <2>4. /\ Cardinality(recordedSince(t)') <= Cardinality(recordedSince(t)) + 1
        /\ Cardinality(recordedSince(t)') \in Nat
    <3>1. /\ Cardinality(recordedSince(t)') <= Cardinality(recordedSince(t) \cup {key})
          /\ Cardinality(recordedSince(t)') \in Nat
      BY <2>1, <2>3, FS_Subset, FS_CardinalityType
    <3> QED
      BY <2>2, <2>3, <3>1
  <2>5. /\ Second * Cardinality(recordedSince(t)') <= Second * (Cardinality(recordedSince(t)) + 1)
        /\ Second * (Cardinality(recordedSince(t)) + 1) = Second * Cardinality(recordedSince(t)) + Second
        /\ Second * Cardinality(recordedSince(t)') \in Nat
    BY <1>1, <2>2, <2>4, Times, Product, SMTT(30)
  <2>6. Second * Cardinality(recordedSince(t)) + refill(global, now, GlobalRate).tokens
          <= GlobalRate * (Second + now - t)
    BY DEF BudgetKept
  <2> QED
    BY <1>1, <1>4, <2>2, <2>5, <2>6
<1> QED
  BY <1>2, <1>4, <1>5, <1>6, <1>7, Zenon DEF BudgetKept

\* A tick refills at most what it adds to the budget of every earlier time;
\* nothing has been recorded since the new one.
LEMMA TickBudget ==
    ASSUME TypeOK, TypeOK', BudgetKept, Tick
    PROVE  BudgetKept'
<1>1. GlobalRate \in Nat /\ Second \in Nat /\ now \in Nat /\ Retention \in Nat /\ global \in Bucket
  BY SecondAssumption, LimitAssumption, TimingAssumption DEF TypeOK
<1>2. now' = now + 1 /\ replay' = replay /\ global' = global /\ replay \in [DOMAIN replay -> Nat]
  BY DEF Tick, serverVars, TypeOK
<1>3. /\ refill(global, now, GlobalRate) \in Bucket
      /\ refill(global, now + 1, GlobalRate).tokens <= refill(global, now, GlobalRate).tokens + GlobalRate
      /\ global.start \in Nat /\ global.start <= now + 1
  BY <1>1, RefillFacts, SMTT(30) DEF BudgetKept, Bucket
<1>4. /\ refill(global, now + 1, GlobalRate) \in Bucket
      /\ refill(global, now + 1, GlobalRate).tokens <= GlobalRate * Second
  <2>1. now + 1 \in Nat /\ global.start <= now + 1 /\ global.tokens <= GlobalRate * Second
    BY <1>1, <1>3 DEF BudgetKept
  <2> QED
    BY <1>1, <2>1, RefillFacts
<1>5. ASSUME NEW t \in 0..now
      PROVE  Second * Cardinality(recordedSince(t)') + refill(global, now + 1, GlobalRate).tokens
               <= GlobalRate * (Second + (now + 1) - t)
  <2>1. recordedSince(t)' = recordedSince(t)
    BY <1>2 DEF recordedSince
  <2>2. /\ Second * Cardinality(recordedSince(t)) \in Nat
        /\ refill(global, now, GlobalRate).tokens \in Nat /\ GlobalRate * (Second + now - t) \in Nat
    BY BudgetTypes
  <2>3. GlobalRate * (Second + (now + 1) - t) = GlobalRate * (Second + now - t) + GlobalRate
    <3>1. Second + now - t \in Nat /\ Second + (now + 1) - t = (Second + now - t) + 1
      BY <1>1
    <3>2. \A n \in Nat : GlobalRate * (n + 1) = GlobalRate * n + GlobalRate
      BY <1>1, Times
    <3> QED
      BY <3>1, <3>2
  <2>4. Second * Cardinality(recordedSince(t)) + refill(global, now, GlobalRate).tokens
          <= GlobalRate * (Second + now - t)
    BY DEF BudgetKept
  <2>5. refill(global, now + 1, GlobalRate).tokens \in Nat
    BY <1>4 DEF Bucket
  <2> QED
    BY <1>1, <1>3, <2>1, <2>2, <2>3, <2>4, <2>5
<1>6. ASSUME NEW t \in Nat, t = now + 1
      PROVE  Second * Cardinality(recordedSince(t)') + refill(global, now + 1, GlobalRate).tokens
               <= GlobalRate * (Second + (now + 1) - t)
  <2>1. recordedSince(t)' = {}
    <3>1. \A k \in DOMAIN replay : replay[k] \in Nat /\ replay[k] <= now + Retention
      BY <1>2 DEF BudgetKept
    <3> QED
      BY <1>1, <1>2, <1>6, <3>1 DEF recordedSince
  <2>2. Cardinality(recordedSince(t)') = 0
    BY <2>1, FS_EmptySet
  <2>3. Second * 0 = 0 /\ Second + (now + 1) - t = Second
    BY <1>1, <1>6
  <2>4. refill(global, now + 1, GlobalRate).tokens \in Nat /\ GlobalRate * Second \in Nat
    BY <1>1, <1>4, Product DEF Bucket
  <2> QED
    BY <1>4, <2>2, <2>3, <2>4
<1>7. ASSUME NEW t \in 0..(now + 1)
      PROVE  Second * Cardinality(recordedSince(t)') + refill(global, now + 1, GlobalRate).tokens
               <= GlobalRate * (Second + (now + 1) - t)
  <2>1. t \in 0..now \/ (t \in Nat /\ t = now + 1)
    BY <1>1
  <2> QED
    BY <1>5, <1>6, <2>1
<1>8. \A k \in DOMAIN replay : replay[k] \in Retention..(now + 1) + Retention
  BY <1>1, <1>2 DEF BudgetKept
<1> QED
  BY <1>2, <1>3, <1>7, <1>8 DEF BudgetKept

\* Every step keeps the budget.
LEMMA StepBudget == TypeOK /\ BudgetKept /\ [Next]_vars => BudgetKept'
<1> SUFFICES ASSUME TypeOK, BudgetKept, [Next]_vars PROVE BudgetKept'
  OBVIOUS
<1>1. TypeOK'
  BY StepType
<1>2. /\ DOMAIN liveReplay \subseteq DOMAIN replay
      /\ \A k \in DOMAIN liveReplay : liveReplay[k] = replay[k]
  BY LiveFacts
<1>3. ASSUME now' = now, global' = global, replay' = replay \/ replay' = liveReplay
      PROVE  BudgetKept'
  BY <1>1, <1>2, <1>3, SweepBudget
<1>4. ASSUME NEW s \in Source,
             (\E d \in -Skew..Skew : NewClient(s, now + d)) \/ (\E m \in replies : Complete(s, m))
             \/ (\E m \in acks : Accepted(s, m)) \/ GiveUp(s)
      PROVE  BudgetKept'
  BY <1>3, <1>4, Zenon DEF NewClient, Complete, Accepted, GiveUp, serverVars
<1>5. ASSUME NEW m \in hellos, HandleHello(m) PROVE BudgetKept'
  <2>1. CASE HelloEncapsulated(m)
    BY <1>1, <2>1, RecordBudget
  <2>2. CASE HelloStale(m) \/ HelloRefused(m)
    BY <1>3, <2>2 DEF HelloStale, HelloRefused, Dropped
  <2>3. CASE HelloOverloaded(m) \/ HelloReplayed(m) \/ HelloFailed(m)
    <3>1. now' = now /\ replay' = liveReplay /\ global' = allow(global, now, GlobalRate)
      BY <2>3, Zenon DEF HelloOverloaded, HelloReplayed, HelloFailed, Dropped, ChargeGlobal
    <3> QED
      BY <1>1, <1>2, <3>1, SweepBudget, Zenon
  <2> QED
    BY <1>5, <2>1, <2>2, <2>3 DEF HandleHello
<1>6. ASSUME NEW m \in finishes, HandleFinish(m) PROVE BudgetKept'
  BY <1>3, <1>6 DEF HandleFinish, FinishDropped, FinishAcked, FinishSelected, Dropped, SweepLimits
<1>7. ASSUME NEW h \in sessions, NEW ok \in BOOLEAN, InstallResult(h, ok) PROVE BudgetKept'
  BY <1>3, <1>7 DEF InstallResult, limitVars
<1>8. ASSUME NEW p \in Peer, Authorize(p) PROVE BudgetKept'
  BY <1>3, <1>8 DEF Authorize, serverVars
<1>9. CASE Expire
  BY <1>3, <1>9 DEF Expire
<1>10. CASE Restart
  <2>1. GlobalRate \in Nat /\ Second \in Nat /\ now \in Nat /\ GlobalRate * Second \in Nat
    BY SecondAssumption, LimitAssumption, Product, Zenon DEF TypeOK
  <2>2. now' = now /\ DOMAIN replay' = {} /\ global' = [start |-> now, tokens |-> GlobalRate * Second]
    BY <1>10 DEF Restart, Empty, fresh
  <2>3. refill(global', now, GlobalRate) = global'
    <3>1. global'.start = now /\ ~(now > now)
      BY <2>1, <2>2
    <3> QED
      BY <3>1 DEF refill
  <2>4. IsFiniteSet(DOMAIN replay') /\ Cardinality({}) = 0
    BY <2>2, FS_EmptySet
  <2>5. ASSUME NEW t \in 0..now
        PROVE  Second * Cardinality(recordedSince(t)') + refill(global', now, GlobalRate).tokens
                 <= GlobalRate * (Second + now - t)
    <3>1. recordedSince(t)' = {}
      BY <2>2 DEF recordedSince
    <3>2. /\ Second * 0 = 0 /\ Second + now - t \in Nat /\ Second <= Second + now - t
          /\ GlobalRate * (Second + now - t) \in Nat
      BY <2>1, Product
    <3>3. GlobalRate * Second <= GlobalRate * (Second + now - t)
      BY <2>1, <3>2, Times
    <3> QED
      BY <2>1, <2>2, <2>3, <2>4, <3>1, <3>2, <3>3
  <2>6. global'.start <= now /\ global'.tokens <= GlobalRate * Second
    BY <2>1, <2>2
  <2> QED
    BY <2>2, <2>4, <2>5, <2>6, Zenon DEF BudgetKept
<1>11. CASE Tick
  BY <1>1, <1>11, TickBudget
<1>12. CASE UNCHANGED vars
  BY <1>3, <1>12 DEF vars, serverVars
<1> QED
  BY <1>4, <1>5, <1>6, <1>7, <1>8, <1>9, <1>10, <1>11, <1>12 DEF Next

\* The budget of the live nonces is smaller than the table.
LEMMA BudgetSuffices == TypeOK /\ BudgetKept => ReplayHasRoom
<1> SUFFICES ASSUME TypeOK, BudgetKept, GlobalOK
             PROVE  Cardinality(DOMAIN liveReplay) < MaxReplay
  BY DEF ReplayHasRoom
<1>1. /\ GlobalRate \in Nat /\ Second \in Nat \ {0} /\ MaxReplay \in Nat /\ now \in Nat
      /\ global \in Bucket
  BY SecondAssumption, LimitAssumption DEF TypeOK
<1>2. Retention \in Nat \ {0}
  <2>1. Window \in Nat /\ Retention \in Nat /\ 2 * Window < Retention
    BY TimingAssumption
  <2> QED
    BY <2>1
<1>3. PICK t \in 0..now : now - t <= Retention - 1 /\ (t = 0 \/ t = now - Retention + 1)
  <2>1. CASE now < Retention
    BY <1>1, <1>2, <2>1
  <2>2. CASE Retention <= now
    <3>1. now - Retention + 1 \in 0..now /\ now - (now - Retention + 1) <= Retention - 1
      BY <1>1, <1>2, <2>2
    <3> QED
      BY <3>1
  <2> QED
    BY <1>1, <1>2, <2>1, <2>2
<1>4. DOMAIN liveReplay \subseteq recordedSince(t)
  <2>1. \A k \in DOMAIN replay : replay[k] \in Retention..now + Retention
    BY DEF BudgetKept
  <2>2. DOMAIN liveReplay = {k \in DOMAIN replay : now < replay[k]}
    BY LiveFacts
  <2> QED
    BY <1>1, <1>2, <1>3, <2>1, <2>2 DEF recordedSince
<1>5. /\ IsFiniteSet(recordedSince(t)) /\ Cardinality(recordedSince(t)) \in Nat
      /\ Second * Cardinality(recordedSince(t)) \in Nat
      /\ refill(global, now, GlobalRate).tokens \in Nat /\ GlobalRate * (Second + now - t) \in Nat
  BY BudgetTypes
<1>6. /\ Cardinality(DOMAIN liveReplay) <= Cardinality(recordedSince(t))
      /\ Cardinality(DOMAIN liveReplay) \in Nat
  BY <1>4, <1>5, FS_Subset, FS_CardinalityType
<1>7. Second * Cardinality(recordedSince(t)) + Second <= GlobalRate * (Second + now - t)
  <2>1. Second <= refill(global, now, GlobalRate).tokens
    BY DEF GlobalOK, allows
  <2>2. Second * Cardinality(recordedSince(t)) + refill(global, now, GlobalRate).tokens
          <= GlobalRate * (Second + now - t)
    BY DEF BudgetKept
  <2> QED
    BY <1>1, <1>5, <2>1, <2>2
<1>8. GlobalRate * (Second + now - t) <= Second * MaxReplay
  <2>1. /\ Second + now - t \in Nat /\ Second + Retention - 1 \in Nat
        /\ Second + now - t <= Second + Retention - 1
    BY <1>1, <1>2, <1>3
  <2>2. /\ GlobalRate * (Second + now - t) <= GlobalRate * (Second + Retention - 1)
        /\ GlobalRate * (Second + Retention - 1) \in Nat
    BY <1>1, <2>1, Times, Product
  <2>3. Second * MaxReplay \in Nat
    BY <1>1, Product
  <2> QED
    BY <1>5, <2>2, <2>3, CapacityAssumption
<1>9. Second * (Cardinality(recordedSince(t)) + 1) <= Second * MaxReplay
  <2>1. Second * (Cardinality(recordedSince(t)) + 1) = Second * Cardinality(recordedSince(t)) + Second
    BY <1>1, <1>5, Times
  <2>2. Second * MaxReplay \in Nat
    BY <1>1, Product
  <2> QED
    BY <1>1, <1>5, <1>7, <1>8, <2>1, <2>2
<1>10. Cardinality(recordedSince(t)) + 1 <= MaxReplay
  BY <1>1, <1>5, <1>9, Cancel
<1> QED
  BY <1>1, <1>5, <1>6, <1>10

\* The replay table is never the reason to refuse a hello that the shared
\* budget of 64 a second pays for: its 64*301 entries cover the nonces of
\* five minutes and the initial burst (Handle, lines 347-355).
THEOREM ReplayRoom == Spec => []ReplayHasRoom
<1>1. Init => TypeOK /\ BudgetKept
  BY InitType, InitBudget
<1>2. TypeOK /\ BudgetKept /\ [Next]_vars => (TypeOK /\ BudgetKept)'
  BY StepType, StepBudget
<1>3. TypeOK /\ BudgetKept => ReplayHasRoom
  BY BudgetSuffices
<1> QED
  BY <1>1, <1>2, <1>3, PTL DEF Spec

-----------------------------------------------------------------------------
(***************************************************************************)
(* The inductive invariant Inv of module Handshake, and the theorems that  *)
(* follow from it.                                                         *)
(***************************************************************************)

\* What the invariant's arithmetic needs to know of a transcript.
LEMMA OriginFacts ==
    ASSUME TypeOK
    PROVE  /\ Len(origin) \in Nat /\ DOMAIN origin = 1..Len(origin)
           /\ \A h \in DOMAIN origin :
                /\ h \in Nat /\ h # 0 /\ h <= Len(origin)
                /\ origin[h].src \in Source /\ origin[h].nonce \in Nat
                /\ origin[h].at \in Nat /\ origin[h].stamp \in Int /\ origin[h].epoch \in Nat
<1>1. Len(origin) \in Nat /\ DOMAIN origin = 1..Len(origin)
  BY DEF TypeOK
<1>2. \A h \in DOMAIN origin : origin[h] \in Origin
  BY DEF TypeOK
<1> QED
  BY <1>1, <1>2 DEF Origin

\* What the invariant needs to know of a pending entry.
LEMMA PendingFacts ==
    ASSUME TypeOK
    PROVE  \A h \in DOMAIN pending :
             /\ pending[h].src \in Source /\ pending[h].nonce \in Nat /\ pending[h].expires \in Nat
             /\ pending[h].installing \in BOOLEAN /\ pending[h].accepted \in BOOLEAN
             /\ h \in DOMAIN origin
<1>1. \A h \in DOMAIN pending : pending[h] \in Pending /\ h \in DOMAIN origin
  BY DEF TypeOK
<1> QED
  BY <1>1 DEF Pending

\* The invariant holds when server and clients start.
LEMMA InitInv == Init => Inv
<1> SUFFICES ASSUME Init PROVE Inv
  OBVIOUS
<1>1. TypeOK
  BY InitType
<1>2. DOMAIN origin = {} /\ DOMAIN pending = {} /\ Len(origin) = 0
  BY DEF Init, Empty
<1>3. HellosFresh /\ RepliesSound /\ SessionsSound /\ ExpiredSound /\ AckAfterInstall
  BY DEF Init, HellosFresh, RepliesSound, SessionsSound, ExpiredSound, AckAfterInstall
<1>4. OriginsSound /\ ReplayCovers /\ EncapsulatedOnce /\ PendingSound
  BY <1>2 DEF OriginsSound, ReplayCovers, EncapsulatedOnce, PendingSound
<1>5. HandedSound /\ ClientsSound
  BY <1>2, TimingAssumption DEF Init, HandedSound, ClientsSound
<1> QED
  BY <1>1, <1>3, <1>4, <1>5 DEF Inv

-----------------------------------------------------------------------------
(* Sweeps: what Handle and Expire do before, or instead of, anything else. *)

Swept ==
    /\ pending' = livePending /\ replay' = liveReplay /\ expired' = nowExpired
    /\ UNCHANGED <<now, clientVars, hellos, sessions, epoch, origin, handed, installed>>

\* A sweep keeps the nonces of every transcript younger than Retention.
LEMMA ReplaySurvives ==
    ASSUME Inv, NEW h \in DOMAIN origin, origin[h].epoch = epoch, now < origin[h].at + Retention
    PROVE  /\ <<origin[h].src, origin[h].nonce>> \in DOMAIN liveReplay
           /\ liveReplay[<<origin[h].src, origin[h].nonce>>] >= origin[h].at + Retention
<1> DEFINE k == <<origin[h].src, origin[h].nonce>>
<1>1. k \in DOMAIN replay /\ replay[k] >= origin[h].at + Retention
  BY DEF Inv, ReplayCovers
<1> HIDE DEF k
<1>2. replay[k] \in Nat /\ now \in Nat
  BY <1>1 DEF Inv, TypeOK
<1>3. origin[h].at + Retention \in Nat
  BY OriginFacts, TimingAssumption, SMTT(30) DEF Inv
<1>4. k \in DOMAIN liveReplay /\ liveReplay[k] = replay[k]
  BY <1>1, <1>2, <1>3, LiveFacts DEF Inv
<1> QED
  BY <1>1, <1>4 DEF k

\* A sweep deletes a pending transcript only when its time is up.
LEMMA ExpiryDue ==
    ASSUME Inv, NEW h \in nowExpired
    PROVE  h \in DOMAIN origin /\ h \notin DOMAIN livePending /\ origin[h].at + PendingTTL <= now
<1> USE DEF Inv
<1>1. CASE h \in expired
  BY <1>1, LiveFacts, Zenon DEF ExpiredSound, TypeOK
<1>2. CASE h \in DOMAIN pending \ DOMAIN livePending
  <2>1. h \in DOMAIN pending /\ ~(now < pending[h].expires)
    BY <1>2, LiveFacts
  <2>2. pending[h].expires = origin[h].at + PendingTTL /\ pending[h].expires \in Nat
    BY <2>1, PendingFacts DEF PendingSound
  <2> QED
    BY <1>2, <2>1, <2>2, PendingFacts DEF TypeOK
<1> QED
  BY <1>1, <1>2 DEF nowExpired

\* A sweep disturbs no conjunct: it deletes only pending entries whose time is
\* up, which it records as expired, and nonces older than Retention.
LEMMA SweepKeeps ==
    ASSUME Inv, Swept
    PROVE  /\ HellosFresh' /\ OriginsSound' /\ ReplayCovers' /\ EncapsulatedOnce'
           /\ PendingSound' /\ SessionsSound' /\ HandedSound' /\ ExpiredSound' /\ ClientsSound'
<1> USE DEF Inv
<1>1. HellosFresh' /\ OriginsSound' /\ EncapsulatedOnce' /\ HandedSound' /\ ClientsSound'
  BY Zenon DEF Swept, clientVars, HellosFresh, OriginsSound, EncapsulatedOnce, HandedSound, ClientsSound
<1>2. PendingSound'
  BY LiveFacts DEF Swept, PendingSound
<1>3. SessionsSound'
  BY LiveFacts DEF Swept, SessionsSound, nowExpired
<1>4. ExpiredSound'
  BY ExpiryDue DEF Swept, ExpiredSound
<1>5. ReplayCovers'
  BY ReplaySurvives DEF Swept, ReplayCovers
<1> QED
  BY <1>1, <1>2, <1>3, <1>4, <1>5

\* A sweep that adds only answers the server may give keeps the invariant.
LEMMA SweepInv ==
    ASSUME Inv, TypeOK', Swept,
           \A m \in replies' \ replies :
             m.hash \in DOMAIN pending /\ pending[m.hash].src = m.dst /\ pending[m.hash].nonce = m.nonce,
           \A m \in acks' \ acks : m.hash \in installed /\ origin[m.hash].src = m.dst
    PROVE  Inv'
<1>1. RepliesSound'
  <2> SUFFICES ASSUME NEW m \in replies'
               PROVE  /\ m.hash \in DOMAIN origin
                      /\ origin[m.hash].src = m.dst /\ origin[m.hash].nonce = m.nonce
    BY DEF Swept, RepliesSound
  <2>1. CASE m \in replies
    BY <2>1 DEF Inv, RepliesSound
  <2>2. CASE m \notin replies
    BY <2>2, PendingFacts DEF Inv, PendingSound
  <2> QED
    BY <2>1, <2>2
<1>2. AckAfterInstall'
  <2>1. \A m \in acks' : m.hash \in installed /\ origin[m.hash].src = m.dst
    BY DEF Inv, AckAfterInstall
  <2> QED
    BY <2>1 DEF Swept, clientVars, Inv, AckAfterInstall
<1> QED
  BY <1>1, <1>2, SweepKeeps, Zenon DEF Inv

-----------------------------------------------------------------------------
(* The client's actions.                                                   *)

\* NewClient: the nonce is new, so no transcript belongs to the attempt yet.
LEMMA NewClientInv ==
    ASSUME Inv, TypeOK', NEW s \in Source, NEW d \in -Skew..Skew, NewClient(s, now + d)
    PROVE  Inv'
<1> USE DEF Inv
<1> DEFINE n == [src |-> s, nonce |-> nonce[s] + 1, stamp |-> now + d]
<1>1. /\ nonce \in [Source -> Nat] /\ deadline \in [Source -> Nat] /\ now \in Nat /\ Budget \in Nat
      /\ phase \in [Source -> {"idle", "hello", "finish"}]
  BY TimingAssumption, Zenon DEF TypeOK
<1>2. /\ hellos' = hellos \cup {n}
      /\ nonce' = [nonce EXCEPT ![s] = nonce[s] + 1]
      /\ deadline' = [deadline EXCEPT ![s] = now + Budget]
      /\ phase' = [phase EXCEPT ![s] = "hello"]
      /\ UNCHANGED <<now, hash, psk, replies, acks, pending, replay, sessions,
                     epoch, origin, handed, installed, expired>>
  BY DEF NewClient, serverVars, historyVars
<1>3. \A m \in hellos : m \in Hello /\ m.src \in Source /\ m.nonce \in Nat /\ m.nonce <= nonce[m.src]
  BY Zenon DEF TypeOK, Hello, HellosFresh
<1>4. \A m \in hellos : m.src = s => m.nonce # nonce[s] + 1
  BY <1>1, <1>3
<1>5. HellosFresh'
  <2>1. \A m \in hellos' : m.nonce <= nonce'[m.src]
    BY <1>1, <1>2, <1>3
  <2>2. ASSUME NEW m \in hellos', NEW k \in hellos', m.src = k.src, m.nonce = k.nonce PROVE m = k
    BY <1>2, <1>4, <2>2 DEF HellosFresh
  <2> QED
    BY <2>1, <2>2, Zenon DEF HellosFresh
<1>6. OriginsSound'
  <2> SUFFICES ASSUME NEW h \in DOMAIN origin
               PROVE  /\ origin[h].at <= now /\ origin[h].epoch <= epoch
                      /\ origin[h].stamp <= origin[h].at + Window
                      /\ [src |-> origin[h].src, nonce |-> origin[h].nonce, stamp |-> origin[h].stamp] \in hellos'
                      /\ origin[h].nonce = nonce'[origin[h].src] =>
                           deadline'[origin[h].src] <= origin[h].at + Budget
    BY <1>2, Zenon DEF OriginsSound
  <2>1. [src |-> origin[h].src, nonce |-> origin[h].nonce, stamp |-> origin[h].stamp] \in hellos
    BY DEF OriginsSound
  <2>2. origin[h].src = s => origin[h].nonce # nonce[s] + 1
    BY <1>4, <2>1
  <2>3. origin[h].src \in Source
    BY OriginFacts
  <2> QED
    BY <1>1, <1>2, <2>1, <2>2, <2>3, Zenon DEF OriginsSound
<1>7. ClientsSound'
  <2>1. ClientsSound
    BY Zenon
  <2> HIDE DEF Inv
  <2>2. ASSUME NEW c \in Source, c # s
        PROVE  /\ deadline'[c] = deadline[c] /\ phase'[c] = phase[c] /\ nonce'[c] = nonce[c]
               /\ hash'[c] = hash[c]
    BY <1>1, <1>2, <2>2
  <2>3. /\ deadline'[s] = now + Budget /\ phase'[s] = "hello" /\ now <= now + Budget
        /\ now + Budget <= now + Budget
    BY <1>1, <1>2
  <2> QED
    BY <1>2, <2>1, <2>2, <2>3, Zenon DEF ClientsSound
<1>8. /\ ReplayCovers' /\ EncapsulatedOnce' /\ PendingSound' /\ SessionsSound' /\ HandedSound'
      /\ ExpiredSound' /\ RepliesSound' /\ AckAfterInstall'
  BY <1>2, Zenon DEF ReplayCovers, EncapsulatedOnce, PendingSound, SessionsSound, HandedSound,
              ExpiredSound, RepliesSound, AckAfterInstall
<1> QED
  BY <1>5, <1>6, <1>7, <1>8

\* Complete: the transcript is one the server made for this attempt.
LEMMA CompleteInv ==
    ASSUME Inv, TypeOK', NEW s \in Source, NEW m \in replies, Complete(s, m)
    PROVE  Inv'
<1> USE DEF Inv
<1>1. /\ phase' = [phase EXCEPT ![s] = "finish"] /\ hash' = [hash EXCEPT ![s] = m.hash]
      /\ phase[s] = "hello" /\ m.dst = s /\ m.nonce = nonce[s]
      /\ UNCHANGED <<now, nonce, deadline, psk, hellos, replies, acks, pending, replay, sessions,
                     epoch, origin, handed, installed, expired>>
  BY Zenon DEF Complete, serverVars, historyVars
<1>2. ClientsSound'
  BY <1>1, Zenon DEF ClientsSound, RepliesSound, TypeOK
<1>3. /\ HellosFresh' /\ OriginsSound' /\ ReplayCovers' /\ EncapsulatedOnce' /\ PendingSound'
      /\ SessionsSound' /\ HandedSound' /\ ExpiredSound' /\ RepliesSound' /\ AckAfterInstall'
  BY <1>1, Zenon DEF HellosFresh, OriginsSound, ReplayCovers, EncapsulatedOnce, PendingSound,
              SessionsSound, HandedSound, ExpiredSound, RepliesSound, AckAfterInstall
<1> QED
  BY <1>2, <1>3

\* Accepted and GiveUp: the attempt ends, with the acknowledged PSK or without.
LEMMA EndInv ==
    ASSUME Inv, TypeOK', NEW s \in Source,
           GiveUp(s) \/ (\E m \in acks : Accepted(s, m))
    PROVE  Inv'
<1> USE DEF Inv
<1>1. /\ phase' = [phase EXCEPT ![s] = "idle"]
      /\ UNCHANGED <<now, nonce, deadline, hash, hellos, replies, acks, pending, replay, sessions,
                     epoch, origin, handed, installed, expired>>
  BY Zenon DEF GiveUp, Accepted, serverVars, historyVars, relayVars
<1>2. AckAfterInstall'
  <2>1. CASE GiveUp(s)
    BY <1>1, <2>1 DEF GiveUp, AckAfterInstall
  <2>2. CASE \E m \in acks : Accepted(s, m)
    <3>1. psk \in [Source -> Hash]
      BY DEF TypeOK
    <3>2. PICK m \in acks : psk' = [psk EXCEPT ![s] = m.hash]
      BY <2>2, Zenon DEF Accepted
    <3>3. m.hash \in installed
      BY DEF AckAfterInstall
    <3> QED
      BY <1>1, <3>1, <3>2, <3>3, Zenon DEF AckAfterInstall
  <2> QED
    BY <2>1, <2>2
<1>3. ClientsSound'
  BY <1>1, Zenon DEF ClientsSound, TypeOK
<1>4. /\ HellosFresh' /\ OriginsSound' /\ ReplayCovers' /\ EncapsulatedOnce' /\ PendingSound'
      /\ SessionsSound' /\ HandedSound' /\ ExpiredSound' /\ RepliesSound'
  BY <1>1, Zenon DEF HellosFresh, OriginsSound, ReplayCovers, EncapsulatedOnce, PendingSound,
              SessionsSound, HandedSound, ExpiredSound, RepliesSound
<1> QED
  BY <1>2, <1>3, <1>4

-----------------------------------------------------------------------------
(* The server's actions.                                                   *)

\* The heart of replay protection: a hello that is in the window and not in
\* the replay table was never encapsulated by this server process.
LEMMA NotEncapsulatedBefore ==
    ASSUME Inv, NEW m \in hellos, InWindow(m), ~Replayed(m),
           NEW g \in DOMAIN origin, origin[g].src = m.src, origin[g].nonce = m.nonce
    PROVE  origin[g].epoch # epoch
<1> USE DEF Inv
<1> SUFFICES ASSUME origin[g].epoch = epoch PROVE FALSE
  OBVIOUS
<1> DEFINE k == <<m.src, m.nonce>>
<1>1. /\ origin[g].at \in Nat /\ origin[g].stamp \in Int /\ now \in Nat /\ m.stamp \in Int
      /\ Window \in Nat /\ Retention \in Nat /\ 2 * Window < Retention
  BY OriginFacts, TimingAssumption, Zenon DEF TypeOK, Hello
<1>2. m.stamp <= origin[g].at + Window
  <2>1. [src |-> m.src, nonce |-> m.nonce, stamp |-> origin[g].stamp] \in hellos
    BY DEF OriginsSound
  <2>2. m.stamp = origin[g].stamp
    BY <2>1 DEF HellosFresh
  <2> QED
    BY <2>2, Zenon DEF OriginsSound
<1>3. now < origin[g].at + Retention
  BY <1>1, <1>2 DEF InWindow
<1>4. k \in DOMAIN replay /\ replay[k] >= origin[g].at + Retention
  BY <1>3 DEF ReplayCovers
<1> HIDE DEF k
<1>5. replay[k] \in Nat
  BY <1>4 DEF TypeOK
<1>6. k \in DOMAIN liveReplay
  BY <1>1, <1>3, <1>4, <1>5, LiveFacts
<1> QED
  BY <1>6 DEF k, Replayed

\* The number of a new transcript is beyond every number handed out.
LEMMA Beyond ==
    ASSUME NEW a \in Nat, NEW b \in Nat, b <= a
    PROVE  a + 1 >= b /\ a + 1 # b
OBVIOUS

\* A hello that is encapsulated: the new transcript is pending, remembered in
\* the replay table, and unlike every earlier one (Handle, lines 342-413).
LEMMA EncapsulatedInv ==
    ASSUME Inv, TypeOK', NEW m \in hellos, HelloEncapsulated(m)
    PROVE  Inv'
<1> USE DEF Inv
<1> DEFINE h == Len(origin) + 1
           o == [src |-> m.src, nonce |-> m.nonce, at |-> now, stamp |-> m.stamp, epoch |-> epoch]
           p == [src |-> m.src, nonce |-> m.nonce, expires |-> now + PendingTTL,
                 installing |-> FALSE, accepted |-> FALSE]
           k == <<m.src, m.nonce>>
<1>1. /\ m \in Hello /\ m.src \in Source /\ m.nonce \in Nat /\ m.stamp \in Int
      /\ m = [src |-> m.src, nonce |-> m.nonce, stamp |-> m.stamp]
      /\ now \in Nat /\ epoch \in Nat
  BY Zenon DEF TypeOK, Hello
<1>2. InWindow(m) /\ ~Replayed(m)
  BY Zenon DEF HelloEncapsulated, Verified, PassedGlobal
<1>3. /\ origin' = Append(origin, o)
      /\ replies' = replies \cup {[dst |-> m.src, nonce |-> m.nonce, hash |-> h]}
      /\ pending' = Put(livePending, h, p) /\ replay' = Put(liveReplay, k, now + Retention)
      /\ expired' = nowExpired
      /\ UNCHANGED <<now, phase, nonce, deadline, hash, psk, hellos, acks, sessions,
                     epoch, handed, installed>>
  BY Zenon DEF HelloEncapsulated, clientVars
<1>4. o \in Origin
  BY <1>1 DEF Origin
<1>5. /\ Len(origin) \in Nat /\ h \notin DOMAIN origin /\ Len(origin') = h
      /\ DOMAIN origin' = DOMAIN origin \cup {h} /\ origin'[h] = o
      /\ \A g \in DOMAIN origin : origin'[g] = origin[g]
  <2>1. origin \in Seq(Origin)
    BY Zenon DEF TypeOK
  <2>2. origin' = Append(origin, o)
    BY <1>3, Zenon
  <2> HIDE DEF o
  <2> QED
    BY <1>4, <2>1, <2>2, SMTT(30)
<1>6. /\ DOMAIN pending' = DOMAIN livePending \cup {h} /\ pending'[h] = p
      /\ \A g \in DOMAIN livePending : g # h /\ g \in DOMAIN pending /\ pending'[g] = pending[g]
  <2>1. \A g \in DOMAIN livePending : g \in DOMAIN pending /\ g # h /\ livePending[g] = pending[g]
    BY <1>5, LiveFacts, PendingFacts
  <2> HIDE DEF h, p
  <2> QED
    BY <1>3, <2>1, Zenon DEF Put
<1>7. OriginsSound'
  <2>1. ASSUME NEW g \in DOMAIN origin
        PROVE  /\ origin'[g].at <= now /\ origin'[g].epoch <= epoch
               /\ origin'[g].stamp <= origin'[g].at + Window
               /\ [src |-> origin'[g].src, nonce |-> origin'[g].nonce, stamp |-> origin'[g].stamp] \in hellos
               /\ origin'[g].nonce = nonce[origin'[g].src] =>
                    deadline[origin'[g].src] <= origin'[g].at + Budget
    BY <1>5, Zenon DEF OriginsSound
  <2>2. /\ o.at <= now /\ o.epoch <= epoch /\ o.stamp <= o.at + Window
        /\ [src |-> o.src, nonce |-> o.nonce, stamp |-> o.stamp] \in hellos
        /\ deadline[o.src] <= o.at + Budget
    BY <1>1, <1>2 DEF InWindow, ClientsSound
  <2> HIDE DEF o, h
  <2> QED
    BY <1>3, <1>5, <2>1, <2>2, Zenon DEF OriginsSound
<1>8. EncapsulatedOnce'
  <2>1. ASSUME NEW g \in DOMAIN origin, origin[g].src = o.src, origin[g].nonce = o.nonce
        PROVE  origin[g].epoch # o.epoch
    BY <1>2, <2>1, NotEncapsulatedBefore, Zenon
  <2> HIDE DEF o, h
  <2> QED
    BY <1>5, <2>1, Zenon DEF EncapsulatedOnce
<1>9. ReplayCovers'
  <2>1. DOMAIN replay' = DOMAIN liveReplay \cup {k} /\ replay'[k] = now + Retention
    <3> HIDE DEF k
    <3> QED
      BY <1>3, Zenon DEF Put
  <2>2. \A j \in DOMAIN liveReplay : j # k => replay'[j] = replay[j]
    <3> HIDE DEF k
    <3> QED
      BY <1>3, LiveFacts, Zenon DEF Put
  <2> SUFFICES ASSUME NEW g \in DOMAIN origin', origin'[g].epoch = epoch, now < origin'[g].at + Retention
               PROVE  /\ <<origin'[g].src, origin'[g].nonce>> \in DOMAIN replay'
                      /\ replay'[<<origin'[g].src, origin'[g].nonce>>] >= origin'[g].at + Retention
    BY <1>3, Zenon DEF ReplayCovers
  <2>3. Retention \in Nat
    BY TimingAssumption
  <2>4. CASE g = h
    BY <1>1, <1>5, <2>1, <2>3, <2>4, SMTT(30)
  <2>5. CASE g \in DOMAIN origin
    <3> DEFINE j == <<origin[g].src, origin[g].nonce>>
    <3>1. origin'[g] = origin[g] /\ origin[g].at \in Nat /\ origin[g].at <= now
      BY <1>5, <2>5, OriginFacts, Zenon DEF OriginsSound
    <3>2. j \in DOMAIN liveReplay /\ liveReplay[j] >= origin[g].at + Retention
      BY <2>5, <3>1, ReplaySurvives
    <3> HIDE DEF j, k
    <3>3. j \in DOMAIN replay' /\ replay'[j] >= origin[g].at + Retention
      BY <1>1, <2>1, <2>2, <2>3, <3>1, <3>2, LiveFacts
    <3> QED
      BY <3>1, <3>3 DEF j
  <2> QED
    BY <1>5, <2>4, <2>5, Zenon
<1>10. PendingSound'
  <2>1. h >= handed[m.src] /\ h # handed[m.src]
    <3>1. handed \in [Source -> Nat] /\ m.src \in Source
      BY <1>1, Zenon DEF TypeOK, Hash
    <3>2. handed[m.src] \in Nat /\ handed[m.src] <= Len(origin)
      BY <3>1 DEF HandedSound
    <3> QED
      BY <1>5, <3>2, Beyond, Zenon
  <2>2. /\ p.src = o.src /\ p.nonce = o.nonce /\ p.expires = o.at + PendingTTL
        /\ h >= handed[p.src] /\ (p.installing <=> h = handed[p.src]) /\ ~p.accepted
    BY <2>1, Zenon
  <2>3. \A g \in DOMAIN livePending : g \in DOMAIN origin
    BY <1>6, PendingFacts, Zenon
  <2> HIDE DEF o, p, h
  <2> SUFFICES ASSUME NEW g \in DOMAIN pending'
               PROVE  LET q == pending'[g] IN
                      /\ q.src = origin'[g].src /\ q.nonce = origin'[g].nonce
                      /\ q.expires = origin'[g].at + PendingTTL
                      /\ g >= handed'[q.src] /\ (q.installing <=> g = handed'[q.src])
                      /\ q.accepted => q.installing /\ g \in installed'
    BY Zenon DEF PendingSound
  <2>4. handed' = handed /\ installed' = installed
    BY <1>3, Zenon
  <2>5. CASE g = h
    BY <1>5, <1>6, <2>2, <2>4, <2>5
  <2>6. CASE g # h
    <3>1. g \in DOMAIN pending /\ pending'[g] = pending[g] /\ origin'[g] = origin[g]
      BY <1>5, <1>6, <2>3, <2>6
    <3> QED
      BY <2>4, <3>1 DEF PendingSound
  <2> QED
    BY <2>5, <2>6, Zenon
<1>11. SessionsSound'
  <2> HIDE DEF h, p, o
  <2> QED
    BY <1>3, <1>6, LiveFacts, Zenon DEF SessionsSound, nowExpired
<1>12. HandedSound'
  <2>1. handed \in [Source -> Nat]
    BY DEF TypeOK, Hash
  <2>2. handed' = handed /\ Len(origin') = Len(origin) + 1 /\ Len(origin) \in Nat
    BY <1>3, <1>5, Zenon
  <2>3. \A s \in Source : handed[s] <= Len(origin) + 1
    BY <2>1, <2>2 DEF HandedSound
  <2> QED
    BY <2>2, <2>3 DEF HandedSound
<1>13. ExpiredSound'
  <2> HIDE DEF h, p, o
  <2> QED
    BY <1>3, <1>5, <1>6, ExpiryDue, Zenon DEF ExpiredSound
<1>14. RepliesSound'
  <2> SUFFICES ASSUME NEW r \in replies'
               PROVE  /\ r.hash \in DOMAIN origin'
                      /\ origin'[r.hash].src = r.dst /\ origin'[r.hash].nonce = r.nonce
    BY DEF RepliesSound
  <2>1. CASE r \in replies
    <3> HIDE DEF h, o
    <3> QED
      BY <1>5, <2>1 DEF RepliesSound
  <2>2. CASE r = [dst |-> m.src, nonce |-> m.nonce, hash |-> h]
    <3>1. r.hash = h /\ r.dst = o.src /\ r.nonce = o.nonce
      BY <2>2
    <3> HIDE DEF h, o
    <3> QED
      BY <1>5, <3>1
  <2> QED
    BY <1>3, <2>1, <2>2, Zenon
<1>15. ClientsSound' /\ AckAfterInstall' /\ HellosFresh'
  <2> HIDE DEF h, o
  <2>1. installed \subseteq DOMAIN origin
    BY DEF TypeOK
  <2> QED
    BY <1>3, <1>5, <2>1, Zenon DEF ClientsSound, AckAfterInstall, HellosFresh
<1> QED
  BY <1>7, <1>8, <1>9, <1>10, <1>11, <1>12, <1>13, <1>14, <1>15

\* The chosen transcript is newer than the last one handed out for its source.
LEMMA SelectedIsNewer ==
    ASSUME Inv, NEW m \in finishes, FinishSelected(m)
    PROVE  /\ m.hash \in DOMAIN pending /\ origin[m.hash].src = m.src /\ m.src \in Source
           /\ m.hash \in Nat /\ handed[m.src] \in Nat /\ m.hash > handed[m.src]
           /\ m.hash <= Len(origin)
<1>1. m.hash \in DOMAIN livePending /\ livePending[m.hash].src = m.src /\ ~livePending[m.hash].installing
  BY DEF FinishSelected, Matches, Busy
<1>2. m.hash \in DOMAIN pending /\ pending[m.hash].src = m.src /\ ~pending[m.hash].installing
  BY <1>1, LiveFacts DEF Inv
<1>3. /\ origin[m.hash].src = m.src /\ m.hash >= handed[m.src] /\ m.hash # handed[m.src]
      /\ m.src \in Source /\ m.hash \in Nat /\ m.hash <= Len(origin)
  BY <1>2, PendingFacts, OriginFacts, Zenon DEF Inv, PendingSound
<1>4. handed[m.src] \in Nat
  BY <1>3 DEF Inv, TypeOK, Hash
<1> QED
  BY <1>2, <1>3, <1>4

\* A transcript handed to the transport: its rivals are gone, and it is the
\* oldest that is still pending for its source (Handle, lines 266-280).
LEMMA SelectedInv ==
    ASSUME Inv, TypeOK', NEW m \in finishes, FinishSelected(m)
    PROVE  Inv'
<1> USE DEF Inv
<1>1. /\ sessions' = sessions \cup {m.hash} /\ handed' = [handed EXCEPT ![m.src] = m.hash]
      /\ replay' = liveReplay /\ expired' = nowExpired
      /\ ~livePending[m.hash].accepted /\ ~Busy(m.hash)
      /\ m.hash \in DOMAIN livePending /\ livePending[m.hash].src = m.src
      /\ UNCHANGED <<now, phase, nonce, deadline, hash, psk, hellos, replies, acks,
                     epoch, origin, installed>>
  BY DEF FinishSelected, Matches, clientVars, relayVars
<1>2. /\ DOMAIN pending' = DOMAIN livePending \ Rivals(m.hash)
      /\ \A h \in DOMAIN pending' :
           pending'[h] = IF h = m.hash THEN [livePending[h] EXCEPT !.installing = TRUE]
                                       ELSE livePending[h]
  BY SelectedFacts, Zenon
<1>3. /\ DOMAIN livePending \subseteq DOMAIN pending
      /\ \A h \in DOMAIN livePending : livePending[h] = pending[h] /\ livePending[h] \in Pending
  BY LiveFacts
<1>4. /\ m.hash \in DOMAIN pending'
      /\ pending'[m.hash] = [pending[m.hash] EXCEPT !.installing = TRUE]
      /\ \A h \in DOMAIN pending' : h # m.hash => pending'[h] = pending[h] /\ pending[h].src # m.src
  BY <1>1, <1>2, <1>3, Zenon DEF Rivals
<1>5. /\ pending'[m.hash].installing /\ ~pending'[m.hash].accepted
      /\ pending'[m.hash].src = m.src /\ pending'[m.hash].nonce = pending[m.hash].nonce
      /\ pending'[m.hash].expires = pending[m.hash].expires
  BY <1>1, <1>3, <1>4 DEF Pending
<1>6. PendingSound'
  <2> SUFFICES ASSUME NEW h \in DOMAIN pending'
               PROVE  /\ pending'[h].src = origin[h].src /\ pending'[h].nonce = origin[h].nonce
                      /\ pending'[h].expires = origin[h].at + PendingTTL
                      /\ h >= handed'[pending'[h].src]
                      /\ pending'[h].installing <=> h = handed'[pending'[h].src]
                      /\ pending'[h].accepted => pending'[h].installing /\ h \in installed
    BY <1>1, Zenon DEF PendingSound
  <2>1. CASE h = m.hash
    <3>1. handed'[m.src] = h /\ h \in Nat
      <4>1. m.src \in Source /\ m.hash \in Nat
        BY SelectedIsNewer
      <4>2. handed \in [Source -> Hash]
        BY Zenon DEF TypeOK
      <4> QED
        BY <1>1, <2>1, <4>1, <4>2, Zenon
    <3>2. /\ pending[h].src = origin[h].src /\ pending[h].nonce = origin[h].nonce
          /\ pending[h].expires = origin[h].at + PendingTTL
      BY <1>1, <1>3, <2>1, Zenon DEF PendingSound
    <3>3. pending[h].src = m.src
      BY <1>1, <1>3, <2>1, Zenon
    <3>4. /\ pending'[h].src = m.src /\ pending'[h].installing /\ ~pending'[h].accepted
          /\ pending'[h].nonce = pending[h].nonce /\ pending'[h].expires = pending[h].expires
      BY <1>5, <2>1, Zenon
    <3>5. h >= handed'[m.src]
      BY <3>1
    <3> QED
      BY <3>1, <3>2, <3>3, <3>4, <3>5, Zenon
  <2>2. CASE h # m.hash
    <3>1. h \in DOMAIN pending /\ pending'[h] = pending[h] /\ pending[h].src # m.src
      BY <1>2, <1>3, <1>4, <2>2
    <3>2. handed'[pending[h].src] = handed[pending[h].src]
      BY <1>1, <3>1, PendingFacts, Zenon DEF TypeOK
    <3>3. installed' = installed
      BY <1>1, Zenon
    <3>4. /\ pending[h].src = origin[h].src /\ pending[h].nonce = origin[h].nonce
          /\ pending[h].expires = origin[h].at + PendingTTL
          /\ h >= handed[pending[h].src]
          /\ pending[h].installing <=> h = handed[pending[h].src]
          /\ pending[h].accepted => pending[h].installing /\ h \in installed
      BY <3>1, Zenon DEF PendingSound
    <3> QED
      BY <3>1, <3>2, <3>3, <3>4, Zenon
  <2> QED
    BY <2>1, <2>2, Zenon
<1>7. SessionsSound'
  <2> SUFFICES ASSUME NEW h \in sessions', h \notin nowExpired
               PROVE  h \in DOMAIN pending' /\ pending'[h].installing /\ ~pending'[h].accepted
    BY <1>1, Zenon DEF SessionsSound
  <2>1. CASE h = m.hash
    BY <1>4, <1>5, <2>1, Zenon
  <2>2. CASE h # m.hash
    <3>1. h \in DOMAIN livePending /\ livePending[h].installing /\ ~livePending[h].accepted
      BY <1>1, <1>3, <2>2 DEF SessionsSound, nowExpired
    <3>2. h \notin Rivals(m.hash)
      BY <1>1, <3>1 DEF Busy
    <3> QED
      BY <1>2, <2>2, <3>1, <3>2
  <2> QED
    BY <2>1, <2>2
<1>8. HandedSound'
  BY <1>1, SelectedIsNewer, Zenon DEF HandedSound, TypeOK
<1>9. ExpiredSound'
  BY <1>1, <1>2, ExpiryDue DEF ExpiredSound
<1>10. ReplayCovers'
  BY <1>1, ReplaySurvives, Zenon DEF ReplayCovers
<1>11. HellosFresh' /\ OriginsSound' /\ EncapsulatedOnce' /\ RepliesSound' /\ ClientsSound' /\ AckAfterInstall'
  BY <1>1, Zenon DEF HellosFresh, OriginsSound, EncapsulatedOnce, RepliesSound, ClientsSound, AckAfterInstall
<1> QED
  BY <1>6, <1>7, <1>8, <1>9, <1>10, <1>11

\* Session.Installed: only the outstanding transcript is marked or deleted.
LEMMA InstallInv ==
    ASSUME Inv, TypeOK', NEW h \in sessions, NEW ok \in BOOLEAN, InstallResult(h, ok)
    PROVE  Inv'
<1> USE DEF Inv
<1>1. /\ sessions' = sessions \ {h} /\ installed' = IF ok THEN installed \cup {h} ELSE installed
      /\ acks' = IF ok THEN acks \cup {[dst |-> origin[h].src, hash |-> h]} ELSE acks
      /\ UNCHANGED <<now, phase, nonce, deadline, hash, psk, hellos, replies, replay,
                     epoch, origin, handed, expired>>
  BY DEF InstallResult, Installed, clientVars
<1>2. /\ DOMAIN pending' = IF ok THEN DOMAIN pending ELSE DOMAIN pending \ {h}
      /\ \A g \in DOMAIN pending' :
           pending'[g] = IF g = h THEN [pending[g] EXCEPT !.accepted = TRUE] ELSE pending[g]
  BY InstalledFacts, Zenon DEF InstallResult
<1>3. h \in DOMAIN pending => pending[h].installing /\ pending[h] \in Pending
  BY DEF SessionsSound, ExpiredSound, TypeOK
<1>4. PendingSound'
  <2> SUFFICES ASSUME NEW g \in DOMAIN pending'
               PROVE  /\ pending'[g].src = origin[g].src /\ pending'[g].nonce = origin[g].nonce
                      /\ pending'[g].expires = origin[g].at + PendingTTL
                      /\ g >= handed[pending'[g].src]
                      /\ pending'[g].installing <=> g = handed[pending'[g].src]
                      /\ pending'[g].accepted => pending'[g].installing /\ g \in installed'
    BY <1>1, Zenon DEF PendingSound
  <2>1. CASE g = h
    <3>1. ok /\ h \in DOMAIN pending /\ pending'[h] = [pending[h] EXCEPT !.accepted = TRUE]
      BY <1>2, <2>1
    <3>2. /\ pending'[h].src = pending[h].src /\ pending'[h].nonce = pending[h].nonce
          /\ pending'[h].expires = pending[h].expires /\ pending'[h].installing = pending[h].installing
      BY <1>3, <3>1 DEF Pending
    <3> QED
      BY <1>1, <1>3, <2>1, <3>1, <3>2 DEF PendingSound
  <2>2. CASE g # h
    BY <1>1, <1>2, <2>2, Zenon DEF PendingSound
  <2> QED
    BY <2>1, <2>2, Zenon
<1>5. SessionsSound'
  BY <1>1, <1>2, Zenon DEF SessionsSound
<1>6. ExpiredSound'
  BY <1>1, <1>2 DEF ExpiredSound
<1>7. AckAfterInstall'
  BY <1>1 DEF AckAfterInstall
<1>8. /\ HellosFresh' /\ OriginsSound' /\ ReplayCovers' /\ EncapsulatedOnce' /\ HandedSound'
      /\ RepliesSound' /\ ClientsSound'
  BY <1>1, Zenon DEF HellosFresh, OriginsSound, ReplayCovers, EncapsulatedOnce, HandedSound, RepliesSound, ClientsSound
<1> QED
  BY <1>4, <1>5, <1>6, <1>7, <1>8

\* A ClientHello that is not encapsulated changes no more than a sweep does,
\* and a resent response names the transcript it was made for.
LEMMA HelloInv ==
    ASSUME Inv, TypeOK', NEW m \in hellos, HandleHello(m)
    PROVE  Inv'
<1>1. CASE HelloEncapsulated(m)
  BY <1>1, EncapsulatedInv
<1>2. CASE HelloStale(m) \/ HelloRefused(m) \/ HelloOverloaded(m) \/ HelloFailed(m)
  <2>1. Dropped
    BY <1>2 DEF HelloStale, HelloRefused, HelloOverloaded, HelloFailed
  <2>2. Swept /\ replies' = replies /\ acks' = acks
    BY <2>1 DEF Dropped, Swept, relayVars
  <2> QED
    BY <2>2, SweepInv
<1>3. CASE HelloReplayed(m)
  <2>1. Swept /\ acks' = acks
    BY <1>3, Zenon DEF HelloReplayed, Swept
  <2>2. ASSUME NEW r \in replies' \ replies
        PROVE  /\ r.hash \in DOMAIN pending /\ pending[r.hash].src = r.dst
               /\ pending[r.hash].nonce = r.nonce
    <3>1. PICK h \in DOMAIN livePending :
            /\ livePending[h].src = m.src /\ livePending[h].nonce = m.nonce
            /\ r = [dst |-> m.src, nonce |-> m.nonce, hash |-> h]
      BY <1>3, <2>2, Zenon DEF HelloReplayed
    <3> QED
      BY <3>1, LiveFacts DEF Inv
  <2> QED
    BY <2>1, <2>2, SweepInv, Zenon
<1> QED
  BY <1>1, <1>2, <1>3 DEF HandleHello

\* A ClientFinish, whatever Handle does with it (lines 253-299).
LEMMA FinishInv ==
    ASSUME Inv, TypeOK', NEW m \in finishes, HandleFinish(m)
    PROVE  Inv'
<1>1. CASE FinishSelected(m)
  BY <1>1, SelectedInv
<1>2. CASE FinishDropped(m)
  <2>1. Swept /\ replies' = replies /\ acks' = acks
    BY <1>2, Zenon DEF FinishDropped, Dropped, Swept, relayVars
  <2> QED
    BY <2>1, SweepInv
<1>3. CASE FinishAcked(m)
  <2>1. Swept /\ replies' = replies /\ acks' = acks \cup {[dst |-> m.src, hash |-> m.hash]}
    BY <1>3, Zenon DEF FinishAcked, Swept
  <2>2. m.hash \in DOMAIN pending /\ pending[m.hash].src = m.src /\ pending[m.hash].accepted
    BY <1>3, LiveFacts DEF FinishAcked, Matches, Inv
  <2>3. m.hash \in installed /\ origin[m.hash].src = m.src
    BY <2>2, Zenon DEF Inv, PendingSound
  <2>4. replies' \ replies = {} /\ \A a \in acks' \ acks : a = [dst |-> m.src, hash |-> m.hash]
    BY <2>1
  <2>5. \A a \in acks' \ acks : a.hash \in installed /\ origin[a.hash].src = a.dst
    BY <2>3, <2>4
  <2> QED
    BY <2>1, <2>4, <2>5, SweepInv, Zenon
<1> QED
  BY <1>1, <1>2, <1>3 DEF HandleFinish

\* Reloads, the ticker, a restart and the passage of time.
LEMMA OtherInv ==
    ASSUME Inv, TypeOK'
    PROVE  /\ \A p \in Peer : Authorize(p) => Inv'
           /\ Expire => Inv'
           /\ Restart => Inv'
           /\ Tick => Inv'
           /\ UNCHANGED vars => Inv'
<1>1. ASSUME UNCHANGED vars \/ (\E p \in Peer : Authorize(p)) PROVE Inv'
  <2>1. UNCHANGED <<now, clientVars, relayVars, serverVars, historyVars>>
    BY <1>1 DEF Authorize, vars
  <2>2. UNCHANGED <<now, phase, nonce, deadline, hash, psk, hellos, replies, acks, pending, replay,
                    sessions, epoch, origin, handed, installed, expired>>
    BY <2>1 DEF clientVars, relayVars, serverVars, historyVars
  <2>3. HellosFresh' /\ OriginsSound' /\ ReplayCovers' /\ EncapsulatedOnce' /\ PendingSound'
    BY <2>2, Zenon DEF Inv, HellosFresh, OriginsSound, ReplayCovers, EncapsulatedOnce, PendingSound
  <2>4. SessionsSound' /\ HandedSound' /\ ExpiredSound' /\ RepliesSound' /\ ClientsSound' /\ AckAfterInstall'
    BY <2>2, Zenon DEF Inv, SessionsSound, HandedSound, ExpiredSound, RepliesSound, ClientsSound, AckAfterInstall
  <2> QED
    BY <2>3, <2>4 DEF Inv
<1>2. ASSUME Expire PROVE Inv'
  <2>1. Swept /\ replies' = replies /\ acks' = acks
    BY <1>2 DEF Expire, Swept, relayVars
  <2> QED
    BY <2>1, SweepInv, Zenon
<1>3. ASSUME Restart PROVE Inv'
  <2> USE DEF Inv
  <2>1. /\ epoch' = epoch + 1 /\ pending' = Empty /\ sessions' = {}
        /\ UNCHANGED <<now, phase, nonce, deadline, hash, psk, hellos, replies, acks,
                       origin, handed, installed, expired>>
    BY <1>3 DEF Restart, clientVars, relayVars
  <2>2. epoch \in Nat /\ DOMAIN pending' = {}
    BY <2>1, Zenon DEF TypeOK, Empty
  <2>3. \A h \in DOMAIN origin : origin[h].epoch \in Nat /\ origin[h].epoch <= epoch
    BY OriginFacts, Zenon DEF OriginsSound
  <2>4. OriginsSound' /\ ReplayCovers'
    <3>1. \A h \in DOMAIN origin : origin[h].epoch <= epoch' /\ origin[h].epoch # epoch'
      <4> TAKE h \in DOMAIN origin
      <4>1. epoch' = epoch + 1 /\ epoch \in Nat /\ origin[h].epoch \in Nat /\ origin[h].epoch <= epoch
        BY <2>1, <2>2, <2>3, Zenon
      <4> QED
        BY <4>1
    <3>2. OriginsSound'
      BY <2>1, <3>1, Zenon DEF OriginsSound
    <3>3. ReplayCovers'
      BY <2>1, <3>1, Zenon DEF ReplayCovers
    <3> QED
      BY <3>2, <3>3
  <2>5. PendingSound' /\ SessionsSound' /\ ExpiredSound'
    BY <2>1, <2>2, Zenon DEF PendingSound, SessionsSound, ExpiredSound
  <2>6. HellosFresh' /\ EncapsulatedOnce' /\ HandedSound' /\ RepliesSound' /\ ClientsSound' /\ AckAfterInstall'
    BY <2>1, Zenon DEF HellosFresh, EncapsulatedOnce, HandedSound, RepliesSound, ClientsSound, AckAfterInstall
  <2> QED
    BY <2>4, <2>5, <2>6
<1>4. ASSUME Tick PROVE Inv'
  <2> USE DEF Inv
  <2>1. /\ now' = now + 1 /\ \A s \in Source : phase[s] # "idle" => now < deadline[s]
        /\ UNCHANGED <<phase, nonce, deadline, hash, psk, hellos, replies, acks, pending, replay,
                       sessions, epoch, origin, handed, installed, expired>>
    BY <1>4, Zenon DEF Tick, clientVars, relayVars, serverVars, historyVars
  <2>2. now \in Nat /\ deadline \in [Source -> Nat] /\ {Retention, PendingTTL, Budget} \subseteq Nat
    BY TimingAssumption, Zenon DEF TypeOK
  <2>3. \A h \in DOMAIN origin : origin[h].at \in Nat
    BY OriginFacts
  <2>4. OriginsSound'
    <3>1. \A h \in DOMAIN origin : origin[h].at <= now'
      <4> TAKE h \in DOMAIN origin
      <4>1. now' = now + 1 /\ now \in Nat /\ origin[h].at \in Nat /\ origin[h].at <= now
        BY <2>1, <2>2, <2>3, Zenon DEF OriginsSound
      <4> QED
        BY <4>1
    <3> QED
      BY <2>1, <3>1, Zenon DEF OriginsSound
  <2>5. ReplayCovers'
    <3>1. \A h \in DOMAIN origin : now' < origin[h].at + Retention => now < origin[h].at + Retention
      <4> TAKE h \in DOMAIN origin
      <4>1. now' = now + 1 /\ now \in Nat /\ origin[h].at \in Nat /\ Retention \in Nat
        BY <2>1, <2>2, <2>3, Zenon
      <4> QED
        BY <4>1
    <3> QED
      BY <2>1, <3>1, Zenon DEF ReplayCovers
  <2>6. ExpiredSound'
    <3>1. \A h \in expired : h \in DOMAIN origin
      BY Zenon DEF TypeOK
    <3>2. \A h \in expired : origin[h].at + PendingTTL <= now'
      <4> TAKE h \in expired
      <4>1. /\ now' = now + 1 /\ now \in Nat /\ origin[h].at \in Nat /\ PendingTTL \in Nat
            /\ origin[h].at + PendingTTL <= now
        BY <2>1, <2>2, <2>3, <3>1, Zenon DEF ExpiredSound
      <4> QED
        BY <4>1, SMTT(30)
    <3> QED
      BY <2>1, <3>2, Zenon DEF ExpiredSound
  <2>7. ClientsSound'
    <3>1. \A s \in Source : deadline[s] <= now' + Budget /\ (phase[s] # "idle" => now' <= deadline[s])
      <4> TAKE s \in Source
      <4>1. deadline[s] <= now + Budget /\ (phase[s] # "idle" => now < deadline[s])
        BY <2>1, Zenon DEF ClientsSound
      <4>2. now' = now + 1 /\ now \in Nat /\ deadline[s] \in Nat /\ Budget \in Nat
        BY <2>1, <2>2
      <4> QED
        BY <4>1, <4>2
    <3> QED
      BY <2>1, <3>1, Zenon DEF ClientsSound
  <2>8. /\ HellosFresh' /\ EncapsulatedOnce' /\ PendingSound' /\ SessionsSound' /\ HandedSound'
        /\ RepliesSound' /\ AckAfterInstall'
    BY <2>1, Zenon DEF HellosFresh, EncapsulatedOnce, PendingSound, SessionsSound, HandedSound,
                RepliesSound, AckAfterInstall
  <2> QED
    BY <2>4, <2>5, <2>6, <2>7, <2>8
<1> QED
  BY <1>1, <1>2, <1>3, <1>4

\* Every step of Next, and a stutter, keeps the invariant.
LEMMA StepInv == Inv /\ [Next]_vars => Inv'
<1> SUFFICES ASSUME Inv, [Next]_vars PROVE Inv'
  OBVIOUS
<1>1. TypeOK'
  BY StepType DEF Inv
<1>2. CASE UNCHANGED vars
  BY <1>1, <1>2, OtherInv
<1>3. CASE Next
  BY <1>1, <1>3, NewClientInv, CompleteInv, EndInv, HelloInv, FinishInv, InstallInv, OtherInv DEF Next
<1> QED
  BY <1>2, <1>3

-----------------------------------------------------------------------------
(* The theorems.                                                           *)

\* The inductive invariant holds in every reachable state.
THEOREM Invariance == Spec => []Inv
<1>1. Init => Inv
  BY InitInv
<1>2. Inv /\ [Next]_vars => Inv'
  BY StepInv
<1> QED
  BY <1>1, <1>2, PTL DEF Spec

\* One server process encapsulates a hello at most once, for every window,
\* retention and clock error with 2 * Window < Retention (Handle, lines 310-313
\* and 342-351).
THEOREM ReplayProtection == Spec => []EncapsulatedOnce
<1>1. Inv => EncapsulatedOnce
  BY DEF Inv
<1> QED
  BY <1>1, Invariance, PTL

\* A PSK is acknowledged, and adopted by its client, only after the transport
\* has installed it (Handle, lines 259-262 and 284-299).
THEOREM InstalledFirst == Spec => []AckAfterInstall
<1>1. Inv => AckAfterInstall
  BY DEF Inv
<1> QED
  BY <1>1, Invariance, PTL

\* No step hands the transport a session older than, or equal to, one it was
\* handed before for the same source (Handle, lines 256-280).
THEOREM NeverRollsBack == Spec => NoRollback
<1>1. ASSUME Inv, [Next]_vars
      PROVE  [\A h \in sessions' \ sessions : h > handed[origin[h].src]]_vars
  <2> SUFFICES ASSUME NEW h \in sessions' \ sessions PROVE h > handed[origin[h].src]
    OBVIOUS
  <2>1. PICK m \in finishes : FinishSelected(m)
    BY <1>1, Zenon DEF Next, NewClient, Complete, Accepted, GiveUp, HandleHello, HelloStale, HelloRefused,
                HelloOverloaded, HelloReplayed, HelloFailed, HelloEncapsulated, HandleFinish,
                FinishDropped, FinishAcked, Dropped, InstallResult, Installed, Authorize, Expire,
                Restart, Tick, vars, serverVars
  <2>2. h = m.hash
    BY <2>1 DEF FinishSelected
  <2> QED
    BY <1>1, <2>1, <2>2, SelectedIsNewer, Zenon
<1> QED
  BY <1>1, Invariance, PTL DEF Spec, NoRollback

\* A client that waits for its acknowledgement never loses the transcript to
\* the pending timeout, whenever Budget < PendingTTL (transport.go line 69,
\* handshake.go line 401).
THEOREM FinishOutlivesClient == Spec => []FinishNotExpired
<1>1. Inv => FinishNotExpired
  <2> SUFFICES ASSUME Inv, NEW s \in Source, phase[s] = "finish", hash[s] \in expired PROVE FALSE
    BY DEF FinishNotExpired
  <2> USE DEF Inv
  <2>1. /\ now <= deadline[s] /\ hash[s] \in DOMAIN origin
        /\ origin[hash[s]].src = s /\ origin[hash[s]].nonce = nonce[s]
    BY DEF ClientsSound
  <2>2. deadline[s] <= origin[hash[s]].at + Budget
    BY <2>1, Zenon DEF OriginsSound
  <2>3. origin[hash[s]].at + PendingTTL <= now
    BY DEF ExpiredSound
  <2>4. origin[hash[s]].at \in Nat /\ now \in Nat /\ deadline[s] \in Nat
    <3>1. now \in Nat /\ deadline \in [Source -> Nat]
      BY Zenon DEF TypeOK
    <3> QED
      BY <2>1, <3>1, OriginFacts
  <2> QED
    BY <2>1, <2>2, <2>3, <2>4, TimingAssumption
<1> QED
  BY <1>1, Invariance, PTL

\* At most one pending transcript of a source is being installed or has been,
\* and it is the oldest (Handle, lines 266-280).
THEOREM SurvivorUnique == Spec => []OneSurvivor
<1>1. Inv => OneSurvivor
  <2> SUFFICES ASSUME Inv, NEW g \in DOMAIN pending, NEW h \in DOMAIN pending,
                      pending[h].installing, pending[g].src = pending[h].src
               PROVE  g = h \/ (g > h /\ ~pending[g].installing)
    BY DEF OneSurvivor
  <2>1. g \in Nat /\ h \in Nat
    BY PendingFacts, OriginFacts, Zenon DEF Inv
  <2>2. h = handed[pending[h].src] /\ g >= handed[pending[g].src]
        /\ (pending[g].installing <=> g = handed[pending[g].src])
    BY Zenon DEF Inv, PendingSound
  <2> QED
    BY <2>1, <2>2
<1> QED
  BY <1>1, Invariance, PTL

\* At most one unexpired session of a source is outstanding at the transport.
THEOREM OutstandingUnique == Spec => []OneOutstanding
<1>1. Inv => OneOutstanding
  BY SMTT(30) DEF Inv, OneOutstanding, SessionsSound, PendingSound
<1> QED
  BY <1>1, Invariance, PTL
=============================================================================
