-------------------------- MODULE AdmissionProofs --------------------------
(***************************************************************************)
(* What a server lets in.  Proofs of the properties of module Admission, for *)
(* every set of client processes and identities and every value of the     *)
(* limits, and of module Listener, for any number of ports, of listeners, of *)
(* connections and of calls of Accept.                                     *)
(***************************************************************************)
EXTENDS Admission, Listener, FiniteSetTheorems, TLAPS

-----------------------------------------------------------------------------
(***************************************************************************)
(* The admission of clients by the server.  Facts about maps first.        *)
(***************************************************************************)

\* What a map holds after an assignment.
LEMMA PutFacts ==
    ASSUME NEW f, NEW k, NEW v
    PROVE  /\ DOMAIN Put(f, k, v) = DOMAIN f \cup {k}
           /\ Put(f, k, v)[k] = v
           /\ \A x \in DOMAIN f : x # k => Put(f, k, v)[x] = f[x]
BY DEF Put

LEMMA PutType ==
    ASSUME NEW S, NEW f, f \in [DOMAIN f -> S], NEW k, NEW v \in S
    PROVE  Put(f, k, v) \in [DOMAIN Put(f, k, v) -> S]
BY DEF Put

\* What a map holds after deletions.
LEMMA WithoutFacts ==
    ASSUME NEW f, NEW K
    PROVE  /\ DOMAIN Without(f, K) = DOMAIN f \ K
           /\ \A x \in DOMAIN f \ K : Without(f, K)[x] = f[x]
BY DEF Without, Restrict

LEMMA WithoutType ==
    ASSUME NEW S, NEW f, f \in [DOMAIN f -> S], NEW K
    PROVE  Without(f, K) \in [DOMAIN Without(f, K) -> S]
BY DEF Without, Restrict

\* A new map.
LEMMA EmptyFacts == DOMAIN Empty = {} /\ \A S : Empty \in [DOMAIN Empty -> S]
BY DEF Empty

-----------------------------------------------------------------------------
(* Jobs: the sessions between the protocol and its answer.                 *)

JobsType ==
    /\ now \in Nat /\ authorized \subseteq Peer
    /\ work \subseteq Job
    /\ DOMAIN admissions \subseteq Source /\ admissions \in [DOMAIN admissions -> Job]
    /\ cancelled \subseteq DOMAIN admissions
    /\ life \in {"up", "closing", "stopped", "closed"}
    /\ issued \subseteq Nat /\ aborted \subseteq issued
    /\ DOMAIN answered \subseteq issued /\ answered \in [DOMAIN answered -> BOOLEAN]

\* An aborted session was refused, or waits, marked as cancelled.
AbortsTold ==
    \A p \in aborted : \/ p \in DOMAIN answered /\ ~answered[p]
                       \/ \E s \in cancelled : admissions[s].psk = p

JobsOK == JobsType /\ AnsweredOnce /\ JobsApart /\ AbortsTold

\* A live job has a number, a source, and a PSK that was handed out.
LEMMA LiveFacts ==
    ASSUME JobsOK
    PROVE  /\ \A j \in liveJobs :
                /\ j \in Job /\ j.src \in Source /\ j.psk \in issued
                /\ j.psk \in Nat /\ j.psk \notin DOMAIN answered
           /\ \A k \in DOMAIN admissions : admissions[k] \in liveJobs
           /\ work \subseteq liveJobs
BY DEF JobsOK, JobsType, AnsweredOnce, liveJobs, Job

\* Answering a job (Answer) leaves every earlier answer as it was.
LEMMA AnswerFacts ==
    ASSUME JobsOK, NEW j \in liveJobs, NEW ok \in BOOLEAN, Answer(j, ok)
    PROVE  /\ DOMAIN answered' = DOMAIN answered \cup {j.psk}
           /\ answered'[j.psk] = ok
           /\ \A p \in DOMAIN answered : answered'[p] = answered[p]
           /\ answered' \in [DOMAIN answered' -> BOOLEAN]
<1>1. j.psk \notin DOMAIN answered
  BY LiveFacts
<1>2. answered \in [DOMAIN answered -> BOOLEAN]
  BY DEF JobsOK, JobsType
<1> QED
  BY <1>1, <1>2 DEF Answer, Put

\* A session handed out by the protocol enters the worker's hands.
LEMMA BootstrapJobs ==
    ASSUME JobsOK, NEW s \in Source, NEW id \in Peer, NEW d \in Disco,
           NEW pinned \in BOOLEAN, NEW p, p = Cardinality(issued) + 1,
           Bootstrap(s, id, d, pinned, p)
    PROVE  JobsOK'
<1>1. IsFiniteSet(issued) /\ issued = 1..Cardinality(issued) /\ Cardinality(issued) \in Nat
  BY FS_CardinalityType DEF JobsOK, JobsApart
<1>2. p \notin issued /\ p \in Nat
  BY <1>1
<1>3. IsFiniteSet(issued') /\ Cardinality(issued') = p
  BY <1>1, <1>2, FS_AddElement, Zenon DEF Bootstrap
<1>4. issued' = 1..Cardinality(issued')
  <2>1. issued' = issued \cup {p}
    BY DEF Bootstrap
  <2> QED
    BY <1>1, <1>3, <2>1
<1>5. PICK j \in Job : work' = {j} /\ j.src = s /\ j.psk = p
  <2> DEFINE j == [src |-> s, psk |-> p, disco |-> d,
                   lease |-> [id |-> id, expires |-> now + Lifetime, pinned |-> pinned]]
  <2>1. now + Lifetime \in Nat
    BY AdmissionAssumption DEF JobsOK, JobsType
  <2>2. j \in Job
    BY <1>2, <2>1 DEF Job, Lease
  <2>3. work' = {j}
    BY DEF Bootstrap
  <2> QED
    BY <2>2, <2>3
<1>6. work = {} /\ s \notin DOMAIN admissions /\ life \in {"up", "closing"}
  BY DEF Bootstrap, Receives
<1>7. UNCHANGED <<now, authorized, admissions, cancelled, life, answered, aborted>>
  BY DEF Bootstrap
<1>8. liveJobs' = liveJobs \cup {j}
  BY <1>5, <1>6, <1>7 DEF liveJobs
<1>9. JobsType'
  BY <1>2, <1>5, <1>7 DEF JobsOK, JobsType, Bootstrap
<1>10. AnsweredOnce'
  BY <1>2, <1>5, <1>6, <1>7, <1>8 DEF JobsOK, JobsType, AnsweredOnce, Bootstrap
<1>11. JobsApart'
  <2>1. \A i \in liveJobs : i.psk # p
    BY <1>2, LiveFacts
  <2> QED
    BY <1>3, <1>4, <1>5, <1>6, <1>7, <1>8, <2>1 DEF JobsOK, JobsApart
<1> QED
  BY <1>7, <1>9, <1>10, <1>11 DEF JobsOK, AbortsTold

\* The worker answers the job in its hands.
LEMMA WorkSettled ==
    ASSUME JobsOK, NEW j \in work, NEW ok \in BOOLEAN, Answer(j, ok), work' = {},
           UNCHANGED <<now, authorized, admissions, cancelled, life, issued, aborted>>
    PROVE  JobsOK'
<1>1. j \in liveJobs
  BY LiveFacts
<1>2. /\ DOMAIN answered' = DOMAIN answered \cup {j.psk}
      /\ \A p \in DOMAIN answered : answered'[p] = answered[p]
      /\ answered' \in [DOMAIN answered' -> BOOLEAN]
  BY <1>1, AnswerFacts
<1>3. liveJobs' = liveJobs \ {j}
  BY DEF liveJobs, JobsOK, JobsApart
<1>4. \A i \in liveJobs \ {j} : i.psk # j.psk
  BY <1>1 DEF JobsOK, JobsApart
<1>5. JobsType'
  BY <1>1, <1>2, LiveFacts DEF JobsOK, JobsType
<1>6. AnsweredOnce'
  BY <1>1, <1>2, <1>3, <1>4 DEF JobsOK, AnsweredOnce
<1>7. JobsApart'
  BY <1>3 DEF JobsOK, JobsApart
<1>8. AbortsTold'
  BY <1>2 DEF JobsOK, AbortsTold
<1> QED
  BY <1>5, <1>6, <1>7, <1>8 DEF JobsOK

\* The worker answers a job whose hook returned; never with success when its
\* admission was cancelled.
LEMMA HookSettled ==
    ASSUME JobsOK, NEW s \in DOMAIN admissions, NEW ok \in BOOLEAN,
           Answer(admissions[s], ok), s \in cancelled => ~ok,
           admissions' = Without(admissions, {s}), cancelled' = cancelled \ {s},
           UNCHANGED <<now, authorized, work, life, issued, aborted>>
    PROVE  JobsOK'
<1> DEFINE j == admissions[s]
<1>1. j \in liveJobs
  BY LiveFacts
<1>2. /\ DOMAIN answered' = DOMAIN answered \cup {j.psk}
      /\ answered'[j.psk] = ok
      /\ \A p \in DOMAIN answered : answered'[p] = answered[p]
      /\ answered' \in [DOMAIN answered' -> BOOLEAN]
  BY <1>1, AnswerFacts
<1>3. /\ DOMAIN admissions' = DOMAIN admissions \ {s}
      /\ \A k \in DOMAIN admissions' : admissions'[k] = admissions[k]
      /\ admissions' \in [DOMAIN admissions' -> Job]
  BY DEF JobsOK, JobsType, Without, Restrict
<1>4. \A k \in DOMAIN admissions : admissions[k].src = k
  BY DEF JobsOK, JobsApart
<1>5. liveJobs' = liveJobs \ {j}
  <2>1. \A k \in DOMAIN admissions : k # s => admissions[k] # j
    BY <1>4
  <2>2. j \notin work
    BY <1>4 DEF JobsOK, JobsApart
  <2> QED
    BY <1>3, <2>1, <2>2 DEF liveJobs
<1>6. \A i \in liveJobs \ {j} : i.psk # j.psk
  BY <1>1 DEF JobsOK, JobsApart
<1>7. JobsType'
  BY <1>1, <1>2, <1>3, LiveFacts, Zenon DEF JobsOK, JobsType
<1>8. AnsweredOnce'
  BY <1>1, <1>2, <1>5, <1>6 DEF JobsOK, AnsweredOnce
<1>9. JobsApart'
  BY <1>3, <1>5, Zenon DEF JobsOK, JobsApart
<1>10. AbortsTold'
  <2> SUFFICES ASSUME NEW p \in aborted, ~(p \in DOMAIN answered /\ ~answered[p])
               PROVE  \/ p \in DOMAIN answered' /\ ~answered'[p]
                      \/ \E t \in cancelled' : admissions'[t].psk = p
    BY <1>2, Zenon DEF AbortsTold
  <2>1. PICK t \in cancelled : admissions[t].psk = p
    BY DEF JobsOK, AbortsTold
  <2>2. t \in DOMAIN admissions
    BY DEF JobsOK, JobsType
  <2> QED
    BY <1>2, <1>3, <2>1, <2>2, Zenon
<1> QED
  BY <1>7, <1>8, <1>9, <1>10 DEF JobsOK

\* The worker hands its job to a hook.
LEMMA HookStartedJobs ==
    ASSUME JobsOK, NEW j \in work, HookStarted(j)
    PROVE  JobsOK'
<1>1. j \in liveJobs /\ j \in Job /\ j.src \in Source /\ j.src \notin DOMAIN admissions
  BY LiveFacts DEF JobsOK, JobsApart
<1>2. /\ DOMAIN admissions' = DOMAIN admissions \cup {j.src}
      /\ admissions'[j.src] = j
      /\ \A k \in DOMAIN admissions : admissions'[k] = admissions[k]
      /\ admissions' \in [DOMAIN admissions' -> Job]
  BY <1>1 DEF JobsOK, JobsType, HookStarted, Put
<1>3. /\ work' = {}
      /\ UNCHANGED <<now, authorized, cancelled, life, issued, answered, aborted>>
  BY DEF HookStarted, historyVars
<1>4. liveJobs' = liveJobs
  BY <1>1, <1>2, <1>3 DEF liveJobs, JobsOK, JobsApart
<1>5. JobsType'
  BY <1>1, <1>2, <1>3 DEF JobsOK, JobsType
<1>6. AnsweredOnce' /\ JobsApart'
  BY <1>2, <1>3, <1>4 DEF JobsOK, AnsweredOnce, JobsApart
<1>7. AbortsTold'
  BY <1>2, <1>3 DEF JobsOK, JobsType, AbortsTold
<1> QED
  BY <1>5, <1>6, <1>7 DEF JobsOK

\* The worker returns and answers every hook still in flight.
LEMMA WorkerStoppedJobs ==
    ASSUME JobsOK, WorkerStopped
    PROVE  JobsOK'
<1>1. /\ DOMAIN answered' = DOMAIN answered \cup {j.psk : j \in liveJobs}
      /\ \A p \in DOMAIN answered : answered'[p] = answered[p]
      /\ \A p \in DOMAIN answered' \ DOMAIN answered : answered'[p] = FALSE
      /\ answered' \in [DOMAIN answered' -> BOOLEAN]
  BY Zenon DEF WorkerStopped, JobsOK, JobsType
<1>2. /\ work' = {} /\ DOMAIN admissions' = {} /\ cancelled' = {} /\ life' = "stopped"
      /\ admissions' \in [DOMAIN admissions' -> Job]
      /\ UNCHANGED <<now, authorized, issued, aborted>>
  BY EmptyFacts DEF WorkerStopped
<1>3. liveJobs' = {}
  BY <1>2 DEF liveJobs
<1>4. JobsType'
  BY <1>1, <1>2, LiveFacts DEF JobsOK, JobsType
<1>5. AnsweredOnce' /\ JobsApart'
  BY <1>1, <1>2, <1>3 DEF JobsOK, AnsweredOnce, JobsApart
<1>6. AbortsTold'
  <2> SUFFICES ASSUME NEW p \in aborted
               PROVE  p \in DOMAIN answered' /\ ~answered'[p]
    BY <1>2 DEF AbortsTold
  <2>1. CASE p \in DOMAIN answered
    <3>1. \A s \in cancelled : admissions[s].psk \notin DOMAIN answered
      BY LiveFacts DEF JobsOK, JobsType
    <3> QED
      BY <1>1, <2>1, <3>1 DEF JobsOK, AbortsTold
  <2>2. CASE p \notin DOMAIN answered
    BY <1>1, <2>2 DEF JobsOK, JobsType, AnsweredOnce
  <2> QED
    BY <2>1, <2>2
<1> QED
  BY <1>4, <1>5, <1>6 DEF JobsOK

\* DisconnectClient marks the admission in flight, and its session, as aborted.
LEMMA DisconnectJobs ==
    ASSUME JobsOK, NEW k \in Source, DisconnectClient(k)
    PROVE  JobsOK'
<1>1. /\ cancelled' = cancelled \cup ({k} \cap DOMAIN admissions)
      /\ aborted' = aborted \cup {admissions[s].psk : s \in {k} \cap DOMAIN admissions}
      /\ UNCHANGED <<now, authorized, work, admissions, life, issued, answered>>
  BY DEF DisconnectClient
<1>2. liveJobs' = liveJobs
  BY <1>1 DEF liveJobs
<1>3. JobsType'
  BY <1>1, LiveFacts DEF JobsOK, JobsType
<1>4. AnsweredOnce' /\ JobsApart'
  BY <1>1, <1>2 DEF JobsOK, AnsweredOnce, JobsApart
<1>5. AbortsTold'
  BY <1>1 DEF JobsOK, AbortsTold
<1> QED
  BY <1>3, <1>4, <1>5 DEF JobsOK

-----------------------------------------------------------------------------
(* Tables and routes of the admitted peers.                                *)

TablesType ==
    /\ DOMAIN peerPSKs \subseteq Source /\ peerPSKs \in [DOMAIN peerPSKs -> Nat]
    /\ DOMAIN peerValid \subseteq Source /\ peerValid \in [DOMAIN peerValid -> Lease]
    /\ DOMAIN peerOwners \subseteq Source /\ peerOwners \in [DOMAIN peerOwners -> Peer]
    /\ DOMAIN peerInstalled \subseteq Source /\ peerInstalled \in [DOMAIN peerInstalled -> Nat]
    /\ DOMAIN clients \subseteq Source
    /\ clients \in [DOMAIN clients -> [id : Nat, disco : Disco]]
    /\ nextClientID \in Nat /\ instant \in Nat
    /\ routes \subseteq Source /\ stuck \subseteq Source

TablesOK ==
    /\ TablesType /\ TablesAgree /\ RoutesFollowPeers /\ SessionsBounded
    /\ life = "closed" => DOMAIN peerPSKs = {}

\* No step takes an answer back.
AnswersKept == \A p \in DOMAIN answered : p \in DOMAIN answered' /\ answered'[p] = answered[p]

\* Steps that leave the tables and routes alone.
LEMMA TablesKept ==
    ASSUME TablesOK, UNCHANGED <<tableVars, routes, stuck>>, AnswersKept,
           life' = "closed" <=> life = "closed"
    PROVE  TablesOK'
<1>1. UNCHANGED <<peerPSKs, peerValid, peerOwners, peerInstalled, clients, nextClientID,
                  instant, routes, stuck>>
  BY DEF tableVars
<1>2. TablesType'
  BY <1>1 DEF TablesOK, TablesType
<1>3. TablesAgree' /\ RoutesFollowPeers'
  BY <1>1 DEF TablesOK, TablesAgree, RoutesFollowPeers, AnswersKept
<1>4. SessionsBounded'
  BY <1>1 DEF TablesOK, SessionsBounded, sessionsOf
<1> QED
  BY <1>1, <1>2, <1>3, <1>4 DEF TablesOK

\* Peers leave every table and their routes go with them (RemovePeers and
\* DeleteRoutes): eviction, roll-back, clean-up and disconnection.
LEMMA PeersRemoved ==
    ASSUME TablesOK, NEW K, RemovePeers(K), DeleteRoutes(K \cap DOMAIN clients),
           life' = life, AnswersKept,
           nextClientID' \in Nat, instant' \in Nat, instant <= instant'
    PROVE  TablesOK'
<1>1. /\ DOMAIN peerPSKs' = DOMAIN peerPSKs \ K
      /\ DOMAIN peerValid' = DOMAIN peerValid \ K
      /\ DOMAIN peerOwners' = DOMAIN peerOwners \ K
      /\ DOMAIN peerInstalled' = DOMAIN peerInstalled \ K
      /\ DOMAIN clients' = DOMAIN clients \ K
  BY WithoutFacts, Zenon DEF RemovePeers
<1>2. /\ \A k \in DOMAIN peerPSKs' : peerPSKs'[k] = peerPSKs[k]
      /\ \A k \in DOMAIN peerValid' : peerValid'[k] = peerValid[k]
      /\ \A k \in DOMAIN peerOwners' : peerOwners'[k] = peerOwners[k]
      /\ \A k \in DOMAIN peerInstalled' : peerInstalled'[k] = peerInstalled[k]
  BY <1>1 DEF RemovePeers, Without, Restrict
<1>3. PICK failed \in SUBSET (K \cap DOMAIN clients \cap routes) :
        /\ routes' = routes \ ((K \cap DOMAIN clients) \ failed)
        /\ stuck' = stuck \cup failed
  BY Zenon DEF DeleteRoutes
<1>4. TablesType'
  <2>1. /\ peerPSKs' \in [DOMAIN peerPSKs' -> Nat]
        /\ peerValid' \in [DOMAIN peerValid' -> Lease]
        /\ peerOwners' \in [DOMAIN peerOwners' -> Peer]
        /\ peerInstalled' \in [DOMAIN peerInstalled' -> Nat]
        /\ clients' \in [DOMAIN clients' -> [id : Nat, disco : Disco]]
    BY WithoutType, Zenon DEF RemovePeers, TablesOK, TablesType
  <2> QED
    BY <1>1, <1>3, <2>1 DEF TablesOK, TablesType
<1>5. TablesAgree'
  BY <1>1, <1>2 DEF TablesOK, TablesAgree, AnswersKept
<1>6. RoutesFollowPeers'
  BY <1>1, <1>3 DEF TablesOK, RoutesFollowPeers
<1>7. SessionsBounded'
  <2>1. IsFiniteSet(DOMAIN peerOwners')
    BY <1>1, FS_Subset DEF TablesOK, SessionsBounded
  <2>2. ASSUME NEW id \in Peer
        PROVE  Cardinality(sessionsOf(id)') <= MaxSessions
    <3>1. sessionsOf(id)' \subseteq sessionsOf(id)
      BY <1>1, <1>2 DEF sessionsOf
    <3>2. IsFiniteSet(sessionsOf(id)) /\ Cardinality(sessionsOf(id)) <= MaxSessions
      BY FS_Subset DEF TablesOK, SessionsBounded, sessionsOf
    <3>3. /\ IsFiniteSet(sessionsOf(id)')
          /\ Cardinality(sessionsOf(id)') <= Cardinality(sessionsOf(id))
      BY <3>1, <3>2, FS_Subset
    <3>4. /\ Cardinality(sessionsOf(id)') \in Nat /\ Cardinality(sessionsOf(id)) \in Nat
          /\ MaxSessions \in Nat
      BY <3>2, <3>3, FS_CardinalityType, AdmissionAssumption
    <3> QED
      BY <3>2, <3>3, <3>4
  <2>3. \A k \in DOMAIN peerInstalled' : peerInstalled'[k] <= instant'
    BY <1>1, <1>2 DEF TablesOK, TablesType, SessionsBounded
  <2> QED
    BY <1>1, <1>2, <2>1, <2>2, <2>3 DEF TablesOK, SessionsBounded
<1> QED
  BY <1>1, <1>4, <1>5, <1>6, <1>7 DEF TablesOK

\* A renewal replaces the PSK, the lease and the instant of one session.
LEMMA RenewedTables ==
    ASSUME TablesOK, JobsOK, NEW j \in liveJobs, Renewed(j), life' = life
    PROVE  TablesOK' /\ AnswersKept
<1>1. /\ life = "up" /\ j.src \in DOMAIN peerPSKs /\ peerOwners[j.src] = j.lease.id
      /\ UNCHANGED <<peerOwners, clients, nextClientID, routes, stuck>>
      /\ instant' = instant + 1
  BY DEF Renewed, Acceptable, Renewable
<1>2. j.psk \in Nat /\ j.lease \in Lease /\ j.src \in Source
  BY LiveFacts DEF Job
<1>3. /\ DOMAIN answered' = DOMAIN answered \cup {j.psk} /\ answered'[j.psk] = TRUE
      /\ \A p \in DOMAIN answered : answered'[p] = answered[p]
  BY AnswerFacts, Zenon DEF Renewed
<1>4. /\ DOMAIN peerPSKs' = DOMAIN peerPSKs /\ peerPSKs'[j.src] = j.psk
      /\ \A k \in DOMAIN peerPSKs : k # j.src => peerPSKs'[k] = peerPSKs[k]
      /\ peerPSKs' \in [DOMAIN peerPSKs' -> Nat]
  BY <1>1, <1>2 DEF Renewed, TablesOK, TablesType
<1>5. /\ DOMAIN peerValid' = DOMAIN peerValid \cup {j.src} /\ peerValid'[j.src] = j.lease
      /\ \A k \in DOMAIN peerValid : k # j.src => peerValid'[k] = peerValid[k]
      /\ peerValid' \in [DOMAIN peerValid' -> Lease]
  BY <1>2 DEF Renewed, TablesOK, TablesType, Put
<1>6. /\ DOMAIN peerInstalled' = DOMAIN peerInstalled \cup {j.src}
      /\ peerInstalled'[j.src] = instant + 1
      /\ \A k \in DOMAIN peerInstalled : k # j.src => peerInstalled'[k] = peerInstalled[k]
      /\ peerInstalled' \in [DOMAIN peerInstalled' -> Nat]
  BY <1>2 DEF Renewed, TablesOK, TablesType, Put
<1>7. AnswersKept
  BY <1>3 DEF AnswersKept
<1>8. TablesType'
  BY <1>1, <1>2, <1>4, <1>5, <1>6 DEF TablesOK, TablesType
<1>9. TablesAgree'
  BY <1>1, <1>3, <1>4, <1>5, <1>6 DEF TablesOK, TablesAgree
<1>10. RoutesFollowPeers'
  BY <1>1 DEF TablesOK, RoutesFollowPeers
<1>11. SessionsBounded'
  <2>1. \A id : sessionsOf(id)' = sessionsOf(id)
    BY <1>1 DEF sessionsOf
  <2>2. instant \in Nat /\ \A k \in DOMAIN peerInstalled : peerInstalled[k] \in Nat
    BY DEF TablesOK, TablesType
  <2>3. \A k \in DOMAIN peerInstalled' : peerInstalled'[k] <= instant'
    BY <1>1, <1>6, <2>2 DEF TablesOK, SessionsBounded
  <2>4. \A k, o \in DOMAIN peerInstalled' : peerInstalled'[k] = peerInstalled'[o] => k = o
    BY <1>6, <2>2 DEF TablesOK, SessionsBounded
  <2> QED
    BY <1>1, <2>1, <2>3, <2>4 DEF TablesOK, SessionsBounded
<1> QED
  BY <1>1, <1>4, <1>7, <1>8, <1>9, <1>10, <1>11 DEF TablesOK

\* Every set of numbers has a smallest one.
LEMMA Minimum ==
    ASSUME NEW S \in SUBSET Nat, S # {}
    PROVE  \E m \in S : \A n \in S : m <= n
<1> DEFINE Less == {p \in Nat \X Nat : p[1] < p[2]}
<1>1. IsWellFoundedOn(Less, Nat)
  BY NatLessThanWellFounded DEF OpToRel
<1> HIDE DEF Less
<1>2. PICK m \in S : \A n \in S : ~(<<n, m>> \in Less)
  BY <1>1, WFMin, Zenon
<1>3. \A n \in S : n \in Nat /\ m \in Nat /\ ~(n < m)
  BY <1>2, Zenon DEF Less
<1> QED
  BY <1>3

\* What an admission evicts: nothing below the identity's limit, and at the
\* limit exactly one session, the identity's own that was installed or renewed
\* longest ago.
LEMMA EvictedFacts ==
    ASSUME TablesOK, life # "closed", NEW j \in Job
    PROVE  LET own == sessionsOf(j.lease.id) IN
           /\ IsFiniteSet(own) /\ Cardinality(own) \in Nat /\ Cardinality(own) <= MaxSessions
           /\ own \subseteq DOMAIN clients
           /\ Cardinality(own) < MaxSessions => evicted(j) = {}
           /\ ~(Cardinality(own) < MaxSessions) =>
                /\ Cardinality(own) = MaxSessions
                /\ \E e \in own :
                     /\ evicted(j) = {e}
                     /\ \A o \in own \ {e} : peerInstalled[e] < peerInstalled[o]
<1> DEFINE own == sessionsOf(j.lease.id)
<1>1. j.lease.id \in Peer /\ MaxSessions \in Nat /\ MaxSessions > 0
  BY AdmissionAssumption DEF Job, Lease
<1>2. own \subseteq DOMAIN peerOwners /\ DOMAIN peerOwners = DOMAIN clients
      /\ DOMAIN peerInstalled = DOMAIN clients
  BY DEF sessionsOf, TablesOK, TablesAgree
<1>3. IsFiniteSet(own) /\ Cardinality(own) \in Nat /\ Cardinality(own) <= MaxSessions
  BY <1>1, <1>2, FS_Subset, FS_CardinalityType DEF TablesOK, SessionsBounded
<1>4. Cardinality(own) < MaxSessions => evicted(j) = {}
  BY <1>1, <1>3 DEF evicted
<1>5. ASSUME ~(Cardinality(own) < MaxSessions)
      PROVE  /\ Cardinality(own) = MaxSessions
             /\ \E e \in own :
                  /\ evicted(j) = {e}
                  /\ \A o \in own \ {e} : peerInstalled[e] < peerInstalled[o]
  <2>1. Cardinality(own) = MaxSessions /\ own # {}
    BY <1>1, <1>3, <1>5, FS_EmptySet
  <2>2. \A o \in own : o \in DOMAIN peerInstalled /\ peerInstalled[o] \in Nat
    BY <1>2 DEF TablesOK, TablesType
  <2>3. PICK e \in own : \A o \in own : peerInstalled[e] <= peerInstalled[o]
    <3> DEFINE times == {peerInstalled[o] : o \in own}
    <3>1. times \in SUBSET Nat /\ times # {}
      BY <2>1, <2>2
    <3>2. PICK m \in times : \A n \in times : m <= n
      BY <3>1, Minimum, Zenon
    <3> QED
      BY <3>2
  <2>4. \A o \in own \ {e} : peerInstalled[e] < peerInstalled[o]
    BY <2>2, <2>3 DEF TablesOK, SessionsBounded
  <2>5. evicted(j) = {e}
    <3>1. evicted(j) = oldestSessionForIdentity(j.lease.id)
      BY <1>1, <1>3, <1>5 DEF evicted
    <3> QED
      BY <2>2, <2>3, <2>4, <3>1 DEF oldestSessionForIdentity
  <2> QED
    BY <2>1, <2>4, <2>5
<1> QED
  BY <1>2, <1>3, <1>4, <1>5

\* The tables after an admission: the evicted session is gone from all of them
\* and the new one is in all of them.
LEMMA AdmittedFacts ==
    ASSUME TablesOK, JobsOK, NEW j \in liveJobs, Admitted(j)
    PROVE  LET kept == DOMAIN clients \ evicted(j) IN
           /\ life = "up" /\ j.src \notin DOMAIN clients
           /\ DOMAIN peerPSKs' = kept \cup {j.src} /\ DOMAIN peerValid' = kept \cup {j.src}
           /\ DOMAIN peerOwners' = kept \cup {j.src}
           /\ DOMAIN peerInstalled' = kept \cup {j.src}
           /\ DOMAIN clients' = kept \cup {j.src}
           /\ peerPSKs'[j.src] = j.psk /\ peerValid'[j.src] = j.lease
           /\ peerOwners'[j.src] = j.lease.id /\ peerInstalled'[j.src] = instant + 1
           /\ \A k \in kept :
                /\ peerPSKs'[k] = peerPSKs[k] /\ peerValid'[k] = peerValid[k]
                /\ peerOwners'[k] = peerOwners[k] /\ peerInstalled'[k] = peerInstalled[k]
                /\ clients'[k] = clients[k]
<1> DEFINE E == evicted(j)
           kept == DOMAIN clients \ E
<1>1. life = "up" /\ j.src \notin DOMAIN peerPSKs
  BY DEF Admitted, Unknown, Acceptable
<1>2. /\ DOMAIN peerPSKs = DOMAIN clients /\ DOMAIN peerValid = DOMAIN clients
      /\ DOMAIN peerOwners = DOMAIN clients /\ DOMAIN peerInstalled = DOMAIN clients
  BY <1>1 DEF TablesOK, TablesAgree
<1>3. /\ peerPSKs' = Put(Without(peerPSKs, E), j.src, j.psk)
      /\ peerValid' = Put(Without(peerValid, E), j.src, j.lease)
      /\ peerOwners' = Put(Without(peerOwners, E), j.src, j.lease.id)
      /\ peerInstalled' = Put(Without(peerInstalled, E), j.src, instant + 1)
      /\ clients' = Put(Without(clients, E), j.src, [id |-> nextClientID, disco |-> j.disco])
  <2>1. j.src \notin DOMAIN Without(clients, E)
    BY <1>1, <1>2 DEF Without, Restrict
  <2> QED
    BY <2>1 DEF Admitted, addClientLocked
<1> HIDE DEF E
<1>4. /\ DOMAIN peerPSKs' = kept \cup {j.src} /\ peerPSKs'[j.src] = j.psk
      /\ \A k \in kept : peerPSKs'[k] = peerPSKs[k]
  BY <1>1, <1>2, <1>3, Zenon DEF Put, Without, Restrict
<1>5. /\ DOMAIN peerValid' = kept \cup {j.src} /\ peerValid'[j.src] = j.lease
      /\ \A k \in kept : peerValid'[k] = peerValid[k]
  BY <1>1, <1>2, <1>3 DEF Put, Without, Restrict
<1>6. /\ DOMAIN peerOwners' = kept \cup {j.src} /\ peerOwners'[j.src] = j.lease.id
      /\ \A k \in kept : peerOwners'[k] = peerOwners[k]
  BY <1>1, <1>2, <1>3 DEF Put, Without, Restrict
<1>7. /\ DOMAIN peerInstalled' = kept \cup {j.src} /\ peerInstalled'[j.src] = instant + 1
      /\ \A k \in kept : peerInstalled'[k] = peerInstalled[k]
  BY <1>1, <1>2, <1>3 DEF Put, Without, Restrict
<1>8. DOMAIN clients' = kept \cup {j.src} /\ \A k \in kept : clients'[k] = clients[k]
  BY <1>1, <1>2, <1>3 DEF Put, Without, Restrict
<1> QED
  BY <1>1, <1>2, <1>4, <1>5, <1>6, <1>7, <1>8, Zenon DEF E

\* An admission keeps the tables in step and the identity within its limit.
LEMMA AdmittedTables ==
    ASSUME TablesOK, JobsOK, NEW j \in liveJobs, Admitted(j), life' = life
    PROVE  TablesOK' /\ AnswersKept
<1> DEFINE E == evicted(j)
           own == sessionsOf(j.lease.id)
           kept == DOMAIN clients \ E
<1>1. /\ j \in Job /\ j.psk \in Nat /\ j.lease \in Lease /\ j.src \in Source
      /\ j.disco \in Disco /\ j.lease.id \in Peer
  BY LiveFacts DEF Job, Lease
<1>2. /\ life = "up" /\ j.src \notin DOMAIN clients
      /\ DOMAIN peerPSKs' = kept \cup {j.src} /\ DOMAIN peerValid' = kept \cup {j.src}
      /\ DOMAIN peerOwners' = kept \cup {j.src}
      /\ DOMAIN peerInstalled' = kept \cup {j.src}
      /\ DOMAIN clients' = kept \cup {j.src}
      /\ peerPSKs'[j.src] = j.psk /\ peerValid'[j.src] = j.lease
      /\ peerOwners'[j.src] = j.lease.id /\ peerInstalled'[j.src] = instant + 1
  BY AdmittedFacts, Zenon
<1>3. \A k \in kept :
        /\ peerPSKs'[k] = peerPSKs[k] /\ peerValid'[k] = peerValid[k]
        /\ peerOwners'[k] = peerOwners[k] /\ peerInstalled'[k] = peerInstalled[k]
  BY AdmittedFacts, Zenon
<1>4. /\ DOMAIN peerPSKs = DOMAIN clients /\ DOMAIN peerValid = DOMAIN clients
      /\ DOMAIN peerOwners = DOMAIN clients /\ DOMAIN peerInstalled = DOMAIN clients
      /\ \A k \in DOMAIN clients :
           /\ peerValid[k].id = peerOwners[k]
           /\ peerPSKs[k] \in DOMAIN answered /\ answered[peerPSKs[k]]
  BY <1>2 DEF TablesOK, TablesAgree
<1>5. /\ DOMAIN answered' = DOMAIN answered \cup {j.psk} /\ answered'[j.psk] = TRUE
      /\ \A p \in DOMAIN answered : answered'[p] = answered[p]
  BY AnswerFacts, Zenon DEF Admitted
<1>6. PICK failed \in SUBSET (E \cap routes) :
         /\ routes' = (routes \ (E \ failed)) \cup {j.src}
         /\ stuck' = (stuck \cup failed) \ {j.src}
  BY Zenon DEF Admitted
<1>7. instant' = instant + 1 /\ instant \in Nat /\ nextClientID' \in Nat
  BY DEF Admitted, nextID, TablesOK, TablesType
<1>8. IsFiniteSet(own) /\ own \subseteq DOMAIN clients /\ E \subseteq own
  BY <1>1, <1>2, EvictedFacts, Zenon DEF evicted
<1>9. AnswersKept
  BY <1>5 DEF AnswersKept
<1>10. TablesType'
  <2>1. /\ peerPSKs' \in [DOMAIN peerPSKs' -> Nat]
        /\ peerValid' \in [DOMAIN peerValid' -> Lease]
        /\ peerOwners' \in [DOMAIN peerOwners' -> Peer]
    BY <1>1, PutType, WithoutType, Zenon DEF Admitted, TablesOK, TablesType
  <2>2. instant + 1 \in Nat /\ [id |-> nextClientID, disco |-> j.disco] \in [id : Nat, disco : Disco]
    BY <1>1, <1>7 DEF TablesOK, TablesType
  <2>3. /\ peerInstalled' \in [DOMAIN peerInstalled' -> Nat]
        /\ clients' \in [DOMAIN clients' -> [id : Nat, disco : Disco]]
    BY <2>2, PutType, WithoutType, Zenon DEF Admitted, addClientLocked, TablesOK, TablesType
  <2>4. routes' \subseteq Source /\ stuck' \subseteq Source
    BY <1>1, <1>6 DEF TablesOK, TablesType
  <2>5. kept \cup {j.src} \subseteq Source
    BY <1>1 DEF TablesOK, TablesType
  <2> QED
    BY <1>2, <1>7, <2>1, <2>3, <2>4, <2>5 DEF TablesType
<1>11. TablesAgree'
  BY <1>2, <1>3, <1>4, <1>5 DEF TablesAgree
<1>12. RoutesFollowPeers'
  BY <1>2, <1>6, <1>8 DEF TablesOK, RoutesFollowPeers
<1>13. SessionsBounded'
  <2>1. IsFiniteSet(DOMAIN peerOwners')
    <3>1. IsFiniteSet(DOMAIN peerOwners)
      BY DEF TablesOK, SessionsBounded
    <3>2. IsFiniteSet(kept)
      BY <1>4, <3>1, FS_Subset
    <3> QED
      BY <1>2, <3>2, FS_AddElement
  <2>2. ASSUME NEW id \in Peer
        PROVE  Cardinality(sessionsOf(id)') <= MaxSessions
    <3>1. CASE id # j.lease.id
      <4>1. sessionsOf(id)' \subseteq sessionsOf(id)
        BY <1>2, <1>3, <1>4, <3>1 DEF sessionsOf
      <4>2. IsFiniteSet(sessionsOf(id)) /\ Cardinality(sessionsOf(id)) <= MaxSessions
        BY FS_Subset DEF TablesOK, SessionsBounded, sessionsOf
      <4>3. /\ Cardinality(sessionsOf(id)') \in Nat /\ Cardinality(sessionsOf(id)) \in Nat
            /\ Cardinality(sessionsOf(id)') <= Cardinality(sessionsOf(id))
            /\ MaxSessions \in Nat
        BY <4>1, <4>2, FS_Subset, FS_CardinalityType, AdmissionAssumption
      <4> QED
        BY <4>2, <4>3
    <3>2. CASE id = j.lease.id
      <4>1. sessionsOf(id)' = (own \ E) \cup {j.src}
        BY <1>2, <1>3, <1>4, <3>2 DEF sessionsOf
      <4>2. CASE Cardinality(own) < MaxSessions
        <5>1. E = {} /\ Cardinality(own) \in Nat /\ MaxSessions \in Nat
          BY <1>1, <1>2, <4>2, EvictedFacts, AdmissionAssumption, Zenon
        <5>2. sessionsOf(id)' = own \cup {j.src} /\ j.src \notin own
          BY <1>2, <1>8, <4>1, <5>1
        <5>3. Cardinality(own \cup {j.src}) = Cardinality(own) + 1
          BY <1>8, <5>2, FS_AddElement, Zenon
        <5> QED
          BY <4>2, <5>1, <5>2, <5>3
      <4>3. CASE ~(Cardinality(own) < MaxSessions)
        <5>1. PICK e \in own : E = {e}
          BY <1>1, <1>2, <4>3, EvictedFacts
        <5>2. Cardinality(own) = MaxSessions /\ MaxSessions \in Nat
          BY <1>1, <1>2, <4>3, EvictedFacts, AdmissionAssumption
        <5>3. IsFiniteSet(own \ {e}) /\ Cardinality(own \ {e}) = MaxSessions - 1
          BY <1>8, <5>1, <5>2, FS_RemoveElement
        <5>4. sessionsOf(id)' = (own \ {e}) \cup {j.src} /\ j.src \notin own \ {e}
          BY <1>2, <1>8, <4>1, <5>1
        <5>5. Cardinality(sessionsOf(id)') = MaxSessions - 1 + 1
          BY <5>3, <5>4, FS_AddElement
        <5> QED
          BY <5>2, <5>5
      <4> QED
        BY <4>2, <4>3
    <3> QED
      BY <3>1, <3>2
  <2>3. \A k \in DOMAIN clients : peerInstalled[k] \in Nat /\ peerInstalled[k] <= instant
    BY <1>4 DEF TablesOK, TablesType, SessionsBounded
  <2>4. \A k \in DOMAIN peerInstalled' : peerInstalled'[k] <= instant'
    BY <1>2, <1>3, <1>7, <2>3
  <2>5. \A k, o \in DOMAIN peerInstalled' : peerInstalled'[k] = peerInstalled'[o] => k = o
    BY <1>2, <1>3, <1>4, <1>7, <2>3 DEF TablesOK, SessionsBounded
  <2> QED
    BY <1>2, <2>1, <2>2, <2>4, <2>5 DEF SessionsBounded
<1> QED
  BY <1>2, <1>9, <1>10, <1>11, <1>12, <1>13 DEF TablesOK

\* Whatever completeBootstrapLocked decides, it answers the job and leaves the
\* tables in step.
LEMMA CompleteTables ==
    ASSUME TablesOK, JobsOK, NEW j \in liveJobs, completeBootstrapLocked(j), life' = life
    PROVE  TablesOK' /\ AnswersKept /\ \E ok \in BOOLEAN : Answer(j, ok)
<1>1. ASSUME NEW ok \in BOOLEAN, Answer(j, ok)
      PROVE  AnswersKept
  BY <1>1, AnswerFacts, Zenon DEF AnswersKept
<1>2. CASE Refused(j)
  <2>1. Answer(j, FALSE) /\ AnswersKept /\ UNCHANGED <<tableVars, routes, stuck>>
    BY <1>1, <1>2, Zenon DEF Refused
  <2> QED
    BY <2>1, TablesKept, Zenon
<1>3. CASE Renewed(j)
  <2>1. Answer(j, TRUE)
    BY <1>3, Zenon DEF Renewed
  <2> QED
    BY <1>3, <2>1, RenewedTables, Zenon
<1>4. j \in Job /\ nextClientID \in Nat /\ instant \in Nat
  BY LiveFacts DEF TablesOK, TablesType
<1>5. Unknown(j) => /\ j.src \notin DOMAIN clients
                    /\ evicted(j) \subseteq DOMAIN clients
  <2>1. Unknown(j) => life # "closed" /\ j.src \notin DOMAIN clients
    BY DEF Unknown, Acceptable, TablesOK, TablesAgree
  <2> QED
    BY <1>4, <2>1, EvictedFacts DEF evicted, oldestSessionForIdentity
<1>6. CASE OverCapacity(j)
  <2>1. /\ Answer(j, FALSE) /\ AnswersKept /\ RemovePeers(evicted(j))
        /\ DeleteRoutes(evicted(j)) /\ UNCHANGED <<nextClientID, instant>>
    BY <1>1, <1>6, Zenon DEF OverCapacity
  <2>2. evicted(j) \cap DOMAIN clients = evicted(j)
    BY <1>5, <1>6 DEF OverCapacity
  <2>3. DeleteRoutes(evicted(j) \cap DOMAIN clients)
    BY <2>1, <2>2
  <2>4. nextClientID' \in Nat /\ instant' \in Nat /\ instant <= instant'
    BY <1>4, <2>1
  <2> QED
    BY <2>1, <2>3, <2>4, PeersRemoved, Zenon
<1>7. CASE Admitted(j)
  <2>1. Answer(j, TRUE)
    BY <1>7, Zenon DEF Admitted
  <2> QED
    BY <1>7, <2>1, AdmittedTables, Zenon
<1>8. CASE RouteFailed(j)
  <2> DEFINE K == evicted(j) \cup {j.src}
  <2>1. /\ Answer(j, FALSE) /\ AnswersKept /\ RemovePeers(K) /\ DeleteRoutes(evicted(j))
        /\ nextClientID' = nextID(j) /\ instant' = instant + 1
    BY <1>1, <1>8, Zenon DEF RouteFailed
  <2>2. K \cap DOMAIN clients = evicted(j)
    BY <1>5, <1>8 DEF RouteFailed
  <2>3. DeleteRoutes(K \cap DOMAIN clients)
    BY <2>1, <2>2
  <2>4. nextClientID' \in Nat /\ instant' \in Nat /\ instant <= instant'
    BY <1>4, <2>1 DEF nextID
  <2> HIDE DEF K
  <2> QED
    BY <2>1, <2>3, <2>4, PeersRemoved, Zenon
<1> QED
  BY <1>2, <1>3, <1>6, <1>7, <1>8 DEF completeBootstrapLocked

-----------------------------------------------------------------------------
(* The inductive invariant.                                                *)

\* The invariant is what the jobs and the tables promise; that nothing aborted
\* is installed follows from both.
LEMMA InvParts == Inv <=> JobsOK /\ TablesOK
<1>1. Inv => JobsOK /\ TablesOK
  BY DEF Inv, AdmissionInv, TypeOK, JobsOK, JobsType, TablesOK, TablesType, AbortsTold, AbortsMarked
<1>2. ASSUME JobsOK, TablesOK
      PROVE  AbortedNotInstalled
  <2> SUFFICES ASSUME NEW p \in aborted
               PROVE  /\ p \in DOMAIN answered => ~answered[p]
                      /\ \A k \in DOMAIN peerPSKs : peerPSKs[k] # p
    BY DEF AbortedNotInstalled
  <2>1. p \in DOMAIN answered => ~answered[p]
    <3>1. \A s \in cancelled : admissions[s].psk \notin DOMAIN answered
      BY <1>2, LiveFacts DEF JobsOK, JobsType
    <3> QED
      BY <1>2, <3>1 DEF JobsOK, AbortsTold
  <2>2. \A k \in DOMAIN peerPSKs : peerPSKs[k] \in DOMAIN answered /\ answered[peerPSKs[k]]
    BY <1>2 DEF TablesOK, TablesAgree
  <2> QED
    BY <2>1, <2>2
<1>3. JobsOK /\ TablesOK => Inv
  BY <1>2 DEF Inv, AdmissionInv, TypeOK, JobsOK, JobsType, TablesOK, TablesType, AbortsTold,
              AbortsMarked
<1> QED
  BY <1>1, <1>3

LEMMA InvPartsNext == JobsOK' /\ TablesOK' => Inv'
BY InvParts, PTL

\* A server that starts has no sessions, no tables and no routes.
LEMMA InitInv == Init => Inv
<1> SUFFICES ASSUME Init PROVE JobsOK /\ TablesOK
  BY InvParts
<1>1. /\ work = {} /\ DOMAIN admissions = {} /\ cancelled = {} /\ aborted = {}
      /\ issued = {} /\ DOMAIN answered = {} /\ life = "up" /\ now = 0 /\ authorized = Peer
      /\ admissions \in [DOMAIN admissions -> Job]
      /\ answered \in [DOMAIN answered -> BOOLEAN]
  BY EmptyFacts DEF Init
<1>2. liveJobs = {}
  BY <1>1 DEF liveJobs
<1>3. IsFiniteSet({}) /\ Cardinality({}) = 0 /\ 1..0 = {}
  BY FS_EmptySet
<1>4. JobsOK
  BY <1>1, <1>2, <1>3 DEF JobsOK, JobsType, AnsweredOnce, JobsApart, AbortsTold
<1>5. /\ DOMAIN peerPSKs = {} /\ DOMAIN peerValid = {} /\ DOMAIN peerOwners = {}
      /\ DOMAIN peerInstalled = {} /\ DOMAIN clients = {}
      /\ routes = {} /\ stuck = {} /\ nextClientID = 2 /\ instant = 0
  BY EmptyFacts DEF Init
<1>6. /\ peerPSKs \in [DOMAIN peerPSKs -> Nat] /\ peerValid \in [DOMAIN peerValid -> Lease]
      /\ peerOwners \in [DOMAIN peerOwners -> Peer]
      /\ peerInstalled \in [DOMAIN peerInstalled -> Nat]
      /\ clients \in [DOMAIN clients -> [id : Nat, disco : Disco]]
  BY EmptyFacts, Zenon DEF Init
<1>7. SessionsBounded
  <2>1. \A id : sessionsOf(id) = {}
    BY <1>5 DEF sessionsOf
  <2>2. MaxSessions \in Nat
    BY AdmissionAssumption
  <2>3. \A id \in Peer : Cardinality(sessionsOf(id)) <= MaxSessions
    BY <1>3, <2>1, <2>2
  <2> QED
    BY <1>3, <1>5, <2>3 DEF SessionsBounded
<1>8. TablesOK
  BY <1>1, <1>5, <1>6, <1>7 DEF TablesOK, TablesType, TablesAgree, RoutesFollowPeers
<1> QED
  BY <1>4, <1>8

\* The worker's step with the job in its hands.
LEMMA DispatchInv ==
    ASSUME Inv, NEW j \in work, Dispatch(j)
    PROVE  Inv'
<1>1. JobsOK /\ TablesOK /\ j \in liveJobs
  BY InvParts, LiveFacts
<1>2. CASE HookRefused(j)
  <2>1. /\ Answer(j, FALSE) /\ work' = {} /\ life' = life
        /\ UNCHANGED <<tableVars, routes, stuck>>
        /\ UNCHANGED <<now, authorized, admissions, cancelled, life, issued, aborted>>
    BY <1>2, Zenon DEF HookRefused
  <2>2. JobsOK'
    BY <1>1, <2>1, WorkSettled, Zenon
  <2>3. AnswersKept
    BY <1>1, <2>1, AnswerFacts, Zenon DEF AnswersKept
  <2> QED
    BY <1>1, <2>1, <2>2, <2>3, TablesKept, InvPartsNext
<1>3. CASE HookStarted(j)
  <2>1. UNCHANGED <<tableVars, routes, stuck>> /\ life' = life /\ answered' = answered
    BY <1>3 DEF HookStarted, historyVars
  <2>2. AnswersKept
    BY <2>1 DEF AnswersKept
  <2> QED
    BY <1>1, <1>3, <2>1, <2>2, HookStartedJobs, TablesKept, InvPartsNext
<1>4. CASE Completed(j)
  <2>1. /\ completeBootstrapLocked(j) /\ work' = {} /\ life' = life
        /\ UNCHANGED <<now, authorized, admissions, cancelled, life, issued, aborted>>
    BY <1>4 DEF Completed
  <2>2. TablesOK' /\ \E ok \in BOOLEAN : Answer(j, ok)
    BY <1>1, <2>1, CompleteTables
  <2>3. JobsOK'
    BY <1>1, <2>1, <2>2, WorkSettled
  <2> QED
    BY <2>2, <2>3, InvPartsNext
<1> QED
  BY <1>2, <1>3, <1>4 DEF Dispatch

\* A hook returns, with or without leave.
LEMMA HookReturnedInv ==
    ASSUME Inv, NEW s \in DOMAIN admissions, HookAllowed(s) \/ HookDenied(s)
    PROVE  Inv'
<1>1. JobsOK /\ TablesOK /\ admissions[s] \in liveJobs
  BY InvParts, LiveFacts
<1>2. /\ admissions' = Without(admissions, {s}) /\ cancelled' = cancelled \ {s}
      /\ UNCHANGED <<now, authorized, work, life, issued, aborted>> /\ life' = life
  BY Zenon DEF HookAllowed, HookDenied, HookReturned
<1>3. CASE HookAllowed(s)
  <2>1. completeBootstrapLocked(admissions[s]) /\ s \notin cancelled
    BY <1>3 DEF HookAllowed
  <2>2. TablesOK' /\ \E ok \in BOOLEAN : Answer(admissions[s], ok)
    BY <1>1, <1>2, <2>1, CompleteTables
  <2>3. JobsOK'
    BY <1>1, <1>2, <2>1, <2>2, HookSettled
  <2> QED
    BY <2>2, <2>3, InvPartsNext
<1>4. CASE HookDenied(s)
  <2>1. Answer(admissions[s], FALSE) /\ UNCHANGED <<tableVars, routes, stuck>>
    BY <1>4, Zenon DEF HookDenied
  <2>2. AnswersKept
    BY <1>1, <2>1, AnswerFacts, Zenon DEF AnswersKept
  <2>3. JobsOK'
    BY <1>1, <1>2, <2>1, HookSettled, Zenon
  <2> QED
    BY <1>1, <1>2, <2>1, <2>2, <2>3, TablesKept, InvPartsNext
<1> QED
  BY <1>3, <1>4

\* Every step of the server keeps the invariant.
LEMMA NextInv == Inv /\ [Next]_vars => Inv'
<1> SUFFICES ASSUME Inv, [Next]_vars PROVE Inv'
  OBVIOUS
<1>1. JobsOK /\ TablesOK
  BY InvParts
<1>2. ASSUME UNCHANGED jobVars, UNCHANGED <<issued, answered, aborted>>, now' \in Nat,
             authorized' \subseteq Peer, life' \in {"up", "closing", "stopped", "closed"},
             life \in {"stopped", "closed"} <=> life' \in {"stopped", "closed"}
      PROVE  JobsOK' /\ AnswersKept
  <2>1. UNCHANGED <<work, admissions, cancelled>>
    BY <1>2 DEF jobVars
  <2>2. liveJobs' = liveJobs
    BY <2>1 DEF liveJobs
  <2>3. JobsType' /\ AnsweredOnce' /\ JobsApart' /\ AbortsTold'
    BY <1>1, <1>2, <2>1, <2>2 DEF JobsOK, JobsType, AnsweredOnce, JobsApart, AbortsTold
  <2> QED
    BY <1>2, <2>3 DEF JobsOK, AnswersKept
<1>3. now \in Nat /\ authorized \subseteq Peer /\ life \in {"up", "closing", "stopped", "closed"}
  BY <1>1 DEF JobsOK, JobsType
<1>4. nextClientID \in Nat /\ instant \in Nat
  BY <1>1 DEF TablesOK, TablesType
<1>5. ASSUME NEW s \in Source, NEW id \in Peer, NEW d \in Disco, NEW pinned \in BOOLEAN,
             Bootstrap(s, id, d, pinned, Cardinality(issued) + 1)
      PROVE  Inv'
  <2>1. JobsOK'
    BY <1>1, <1>5, BootstrapJobs
  <2>2. UNCHANGED <<tableVars, routes, stuck>> /\ life' = life /\ answered' = answered
    BY <1>5 DEF Bootstrap
  <2> QED
    BY <1>1, <2>1, <2>2, TablesKept, InvPartsNext DEF AnswersKept
<1>6. ASSUME NEW j \in work, Dispatch(j)
      PROVE  Inv'
  BY <1>6, DispatchInv
<1>7. ASSUME NEW s \in DOMAIN admissions, HookAllowed(s) \/ HookDenied(s)
      PROVE  Inv'
  BY <1>7, HookReturnedInv
<1>8. ASSUME NEW k \in Source, DisconnectClient(k)
      PROVE  Inv'
  <2>1. /\ RemovePeers({k}) /\ DeleteRoutes({k} \cap DOMAIN clients) /\ life' = life
        /\ UNCHANGED <<nextClientID, instant, answered>>
    BY <1>8 DEF DisconnectClient
  <2>2. AnswersKept /\ nextClientID' \in Nat /\ instant' \in Nat /\ instant <= instant'
    BY <1>4, <2>1 DEF AnswersKept
  <2>3. TablesOK'
    BY <1>1, <2>1, <2>2, PeersRemoved
  <2> QED
    BY <1>1, <1>8, <2>3, DisconnectJobs, InvPartsNext
<1>9. ASSUME NEW p \in Peer, Authorize(p)
      PROVE  Inv'
  <2>1. /\ UNCHANGED <<tableVars, routes, stuck>> /\ life' = life /\ UNCHANGED jobVars
        /\ UNCHANGED <<issued, answered, aborted>> /\ now' \in Nat /\ authorized' \subseteq Peer
    BY <1>3, <1>9 DEF Authorize, historyVars
  <2> QED
    BY <1>1, <1>2, <1>3, <2>1, TablesKept, InvPartsNext
<1>10. ASSUME Cleanup
       PROVE  Inv'
  <2>1. /\ RemovePeers(invalid) /\ DeleteRoutes(invalid) /\ UNCHANGED jobVars
        /\ life' = life /\ UNCHANGED <<nextClientID, instant, now, authorized>>
        /\ UNCHANGED <<issued, answered, aborted>> /\ life # "closed"
    BY <1>10 DEF Cleanup
  <2>2. JobsOK' /\ AnswersKept
    BY <1>2, <1>3, <2>1
  <2>3. invalid \cap DOMAIN clients = invalid
    BY <1>1, <2>1 DEF invalid, TablesOK, TablesAgree
  <2>4. DeleteRoutes(invalid \cap DOMAIN clients)
    BY <2>1, <2>3
  <2>5. nextClientID' \in Nat /\ instant' \in Nat /\ instant <= instant'
    BY <1>4, <2>1
  <2> QED
    BY <1>1, <2>1, <2>2, <2>4, <2>5, PeersRemoved, InvPartsNext
<1>11. ASSUME WorkerStopped
       PROVE  Inv'
  <2>1. UNCHANGED <<tableVars, routes, stuck>> /\ life' # "closed" /\ life # "closed"
    BY <1>11 DEF WorkerStopped
  <2>2. AnswersKept
    BY <1>11 DEF WorkerStopped, AnswersKept
  <2> QED
    BY <1>1, <1>11, <2>1, <2>2, WorkerStoppedJobs, TablesKept, InvPartsNext
<1>12. ASSUME Close
       PROVE  Inv'
  <2>1. /\ UNCHANGED <<tableVars, routes, stuck>> /\ UNCHANGED jobVars
        /\ UNCHANGED <<issued, answered, aborted>> /\ UNCHANGED <<now, authorized>>
        /\ life = "up" /\ life' = "closing"
    BY <1>12 DEF Close, historyVars
  <2>2. JobsOK' /\ AnswersKept
    BY <1>2, <1>3, <2>1
  <2> QED
    BY <1>1, <2>1, <2>2, TablesKept, InvPartsNext
<1>13. ASSUME Closed
       PROVE  Inv'
  <2>1. /\ life = "stopped" /\ life' = "closed" /\ peerPSKs' = Empty /\ DeleteRoutes(routes)
        /\ UNCHANGED jobVars /\ UNCHANGED <<issued, answered, aborted>>
        /\ UNCHANGED <<now, authorized>>
        /\ UNCHANGED <<peerValid, peerOwners, peerInstalled, clients, nextClientID, instant>>
    BY <1>13 DEF Closed
  <2>2. JobsOK'
    BY <1>2, <1>3, <2>1
  <2>3. PICK failed \in SUBSET (routes \cap routes) :
          routes' = routes \ (routes \ failed) /\ stuck' = stuck \cup failed
    BY <2>1, Zenon DEF DeleteRoutes
  <2>4. DOMAIN peerPSKs' = {} /\ peerPSKs' \in [DOMAIN peerPSKs' -> Nat]
    BY <2>1, EmptyFacts
  <2>5. TablesType'
    BY <1>1, <2>1, <2>3, <2>4 DEF TablesOK, TablesType
  <2>6. TablesAgree' /\ RoutesFollowPeers'
    BY <2>1, <2>3, Zenon DEF TablesAgree, RoutesFollowPeers
  <2>7. SessionsBounded'
    BY <1>1, <2>1 DEF TablesOK, SessionsBounded, sessionsOf
  <2> QED
    BY <2>2, <2>4, <2>5, <2>6, <2>7, InvPartsNext DEF TablesOK
<1>14. ASSUME Tick
       PROVE  Inv'
  <2>1. /\ UNCHANGED <<tableVars, routes, stuck>> /\ life' = life /\ UNCHANGED jobVars
        /\ UNCHANGED <<issued, answered, aborted>> /\ now' \in Nat /\ authorized' = authorized
    BY <1>3, <1>14 DEF Tick, historyVars
  <2>2. JobsOK' /\ AnswersKept
    BY <1>2, <1>3, <2>1
  <2> QED
    BY <1>1, <2>1, <2>2, TablesKept, InvPartsNext
<1>15. ASSUME UNCHANGED vars
       PROVE  Inv'
  <2>1. /\ UNCHANGED <<tableVars, routes, stuck>> /\ life' = life /\ UNCHANGED jobVars
        /\ UNCHANGED <<issued, answered, aborted>> /\ UNCHANGED <<now, authorized>>
    BY <1>15 DEF vars, historyVars
  <2>2. JobsOK' /\ AnswersKept
    BY <1>2, <1>3, <2>1
  <2> QED
    BY <1>1, <2>1, <2>2, TablesKept, InvPartsNext
<1> QED
  BY <1>5, <1>6, <1>7, <1>8, <1>9, <1>10, <1>11, <1>12, <1>13, <1>14, <1>15, Zenon DEF Next

\* Admission is sound: whatever the hooks answer and whoever is disconnected,
\* evicted or revoked meanwhile, the five tables, the routes and the answers
\* given to the protocol agree, and an aborted session is never installed.
THEOREM AdmissionSound == Spec => []AdmissionInv
<1>1. Inv => AdmissionInv
  BY DEF Inv
<1> QED
  BY InitInv, NextInv, <1>1, PTL DEF Spec

-----------------------------------------------------------------------------
(* What an admission may displace.                                         *)

\* Removing peers displaces nothing and changes no session that stays.
LEMMA RemovedKeep ==
    ASSUME NEW K, RemovePeers(K), DOMAIN clients \subseteq DOMAIN peerOwners
    PROVE  SessionKept /\ OwnDisplaced
<1>1. DOMAIN peerPSKs' \subseteq DOMAIN peerPSKs
  BY DEF RemovePeers, Without, Restrict
<1>2. SessionKept
  BY DEF SessionKept, RemovePeers, Without, Restrict
<1> QED
  BY <1>1, <1>2 DEF OwnDisplaced

\* Neither does a step that keeps the node table and admits nobody.
LEMMA UnchangedKeep ==
    ASSUME UNCHANGED <<clients, peerOwners>>, DOMAIN peerPSKs' \subseteq DOMAIN peerPSKs
    PROVE  SessionKept /\ OwnDisplaced
BY DEF SessionKept, OwnDisplaced

\* An admission displaces at most the oldest session of the same identity, and
\* only when that identity is at its limit.
LEMMA AdmittedKeep ==
    ASSUME JobsOK, TablesOK, NEW j \in liveJobs, Admitted(j)
    PROVE  SessionKept /\ OwnDisplaced
<1> DEFINE E == evicted(j)
           own == sessionsOf(j.lease.id)
           kept == DOMAIN clients \ E
<1>1. /\ life # "closed" /\ j.src \notin DOMAIN clients
      /\ DOMAIN peerPSKs' = kept \cup {j.src} /\ DOMAIN clients' = kept \cup {j.src}
      /\ peerOwners'[j.src] = j.lease.id
      /\ \A k \in kept : peerOwners'[k] = peerOwners[k] /\ clients'[k] = clients[k]
  BY AdmittedFacts, Zenon
<1>2. j \in Job /\ DOMAIN peerPSKs = DOMAIN clients /\ DOMAIN peerOwners = DOMAIN clients
  BY <1>1, LiveFacts DEF TablesOK, TablesAgree
<1>3. SessionKept
  BY <1>1, Zenon DEF SessionKept
<1>4. /\ IsFiniteSet(own) /\ Cardinality(own) \in Nat /\ own \subseteq DOMAIN clients
      /\ MaxSessions \in Nat /\ MaxPeers \in Nat
  BY <1>1, <1>2, EvictedFacts, AdmissionAssumption
<1>5. E \subseteq own /\ DOMAIN peerPSKs' \ DOMAIN peerPSKs = {j.src}
      /\ DOMAIN peerPSKs \ DOMAIN peerPSKs' = E
  <2>1. E \subseteq own
    BY DEF evicted, oldestSessionForIdentity
  <2> QED
    BY <1>1, <1>2, <1>4, <2>1
<1>6. /\ Cardinality(own) + 1 - Cardinality(E) <= MaxSessions
      /\ \A g \in E : /\ g \in own /\ Cardinality(own) = MaxSessions
                      /\ \A o \in own \ {g} : peerInstalled[g] < peerInstalled[o]
  <2>1. CASE Cardinality(own) < MaxSessions
    <3>1. E = {} /\ Cardinality(E) = 0
      BY <1>1, <1>2, <2>1, EvictedFacts, FS_EmptySet, Zenon
    <3>2. Cardinality(own) \in Nat /\ MaxSessions \in Nat
      BY <1>4, Zenon
    <3> HIDE DEF E, own
    <3>3. Cardinality(own) + 1 - Cardinality(E) <= MaxSessions
      BY <2>1, <3>1, <3>2
    <3> QED
      BY <3>1, <3>3, Zenon
  <2>2. CASE ~(Cardinality(own) < MaxSessions)
    <3>1. PICK e \in own : E = {e} /\ \A o \in own \ {e} : peerInstalled[e] < peerInstalled[o]
      BY <1>1, <1>2, <2>2, EvictedFacts, Zenon
    <3>2. Cardinality(own) = MaxSessions
      BY <1>1, <1>2, <2>2, EvictedFacts, Zenon
    <3>3. Cardinality(E) = 1
      BY <3>1, FS_Singleton, Zenon
    <3>4. Cardinality(own) \in Nat /\ MaxSessions \in Nat
      BY <1>4, Zenon
    <3> HIDE DEF E, own
    <3>5. Cardinality(own) + 1 - Cardinality(E) <= MaxSessions
      BY <3>2, <3>3, <3>4
    <3> QED
      BY <3>1, <3>2, <3>5, Zenon
  <2> QED
    BY <2>1, <2>2, Zenon
<1>7. Cardinality(DOMAIN peerPSKs') <= MaxPeers
  <2>1. IsFiniteSet(kept) /\ Cardinality(kept) \in Nat /\ j.src \notin kept
    BY <1>1, <1>2, FS_Subset, FS_CardinalityType, Zenon DEF TablesOK, SessionsBounded
  <2>2. Cardinality(kept) < MaxPeers
    BY <1>2, Zenon DEF Admitted, HasRoom
  <2>3. Cardinality(kept \cup {j.src}) = Cardinality(kept) + 1
    BY <2>1, FS_AddElement, Zenon
  <2>4. MaxPeers \in Nat /\ DOMAIN peerPSKs' = kept \cup {j.src}
    BY <1>1, <1>4, Zenon
  <2> HIDE DEF kept
  <2>5. Cardinality(kept) \in Nat
    BY <2>1, Zenon
  <2>6. Cardinality(kept) + 1 <= MaxPeers
    BY <2>2, <2>4, <2>5
  <2> QED
    BY <2>3, <2>4, <2>6, Zenon
<1> HIDE DEF E, own, kept
<1>8. OwnDisplaced
  BY <1>1, <1>5, <1>6, <1>7, Zenon DEF OwnDisplaced, own
<1> QED
  BY <1>3, <1>8

\* Whatever completeBootstrapLocked decides.
LEMMA CompleteKeep ==
    ASSUME JobsOK, TablesOK, NEW j \in liveJobs, completeBootstrapLocked(j)
    PROVE  SessionKept /\ OwnDisplaced
<1>1. DOMAIN clients \subseteq DOMAIN peerOwners
  BY DEF TablesOK, SessionsBounded
<1>2. CASE Refused(j)
  BY <1>2, UnchangedKeep DEF Refused, tableVars
<1>3. CASE Renewed(j)
  <2>1. UNCHANGED <<clients, peerOwners>> /\ DOMAIN peerPSKs' \subseteq DOMAIN peerPSKs
    BY <1>3 DEF Renewed
  <2> QED
    BY <2>1, UnchangedKeep
<1>4. CASE OverCapacity(j)
  <2>1. RemovePeers(evicted(j))
    BY <1>4 DEF OverCapacity
  <2> QED
    BY <1>1, <2>1, RemovedKeep
<1>5. CASE Admitted(j)
  BY <1>5, AdmittedKeep
<1>6. CASE RouteFailed(j)
  <2>1. RemovePeers(evicted(j) \cup {j.src})
    BY <1>6 DEF RouteFailed
  <2> QED
    BY <1>1, <2>1, RemovedKeep
<1> QED
  BY <1>2, <1>3, <1>4, <1>5, <1>6 DEF completeBootstrapLocked

\* No step lets one identity take over or push out a session of another.
LEMMA NextKeep == Inv /\ [Next]_vars => [SessionKept /\ OwnDisplaced]_vars
<1> SUFFICES ASSUME Inv, Next PROVE SessionKept /\ OwnDisplaced
  OBVIOUS
<1>1. JobsOK /\ TablesOK
  BY InvParts
<1>2. UNCHANGED tableVars => SessionKept /\ OwnDisplaced
  BY UnchangedKeep DEF tableVars
<1>3. DOMAIN clients \subseteq DOMAIN peerOwners
  BY <1>1 DEF TablesOK, SessionsBounded
<1>4. ASSUME NEW s \in Source, NEW id \in Peer, NEW d \in Disco, NEW pinned \in BOOLEAN,
             Bootstrap(s, id, d, pinned, Cardinality(issued) + 1)
      PROVE  SessionKept /\ OwnDisplaced
  BY <1>2, <1>4 DEF Bootstrap
<1>5. ASSUME NEW j \in work, Dispatch(j)
      PROVE  SessionKept /\ OwnDisplaced
  <2>1. CASE HookRefused(j) \/ HookStarted(j)
    BY <1>2, <2>1, Zenon DEF HookRefused, HookStarted
  <2>2. CASE Completed(j)
    BY <1>1, <2>2, LiveFacts, CompleteKeep DEF Completed
  <2> QED
    BY <1>5, <2>1, <2>2 DEF Dispatch
<1>6. ASSUME NEW s \in DOMAIN admissions, HookAllowed(s) \/ HookDenied(s)
      PROVE  SessionKept /\ OwnDisplaced
  <2>1. CASE HookAllowed(s)
    BY <1>1, <2>1, LiveFacts, CompleteKeep DEF HookAllowed
  <2>2. CASE HookDenied(s)
    BY <1>2, <2>2 DEF HookDenied
  <2> QED
    BY <1>6, <2>1, <2>2
<1>7. ASSUME NEW k \in Source, DisconnectClient(k)
      PROVE  SessionKept /\ OwnDisplaced
  BY <1>3, <1>7, RemovedKeep DEF DisconnectClient
<1>8. ASSUME NEW p \in Peer, Authorize(p)
      PROVE  SessionKept /\ OwnDisplaced
  BY <1>2, <1>8 DEF Authorize
<1>9. ASSUME Cleanup
      PROVE  SessionKept /\ OwnDisplaced
  <2>1. RemovePeers(invalid)
    BY <1>9 DEF Cleanup
  <2> QED
    BY <1>3, <2>1, RemovedKeep
<1>10. ASSUME WorkerStopped \/ Close \/ Tick
       PROVE  SessionKept /\ OwnDisplaced
  BY <1>2, <1>10, Zenon DEF WorkerStopped, Close, Tick
<1>11. ASSUME Closed
       PROVE  SessionKept /\ OwnDisplaced
  <2>1. UNCHANGED <<clients, peerOwners>> /\ DOMAIN peerPSKs' \subseteq DOMAIN peerPSKs
    BY <1>11, EmptyFacts DEF Closed
  <2> QED
    BY <2>1, UnchangedKeep
<1> QED
  BY <1>4, <1>5, <1>6, <1>7, <1>8, <1>9, <1>10, <1>11, Zenon DEF Next

\* No session is ever taken over or pushed out by another identity, for any
\* number of identities, sessions and peers and any interleaving of the worker,
\* hooks, disconnections, reloads and shutdown.
THEOREM TakeoverFree == Spec => NoTakeover
BY InitInv, NextInv, NextKeep, PTL DEF Spec, NoTakeover

-----------------------------------------------------------------------------
(***************************************************************************)
(* The listeners of a server.                                              *)
(***************************************************************************)
\* The ports that the table has a listener for are those of the open listeners.
LEMMA LPortsListened ==
    ASSUME ListenerTypeOK, TableExact, TableOpen
    PROVE  Listened(table) = {port[l] : l \in {k \in Listeners : state[k] = "open"}}
<1>1. ASSUME NEW p \in Listened(table)
      PROVE  p \in {port[l] : l \in {k \in Listeners : state[k] = "open"}}
  <2>1. /\ p \in Port /\ table[p] \in Listeners /\ state[table[p]] = "open" /\ port[table[p]] = p
    BY <1>1 DEF Listened, ListenerTypeOK, TableOpen
  <2> QED
    BY <2>1
<1>2. ASSUME NEW l \in Listeners, state[l] = "open"
      PROVE  port[l] \in Listened(table)
  BY <1>2, SMTT(30) DEF TableExact, Listened, Listeners, NoListener
<1> QED
  BY <1>1, <1>2

\* So the filter follows them if it is the one built from the table.
LEMMA LInvParts ==
    ListenerIInv <=> ListenerTypeOK /\ TableExact /\ TableOpen /\ LookedUp /\ FilterBuilt
BY LPortsListened DEF ListenerIInv, ListenerInv, FilterFollows, FilterBuilt, buildFilter

LEMMA LInvPartsNext ==
    ListenerTypeOK' /\ TableExact' /\ TableOpen' /\ LookedUp' /\ FilterBuilt' => ListenerIInv'
BY LInvParts, PTL

LEMMA LFilterType == \A t : buildFilter(t) \subseteq Port
BY ListenerAssumption DEF buildFilter, Served, Listened, Port

LEMMA LInitInv == ListenerInit => ListenerIInv
<1> SUFFICES ASSUME ListenerInit PROVE ListenerIInv
  OBVIOUS
<1>1. ListenerTypeOK
  <2>1. /\ state \in [Listeners -> {"none", "starting", "open", "closed"}]
        /\ port \in [Listeners -> Port \cup {NoPort}] /\ filter \subseteq Port
        /\ table \in [Port -> Listeners \cup {NoListener}]
    BY DEF ListenerInit
  <2>2. /\ conn \in [Conn -> {"none", "looked", "blocked", "accepted", "closed", "served", "reset"}]
        /\ to \in [Conn -> Listeners \cup {NoListener}]
        /\ accept \in [Acceptor -> {"idle", "waiting"}]
        /\ on \in [Acceptor -> Listeners \cup {NoListener}]
    BY DEF ListenerInit
  <2> QED
    BY <2>1, <2>2 DEF ListenerInit, ListenerTypeOK
<1>2. TableExact /\ TableOpen /\ LookedUp
  BY DEF ListenerInit, TableExact, TableOpen, LookedUp, Listeners, NoListener
<1> QED
  BY <1>1, <1>2, LInvParts DEF ListenerInit, FilterBuilt

\* The server starts, or has closed its backend.
LEMMA LServerInv ==
    ASSUME ListenerIInv, StartLocked \/ ServerClose
    PROVE  ListenerIInv'
<1>1. ListenerTypeOK /\ TableExact /\ TableOpen /\ LookedUp
  BY LInvParts
<1>2. /\ UNCHANGED <<state, port, table, conn, to, accept, on>>
      /\ server' \in {"running", "closed"} /\ filter' \subseteq Port
      /\ server' = "running" => filter' = buildFilter(table)
  BY <1>1, LFilterType DEF StartLocked, ServerClose, connVars, acceptVars, ListenerTypeOK
<1>3. ListenerTypeOK'
  BY <1>1, <1>2 DEF ListenerTypeOK
<1>4. TableExact' /\ TableOpen' /\ LookedUp'
  BY <1>1, <1>2 DEF TableExact, TableOpen, LookedUp
<1> QED
  BY <1>2, <1>3, <1>4, LInvPartsNext DEF FilterBuilt

\* Listen begins, or finds its port in use.
LEMMA LListenInv ==
    ASSUME ListenerIInv, NEW l \in Listeners, Listen(l) \/ InUse(l)
    PROVE  ListenerIInv'
<1>1. ListenerTypeOK /\ TableExact /\ TableOpen /\ LookedUp /\ FilterBuilt
  BY LInvParts
<1>2. /\ UNCHANGED <<server, port, table, filter, conn, to, accept, on>>
      /\ state[l] \in {"none", "starting"}
      /\ \E x \in {"none", "starting"} : state' = [state EXCEPT ![l] = x]
  BY DEF Listen, InUse, connVars, acceptVars
<1>3. /\ state' \in [Listeners -> {"none", "starting", "open", "closed"}]
      /\ state'[l] \in {"none", "starting"} /\ \A k \in Listeners : k # l => state'[k] = state[k]
  BY <1>1, <1>2 DEF ListenerTypeOK
<1>4. \A k \in Listeners : /\ state'[k] = "open" <=> state[k] = "open"
                           /\ state'[k] = "closed" <=> state[k] = "closed"
  BY <1>2, <1>3
<1>5. \A c \in Conn : conn[c] = "blocked" => state'[to[c]] = "open"
  BY <1>1, <1>4 DEF ListenerTypeOK, LookedUp
<1>6. \A a \in Acceptor : accept[a] = "waiting" => state'[on[a]] = "open"
  BY <1>1, <1>4 DEF ListenerTypeOK, LookedUp
<1>7. ListenerTypeOK'
  BY <1>1, <1>2, <1>3, <1>5, <1>6 DEF ListenerTypeOK
<1>8. TableExact' /\ TableOpen' /\ LookedUp'
  BY <1>1, <1>2, <1>4 DEF ListenerTypeOK, TableExact, TableOpen, LookedUp
<1> QED
  BY <1>1, <1>2, <1>7, <1>8, LInvPartsNext DEF FilterBuilt

\* A listener is registered, with the filter that admits its port.
LEMMA LRegisterInv ==
    ASSUME ListenerIInv, NEW l \in Listeners, NEW p \in Port, Register(l, p)
    PROVE  ListenerIInv'
<1>1. ListenerTypeOK /\ TableExact /\ TableOpen /\ LookedUp
  BY LInvParts
<1>2. /\ state[l] = "starting" /\ table[p] = NoListener
      /\ state' = [state EXCEPT ![l] = "open"] /\ port' = [port EXCEPT ![l] = p]
      /\ table' = [table EXCEPT ![p] = l] /\ filter' = buildFilter(table')
      /\ UNCHANGED <<server, conn, to, accept, on>>
  BY DEF Register, connVars, acceptVars
<1>3. /\ state' \in [Listeners -> {"none", "starting", "open", "closed"}]
      /\ state'[l] = "open" /\ \A k \in Listeners : k # l => state'[k] = state[k]
  BY <1>1, <1>2 DEF ListenerTypeOK
<1>4. /\ port' \in [Listeners -> Port \cup {NoPort}]
      /\ port'[l] = p /\ \A k \in Listeners : k # l => port'[k] = port[k]
  BY <1>1, <1>2 DEF ListenerTypeOK
<1>5. /\ table' \in [Port -> Listeners \cup {NoListener}]
      /\ table'[p] = l /\ \A q \in Port : q # p => table'[q] = table[q]
  BY <1>1, <1>2 DEF ListenerTypeOK
<1>6. \A q \in Port : table[q] # l
  BY <1>1, <1>2 DEF TableOpen, Listeners, NoListener
<1>7. ListenerTypeOK'
  <2>1. \A c \in Conn : conn'[c] = "blocked" => state'[to'[c]] = "open"
    BY <1>1, <1>2, <1>3 DEF ListenerTypeOK, LookedUp
  <2>2. \A a \in Acceptor : accept'[a] = "waiting" => state'[on'[a]] = "open"
    BY <1>1, <1>2, <1>3 DEF ListenerTypeOK, LookedUp
  <2>3. filter' \subseteq Port
    BY <1>2, LFilterType
  <2>4. /\ conn' \in [Conn -> {"none", "looked", "blocked", "accepted", "closed", "served", "reset"}]
        /\ to' \in [Conn -> Listeners \cup {NoListener}]
        /\ accept' \in [Acceptor -> {"idle", "waiting"}]
        /\ on' \in [Acceptor -> Listeners \cup {NoListener}]
        /\ server' \in {"new", "running", "closing", "closed"}
    BY <1>1, <1>2 DEF ListenerTypeOK
  <2> QED
    BY <1>3, <1>4, <1>5, <2>1, <2>2, <2>3, <2>4, Zenon DEF ListenerTypeOK
<1>8. TableExact'
  <2>1. ASSUME NEW k \in Listeners
        PROVE  state'[k] = "open" <=> \E q \in Port : table'[q] = k /\ port'[k] = q
    <3>1. CASE k = l
      BY <1>3, <1>4, <1>5, <3>1, Zenon
    <3>2. CASE k # l
      <4>1. \A q \in Port : table'[q] = k <=> table[q] = k
        BY <1>2, <1>5, <3>2 DEF Listeners, NoListener
      <4>2. state'[k] = state[k] /\ port'[k] = port[k]
        BY <1>3, <1>4, <3>2, Zenon
      <4>3. state[k] = "open" <=> \E q \in Port : table[q] = k /\ port[k] = q
        BY <1>1, Zenon DEF TableExact
      <4> QED
        BY <4>1, <4>2, <4>3, Zenon
    <3> QED
      BY <3>1, <3>2, Zenon
  <2> QED
    BY <2>1, Zenon DEF TableExact
<1>9. TableOpen'
  BY <1>1, <1>3, <1>4, <1>5, <1>6 DEF TableOpen, ListenerTypeOK
<1>10. LookedUp'
  BY <1>1, <1>2, <1>3, Zenon DEF LookedUp
<1> QED
  BY <1>2, <1>7, <1>8, <1>9, <1>10, LInvPartsNext DEF FilterBuilt

\* What closing the channels of the listeners ls does to those who wait.
LEMMA LReleased ==
    ASSUME ListenerTypeOK, LookedUp, NEW ls \in SUBSET Listeners, Release(ls)
    PROVE  /\ state' \in [Listeners -> {"none", "starting", "open", "closed"}]
           /\ \A k \in Listeners : state'[k] = IF k \in ls THEN "closed" ELSE state[k]
           /\ conn' \in [Conn -> {"none", "looked", "blocked", "accepted", "closed", "served", "reset"}]
           /\ accept' \in [Acceptor -> {"idle", "waiting"}]
           /\ on' \in [Acceptor -> Listeners \cup {NoListener}] /\ UNCHANGED <<port, to>>
           /\ \A c \in Conn : conn'[c] = "blocked" => state'[to'[c]] = "open"
           /\ \A a \in Acceptor : accept'[a] = "waiting" => state'[on'[a]] = "open"
           /\ LookedUp'
<1>1. /\ state' = [l \in Listeners |-> IF l \in ls THEN "closed" ELSE state[l]]
      /\ conn' = [c \in Conn |-> IF conn[c] = "blocked" /\ to[c] \in ls THEN "closed" ELSE conn[c]]
      /\ accept' = [a \in Acceptor |-> IF on[a] \in ls THEN "idle" ELSE accept[a]]
      /\ on' = [a \in Acceptor |-> IF on[a] \in ls THEN NoListener ELSE on[a]]
      /\ UNCHANGED <<port, to>>
  BY Zenon DEF Release
<1>2. state' \in [Listeners -> {"none", "starting", "open", "closed"}]
  BY <1>1 DEF ListenerTypeOK
<1>3. conn' \in [Conn -> {"none", "looked", "blocked", "accepted", "closed", "served", "reset"}]
  BY <1>1 DEF ListenerTypeOK
<1>4. /\ accept' \in [Acceptor -> {"idle", "waiting"}]
      /\ on' \in [Acceptor -> Listeners \cup {NoListener}]
  BY <1>1 DEF ListenerTypeOK
<1>5. ASSUME NEW c \in Conn
      PROVE  /\ conn'[c] = "blocked" => to'[c] \in Listeners /\ state'[to'[c]] = "open"
             /\ conn'[c] = "looked" => to'[c] \in Listeners /\ state'[to'[c]] \in {"open", "closed"}
  BY <1>1 DEF ListenerTypeOK, LookedUp
<1>6. ASSUME NEW a \in Acceptor, accept'[a] = "waiting"
      PROVE  on'[a] \in Listeners /\ state'[on'[a]] = "open"
  BY <1>1, <1>6 DEF ListenerTypeOK, LookedUp
<1> QED
  BY <1>1, <1>2, <1>3, <1>4, <1>5, <1>6, Zenon DEF LookedUp

\* A listener closes: its port is free, and the filter admits it no more.
LEMMA LCloseLockedInv ==
    ASSUME ListenerIInv, NEW l \in Listeners, CloseLocked(l)
    PROVE  ListenerIInv'
<1>1. ListenerTypeOK /\ TableExact /\ TableOpen /\ LookedUp
  BY LInvParts
<1>2. /\ state[l] = "open" /\ Release({l}) /\ table' = [table EXCEPT ![port[l]] = NoListener]
      /\ filter' = buildFilter(table') /\ UNCHANGED server
  BY Zenon DEF CloseLocked
<1>3. port[l] \in Port /\ table[port[l]] = l
  BY <1>1, <1>2, Zenon DEF TableExact
<1>4. /\ state' \in [Listeners -> {"none", "starting", "open", "closed"}]
      /\ \A k \in Listeners : state'[k] = IF k \in {l} THEN "closed" ELSE state[k]
      /\ conn' \in [Conn -> {"none", "looked", "blocked", "accepted", "closed", "served", "reset"}]
      /\ accept' \in [Acceptor -> {"idle", "waiting"}]
      /\ on' \in [Acceptor -> Listeners \cup {NoListener}] /\ UNCHANGED <<port, to>>
      /\ \A c \in Conn : conn'[c] = "blocked" => state'[to'[c]] = "open"
      /\ \A a \in Acceptor : accept'[a] = "waiting" => state'[on'[a]] = "open"
      /\ LookedUp'
  BY <1>1, <1>2, LReleased, Zenon
<1>5. /\ table' \in [Port -> Listeners \cup {NoListener}] /\ table'[port[l]] = NoListener
      /\ \A q \in Port : q # port[l] => table'[q] = table[q]
  BY <1>1, <1>2, <1>3 DEF ListenerTypeOK
<1>6. ListenerTypeOK'
  BY <1>1, <1>2, <1>4, <1>5, LFilterType, Zenon DEF ListenerTypeOK
<1>7. TableExact'
  <2>1. ASSUME NEW k \in Listeners
        PROVE  state'[k] = "open" <=> \E q \in Port : table'[q] = k /\ port'[k] = q
    <3>1. CASE k = l
      <4>1. state'[k] = "closed" /\ port'[k] = port[l] /\ k # NoListener
        BY <1>4, <3>1 DEF Listeners, NoListener
      <4> QED
        BY <1>5, <4>1, Zenon
    <3>2. CASE k # l
      <4>1. \A q \in Port : table'[q] = k <=> table[q] = k
        BY <1>3, <1>5, <3>2 DEF Listeners, NoListener
      <4> QED
        BY <1>1, <1>4, <3>2, <4>1 DEF TableExact
    <3> QED
      BY <3>1, <3>2, Zenon
  <2> QED
    BY <2>1, Zenon DEF TableExact
<1>8. TableOpen'
  <2>1. ASSUME NEW p \in Port, table'[p] # NoListener
        PROVE  state'[table'[p]] = "open" /\ port'[table'[p]] = p
    <3>1. p # port[l] /\ table'[p] = table[p] /\ table[p] \in Listeners
      BY <1>1, <1>5, <2>1 DEF ListenerTypeOK
    <3>2. state[table[p]] = "open" /\ port[table[p]] = p /\ table[p] # l
      BY <1>1, <2>1, <3>1, Zenon DEF TableOpen
    <3> QED
      BY <1>4, <3>1, <3>2, Zenon
  <2> QED
    BY <2>1, Zenon DEF TableOpen
<1> QED
  BY <1>2, <1>4, <1>6, <1>7, <1>8, LInvPartsNext, Zenon DEF FilterBuilt

\* Server.Close closes what is registered, which is all that is open.
LEMMA LCloseListenersInv ==
    ASSUME ListenerIInv, CloseListeners
    PROVE  ListenerIInv'
<1>1. ListenerTypeOK /\ TableExact /\ TableOpen /\ LookedUp
  BY LInvParts
<1> DEFINE ls == {table[p] : p \in Listened(table)}
<1>2. /\ server' = "closing" /\ Release(ls) /\ table' = [p \in Port |-> NoListener]
      /\ UNCHANGED filter
  BY Zenon DEF CloseListeners
<1>3. ls \in SUBSET Listeners
  BY <1>1 DEF Listened, ListenerTypeOK
<1>4. \A k \in Listeners : state[k] = "open" => k \in ls
  BY <1>1, SMTT(30) DEF TableExact, Listened, Listeners, NoListener
<1> HIDE DEF ls
<1>5. /\ state' \in [Listeners -> {"none", "starting", "open", "closed"}]
      /\ \A k \in Listeners : state'[k] = IF k \in ls THEN "closed" ELSE state[k]
      /\ conn' \in [Conn -> {"none", "looked", "blocked", "accepted", "closed", "served", "reset"}]
      /\ accept' \in [Acceptor -> {"idle", "waiting"}]
      /\ on' \in [Acceptor -> Listeners \cup {NoListener}] /\ UNCHANGED <<port, to>>
      /\ \A c \in Conn : conn'[c] = "blocked" => state'[to'[c]] = "open"
      /\ \A a \in Acceptor : accept'[a] = "waiting" => state'[on'[a]] = "open"
      /\ LookedUp'
  BY <1>1, <1>2, <1>3, LReleased, Zenon
<1>6. /\ table' \in [Port -> Listeners \cup {NoListener}]
      /\ \A p \in Port : table'[p] = NoListener
  BY <1>2
<1>7. ListenerTypeOK'
  BY <1>1, <1>2, <1>5, <1>6 DEF ListenerTypeOK
<1>8. TableExact' /\ TableOpen'
  BY <1>4, <1>5, <1>6 DEF TableExact, TableOpen, Listeners, NoListener
<1> QED
  BY <1>2, <1>5, <1>7, <1>8, LInvPartsNext, Zenon DEF FilterBuilt

\* A step of a connection or of an Accept call, at listeners that stay as
\* they are.
LEMMA LWaitersInv ==
    ASSUME ListenerIInv, UNCHANGED <<server, state, port, table, filter>>,
           conn' \in [Conn -> {"none", "looked", "blocked", "accepted", "closed", "served", "reset"}],
           to' \in [Conn -> Listeners \cup {NoListener}],
           accept' \in [Acceptor -> {"idle", "waiting"}],
           on' \in [Acceptor -> Listeners \cup {NoListener}],
           \A c \in Conn :
             /\ conn'[c] = "blocked" => to'[c] \in Listeners /\ state[to'[c]] = "open"
             /\ conn'[c] = "looked" => to'[c] \in Listeners /\ state[to'[c]] \in {"open", "closed"},
           \A a \in Acceptor : accept'[a] = "waiting" => on'[a] \in Listeners /\ state[on'[a]] = "open"
    PROVE  ListenerIInv'
<1>1. ListenerTypeOK /\ TableExact /\ TableOpen /\ LookedUp /\ FilterBuilt
  BY LInvParts
<1>2. ListenerTypeOK'
  BY <1>1 DEF ListenerTypeOK
<1>3. TableExact' /\ TableOpen' /\ FilterBuilt'
  BY <1>1, Zenon DEF TableExact, TableOpen, FilterBuilt
<1>4. LookedUp'
  BY DEF LookedUp
<1> QED
  BY <1>2, <1>3, <1>4, LInvPartsNext

\* A connection arrives and looks its listener up.
LEMMA LArriveInv ==
    ASSUME ListenerIInv, NEW c \in Conn, NEW p \in Port, Arrive(c, p)
    PROVE  ListenerIInv'
<1>1. ListenerTypeOK /\ TableOpen /\ LookedUp
  BY LInvParts
<1> DEFINE x == IF table[p] # NoListener THEN "looked"
                ELSE IF p \in Served THEN "served" ELSE "reset"
<1>2. /\ conn' = [conn EXCEPT ![c] = x] /\ to' = [to EXCEPT ![c] = table[p]]
      /\ UNCHANGED <<server, state, port, table, filter, accept, on>>
  BY DEF Arrive, acceptVars
<1>3. /\ x \in {"looked", "served", "reset"} /\ table[p] \in Listeners \cup {NoListener}
      /\ x = "looked" => table[p] \in Listeners /\ state[table[p]] = "open"
  BY <1>1 DEF ListenerTypeOK, TableOpen
<1> HIDE DEF x
<1>4. /\ conn' \in [Conn -> {"none", "looked", "blocked", "accepted", "closed", "served", "reset"}]
      /\ conn'[c] = x /\ \A d \in Conn : d # c => conn'[d] = conn[d]
  BY <1>1, <1>2, <1>3 DEF ListenerTypeOK
<1>5. /\ to' \in [Conn -> Listeners \cup {NoListener}]
      /\ to'[c] = table[p] /\ \A d \in Conn : d # c => to'[d] = to[d]
  BY <1>1, <1>2, <1>3 DEF ListenerTypeOK
<1>6. \A d \in Conn :
        /\ conn'[d] = "blocked" => to'[d] \in Listeners /\ state[to'[d]] = "open"
        /\ conn'[d] = "looked" => to'[d] \in Listeners /\ state[to'[d]] \in {"open", "closed"}
  BY <1>1, <1>3, <1>4, <1>5 DEF ListenerTypeOK, LookedUp
<1>7. /\ accept' \in [Acceptor -> {"idle", "waiting"}]
      /\ on' \in [Acceptor -> Listeners \cup {NoListener}]
      /\ \A a \in Acceptor : accept'[a] = "waiting" => on'[a] \in Listeners /\ state[on'[a]] = "open"
  BY <1>1, <1>2 DEF ListenerTypeOK, LookedUp
<1> QED
  BY <1>2, <1>4, <1>5, <1>6, <1>7, LWaitersInv, Zenon

\* The handler of a connection and an Accept call meet.
LEMMA LHandleInv ==
    ASSUME ListenerIInv, NEW c \in Conn, NEW a \in Acceptor,
           HandleGiven(c, a) \/ AcceptTaken(a, c)
    PROVE  ListenerIInv'
<1>1. ListenerTypeOK /\ LookedUp
  BY LInvParts
<1>2. UNCHANGED <<server, state, port, table, filter, to>>
  BY Zenon DEF HandleGiven, AcceptTaken
<1>3. conn' = [conn EXCEPT ![c] = "accepted"]
  BY Zenon DEF HandleGiven, AcceptTaken
<1>4. /\ conn' \in [Conn -> {"none", "looked", "blocked", "accepted", "closed", "served", "reset"}]
      /\ conn'[c] = "accepted" /\ \A d \in Conn : d # c => conn'[d] = conn[d]
  BY <1>1, <1>3 DEF ListenerTypeOK
<1>5. \A d \in Conn :
        /\ conn'[d] = "blocked" => to'[d] \in Listeners /\ state[to'[d]] = "open"
        /\ conn'[d] = "looked" => to'[d] \in Listeners /\ state[to'[d]] \in {"open", "closed"}
  BY <1>1, <1>2, <1>4 DEF ListenerTypeOK, LookedUp
<1>6. /\ accept' \in [Acceptor -> {"idle", "waiting"}]
      /\ on' \in [Acceptor -> Listeners \cup {NoListener}]
      /\ \A b \in Acceptor : accept'[b] = "waiting" => accept[b] = "waiting" /\ on'[b] = on[b]
  BY <1>1 DEF HandleGiven, AcceptTaken, ListenerTypeOK, acceptVars
<1>7. \A b \in Acceptor : accept'[b] = "waiting" => on'[b] \in Listeners /\ state[on'[b]] = "open"
  BY <1>1, <1>6 DEF ListenerTypeOK, LookedUp
<1>8. to' \in [Conn -> Listeners \cup {NoListener}]
  BY <1>1, <1>2 DEF ListenerTypeOK
<1> QED
  BY <1>2, <1>4, <1>5, <1>6, <1>7, <1>8, LWaitersInv, Zenon

\* A handler finds no Accept call: it blocks, or its listener is closed.
LEMMA LHandleBlocksInv ==
    ASSUME ListenerIInv, NEW c \in Conn, HandleBlocks(c)
    PROVE  ListenerIInv'
<1>1. ListenerTypeOK /\ LookedUp
  BY LInvParts
<1>2. /\ UNCHANGED <<server, state, port, table, filter, to, accept, on>> /\ conn[c] = "looked"
      /\ conn' = [conn EXCEPT ![c] = IF state[to[c]] = "closed" THEN "closed" ELSE "blocked"]
  BY Zenon DEF HandleBlocks, acceptVars
<1>3. /\ conn' \in [Conn -> {"none", "looked", "blocked", "accepted", "closed", "served", "reset"}]
      /\ conn'[c] \in {"closed", "blocked"}
      /\ conn'[c] = "blocked" => state[to[c]] # "closed"
      /\ \A d \in Conn : d # c => conn'[d] = conn[d]
  BY <1>1, <1>2 DEF ListenerTypeOK
<1>4. conn'[c] = "blocked" => to[c] \in Listeners /\ state[to[c]] = "open"
  BY <1>1, <1>2, <1>3, Zenon DEF LookedUp
<1>5. \A d \in Conn :
        /\ conn'[d] = "blocked" => to'[d] \in Listeners /\ state[to'[d]] = "open"
        /\ conn'[d] = "looked" => to'[d] \in Listeners /\ state[to'[d]] \in {"open", "closed"}
  BY <1>1, <1>2, <1>3, <1>4 DEF ListenerTypeOK, LookedUp
<1>6. /\ accept' \in [Acceptor -> {"idle", "waiting"}]
      /\ on' \in [Acceptor -> Listeners \cup {NoListener}]
      /\ to' \in [Conn -> Listeners \cup {NoListener}]
      /\ \A b \in Acceptor : accept'[b] = "waiting" => on'[b] \in Listeners /\ state[on'[b]] = "open"
  BY <1>1, <1>2 DEF ListenerTypeOK, LookedUp
<1> QED
  BY <1>2, <1>3, <1>5, <1>6, LWaitersInv

LEMMA LAcceptInv ==
    ASSUME ListenerIInv, NEW a \in Acceptor,
           AcceptCancelled(a) \/ \E l \in Listeners : AcceptWaits(a, l)
    PROVE  ListenerIInv'
<1>1. ListenerTypeOK /\ LookedUp
  BY LInvParts
<1>2. UNCHANGED <<server, state, port, table, filter, conn, to>>
  BY Zenon DEF AcceptCancelled, AcceptWaits, connVars
<1>3. /\ accept' \in [Acceptor -> {"idle", "waiting"}]
      /\ on' \in [Acceptor -> Listeners \cup {NoListener}]
      /\ \A b \in Acceptor : b # a => accept'[b] = accept[b] /\ on'[b] = on[b]
      /\ accept'[a] = "waiting" => on'[a] \in Listeners /\ state[on'[a]] = "open"
  BY <1>1 DEF AcceptCancelled, AcceptWaits, ListenerTypeOK
<1>4. \A b \in Acceptor : accept'[b] = "waiting" => on'[b] \in Listeners /\ state[on'[b]] = "open"
  BY <1>1, <1>3 DEF ListenerTypeOK, LookedUp
<1>5. /\ conn' \in [Conn -> {"none", "looked", "blocked", "accepted", "closed", "served", "reset"}]
      /\ to' \in [Conn -> Listeners \cup {NoListener}]
      /\ \A d \in Conn :
           /\ conn'[d] = "blocked" => to'[d] \in Listeners /\ state[to'[d]] = "open"
           /\ conn'[d] = "looked" => to'[d] \in Listeners /\ state[to'[d]] \in {"open", "closed"}
  BY <1>1, <1>2 DEF ListenerTypeOK, LookedUp
<1> QED
  BY <1>2, <1>3, <1>4, <1>5, LWaitersInv, Zenon

LEMMA LNextInv == ListenerIInv /\ [ListenerNext]_listenerVars => ListenerIInv'
<1> SUFFICES ASSUME ListenerIInv, [ListenerNext]_listenerVars PROVE ListenerIInv'
  OBVIOUS
<1>1. CASE UNCHANGED listenerVars
  <2>1. ListenerTypeOK /\ TableExact /\ TableOpen /\ LookedUp /\ FilterBuilt
    BY LInvParts
  <2>2. ListenerTypeOK' /\ TableExact' /\ TableOpen' /\ LookedUp' /\ FilterBuilt'
    <3>1. UNCHANGED <<server, state, port, table, filter, conn, to, accept, on>>
      BY <1>1, Zenon DEF listenerVars
    <3>2. ListenerTypeOK'
      BY <2>1, <3>1, Zenon DEF ListenerTypeOK
    <3>3. TableExact' /\ TableOpen'
      BY <2>1, <3>1, Zenon DEF TableExact, TableOpen
    <3>4. LookedUp' /\ FilterBuilt'
      BY <2>1, <3>1, Zenon DEF LookedUp, FilterBuilt
    <3> QED
      BY <3>2, <3>3, <3>4, Zenon
  <2> QED
    BY <2>2, LInvPartsNext
<1> QED
  BY <1>1, LServerInv, LListenInv, LRegisterInv, LCloseLockedInv, LCloseListenersInv, LArriveInv, LHandleInv,
     LHandleBlocksInv, LAcceptInv DEF ListenerNext, Handle

\* Any number of listeners opened and closed while connections arrive: the
\* table names exactly the open ones, the packet filter admits their ports and
\* the served ones and no other, and nobody waits at a closed listener.
THEOREM ListenerSound == ListenerSpec => []ListenerInv
<1>1. ListenerIInv => ListenerInv
  BY DEF ListenerIInv
<1> QED
  BY <1>1, LInitInv, LNextInv, PTL DEF ListenerSpec
=============================================================================
