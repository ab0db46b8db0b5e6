-------------------------- MODULE TransportProofs --------------------------
(***************************************************************************)
(* Proofs of the properties of module Transport: the composed server       *)
(* implements the handshake and the agreement on PSKs, for every set of    *)
(* client processes and identities and every value of the limits.          *)
(***************************************************************************)
EXTENDS HandshakeProofs, Transport

-----------------------------------------------------------------------------
(* What a step of one half leaves alone in the other.                      *)

\* Transcripts are only ever added.
OriginGrows == \A h \in DOMAIN origin : h \in DOMAIN origin' /\ origin'[h] = origin[h]

\* The protocol neither hands out a session nor learns of its installation.
Quiet == UNCHANGED <<sessions, handed, installed>> /\ OriginGrows

\* Sessions of the server end, and no other begins.
Shrinks ==
    \A k \in DOMAIN peerPSKs' : k \in DOMAIN peerPSKs /\ peerPSKs'[k] = peerPSKs[k]

\* The server's session for the source of j now uses the PSK of j.
Installs(j) ==
    /\ j.src \in DOMAIN peerPSKs' /\ peerPSKs'[j.src] = j.psk
    /\ \A k \in DOMAIN peerPSKs' : k # j.src => k \in DOMAIN peerPSKs /\ peerPSKs'[k] = peerPSKs[k]

\* The worker answers the job j.
Settles(j, ok) ==
    /\ InstallResult(j.psk, ok) /\ answered' = Put(answered, j.psk, ok)
    /\ (ok => Installs(j)) /\ (~ok => Shrinks)
    /\ work' = {}
    /\ \A k \in DOMAIN admissions' :
         /\ k \in DOMAIN admissions /\ admissions'[k] = admissions[k]
         /\ admissions[k].psk # j.psk

\* Appending a transcript keeps the others.
LEMMA Appended ==
    ASSUME TypeOK, NEW o, origin' = Append(origin, o)
    PROVE  OriginGrows /\ DOMAIN origin' = DOMAIN origin \cup {Len(origin) + 1}
           /\ origin'[Len(origin) + 1] = o
<1>1. origin \in Seq(Origin)
  BY DEF TypeOK
<1> QED
  BY <1>1 DEF OriginGrows

\* A ClientHello leaves the sessions alone.
LEMMA HelloQuiet ==
    ASSUME TypeOK, NEW m, HandleHello(m)
    PROVE  Quiet /\ UNCHANGED clientVars
<1>1. UNCHANGED <<sessions, handed, installed, clientVars>>
  BY Zenon DEF HandleHello, HelloStale, HelloRefused, HelloOverloaded, HelloReplayed, HelloFailed,
     HelloEncapsulated, Dropped
<1>2. OriginGrows
  <2>1. CASE HelloEncapsulated(m)
    <3>1. PICK o : origin' = Append(origin, o)
      BY <2>1 DEF HelloEncapsulated
    <3> QED
      BY <3>1, Appended
  <2>2. CASE ~HelloEncapsulated(m)
    <3>1. origin' = origin
      BY <2>2, Zenon DEF HandleHello, HelloStale, HelloRefused, HelloOverloaded, HelloReplayed,
         HelloFailed, Dropped
    <3> QED
      BY <3>1 DEF OriginGrows
  <2> QED
    BY <2>1, <2>2
<1> QED
  BY <1>1, <1>2 DEF Quiet

\* Any step that keeps these variables is quiet.
LEMMA QuietSame ==
    ASSUME UNCHANGED <<sessions, handed, installed, origin>>
    PROVE  Quiet
BY DEF Quiet, OriginGrows

-----------------------------------------------------------------------------
(* How the worker answers a job.                                           *)

\* A live job is an outstanding session of its source.
LEMMA JobFacts ==
    ASSUME TInv, NEW j \in A!liveJobs
    PROVE  /\ j.psk \in sessions /\ j.psk \notin DOMAIN answered
           /\ origin[j.psk].src = j.src /\ j.psk = handed[j.src]
           /\ j.psk \in DOMAIN origin /\ j.psk \in Nat /\ j.src \in Source
<1>1. /\ j.psk \in sessions /\ j.psk \notin DOMAIN answered
      /\ origin[j.psk].src = j.src /\ j.psk = handed[j.src]
  BY Zenon DEF TInv, JobsHanded
<1>2. j.psk \in DOMAIN origin /\ TypeOK
  BY <1>1, Zenon DEF TInv, Inv, TypeOK
<1> QED
  BY <1>1, <1>2, OriginFacts, Zenon

\* The jobs are those in the worker's hands and those whose hook is in flight.
LEMMA LiveJobs ==
    /\ \A j \in work : j \in A!liveJobs
    /\ \A k \in DOMAIN admissions : admissions[k] \in A!liveJobs
BY DEF A!liveJobs

\* The two records of an answer (bootstrapAdmission.finish): what it does to
\* the sessions depends on what it says.
LEMMA AnswerFacts ==
    ASSUME NEW j, NEW ok \in BOOLEAN, A!Answer(j, ok), ok => Installs(j), ~ok => Shrinks
    PROVE  \E b \in BOOLEAN : answered' = Put(answered, j.psk, b)
                              /\ (b => Installs(j)) /\ (~b => Shrinks)
<1>1. answered' = Put(answered, j.psk, ok)
  BY DEF A!Answer, A!Put, Put
<1> QED
  BY <1>1, Zenon

\* Removing peers begins no session.
LEMMA Removed ==
    ASSUME NEW K, A!RemovePeers(K)
    PROVE  Shrinks
BY DEF A!RemovePeers, Shrinks, A!Without, A!Restrict

\* completeBootstrapLocked answers its job; on success the session uses the
\* job's PSK, otherwise no session of the server has changed its PSK.
LEMMA CompleteFacts ==
    ASSUME NEW j, A!completeBootstrapLocked(j)
    PROVE  \E ok \in BOOLEAN : answered' = Put(answered, j.psk, ok)
                               /\ (ok => Installs(j)) /\ (~ok => Shrinks)
<1>1. CASE A!Refused(j)
  <2>1. Shrinks /\ A!Answer(j, FALSE)
    BY <1>1, Zenon DEF A!Refused, A!tableVars, Shrinks
  <2> QED
    BY <2>1, AnswerFacts, Zenon
<1>2. CASE A!Renewed(j)
  <2>1. Installs(j) /\ A!Answer(j, TRUE)
    BY <1>2, Zenon DEF A!Renewed, Installs
  <2> QED
    BY <2>1, AnswerFacts, Zenon
<1>3. CASE A!OverCapacity(j)
  <2>1. A!RemovePeers(A!evicted(j)) /\ A!Answer(j, FALSE)
    BY <1>3, Zenon DEF A!OverCapacity
  <2> QED
    BY <2>1, AnswerFacts, Removed, Zenon
<1>4. CASE A!Admitted(j)
  <2>1. peerPSKs' = A!Put(A!Without(peerPSKs, A!evicted(j)), j.src, j.psk) /\ A!Answer(j, TRUE)
    BY <1>4, Zenon DEF A!Admitted
  <2>2. Installs(j)
    BY <2>1 DEF Installs, A!Put, A!Without, A!Restrict
  <2> QED
    BY <2>1, <2>2, AnswerFacts, Zenon
<1>5. CASE A!RouteFailed(j)
  <2>1. A!RemovePeers(A!evicted(j) \cup {j.src}) /\ A!Answer(j, FALSE)
    BY <1>5, Zenon DEF A!RouteFailed
  <2> QED
    BY <2>1, AnswerFacts, Removed, Zenon
<1> QED
  BY <1>1, <1>2, <1>3, <1>4, <1>5 DEF A!completeBootstrapLocked

\* What Installed is told is the recorded answer.
LEMMA ToldFacts ==
    ASSUME NEW j, NEW ok, answered' = Put(answered, j.psk, ok), InstallResult(j.psk, answered'[j.psk])
    PROVE  InstallResult(j.psk, ok)
<1>1. answered'[j.psk] = ok
  BY DEF Put
<1> QED
  BY <1>1, Zenon

\* The worker's own answer to the job in its hands.
LEMMA DispatchSettles ==
    ASSUME TInv, NEW j \in work, A!HookRefused(j) \/ A!Completed(j),
           InstallResult(j.psk, answered'[j.psk])
    PROVE  \E ok \in BOOLEAN : Settles(j, ok)
<1>1. \E ok \in BOOLEAN : answered' = Put(answered, j.psk, ok)
                          /\ (ok => Installs(j)) /\ (~ok => Shrinks)
  <2>1. CASE A!HookRefused(j)
    <3>1. Shrinks /\ A!Answer(j, FALSE)
      BY <2>1, Zenon DEF A!HookRefused, A!tableVars, Shrinks
    <3> QED
      BY <3>1, AnswerFacts, Zenon
  <2>2. CASE A!Completed(j)
    BY <2>2, CompleteFacts, Zenon DEF A!Completed
  <2> QED
    BY <2>1, <2>2
<1>2. work' = {} /\ admissions' = admissions
  BY Zenon DEF A!HookRefused, A!Completed
<1>3. ASSUME NEW k \in DOMAIN admissions PROVE admissions[k].psk # j.psk
  <2>1. /\ origin[j.psk].src = j.src /\ origin[admissions[k].psk].src = admissions[k].src
    BY LiveJobs, JobFacts, Zenon
  <2>2. admissions[k].src = k /\ j.src \notin DOMAIN admissions
    BY Zenon DEF TInv, JobsHanded
  <2> QED
    BY <2>1, <2>2, Zenon
<1>4. PICK ok \in BOOLEAN : answered' = Put(answered, j.psk, ok)
                           /\ (ok => Installs(j)) /\ (~ok => Shrinks)
  BY <1>1, Zenon
<1>5. InstallResult(j.psk, ok)
  BY <1>4, ToldFacts, Zenon
<1>6. Settles(j, ok)
  BY <1>2, <1>3, <1>4, <1>5, Zenon DEF Settles
<1> QED
  BY <1>6, Zenon

\* The answer to the job whose hook has returned.
LEMMA HookSettles ==
    ASSUME TInv, NEW s \in DOMAIN admissions, HookReturned(s)
    PROVE  \E ok \in BOOLEAN : Settles(admissions[s], ok)
<1> DEFINE j == admissions[s]
<1>1. InstallResult(j.psk, answered'[j.psk]) /\ (A!HookAllowed(s) \/ A!HookDenied(s))
  BY Zenon DEF HookReturned
<1>2. \E ok \in BOOLEAN : answered' = Put(answered, j.psk, ok)
                          /\ (ok => Installs(j)) /\ (~ok => Shrinks)
  <2>1. CASE A!HookAllowed(s)
    BY <2>1, CompleteFacts, Zenon DEF A!HookAllowed
  <2>2. CASE A!HookDenied(s)
    <3>1. Shrinks /\ A!Answer(j, FALSE)
      BY <2>2, Zenon DEF A!HookDenied, A!tableVars, Shrinks
    <3> QED
      BY <3>1, AnswerFacts, Zenon
  <2> QED
    BY <1>1, <2>1, <2>2
<1>3. A!HookReturned(s)
  BY <1>1, Zenon DEF A!HookAllowed, A!HookDenied
<1>4. work' = {} /\ admissions' = A!Without(admissions, {s})
  BY <1>3 DEF A!HookReturned
<1>5. ASSUME NEW k \in DOMAIN admissions'
      PROVE  /\ k \in DOMAIN admissions /\ admissions'[k] = admissions[k]
             /\ admissions[k].psk # j.psk
  <2>1. k \in DOMAIN admissions /\ k # s /\ admissions'[k] = admissions[k]
    BY <1>4 DEF A!Without, A!Restrict
  <2>2. origin[j.psk].src = j.src /\ origin[admissions[k].psk].src = admissions[k].src
    BY <2>1, LiveJobs, JobFacts, Zenon
  <2>3. admissions[k].src = k /\ j.src = s
    BY <2>1, Zenon DEF TInv, JobsHanded
  <2> QED
    BY <2>1, <2>2, <2>3, Zenon
<1>6. PICK ok \in BOOLEAN : answered' = Put(answered, j.psk, ok)
                           /\ (ok => Installs(j)) /\ (~ok => Shrinks)
  BY <1>2, Zenon
<1>7. InstallResult(j.psk, ok)
  BY <1>1, <1>6, ToldFacts, Zenon
<1>8. Settles(j, ok)
  BY <1>4, <1>5, <1>6, <1>7, Zenon DEF Settles
<1> QED
  BY <1>8, Zenon

-----------------------------------------------------------------------------
(* Every step of the composition is a step of the handshake, or none.      *)

LEMMA StepHandshake == TInv /\ [TNext]_all => [Next]_vars
<1> SUFFICES ASSUME TInv, TNext, ~UNCHANGED vars PROVE Next
  BY Zenon DEF all, handshakeVars, vars
<1>1. CASE \/ \E s \in Source :
               \/ \E d \in -Skew..Skew : NewClient(s, now + d)
               \/ \E m \in replies : Complete(s, m)
               \/ \E m \in acks : Accepted(s, m)
               \/ GiveUp(s)
           \/ \E p \in Peer : Authorize(p)
           \/ Tick
  BY <1>1, Zenon DEF Next
<1>2. ASSUME NEW m \in hellos, ServeHello(m) PROVE Next
  BY <1>2, Zenon DEF Next, ServeHello
<1>3. ASSUME NEW m \in finishes, ServeFinish(m) PROVE Next
  BY <1>3, Zenon DEF Next, ServeFinish, HandleFinish
<1>4. ASSUME NEW j \in A!liveJobs, NEW ok \in BOOLEAN, Settles(j, ok) PROVE Next
  BY <1>4, JobFacts, Zenon DEF Next, Settles
<1>5. ASSUME NEW j \in work, Dispatch(j) PROVE Next
  <2>1. CASE A!HookStarted(j) /\ UNCHANGED handshakeVars
    <3>1. UNCHANGED <<now, authorized, handshakeVars>>
      BY <2>1, Zenon DEF A!HookStarted
    <3> QED
      BY <3>1, Zenon DEF vars, handshakeVars
  <2>2. CASE (A!HookRefused(j) \/ A!Completed(j)) /\ InstallResult(j.psk, answered'[j.psk])
    BY <1>4, <2>2, DispatchSettles, LiveJobs, Zenon
  <2> QED
    BY <1>5, <2>1, <2>2, Zenon DEF Dispatch
<1>6. ASSUME NEW s \in DOMAIN admissions, HookReturned(s) PROVE Next
  BY <1>4, <1>6, HookSettles, LiveJobs, Zenon
<1>7. ASSUME NEW k \in Source, Disconnect(k) PROVE Next
  <2>1. UNCHANGED <<now, authorized, handshakeVars>>
    BY <1>7, Zenon DEF Disconnect, A!DisconnectClient
  <2> QED
    BY <2>1, Zenon DEF vars, handshakeVars
<1>8. CASE Cleanup
  BY <1>8, Zenon DEF Cleanup, Next
<1>9. CASE Crash
  BY <1>9, Zenon DEF Crash, Next
<1> QED
  BY <1>1, <1>2, <1>3, <1>5, <1>6, <1>7, <1>8, <1>9, Zenon DEF TNext

-----------------------------------------------------------------------------
(* The clients move forward.                                               *)

\* A PSK that a client uses, or has none, is no newer than the transcripts.
LEMMA ClientFacts ==
    ASSUME Inv, NEW s \in Source
    PROVE  /\ psk[s] \in Nat /\ nonce[s] \in Nat /\ Len(origin) \in Nat /\ psk[s] <= Len(origin)
           /\ psk[s] # 0 => psk[s] \in DOMAIN origin /\ psk[s] \in installed
           /\ \A h \in DOMAIN origin : h \in Nat /\ origin[h].nonce \in Nat
                                       /\ (origin[h].src = s => origin[h].nonce <= nonce[s])
<1>1. TypeOK /\ psk[s] \in Nat /\ nonce[s] \in Nat
  BY Zenon DEF Inv, TypeOK, Hash
<1>2. psk[s] # 0 => psk[s] \in installed /\ psk[s] \in DOMAIN origin
  BY Zenon DEF Inv, TypeOK, AckAfterInstall
<1>3. psk[s] <= Len(origin) /\ Len(origin) \in Nat
  BY <1>1, <1>2, OriginFacts
<1>4. ASSUME NEW h \in DOMAIN origin, origin[h].src = s PROVE origin[h].nonce <= nonce[s]
  <2> DEFINE m == [src |-> origin[h].src, nonce |-> origin[h].nonce, stamp |-> origin[h].stamp]
  <2>1. m \in hellos
    BY Zenon DEF Inv, OriginsSound
  <2>2. m.nonce <= nonce[m.src]
    BY <2>1, Zenon DEF Inv, HellosFresh
  <2> QED
    BY <1>4, <2>2
<1> QED
  BY <1>1, <1>2, <1>3, <1>4, OriginFacts, Zenon

LEMMA StepClients == Inv /\ ClientsForward /\ [Next]_vars => ClientsForward'
<1> SUFFICES ASSUME Inv, ClientsForward, [Next]_vars PROVE ClientsForward'
  OBVIOUS
<1>1. TypeOK /\ phase \in [Source -> {"idle", "hello", "finish"}]
      /\ nonce \in [Source -> Nat] /\ psk \in [Source -> Nat]
  BY Zenon DEF Inv, TypeOK, Hash
<1>2. ASSUME NEW s \in Source
      PROVE  /\ psk[s] # 0 => origin[psk[s]].src = s
             /\ phase[s] # "idle" =>
                  \A h \in DOMAIN origin :
                      origin[h].src = s /\ origin[h].nonce = nonce[s] => h > psk[s]
  BY Zenon DEF ClientsForward
<1>3. CASE UNCHANGED <<phase, nonce, psk, origin>>
  BY <1>3, Zenon DEF ClientsForward
<1>4. ASSUME NEW r \in Source, NEW stamp, NewClient(r, stamp) PROVE ClientsForward'
  <2>1. /\ nonce' = [nonce EXCEPT ![r] = @ + 1] /\ phase' = [phase EXCEPT ![r] = "hello"]
        /\ psk' = psk /\ origin' = origin
    BY <1>4 DEF NewClient, historyVars
  <2>2. \A h \in DOMAIN origin : origin[h].src = r => origin[h].nonce # nonce[r] + 1
    BY ClientFacts
  <2> QED
    BY <1>1, <1>2, <2>1, <2>2 DEF ClientsForward
<1>5. ASSUME NEW r \in Source, NEW m, Complete(r, m) PROVE ClientsForward'
  <2>1. /\ phase[r] = "hello" /\ phase' = [phase EXCEPT ![r] = "finish"]
        /\ psk' = psk /\ origin' = origin /\ nonce' = nonce
    BY <1>5 DEF Complete, historyVars
  <2> QED
    BY <1>1, <1>2, <2>1 DEF ClientsForward
<1>6. ASSUME NEW r \in Source, NEW m \in acks, Accepted(r, m) PROVE ClientsForward'
  <2>1. /\ m.dst = r /\ phase' = [phase EXCEPT ![r] = "idle"] /\ psk' = [psk EXCEPT ![r] = m.hash]
        /\ origin' = origin /\ nonce' = nonce
    BY <1>6 DEF Accepted, historyVars
  <2>2. origin[m.hash].src = r
    BY <2>1, Zenon DEF Inv, AckAfterInstall
  <2> QED
    BY <1>1, <1>2, <2>1, <2>2 DEF ClientsForward
<1>7. ASSUME NEW r \in Source, GiveUp(r) PROVE ClientsForward'
  <2>1. /\ phase' = [phase EXCEPT ![r] = "idle"] /\ psk' = psk /\ origin' = origin /\ nonce' = nonce
    BY <1>7 DEF GiveUp, historyVars
  <2> QED
    BY <1>1, <1>2, <2>1 DEF ClientsForward
<1>8. ASSUME NEW m, HelloEncapsulated(m) PROVE ClientsForward'
  <2>1. UNCHANGED <<phase, nonce, psk>>
    BY <1>8 DEF HelloEncapsulated, clientVars
  <2>2. PICK o : origin' = Append(origin, o)
    BY <1>8 DEF HelloEncapsulated
  <2>3. OriginGrows /\ DOMAIN origin' = DOMAIN origin \cup {Len(origin) + 1}
    BY <1>1, <2>2, Appended
  <2> SUFFICES ASSUME NEW s \in Source
               PROVE  /\ psk[s] # 0 => origin'[psk[s]].src = s
                      /\ phase[s] # "idle" =>
                           \A h \in DOMAIN origin' :
                               origin'[h].src = s /\ origin'[h].nonce = nonce[s] => h > psk[s]
    BY <2>1, Zenon DEF ClientsForward
  <2>4. psk[s] # 0 => origin'[psk[s]].src = s
    BY <1>2, <2>3, ClientFacts DEF OriginGrows
  <2>5. Len(origin) + 1 > psk[s]
    BY ClientFacts
  <2> QED
    BY <1>2, <2>3, <2>4, <2>5 DEF OriginGrows
<1>9. CASE \E m \in hellos : HandleHello(m) /\ ~HelloEncapsulated(m)
  BY <1>3, <1>9, Zenon DEF HandleHello, HelloStale, HelloRefused, HelloOverloaded, HelloReplayed, HelloFailed,
     Dropped, clientVars
<1>10. CASE \E m \in finishes : HandleFinish(m)
  BY <1>3, <1>10, Zenon DEF HandleFinish, FinishDropped, FinishAcked, FinishSelected, Dropped, clientVars
<1>11. CASE \E h \in sessions, ok \in BOOLEAN : InstallResult(h, ok)
  BY <1>3, <1>11, Zenon DEF InstallResult, clientVars
<1>12. CASE (\E p \in Peer : Authorize(p)) \/ Expire \/ Restart \/ Tick \/ UNCHANGED vars
  BY <1>3, <1>12, Zenon DEF Authorize, Expire, Restart, Tick, vars, clientVars, historyVars
<1> QED
  BY <1>4, <1>5, <1>6, <1>7, <1>8, <1>9, <1>10, <1>11, <1>12, Zenon DEF Next

-----------------------------------------------------------------------------
(* The sessions on their way, their answers and what the server uses.      *)

Handed == JobsHanded /\ AnswersSound /\ ServerNewest

\* The transcripts that were answered or installed exist.
LEMMA AnswerTypes ==
    ASSUME TInv
    PROVE  /\ \A h \in DOMAIN answered : h \in DOMAIN origin /\ h \in Nat
           /\ installed \subseteq DOMAIN answered /\ installed \subseteq DOMAIN origin
           /\ \A h \in DOMAIN origin : origin[h].src \in Source /\ h \in Nat
           /\ sessions \subseteq DOMAIN origin /\ handed \in [Source -> Nat]
<1>1. TypeOK
  BY DEF TInv, Inv
<1>2. \A h \in DOMAIN origin : origin[h].src \in Source /\ h \in Nat
  BY <1>1, OriginFacts, Zenon
<1>3. installed \subseteq DOMAIN origin /\ sessions \subseteq DOMAIN origin /\ handed \in [Source -> Nat]
  BY <1>1, Zenon DEF TypeOK, Hash
<1> QED
  BY <1>2, <1>3, Zenon DEF TInv, AnswersSound

\* A step that answers nothing and hands nothing out.
LEMMA QuietHanded ==
    ASSUME TInv, Quiet, UNCHANGED <<work, admissions, answered>>, Shrinks
    PROVE  Handed'
<1>1. UNCHANGED <<sessions, handed, installed>> /\ OriginGrows
  BY DEF Quiet
<1>2. JobsHanded'
  <2>1. A!liveJobs' = A!liveJobs
    BY DEF A!liveJobs
  <2>2. ASSUME NEW j \in A!liveJobs
        PROVE  /\ j.psk \in sessions' /\ j.psk \notin DOMAIN answered'
               /\ origin'[j.psk].src = j.src /\ j.psk = handed'[j.src]
    BY <1>1, JobFacts, Zenon DEF OriginGrows
  <2> QED
    BY <2>1, <2>2, Zenon DEF TInv, JobsHanded
<1>3. AnswersSound'
  <2>1. ASSUME NEW h \in DOMAIN answered
        PROVE  h \in DOMAIN origin' /\ h <= handed'[origin'[h].src]
    BY <1>1, Zenon DEF TInv, AnswersSound, OriginGrows
  <2> QED
    BY <1>1, <2>1, Zenon DEF TInv, AnswersSound
<1>4. ServerNewest'
  <2>1. \A h \in installed : origin'[h] = origin[h]
    BY <1>1, AnswerTypes, Zenon DEF OriginGrows
  <2> QED
    BY <1>1, <2>1, Zenon DEF TInv, ServerNewest, Shrinks
<1> QED
  BY <1>2, <1>3, <1>4 DEF Handed

\* A session is handed out: it is newer than all that its source had, and it
\* is the only one on its way, since the worker drops the packets of a source
\* whose hook is in flight.
LEMMA SelectedHanded ==
    ASSUME TInv, NEW m \in finishes, FinishSelected(m),
           NEW d, NEW pinned, A!Bootstrap(m.src, Owner[m.src], d, pinned, m.hash)
    PROVE  Handed'
<1> DEFINE j == [src |-> m.src, psk |-> m.hash, disco |-> d,
                 lease |-> [id |-> Owner[m.src], expires |-> now + Lifetime, pinned |-> pinned]]
<1>1. /\ m.hash \in DOMAIN pending /\ origin[m.hash].src = m.src /\ m.src \in Source
      /\ m.hash \in Nat /\ handed[m.src] \in Nat /\ m.hash > handed[m.src]
  BY SelectedIsNewer, Zenon DEF TInv
<1>2. /\ sessions' = sessions \cup {m.hash} /\ handed' = [handed EXCEPT ![m.src] = m.hash]
      /\ UNCHANGED <<origin, installed>>
  BY Zenon DEF FinishSelected
<1>3. /\ work = {} /\ m.src \notin DOMAIN admissions /\ work' = {j}
      /\ UNCHANGED <<admissions, answered, peerPSKs>>
  BY Zenon DEF A!Bootstrap, A!Receives, A!tableVars
<1>4. handed'[m.src] = m.hash /\ \A s \in Source : s # m.src => handed'[s] = handed[s]
  BY <1>1, <1>2, AnswerTypes
<1>5. m.hash \notin DOMAIN answered
  <2>1. ASSUME m.hash \in DOMAIN answered PROVE m.hash <= handed[m.src]
    BY <1>1, <2>1, Zenon DEF TInv, AnswersSound
  <2> QED
    BY <1>1, <2>1
<1>6. JobsHanded'
  <2>1. A!liveJobs' = {j} \cup A!liveJobs
    BY <1>3 DEF A!liveJobs
  <2>2. ASSUME NEW i \in A!liveJobs
        PROVE  /\ i.psk \in sessions' /\ i.psk \notin DOMAIN answered'
               /\ origin'[i.psk].src = i.src /\ i.psk = handed'[i.src]
    <3>1. PICK k \in DOMAIN admissions : i = admissions[k]
      BY <1>3 DEF A!liveJobs
    <3>2. i.src = k /\ i.src # m.src
      BY <1>3, <3>1, Zenon DEF TInv, JobsHanded
    <3>3. /\ i.psk \in sessions /\ i.psk \notin DOMAIN answered /\ i.src \in Source
          /\ origin[i.psk].src = i.src /\ i.psk = handed[i.src]
      BY JobFacts, Zenon
    <3> QED
      BY <1>2, <1>3, <1>4, <3>2, <3>3, Zenon
  <2>3. /\ j.psk \in sessions' /\ j.psk \notin DOMAIN answered'
        /\ origin'[j.psk].src = j.src /\ j.psk = handed'[j.src]
    <3>1. j.psk = m.hash /\ j.src = m.src
      OBVIOUS
    <3> QED
      BY <1>1, <1>2, <1>3, <1>4, <1>5, <3>1, Zenon
  <2>4. \A k \in DOMAIN admissions' : admissions'[k].src = k
    BY <1>3, Zenon DEF TInv, JobsHanded
  <2>5. \A i \in work' : i.src \notin DOMAIN admissions' /\ work' = {i}
    BY <1>3
  <2> QED
    BY <2>1, <2>2, <2>3, <2>4, <2>5 DEF JobsHanded
<1>7. AnswersSound'
  <2>1. ASSUME NEW h \in DOMAIN answered
        PROVE  h \in DOMAIN origin /\ h <= handed'[origin[h].src]
    <3>1. /\ h \in DOMAIN origin /\ h <= handed[origin[h].src] /\ h \in Nat
          /\ origin[h].src \in Source
      BY AnswerTypes, Zenon DEF TInv, AnswersSound
    <3> QED
      BY <1>1, <1>4, <3>1
  <2> QED
    BY <1>2, <1>3, <2>1, Zenon DEF TInv, AnswersSound
<1>8. ServerNewest'
  BY <1>2, <1>3, Zenon DEF TInv, ServerNewest
<1> QED
  BY <1>6, <1>7, <1>8 DEF Handed

\* A job waits for its hook: it is on its way as before.
LEMMA StartedHanded ==
    ASSUME TInv, NEW j \in work, A!HookStarted(j), UNCHANGED handshakeVars
    PROVE  Handed'
<1>1. /\ work' = {} /\ admissions' = A!Put(admissions, j.src, j) /\ answered' = answered
      /\ peerPSKs' = peerPSKs
  BY DEF A!HookStarted, A!tableVars, A!historyVars
<1>2. UNCHANGED <<sessions, handed, installed, origin>>
  BY Zenon DEF handshakeVars, serverVars, historyVars
<1>3. j.src \notin DOMAIN admissions /\ work = {j}
  BY Zenon DEF TInv, JobsHanded
<1>4. /\ DOMAIN admissions' = DOMAIN admissions \cup {j.src} /\ admissions'[j.src] = j
      /\ \A k \in DOMAIN admissions : admissions'[k] = admissions[k]
  BY <1>1, <1>3 DEF A!Put
<1>5. A!liveJobs' = A!liveJobs
  BY <1>1, <1>3, <1>4 DEF A!liveJobs
<1>6. JobsHanded'
  <2>1. \A k \in DOMAIN admissions' : admissions'[k].src = k
    BY <1>4, Zenon DEF TInv, JobsHanded
  <2> QED
    BY <1>1, <1>2, <1>5, <2>1, Zenon DEF TInv, JobsHanded
<1>7. AnswersSound' /\ ServerNewest'
  BY <1>1, <1>2, Zenon DEF TInv, AnswersSound, ServerNewest
<1> QED
  BY <1>6, <1>7 DEF Handed

\* A job is answered: when it was installed, the server uses its PSK, the
\* newest of its source.
LEMMA SettledHanded ==
    ASSUME TInv, NEW j \in A!liveJobs, NEW ok \in BOOLEAN, Settles(j, ok)
    PROVE  Handed'
<1>1. /\ j.psk \in sessions /\ j.psk \notin DOMAIN answered /\ j.psk \in Nat
      /\ j.psk \in DOMAIN origin /\ origin[j.psk].src = j.src /\ j.psk = handed[j.src]
      /\ j.src \in Source
  BY JobFacts, Zenon
<1>2. /\ sessions' = sessions \ {j.psk} /\ UNCHANGED <<origin, handed>>
      /\ ok => installed' = installed \cup {j.psk}
      /\ ~ok => installed' = installed
  BY DEF Settles, InstallResult, Installed
<1>3. /\ DOMAIN answered' = DOMAIN answered \cup {j.psk} /\ answered'[j.psk] = ok
      /\ \A h \in DOMAIN answered : answered'[h] = answered[h]
  <2>1. answered' = Put(answered, j.psk, ok)
    BY DEF Settles
  <2> QED
    BY <1>1, <2>1 DEF Put
<1>4. /\ work' = {} /\ (ok => Installs(j)) /\ (~ok => Shrinks)
      /\ \A k \in DOMAIN admissions' :
           /\ k \in DOMAIN admissions /\ admissions'[k] = admissions[k]
           /\ admissions[k].psk # j.psk
  BY Zenon DEF Settles
<1>5. JobsHanded'
  <2>1. ASSUME NEW i \in A!liveJobs'
        PROVE  /\ i.psk \in sessions' /\ i.psk \notin DOMAIN answered'
               /\ origin'[i.psk].src = i.src /\ i.psk = handed'[i.src]
    <3>1. PICK k \in DOMAIN admissions' : i = admissions'[k]
      BY <1>4 DEF A!liveJobs
    <3>2. i = admissions[k] /\ i \in A!liveJobs /\ i.psk # j.psk
      BY <1>4, <3>1, LiveJobs, Zenon
    <3>3. /\ i.psk \in sessions /\ i.psk \notin DOMAIN answered
          /\ origin[i.psk].src = i.src /\ i.psk = handed[i.src]
      BY <3>2, JobFacts, Zenon
    <3> QED
      BY <1>2, <1>3, <3>2, <3>3
  <2>2. \A k \in DOMAIN admissions' : admissions'[k].src = k
    BY <1>4, Zenon DEF TInv, JobsHanded
  <2> QED
    BY <1>4, <2>1, <2>2 DEF JobsHanded
<1>6. AnswersSound'
  <2>1. ASSUME NEW h \in DOMAIN answered' PROVE h \in DOMAIN origin' /\ h <= handed'[origin'[h].src]
    <3>1. CASE h = j.psk
      BY <1>1, <1>2, <3>1
    <3>2. CASE h \in DOMAIN answered
      BY <1>2, <3>2, Zenon DEF TInv, AnswersSound
    <3> QED
      BY <1>3, <3>1, <3>2
  <2>2. ASSUME NEW h \in installed' PROVE h \in DOMAIN answered' /\ answered'[h]
    <3>1. CASE h \in installed
      BY <1>3, <3>1, Zenon DEF TInv, AnswersSound
    <3>2. CASE h \notin installed
      <4>1. ok /\ h = j.psk
        BY <1>2, <3>2
      <4> QED
        BY <1>3, <4>1, Zenon
    <3> QED
      BY <3>1, <3>2
  <2> QED
    BY <2>1, <2>2 DEF AnswersSound
<1>7. ServerNewest'
  <2>1. CASE ~ok
    BY <1>2, <1>4, <2>1, Zenon DEF TInv, ServerNewest, Shrinks
  <2>2. CASE ok
    <3> SUFFICES ASSUME NEW s \in DOMAIN peerPSKs'
                 PROVE  /\ s \in Source /\ peerPSKs'[s] \in Nat
                        /\ \A h \in installed' : origin'[h].src = s => h <= peerPSKs'[s]
      BY DEF ServerNewest
    <3>1. CASE s = j.src
      <4>1. peerPSKs'[s] = j.psk
        BY <1>4, <2>2, <3>1 DEF Installs
      <4>2. ASSUME NEW h \in installed', origin'[h].src = s PROVE h <= j.psk
        <5>1. CASE h \in installed
          <6>1. h <= handed[origin[h].src]
            BY <5>1, Zenon DEF TInv, AnswersSound
          <6> QED
            BY <1>1, <1>2, <3>1, <4>2, <6>1
        <5> QED
          BY <1>1, <1>2, <2>2, <5>1
      <4> QED
        BY <1>1, <3>1, <4>1, <4>2
    <3>2. CASE s # j.src
      <4>1. s \in DOMAIN peerPSKs /\ peerPSKs'[s] = peerPSKs[s]
        BY <1>4, <2>2, <3>2, Zenon DEF Installs
      <4>2. /\ s \in Source /\ peerPSKs[s] \in Nat
            /\ \A h \in installed : origin[h].src = s => h <= peerPSKs[s]
        BY <4>1, Zenon DEF TInv, ServerNewest
      <4> QED
        BY <1>1, <1>2, <2>2, <3>2, <4>1, <4>2
    <3> QED
      BY <3>1, <3>2
  <2> QED
    BY <2>1, <2>2
<1> QED
  BY <1>5, <1>6, <1>7 DEF Handed

\* After a crash no session is on its way and the server has none; what was
\* handed out, answered and installed before stays true.
LEMMA CrashHanded ==
    ASSUME TInv, Crash
    PROVE  Handed'
<1>1. /\ UNCHANGED <<origin, handed, installed, answered>>
      /\ work' = {} /\ admissions' = Empty /\ peerPSKs' = Empty
  BY Zenon DEF Crash, Restart
<1>2. DOMAIN admissions' = {} /\ DOMAIN peerPSKs' = {}
  BY <1>1 DEF Empty
<1>3. A!liveJobs' = {}
  BY <1>1, <1>2 DEF A!liveJobs
<1>4. JobsHanded' /\ ServerNewest'
  BY <1>1, <1>2, <1>3 DEF JobsHanded, ServerNewest
<1>5. AnswersSound'
  BY <1>1, Zenon DEF TInv, AnswersSound
<1> QED
  BY <1>4, <1>5 DEF Handed

-----------------------------------------------------------------------------
(* The invariant of the composition.                                       *)

LEMMA TInitInv == TInit => TInv
<1> SUFFICES ASSUME TInit PROVE TInv
  OBVIOUS
<1>1. Inv
  BY InitInv, Zenon DEF TInit
<1>2. /\ work = {} /\ admissions = Empty /\ answered = Empty /\ peerPSKs = Empty
  BY DEF TInit, A!Init, A!Empty, Empty
<1>3. /\ origin = <<>> /\ installed = {} /\ phase = [s \in Source |-> "idle"]
      /\ psk = [s \in Source |-> 0]
  BY DEF TInit, Init
<1>4. DOMAIN admissions = {} /\ DOMAIN answered = {} /\ DOMAIN peerPSKs = {}
  BY <1>2 DEF Empty
<1>5. A!liveJobs = {}
  BY <1>2, <1>4 DEF A!liveJobs
<1>6. JobsHanded /\ AnswersSound /\ ServerNewest
  BY <1>2, <1>3, <1>4, <1>5 DEF JobsHanded, AnswersSound, ServerNewest
<1>7. ClientsForward
  BY <1>3 DEF ClientsForward
<1> QED
  BY <1>1, <1>6, <1>7 DEF TInv

LEMMA TStepInv == TInv /\ [TNext]_all => TInv'
<1> SUFFICES ASSUME TInv, [TNext]_all PROVE TInv'
  OBVIOUS
<1>1. Inv' /\ ClientsForward'
  BY StepHandshake, StepInv, StepClients, Zenon DEF TInv
<1> SUFFICES Handed'
  BY <1>1, Zenon DEF TInv, Handed
<1>2. TypeOK
  BY DEF TInv, Inv
<1>3. ASSUME Quiet, UNCHANGED admissionVars PROVE Handed'
  <2>1. UNCHANGED <<work, admissions, answered>> /\ Shrinks
    BY <1>3 DEF admissionVars, Shrinks
  <2> QED
    BY <1>3, <2>1, QuietHanded
<1>4. ASSUME \/ \E s \in Source :
                 \/ \E d \in -Skew..Skew : NewClient(s, now + d)
                 \/ \E m \in replies : Complete(s, m)
                 \/ \E m \in acks : Accepted(s, m)
                 \/ GiveUp(s)
             \/ \E p \in Peer : Authorize(p)
             \/ Tick
      PROVE  Quiet
  <2>1. UNCHANGED <<sessions, handed, installed, origin>>
    BY <1>4, Zenon DEF NewClient, Complete, Accepted, GiveUp, Authorize, Tick, serverVars, historyVars
  <2> QED
    BY <2>1, QuietSame
<1>5. ASSUME NEW m \in hellos, ServeHello(m) PROVE Handed'
  BY <1>2, <1>3, <1>5, HelloQuiet, Zenon DEF ServeHello
<1>6. ASSUME NEW m \in finishes, ServeFinish(m) PROVE Handed'
  <2>1. CASE (FinishDropped(m) \/ FinishAcked(m)) /\ UNCHANGED admissionVars
    <3>1. UNCHANGED <<sessions, handed, installed, origin>>
      BY <2>1, Zenon DEF FinishDropped, FinishAcked, Dropped
    <3> QED
      BY <1>3, <2>1, <3>1, QuietSame
  <2>2. CASE FinishSelected(m) /\ \E pinned \in BOOLEAN, d \in Disco :
               A!Bootstrap(m.src, Owner[m.src], d, pinned, m.hash)
    BY <2>2, SelectedHanded, Zenon
  <2> QED
    BY <1>6, <2>1, <2>2, Zenon DEF ServeFinish
<1>7. ASSUME NEW j \in work, Dispatch(j) PROVE Handed'
  BY <1>7, StartedHanded, DispatchSettles, SettledHanded, LiveJobs, Zenon DEF Dispatch
<1>8. ASSUME NEW s \in DOMAIN admissions, HookReturned(s) PROVE Handed'
  BY <1>8, HookSettles, SettledHanded, LiveJobs, Zenon
<1>9. ASSUME NEW k \in Source, Disconnect(k) PROVE Handed'
  <2>1. UNCHANGED <<work, admissions, answered, handshakeVars>> /\ A!RemovePeers({k})
    BY <1>9, Zenon DEF Disconnect, A!DisconnectClient
  <2>2. Quiet
    BY <2>1, QuietSame, Zenon DEF handshakeVars, serverVars, historyVars
  <2> QED
    BY <2>1, <2>2, Removed, QuietHanded, Zenon
<1>10. CASE Cleanup
  <2>1. UNCHANGED <<work, admissions, answered>> /\ A!RemovePeers(A!invalid)
    BY <1>10, Zenon DEF Cleanup, A!Cleanup, A!jobVars
  <2>2. Quiet
    BY <1>10, QuietSame, Zenon DEF Cleanup, Expire
  <2> QED
    BY <2>1, <2>2, Removed, QuietHanded, Zenon
<1>11. CASE Crash
  BY <1>11, CrashHanded
<1>12. CASE UNCHANGED all
  <2>1. UNCHANGED admissionVars /\ UNCHANGED <<sessions, handed, installed, origin>>
    BY <1>12, Zenon DEF all, handshakeVars, serverVars, historyVars
  <2> QED
    BY <1>3, <2>1, QuietSame
<1>13. CASE TNext
  <2>1. CASE /\ UNCHANGED admissionVars
             /\ \/ \E s \in Source :
                     \/ \E d \in -Skew..Skew : NewClient(s, now + d)
                     \/ \E m \in replies : Complete(s, m)
                     \/ \E m \in acks : Accepted(s, m)
                     \/ GiveUp(s)
                \/ \E p \in Peer : Authorize(p)
                \/ Tick
    BY <1>3, <1>4, <2>1, Zenon
  <2> QED
    BY <1>5, <1>6, <1>7, <1>8, <1>9, <1>10, <1>11, <1>13, <2>1, Zenon DEF TNext
<1> QED
  BY <1>12, <1>13

\* What the handshake has handed out, what admission holds and what either end
\* uses stay in step through every joint action of the server (startLocked).
THEOREM TInvariance == TSpec => []TInv
<1>1. TInit => TInv
  BY TInitInv
<1>2. TInv /\ [TNext]_all => TInv'
  BY TStepInv
<1> QED
  BY <1>1, <1>2, PTL DEF TSpec

\* The composition of handshake and admission implements the handshake: hooks,
\* disconnections, expiry and crashes call Installed and restart the server
\* only as module Handshake allows, so its theorems hold of the whole server.
THEOREM ImplementsHandshake == TSpec => HandshakeHolds
<1>1. TInit => Init
  BY DEF TInit
<1>2. TInv /\ [TNext]_all => [Next]_vars
  BY StepHandshake
<1> QED
  BY <1>1, <1>2, TInvariance, PTL DEF TSpec, Spec, HandshakeHolds

\* The two halves agree on every session: one installation at a time for a
\* source, no acknowledgement without an installation, and a server that is
\* never behind its client (transport.go Bootstrap, tailcat.go startLocked).
THEOREM HalvesAgree == TSpec => []InstallationsSound
<1>1. TInv => InstallationsSound
  <2> SUFFICES ASSUME TInv PROVE InstallationsSound
    OBVIOUS
  <2>1. ASSUME NEW i \in A!liveJobs, NEW j \in A!liveJobs, i.src = j.src PROVE i = j
    <3>1. /\ \A k \in DOMAIN admissions : admissions[k].src = k
          /\ \A w \in work : w.src \notin DOMAIN admissions /\ work = {w}
      BY Zenon DEF TInv, JobsHanded
    <3>2. /\ i \in work \/ \E k \in DOMAIN admissions : i = admissions[k]
          /\ j \in work \/ \E k \in DOMAIN admissions : j = admissions[k]
      BY DEF A!liveJobs
    <3>3. CASE i \in work
      BY <2>1, <3>1, <3>2, <3>3
    <3>4. CASE i \notin work
      BY <2>1, <3>1, <3>2, <3>4
    <3> QED
      BY <3>3, <3>4
  <2>2. ASSUME NEW s \in DOMAIN peerPSKs PROVE peerPSKs[s] >= psk[s]
    <3>1. /\ s \in Source /\ peerPSKs[s] \in Nat
          /\ \A h \in installed : origin[h].src = s => h <= peerPSKs[s]
      BY Zenon DEF TInv, ServerNewest
    <3>2. psk[s] \in Nat /\ (psk[s] # 0 => psk[s] \in installed)
      BY <3>1, ClientFacts, Zenon DEF TInv
    <3>3. psk[s] # 0 => origin[psk[s]].src = s
      BY <3>1, Zenon DEF TInv, ClientsForward
    <3>4. psk[s] # 0 => psk[s] <= peerPSKs[s]
      BY <3>1, <3>2, <3>3, Zenon
    <3> QED
      BY <3>1, <3>2, <3>4
  <2>3. AckMeansInstalled
    <3>1. \A m \in acks : m.hash \in installed
      BY Zenon DEF TInv, Inv, AckAfterInstall
    <3>2. \A h \in DOMAIN pending : pending[h].accepted => h \in installed
      BY Zenon DEF TInv, Inv, PendingSound
    <3> QED
      BY <3>1, <3>2, Zenon DEF TInv, AnswersSound, AckMeansInstalled
  <2> QED
    BY <2>1, <2>2, <2>3 DEF InstallationsSound, OneInstallation, ServerNotBehind
<1> QED
  BY <1>1, TInvariance, PTL

-----------------------------------------------------------------------------
(* The composition implements the agreement on PSKs.                       *)

\* The agreement's view of the server and of what it has installed.
Server == [s \in Source |-> IF s \in DOMAIN peerPSKs THEN peerPSKs[s] ELSE 0]
Past == [s \in Source |-> {h \in installed : origin[h].src = s}]

\* Transcripts that are added change nothing for those that were installed.
LEMMA PastKept ==
    ASSUME TInv, OriginGrows, installed' = installed
    PROVE  Past' = Past
<1>1. \A h \in installed : origin'[h] = origin[h]
  BY AnswerTypes, Zenon DEF OriginGrows
<1> QED
  BY <1>1 DEF Past

\* Sessions that end, if any, are dropped.
LEMMA AgreeDrop ==
    ASSUME TInv, Shrinks, OriginGrows, UNCHANGED <<psk, installed>>
    PROVE  Agreement!Next
<1> PICK ended \in SUBSET Source : \A s \in Source : s \in ended <=> s \notin DOMAIN peerPSKs'
  <2>1. {s \in Source : s \notin DOMAIN peerPSKs'} \in SUBSET Source
    OBVIOUS
  <2> QED
    BY <2>1, Zenon
<1>1. Server' = [s \in Source |-> IF s \in ended THEN 0 ELSE Server[s]]
  BY DEF Server, Shrinks
<1>2. Past' = Past
  BY PastKept
<1>3. Agreement!Drop(ended)
  BY <1>1, <1>2 DEF Agreement!Drop, Server, Past
<1> QED
  BY <1>3, Zenon DEF Agreement!Next

\* A client that is told of its installation adopts the PSK, a newer one.
LEMMA AgreeAdopt ==
    ASSUME TInv, NEW s \in Source, NEW m \in acks, Accepted(s, m), peerPSKs' = peerPSKs
    PROVE  Agreement!Next
<1>1. /\ phase[s] = "finish" /\ m.dst = s /\ m.hash = hash[s]
      /\ psk' = [psk EXCEPT ![s] = m.hash] /\ UNCHANGED <<origin, installed>>
  BY Zenon DEF Accepted, historyVars
<1>2. m.hash \in Past[s]
  <2>1. m.hash \in installed /\ origin[m.hash].src = s
    BY <1>1, Zenon DEF TInv, Inv, AckAfterInstall
  <2> QED
    BY <2>1 DEF Past
<1>3. m.hash > psk[s]
  <2>1. m.hash \in DOMAIN origin /\ origin[m.hash].src = s /\ origin[m.hash].nonce = nonce[s]
    BY <1>1, Zenon DEF TInv, Inv, ClientsSound
  <2>2. phase[s] # "idle"
    BY <1>1
  <2> QED
    BY <2>1, <2>2, Zenon DEF TInv, ClientsForward
<1>4. UNCHANGED <<Server, Past>>
  BY <1>1 DEF Server, Past
<1>5. Agreement!Adopt(s)
  BY <1>1, <1>2, <1>3, <1>4, Zenon DEF Agreement!Adopt, Server, Past
<1> QED
  BY <1>5 DEF Agreement!Next

\* An installation gives the source a PSK newer than all it had.
LEMMA AgreeInstall ==
    ASSUME TInv, NEW j \in A!liveJobs, NEW ok \in BOOLEAN, Settles(j, ok)
    PROVE  Agreement!Next
<1>1. /\ j.psk \in DOMAIN origin /\ j.psk \in Nat /\ origin[j.psk].src = j.src
      /\ j.src \in Source /\ j.psk = handed[j.src] /\ j.psk \notin DOMAIN answered
  BY JobFacts, Zenon
<1>2. /\ UNCHANGED <<psk, origin>>
      /\ ok => installed' = installed \cup {j.psk}
      /\ ~ok => installed' = installed
  BY DEF Settles, InstallResult, Installed, clientVars
<1>3. (ok => Installs(j)) /\ (~ok => Shrinks)
  BY Zenon DEF Settles
<1>4. OriginGrows
  BY <1>2 DEF OriginGrows
<1>5. CASE ~ok
  BY <1>2, <1>3, <1>4, <1>5, AgreeDrop
<1>6. CASE ok
  <2> PICK ended \in SUBSET Source : \A s \in Source : s \in ended <=> s \notin DOMAIN peerPSKs'
    <3>1. {s \in Source : s \notin DOMAIN peerPSKs'} \in SUBSET Source
      OBVIOUS
    <3> QED
      BY <3>1, Zenon
  <2>1. Server' \in [Source -> Nat]
    <3>1. \A s \in DOMAIN peerPSKs : peerPSKs[s] \in Nat
      BY Zenon DEF TInv, ServerNewest
    <3>2. \A s \in DOMAIN peerPSKs' : peerPSKs'[s] \in Nat
      BY <1>1, <1>3, <1>6, <3>1 DEF Installs
    <3> QED
      BY <3>2 DEF Server
  <2>2. Server'[j.src] = j.psk
    BY <1>1, <1>3, <1>6 DEF Installs, Server
  <2>3. ASSUME NEW o \in Past[j.src] PROVE j.psk > o
    <3>1. o \in installed /\ origin[o].src = j.src
      BY <1>1 DEF Past
    <3>2. o \in DOMAIN answered /\ o <= handed[j.src] /\ o \in Nat
      BY <3>1, AnswerTypes, Zenon DEF TInv, AnswersSound
    <3> QED
      BY <1>1, <3>2
  <2>4. ASSUME NEW r \in Source \ {j.src} PROVE Server'[r] = IF r \in ended THEN 0 ELSE Server[r]
    BY <1>3, <1>6 DEF Installs, Server
  <2>5. Past' = [Past EXCEPT ![j.src] = @ \cup {j.psk}]
    BY <1>1, <1>2, <1>6, Zenon DEF Past
  <2>6. Agreement!Install(j.src, ended)
    BY <1>2, <2>1, <2>2, <2>3, <2>4, <2>5, Zenon DEF Agreement!Install, Server, Past
  <2> QED
    BY <1>1, <2>6, Zenon DEF Agreement!Next
<1> QED
  BY <1>5, <1>6

LEMMA StepAgreement == TInv /\ [TNext]_all => [Agreement!Next]_(Agreement!vars)
<1> SUFFICES ASSUME TInv, [TNext]_all PROVE Agreement!Next
  OBVIOUS
<1>1. TypeOK
  BY DEF TInv, Inv
<1>2. ASSUME Quiet, psk' = psk, Shrinks PROVE Agreement!Next
  BY <1>2, AgreeDrop, Zenon DEF Quiet
<1>3. UNCHANGED admissionVars => Shrinks /\ peerPSKs' = peerPSKs
  BY DEF admissionVars, Shrinks
<1>4. ASSUME UNCHANGED admissionVars, NEW s \in Source, NEW m \in acks, Accepted(s, m) PROVE Agreement!Next
  BY <1>3, <1>4, AgreeAdopt
<1>5. ASSUME UNCHANGED admissionVars,
             \/ \E s \in Source :
                 \/ \E d \in -Skew..Skew : NewClient(s, now + d)
                 \/ \E m \in replies : Complete(s, m)
                 \/ GiveUp(s)
             \/ \E p \in Peer : Authorize(p)
             \/ Tick
      PROVE  Agreement!Next
  <2>1. UNCHANGED <<sessions, handed, installed, origin, psk>>
    BY <1>5, Zenon DEF NewClient, Complete, GiveUp, Authorize, Tick, serverVars, historyVars, clientVars
  <2> QED
    BY <1>2, <1>3, <1>5, <2>1, QuietSame
<1>6. ASSUME NEW m \in hellos, ServeHello(m) PROVE Agreement!Next
  BY <1>1, <1>2, <1>3, <1>6, HelloQuiet, Zenon DEF ServeHello, clientVars
<1>7. ASSUME NEW m \in finishes, ServeFinish(m) PROVE Agreement!Next
  <2>1. UNCHANGED <<installed, origin, psk>>
    BY <1>7, Zenon DEF ServeFinish, FinishDropped, FinishAcked, FinishSelected, Dropped, clientVars
  <2>2. peerPSKs' = peerPSKs
    BY <1>7, Zenon DEF ServeFinish, admissionVars, A!Bootstrap, A!tableVars
  <2>3. Shrinks /\ OriginGrows
    BY <2>1, <2>2 DEF Shrinks, OriginGrows
  <2> QED
    BY <2>1, <2>3, AgreeDrop
<1>8. ASSUME NEW j \in work, Dispatch(j) PROVE Agreement!Next
  <2>1. CASE A!HookStarted(j) /\ UNCHANGED handshakeVars
    <3>1. UNCHANGED <<sessions, handed, installed, origin, psk, peerPSKs>>
      BY <2>1, Zenon DEF A!HookStarted, A!tableVars, handshakeVars, serverVars, historyVars, clientVars
    <3> QED
      BY <1>2, <3>1, QuietSame DEF Shrinks
  <2>2. CASE (A!HookRefused(j) \/ A!Completed(j)) /\ InstallResult(j.psk, answered'[j.psk])
    BY <2>2, DispatchSettles, AgreeInstall, LiveJobs, Zenon
  <2> QED
    BY <1>8, <2>1, <2>2, Zenon DEF Dispatch
<1>9. ASSUME NEW s \in DOMAIN admissions, HookReturned(s) PROVE Agreement!Next
  BY <1>9, HookSettles, AgreeInstall, LiveJobs, Zenon
<1>10. ASSUME NEW k \in Source, Disconnect(k) PROVE Agreement!Next
  <2>1. UNCHANGED <<sessions, handed, installed, origin, psk>> /\ A!RemovePeers({k})
    BY <1>10, Zenon DEF Disconnect, A!DisconnectClient, handshakeVars, serverVars, historyVars, clientVars
  <2> QED
    BY <1>2, <2>1, QuietSame, Removed
<1>11. CASE Cleanup
  <2>1. UNCHANGED <<sessions, handed, installed, origin, psk>> /\ A!RemovePeers(A!invalid)
    BY <1>11, Zenon DEF Cleanup, A!Cleanup, Expire, clientVars
  <2> QED
    BY <1>2, <2>1, QuietSame, Removed
<1>12. CASE Crash
  <2>1. UNCHANGED <<installed, origin, psk>> /\ peerPSKs' = Empty
    BY <1>12, Zenon DEF Crash, Restart, clientVars
  <2>2. Shrinks /\ OriginGrows
    BY <2>1 DEF Shrinks, OriginGrows, Empty
  <2> QED
    BY <2>1, <2>2, AgreeDrop
<1>13. CASE UNCHANGED all
  <2>1. UNCHANGED admissionVars /\ UNCHANGED <<sessions, handed, installed, origin, psk>>
    BY <1>13, Zenon DEF all, handshakeVars, serverVars, historyVars, clientVars
  <2> QED
    BY <1>2, <1>3, <2>1, QuietSame
<1>14. CASE TNext
  BY <1>4, <1>5, <1>6, <1>7, <1>8, <1>9, <1>10, <1>11, <1>12, <1>14, Zenon DEF TNext
<1> QED
  BY <1>13, <1>14

\* The server implements the agreement on ever newer PSKs: it never installs a
\* PSK that is not newer than all it had for the client process, and a client
\* only moves on, to a PSK that the server has installed for it.
THEOREM ImplementsAgreement == TSpec => AgreementHolds
<1>1. TInit => Agreement!Init
  <2> SUFFICES ASSUME TInit PROVE Agreement!Init
    OBVIOUS
  <2>1. peerPSKs = Empty /\ installed = {} /\ psk = [s \in Source |-> 0]
    BY DEF TInit, Init, A!Init, A!Empty, Empty
  <2>2. DOMAIN peerPSKs = {}
    BY <2>1 DEF Empty
  <2> QED
    BY <2>1, <2>2 DEF Agreement!Init
<1>2. TInv /\ [TNext]_all => [Agreement!Next]_(Agreement!vars)
  BY StepAgreement
<1> QED
  BY <1>1, <1>2, TInvariance, PTL DEF TSpec, AgreementHolds, Agreement!Spec
=============================================================================
