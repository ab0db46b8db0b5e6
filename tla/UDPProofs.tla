----------------------------- MODULE UDPProofs -----------------------------
(***************************************************************************)
(* Proofs of the safety properties of the two sides of UDP: of module      *)
(* ForwardUDP, for any number of sources, flows and datagrams, any limit   *)
(* on the flows and any depth of the queues; and of module UDPService, for *)
(* any set of flows, any number of slots and any idle timeout.             *)
(***************************************************************************)
EXTENDS ForwardUDP, UDPService, FiniteSetTheorems, TLAPS

USE DEF Flow

\* What an invariant of the table implies of the sockets: they are flows in
\* the table, and no two of them belong to one source.
LEMMA SocketsCounted ==
    ASSUME TypeOK, FlowsInTable
    PROVE  SocketsInTable /\ SocketsBounded
<1> DEFINE using == {f \in Flow : f \in open \/ reader[f] = "run"}
<1>1. \A f \in using : owner[f] \in Source /\ flows[owner[f]] = f
  BY DEF FlowsInTable, Running
<1>2. \A f \in using : f # NoFlow
  BY ForwardAssumption
<1>3. [f \in using |-> owner[f]] \in Injection(using, Active)
  BY <1>1, <1>2 DEF Injection, IsInjective, Active
<1>4. Cardinality(using) <= Cardinality(Active) /\ IsFiniteSet(using)
  BY <1>3, FS_Injection, Zenon DEF FlowsInTable
<1>5. Cardinality(using) <= MaxUDPFlows
  BY <1>4, FS_CardinalityType, ForwardAssumption DEF FlowsInTable
<1> QED
  BY <1>1, <1>5 DEF SocketsInTable, SocketsBounded

LEMMA InvParts == TypeOK /\ FlowsInTable /\ QueuesOrdered <=> Inv
BY SocketsCounted DEF Inv, ForwardInv

LEMMA InvPartsNext == TypeOK' /\ FlowsInTable' /\ QueuesOrdered' => Inv'
BY InvParts, PTL

LEMMA Elements ==
    ASSUME NEW S, NEW q \in Seq(S)
    PROVE  \A i \in 1..Len(q) : q[i] \in S
OBVIOUS

\* Taking the oldest datagram leaves younger ones, in order.
LEMMA TailPending ==
    ASSUME NEW q \in Seq(1..MaxPackets), q # <<>>, NEW a \in Nat, NEW b \in Nat,
           Pending(q, a, b)
    PROVE  /\ Head(q) \in 1..MaxPackets /\ a < Head(q) /\ Head(q) <= b
           /\ Tail(q) \in Seq(1..MaxPackets) /\ Len(Tail(q)) = Len(q) - 1
           /\ Pending(Tail(q), a, b) /\ Pending(Tail(q), Head(q), b)
<1>1. /\ Len(q) \in Nat /\ Len(q) >= 1 /\ \A i \in 1..Len(q) : q[i] \in 1..MaxPackets
      /\ Tail(q) \in Seq(1..MaxPackets) /\ Len(Tail(q)) = Len(q) - 1 /\ Head(q) = q[1]
      /\ \A i \in 1..Len(Tail(q)) : Tail(q)[i] = q[i + 1]
  <2>1. Len(q) \in Nat /\ Len(q) >= 1
    OBVIOUS
  <2>2. \A i \in 1..Len(q) : q[i] \in 1..MaxPackets
    BY Elements, Zenon
  <2>3. Tail(q) \in Seq(1..MaxPackets) /\ Len(Tail(q)) = Len(q) - 1 /\ Head(q) = q[1]
    OBVIOUS
  <2>4. \A i \in 1..Len(Tail(q)) : Tail(q)[i] = q[i + 1]
    OBVIOUS
  <2> QED
    BY <2>1, <2>2, <2>3, <2>4
<1>2. \A i \in 1..Len(Tail(q)) : i + 1 \in 1..Len(q) /\ 1 < i + 1
  BY <1>1
<1>3. Pending(Tail(q), a, b)
  BY <1>1, <1>2 DEF Pending
<1>4. \A i \in 1..Len(Tail(q)) : Head(q) < Tail(q)[i]
  BY <1>1, <1>2 DEF Pending
<1> QED
  BY <1>1, <1>3, <1>4 DEF Pending

\* enqueue keeps the order and the limit, whether or not it drops the oldest.
LEMMA EnqueuePending ==
    ASSUME NEW q \in Seq(1..MaxPackets), NEW a \in Nat, NEW b \in Nat, a <= b,
           Pending(q, a, b), Len(q) <= QueueDepth, NEW p \in 1..MaxPackets, b < p
    PROVE  /\ enqueue(q, p) \in Seq(1..MaxPackets) /\ Len(enqueue(q, p)) <= QueueDepth
           /\ Pending(enqueue(q, p), a, p)
<1>1. ASSUME NEW r \in Seq(1..MaxPackets), Pending(r, a, b)
      PROVE  /\ Append(r, p) \in Seq(1..MaxPackets) /\ Len(Append(r, p)) = Len(r) + 1
             /\ Pending(Append(r, p), a, p)
  <2>1. /\ Append(r, p) \in Seq(1..MaxPackets) /\ Len(Append(r, p)) = Len(r) + 1
        /\ \A i \in 1..Len(r) : Append(r, p)[i] = r[i] /\ r[i] \in 1..MaxPackets
        /\ Append(r, p)[Len(r) + 1] = p /\ Len(r) \in Nat
    <3>1. Append(r, p) \in Seq(1..MaxPackets) /\ Len(Append(r, p)) = Len(r) + 1 /\ Len(r) \in Nat
      OBVIOUS
    <3>2. \A i \in 1..Len(r) : Append(r, p)[i] = r[i] /\ r[i] \in 1..MaxPackets
      <4>1. \A i \in 1..Len(r) : r[i] \in 1..MaxPackets
        BY Elements, Zenon
      <4>2. \A i \in 1..Len(r) : Append(r, p)[i] = r[i]
        OBVIOUS
      <4> QED
        BY <4>1, <4>2
    <3>3. Append(r, p)[Len(r) + 1] = p
      OBVIOUS
    <3> QED
      BY <3>1, <3>2, <3>3
  <2>2. \A i \in 1..Len(r) + 1 : i \in 1..Len(r) \/ i = Len(r) + 1
    BY <2>1
  <2>3. \A i \in 1..Len(r) : a < r[i] /\ r[i] < p
    BY <1>1, <2>1 DEF Pending
  <2> QED
    BY <1>1, <2>1, <2>2, <2>3 DEF Pending
<1>2. CASE Len(q) < QueueDepth
  BY <1>1, <1>2, ForwardAssumption DEF enqueue
<1>3. CASE ~(Len(q) < QueueDepth)
  <2>1. q # <<>> /\ Len(q) = QueueDepth
    BY <1>3, ForwardAssumption
  <2>2. Tail(q) \in Seq(1..MaxPackets) /\ Len(Tail(q)) = Len(q) - 1 /\ Pending(Tail(q), a, b)
    BY <2>1, TailPending
  <2>3. enqueue(q, p) = Append(Tail(q), p)
    BY <1>3 DEF enqueue
  <2>4. /\ Append(Tail(q), p) \in Seq(1..MaxPackets) /\ Len(Append(Tail(q), p)) = Len(Tail(q)) + 1
        /\ Pending(Append(Tail(q), p), a, p)
    BY <1>1, <2>2, Zenon
  <2>5. Len(enqueue(q, p)) <= QueueDepth
    BY <2>1, <2>2, <2>3, <2>4, ForwardAssumption
  <2> QED
    BY <2>3, <2>4, <2>5
<1> QED
  BY <1>2, <1>3

-----------------------------------------------------------------------------
LEMMA InitInv == Init => Inv
<1> SUFFICES ASSUME Init PROVE TypeOK /\ FlowsInTable /\ QueuesOrdered
  BY InvParts
<1>1. TypeOK
  <2>1. /\ flows \in [Source -> Flow \cup {NoFlow}] /\ owner \in [Flow -> Source \cup {NoFlow}]
        /\ queue \in [Flow -> Seq(1..MaxPackets)]
        /\ pc \in [Flow -> {"none", "dial", "send", "close", "wait", "delete", "ended"}]
        /\ reader \in [Flow -> {"none", "run", "ended"}] /\ done \in [Flow -> BOOLEAN]
    BY DEF Init
  <2>2. /\ open \subseteq Flow /\ made \in 0..MaxFlows /\ read \in 0..MaxPackets
        /\ latest \in [Source -> 0..MaxPackets] /\ sent \in [Source -> 0..MaxPackets]
        /\ main \in {"run", "wait", "returned"}
        /\ \A f \in Flow : Len(queue[f]) <= QueueDepth
    BY ForwardAssumption DEF Init
  <2> QED
    BY <2>1, <2>2 DEF TypeOK
<1>2. FlowsInTable
  <2>1. Active = {}
    BY DEF Init, Active
  <2>2. IsFiniteSet(Active) /\ Cardinality(Active) <= MaxUDPFlows
    BY <2>1, FS_EmptySet, ForwardAssumption
  <2> QED
    BY <2>2 DEF Init, FlowsInTable, Running
<1>3. QueuesOrdered
  BY DEF Init, QueuesOrdered, Running
<1> QED
  BY <1>1, <1>2, <1>3

\* A step that leaves the queues, the numbers and the owners alone keeps the
\* queues in order if it starts no flow.
LEMMA QueuesKept ==
    ASSUME QueuesOrdered, UNCHANGED <<queue, owner, latest, sent>>, read \in Nat,
           read' \in Nat, read <= read', \A s \in Source : latest[s] \in Nat,
           \A f \in Flow : Running(f)' => Running(f)
    PROVE  QueuesOrdered'
BY DEF QueuesOrdered

\* A step that leaves the table alone: the flow f moves, while its goroutine
\* runs, and its socket and its reader follow.
LEMMA TableKept ==
    ASSUME TypeOK, FlowsInTable, UNCHANGED <<flows, owner, made>>,
           \A f \in Flow : Running(f)' <=> Running(f),
           \A f \in Flow : f \in open' => pc'[f] \in {"send", "close"},
           \A f \in Flow : reader'[f] = "run" => pc'[f] \in {"send", "close", "wait"}
    PROVE  FlowsInTable'
<1>1. Active' = Active
  BY DEF Active
<1>2. \A s \in Source : flows[s] # NoFlow => flows[s] \in Flow
  BY DEF TypeOK
<1> QED
  BY <1>1, <1>2 DEF FlowsInTable

\* A datagram that finds the table full, or its flow: the loop.
LEMMA RefuseInv ==
    ASSUME Inv, NEW s \in Source, Refuse(s)
    PROVE  Inv'
<1>1. TypeOK /\ FlowsInTable /\ QueuesOrdered
  BY InvParts
<1>2. /\ read \in 0..MaxPackets /\ read < MaxPackets /\ read' = read + 1
      /\ UNCHANGED <<flows, made, owner, latest, main, queue, pc, reader, done, open, sent>>
  BY <1>1 DEF Refuse, ReadLocal, TypeOK
<1>3. read' \in 0..MaxPackets /\ read <= read'
  BY <1>2, ForwardAssumption
<1>4. TypeOK'
  BY <1>1, <1>2, <1>3 DEF TypeOK
<1>5. FlowsInTable'
  BY <1>1, <1>2, TableKept DEF FlowsInTable, Running
<1>6. QueuesOrdered'
  BY <1>1, <1>2, <1>3, QueuesKept DEF TypeOK, Running
<1> QED
  BY <1>4, <1>5, <1>6, InvPartsNext

LEMMA QueueInv ==
    ASSUME Inv, NEW s \in Source, Queue(s)
    PROVE  Inv'
<1>1. TypeOK /\ FlowsInTable /\ QueuesOrdered
  BY InvParts
<1> DEFINE f == flows[s]
<1>2. /\ read \in 0..MaxPackets /\ read < MaxPackets /\ read' = read + 1 /\ f # NoFlow
      /\ queue' = [queue EXCEPT ![f] = enqueue(queue[f], read')]
      /\ latest' = [latest EXCEPT ![s] = read']
      /\ UNCHANGED <<flows, made, owner, main, pc, reader, done, open, sent>>
  BY <1>1 DEF Queue, ReadLocal, TypeOK
<1>3. read' \in 1..MaxPackets /\ read < read'
  BY <1>2, ForwardAssumption
<1>4. /\ f \in Flow /\ owner[f] = s /\ Running(f) /\ queue[f] \in Seq(1..MaxPackets)
      /\ latest[s] \in Nat /\ sent[s] \in Nat /\ Len(queue[f]) <= QueueDepth
  BY <1>1, <1>2 DEF TypeOK, FlowsInTable
<1>5. Pending(queue[f], sent[s], latest[s]) /\ sent[s] <= latest[s] /\ latest[s] < read'
  BY <1>1, <1>2, <1>3, <1>4 DEF QueuesOrdered
<1>6. /\ enqueue(queue[f], read') \in Seq(1..MaxPackets)
      /\ Len(enqueue(queue[f], read')) <= QueueDepth
      /\ Pending(enqueue(queue[f], read'), sent[s], read')
  BY <1>3, <1>4, <1>5, EnqueuePending
<1> HIDE DEF f
<1>7. /\ queue' \in [Flow -> Seq(1..MaxPackets)] /\ queue'[f] = enqueue(queue[f], read')
      /\ \A g \in Flow : g # f => queue'[g] = queue[g]
      /\ \A g \in Flow : Len(queue'[g]) <= QueueDepth
  BY <1>1, <1>2, <1>4, <1>6 DEF TypeOK
<1>8. /\ latest' \in [Source -> 0..MaxPackets] /\ latest'[s] = read'
      /\ \A t \in Source : t # s => latest'[t] = latest[t]
  BY <1>1, <1>2, <1>3 DEF TypeOK
<1>9. TypeOK'
  BY <1>1, <1>2, <1>3, <1>7, <1>8 DEF TypeOK
<1>10. FlowsInTable'
  BY <1>1, <1>2, TableKept DEF FlowsInTable, Running
<1>11. QueuesOrdered'
  <2>1. ASSUME NEW g \in Flow, Running(g)'
        PROVE  Pending(queue[g], sent[owner[g]], latest[owner[g]])' /\ owner[g] \in Source
    <3>1. Running(g) /\ owner[g] \in Source /\ flows[owner[g]] = g
      BY <1>1, <1>2, <2>1 DEF Running, FlowsInTable
    <3>2. CASE g = f
      BY <1>2, <1>4, <1>6, <1>7, <1>8, <3>2
    <3>3. CASE g # f
      <4>1. owner[g] # s
        BY <3>1, <3>3 DEF f
      <4> QED
        BY <1>1, <1>2, <1>7, <1>8, <3>1, <3>3, <4>1 DEF QueuesOrdered
    <3> QED
      BY <3>1, <3>2, <3>3
  <2>2. \A t \in Source : (sent[t] <= latest[t] /\ latest[t] <= read)'
    <3>1. \A t \in Source : sent[t] <= latest[t] /\ latest[t] <= read /\ latest[t] \in Nat /\ sent[t] \in Nat
      BY <1>1 DEF QueuesOrdered, TypeOK
    <3> QED
      BY <1>2, <1>3, <1>5, <1>8, <3>1
  <2> QED
    BY <2>1, <2>2 DEF QueuesOrdered
<1> QED
  BY <1>9, <1>10, <1>11, InvPartsNext

LEMMA StartInv ==
    ASSUME Inv, NEW s \in Source, Start(s)
    PROVE  Inv'
<1>1. TypeOK /\ FlowsInTable /\ QueuesOrdered
  BY InvParts
<1> DEFINE f == made + 1
<1>2. /\ read \in 0..MaxPackets /\ read < MaxPackets /\ read' = read + 1
      /\ flows[s] = NoFlow /\ HasRoom /\ made \in 0..MaxFlows /\ made < MaxFlows
      /\ made' = f /\ flows' = [flows EXCEPT ![s] = f] /\ owner' = [owner EXCEPT ![f] = s]
      /\ queue' = [queue EXCEPT ![f] = <<read'>>] /\ latest' = [latest EXCEPT ![s] = read']
      /\ pc' = [pc EXCEPT ![f] = "dial"]
      /\ UNCHANGED <<main, reader, done, open, sent>>
  BY <1>1 DEF Start, ReadLocal, Goto, TypeOK
<1>3. read' \in 1..MaxPackets /\ read < read'
  BY <1>2, ForwardAssumption
<1>4. f \in Flow /\ f # NoFlow /\ made < f
  BY <1>2, ForwardAssumption
<1>5. /\ f \notin open /\ reader[f] # "run"
      /\ \A g \in Flow : Running(g) => g # f /\ owner[g] \in Source /\ owner[g] # s
  <2>1. \A g \in Flow : Running(g) => g <= made /\ owner[g] \in Source /\ flows[owner[g]] = g
    BY <1>1 DEF FlowsInTable
  <2>2. \A g \in Flow : Running(g) => g # f
    BY <1>2, <2>1
  <2>3. \A g \in Flow : Running(g) => owner[g] \in Source /\ owner[g] # s
    BY <1>2, <2>1, ForwardAssumption
  <2>4. ~Running(f)
    BY <1>4, <2>2
  <2>5. f \notin open /\ reader[f] # "run"
    BY <1>1, <1>4, <2>4 DEF FlowsInTable, Running
  <2> QED
    BY <2>2, <2>3, <2>5
<1>6. \A t \in Source : flows[t] # f
  BY <1>1, <1>4, <1>5 DEF FlowsInTable
<1> HIDE DEF f
<1>7. /\ queue' \in [Flow -> Seq(1..MaxPackets)] /\ queue'[f] = <<read'>>
      /\ \A g \in Flow : g # f => queue'[g] = queue[g]
  BY <1>1, <1>2, <1>3, <1>4 DEF TypeOK
<1>8. \A g \in Flow : Len(queue'[g]) <= QueueDepth
  <2>1. Len(<<read'>>) = 1 /\ 1 <= QueueDepth
    BY ForwardAssumption
  <2> QED
    BY <1>1, <1>7, <2>1, Zenon DEF TypeOK
<1>9. /\ latest' \in [Source -> 0..MaxPackets] /\ latest'[s] = read'
      /\ \A t \in Source : t # s => latest'[t] = latest[t]
  BY <1>1, <1>2, <1>3 DEF TypeOK
<1>10. /\ flows' \in [Source -> Flow \cup {NoFlow}] /\ flows'[s] = f
       /\ \A t \in Source : t # s => flows'[t] = flows[t]
  BY <1>1, <1>2, <1>4 DEF TypeOK
<1>11. /\ owner' \in [Flow -> Source \cup {NoFlow}] /\ owner'[f] = s
       /\ \A g \in Flow : g # f => owner'[g] = owner[g]
  BY <1>1, <1>2, <1>4 DEF TypeOK
<1>12. /\ pc' \in [Flow -> {"none", "dial", "send", "close", "wait", "delete", "ended"}]
       /\ pc'[f] = "dial" /\ \A g \in Flow : g # f => pc'[g] = pc[g]
  BY <1>1, <1>2, <1>4 DEF TypeOK
<1>13. TypeOK'
  <2>1. made' \in 0..MaxFlows
    BY <1>2, ForwardAssumption DEF f
  <2> QED
    BY <1>1, <1>2, <1>3, <1>7, <1>8, <1>9, <1>10, <1>11, <1>12, <2>1 DEF TypeOK
<1>14. FlowsInTable'
  <2>1. Active' = Active \cup {s} /\ s \notin Active
    BY <1>2, <1>4, <1>10 DEF Active
  <2>2. IsFiniteSet(Active') /\ Cardinality(Active') = Cardinality(Active) + 1
    BY <1>1, <2>1, FS_AddElement DEF FlowsInTable
  <2>3. Cardinality(Active) \in Nat
    BY <1>1, FS_CardinalityType DEF FlowsInTable
  <2>4. IsFiniteSet(Active') /\ Cardinality(Active') <= MaxUDPFlows
    BY <1>2, <2>2, <2>3, ForwardAssumption DEF HasRoom
  <2>5. ASSUME NEW g \in Flow
        PROVE  /\ Running(g)' => g <= made' /\ owner'[g] \in Source /\ flows'[owner'[g]] = g
               /\ g \in open' => pc'[g] \in {"send", "close"}
               /\ reader'[g] = "run" => pc'[g] \in {"send", "close", "wait"}
    <3>1. CASE g = f
      BY <1>2, <1>4, <1>5, <1>10, <1>11, <3>1 
    <3>2. CASE g # f
      <4>1. g <= made => g <= made'
        BY <1>2, <1>4
      <4> QED
        BY <1>1, <1>2, <1>5, <1>10, <1>11, <1>12, <3>2, <4>1 DEF FlowsInTable, Running
    <3> QED
      BY <3>1, <3>2
  <2>6. ASSUME NEW t \in Source, flows'[t] # NoFlow
        PROVE  owner'[flows'[t]] = t /\ Running(flows[t])'
    <3>1. CASE t = s
      BY <1>4, <1>10, <1>11, <1>12, <3>1 DEF Running
    <3>2. CASE t # s
      BY <1>1, <1>6, <1>10, <1>11, <1>12, <2>6, <3>2 DEF FlowsInTable, Running, TypeOK
    <3> QED
      BY <3>1, <3>2
  <2> QED
    BY <2>4, <2>5, <2>6 DEF FlowsInTable
<1>15. QueuesOrdered'
  <2>1. \A t \in Source : sent[t] <= latest[t] /\ latest[t] <= read /\ latest[t] \in Nat /\ sent[t] \in Nat
    BY <1>1 DEF QueuesOrdered, TypeOK
  <2>2. ASSUME NEW g \in Flow, Running(g)'
        PROVE  Pending(queue[g], sent[owner[g]], latest[owner[g]])'
    <3>1. CASE g = f
      <4>1. sent[s] < read'
        BY <1>2, <1>3, <2>1
      <4> QED
        BY <1>2, <1>3, <1>7, <1>9, <1>11, <3>1, <4>1 DEF Pending
    <3>2. CASE g # f
      BY <1>1, <1>2, <1>5, <1>7, <1>9, <1>11, <1>12, <2>2, <3>2 DEF QueuesOrdered, Running
    <3> QED
      BY <3>1, <3>2
  <2>3. \A t \in Source : (sent[t] <= latest[t] /\ latest[t] <= read)'
    BY <1>2, <1>3, <1>9, <2>1
  <2> QED
    BY <2>2, <2>3 DEF QueuesOrdered
<1> QED
  BY <1>13, <1>14, <1>15, InvPartsNext

\* The loop ends.
LEMMA EndInv ==
    ASSUME Inv, Stop \/ Return
    PROVE  Inv'
<1>1. TypeOK /\ FlowsInTable /\ QueuesOrdered
  BY InvParts
<1>2. /\ done' \in [Flow -> BOOLEAN] /\ main' \in {"run", "wait", "returned"}
      /\ UNCHANGED <<flows, made, owner, read, latest, queue, pc, reader, open, sent>>
  BY <1>1, Zenon DEF Stop, Return, TypeOK
<1>3. TypeOK'
  BY <1>1, <1>2 DEF TypeOK
<1>4. FlowsInTable'
  BY <1>1, <1>2, TableKept DEF FlowsInTable, Running
<1>5. QueuesOrdered'
  BY <1>1, <1>2 DEF QueuesOrdered, Running
<1> QED
  BY <1>3, <1>4, <1>5, InvPartsNext

\* The steps of a flow that leave its queue alone, its deletion apart, and
\* what happens to its socket and its reader.
LEMMA FlowMovesInv ==
    ASSUME Inv, NEW f \in Flow,
           \/ Dialed(f) \/ DialFailed(f) \/ Cancelled(f) \/ CloseRemote(f) \/ ReaderDone(f)
           \/ AfterFunc(f) \/ ReaderEnds(f)
    PROVE  Inv'
<1>1. TypeOK /\ FlowsInTable /\ QueuesOrdered
  BY InvParts
<1>2. UNCHANGED <<flows, made, owner, read, latest, main, queue, sent>>
  BY DEF Dialed, DialFailed, Cancelled, CloseRemote, ReaderDone, AfterFunc, ReaderEnds, loopVars
<1>3. /\ pc' \in [Flow -> {"none", "dial", "send", "close", "wait", "delete", "ended"}]
      /\ \A g \in Flow : g # f => pc'[g] = pc[g]
      /\ Running(f)' <=> Running(f)
  BY <1>1, Zenon DEF Dialed, DialFailed, Cancelled, CloseRemote, ReaderDone, AfterFunc, ReaderEnds, Goto,
              TypeOK, Running
<1>4. /\ reader' \in [Flow -> {"none", "run", "ended"}] /\ done' \in [Flow -> BOOLEAN]
      /\ open' \subseteq Flow
      /\ \A g \in Flow : g # f => reader'[g] = reader[g] /\ (g \in open' <=> g \in open)
  BY <1>1, Zenon DEF Dialed, DialFailed, Cancelled, CloseRemote, ReaderDone, AfterFunc, ReaderEnds, TypeOK
<1>5. /\ f \in open' => pc'[f] \in {"send", "close"}
      /\ reader'[f] = "run" => pc'[f] \in {"send", "close", "wait"}
  <2>1. /\ f \in open => pc[f] \in {"send", "close"}
        /\ reader[f] = "run" => pc[f] \in {"send", "close", "wait"}
    BY <1>1 DEF FlowsInTable
  <2>2. CASE Dialed(f) \/ Cancelled(f) \/ CloseRemote(f)
    BY <1>1, <2>1, <2>2, Zenon DEF Dialed, Cancelled, CloseRemote, Goto, TypeOK
  <2>3. CASE DialFailed(f) \/ ReaderDone(f)
    BY <1>1, <2>1, <2>3, Zenon DEF DialFailed, ReaderDone, Goto, TypeOK
  <2>4. CASE AfterFunc(f) \/ ReaderEnds(f)
    BY <1>1, <2>1, <2>4, Zenon DEF AfterFunc, ReaderEnds, TypeOK
  <2> QED
    BY <2>2, <2>3, <2>4
<1>6. TypeOK'
  BY <1>1, <1>2, <1>3, <1>4 DEF TypeOK
<1>7. \A g \in Flow : Running(g)' <=> Running(g)
  BY <1>3 DEF Running
<1>8. FlowsInTable'
  <2>1. \A g \in Flow : /\ g \in open' => pc'[g] \in {"send", "close"}
                        /\ reader'[g] = "run" => pc'[g] \in {"send", "close", "wait"}
    BY <1>1, <1>3, <1>4, <1>5 DEF FlowsInTable
  <2> QED
    BY <1>1, <1>2, <1>7, <2>1, TableKept
<1>9. QueuesOrdered'
  BY <1>1, <1>2, <1>7 DEF QueuesOrdered
<1> QED
  BY <1>6, <1>8, <1>9, InvPartsNext

\* A flow takes its oldest datagram, and sends it or fails to.
LEMMA SendInv ==
    ASSUME Inv, NEW f \in Flow, Send(f) \/ SendFailed(f)
    PROVE  Inv'
<1>1. TypeOK /\ FlowsInTable /\ QueuesOrdered
  BY InvParts
<1>2. /\ pc[f] = "send" /\ queue[f] # <<>> /\ queue' = [queue EXCEPT ![f] = Tail(queue[f])]
      /\ UNCHANGED <<flows, made, owner, read, latest, main, reader, done, open>>
  BY DEF Send, SendFailed, loopVars
<1> DEFINE s == owner[f]
<1>3. /\ s \in Source /\ flows[s] = f /\ Running(f) /\ queue[f] \in Seq(1..MaxPackets)
      /\ latest[s] \in Nat /\ sent[s] \in Nat /\ Len(queue[f]) <= QueueDepth
  <2>1. Running(f)
    BY <1>2 DEF Running
  <2>2. s \in Source /\ flows[s] = f
    BY <1>1, <2>1 DEF FlowsInTable
  <2>3. queue[f] \in Seq(1..MaxPackets) /\ Len(queue[f]) <= QueueDepth
    BY <1>1, Zenon DEF TypeOK
  <2> HIDE DEF s
  <2>4. latest[s] \in Nat /\ sent[s] \in Nat
    BY <1>1, <2>2 DEF TypeOK
  <2> QED
    BY <2>1, <2>2, <2>3, <2>4
<1>4. Pending(queue[f], sent[s], latest[s])
  BY <1>1, <1>3 DEF QueuesOrdered
<1> DEFINE h == Head(queue[f])
<1>5. /\ h \in 1..MaxPackets /\ sent[s] < h /\ h <= latest[s]
      /\ Tail(queue[f]) \in Seq(1..MaxPackets) /\ Len(Tail(queue[f])) = Len(queue[f]) - 1
      /\ Pending(Tail(queue[f]), sent[s], latest[s]) /\ Pending(Tail(queue[f]), h, latest[s])
  BY <1>2, <1>3, <1>4, TailPending, Zenon
<1>6. \/ sent' = [sent EXCEPT ![s] = h] /\ pc' = pc
      \/ sent' = sent /\ pc' = [pc EXCEPT ![f] = "close"]
  BY DEF Send, SendFailed, Goto
<1> HIDE DEF s, h
<1>7. /\ queue' \in [Flow -> Seq(1..MaxPackets)] /\ queue'[f] = Tail(queue[f])
      /\ \A g \in Flow : g # f => queue'[g] = queue[g]
  BY <1>1, <1>2, <1>5 DEF TypeOK
<1>8. \A g \in Flow : Len(queue'[g]) <= QueueDepth
  <2>1. Len(queue[f]) - 1 <= QueueDepth
    BY <1>3, ForwardAssumption
  <2> QED
    BY <1>1, <1>5, <1>7, <2>1 DEF TypeOK
<1>9. /\ sent' \in [Source -> 0..MaxPackets] /\ \A t \in Source : t # s => sent'[t] = sent[t]
      /\ sent'[s] \in {sent[s], h}
  <2>1. h \in 0..MaxPackets /\ s \in Source /\ sent \in [Source -> 0..MaxPackets]
    BY <1>1, <1>3, <1>5 DEF TypeOK
  <2> QED
    BY <1>6, <2>1
<1>10. /\ pc' \in [Flow -> {"none", "dial", "send", "close", "wait", "delete", "ended"}]
       /\ pc'[f] \in {"send", "close"} /\ \A g \in Flow : g # f => pc'[g] = pc[g]
  BY <1>1, <1>2, <1>6, Zenon DEF TypeOK
<1>11. TypeOK'
  BY <1>1, <1>2, <1>7, <1>8, <1>9, <1>10 DEF TypeOK
<1>12. \A g \in Flow : Running(g)' <=> Running(g)
  BY <1>3, <1>10 DEF Running
<1>13. FlowsInTable'
  <2>1. \A g \in Flow : /\ g \in open' => pc'[g] \in {"send", "close"}
                        /\ reader'[g] = "run" => pc'[g] \in {"send", "close", "wait"}
    BY <1>1, <1>2, <1>10 DEF FlowsInTable
  <2> QED
    BY <1>1, <1>2, <1>12, <2>1, TableKept
<1>14. QueuesOrdered'
  <2>1. ASSUME NEW g \in Flow, Running(g)'
        PROVE  Pending(queue[g], sent[owner[g]], latest[owner[g]])'
    <3>1. CASE g = f
      BY <1>2, <1>5, <1>7, <1>9, <3>1 DEF s
    <3>2. CASE g # f
      <4>1. Running(g) /\ owner[g] \in Source /\ flows[owner[g]] = g
        BY <1>1, <1>12, <2>1 DEF FlowsInTable
      <4>2. owner[g] # s
        BY <1>3, <3>2, <4>1
      <4> QED
        BY <1>1, <1>2, <1>7, <1>9, <3>2, <4>1, <4>2 DEF QueuesOrdered
    <3> QED
      BY <3>1, <3>2
  <2>2. \A t \in Source : (sent[t] <= latest[t] /\ latest[t] <= read)'
    BY <1>1, <1>2, <1>5, <1>9 DEF QueuesOrdered
  <2> QED
    BY <2>1, <2>2 DEF QueuesOrdered
<1> QED
  BY <1>11, <1>13, <1>14, InvPartsNext

\* A flow that has ended leaves the table, which its source can use again.
LEMMA DeleteInv ==
    ASSUME Inv, NEW f \in Flow, Delete(f)
    PROVE  Inv'
<1>1. TypeOK /\ FlowsInTable /\ QueuesOrdered
  BY InvParts
<1>2. /\ pc[f] = "delete" /\ pc' = [pc EXCEPT ![f] = "ended"]
      /\ flows' = [s \in Source |-> IF flows[s] = f THEN NoFlow ELSE flows[s]]
      /\ UNCHANGED <<made, owner, read, latest, main, queue, reader, done, open, sent>>
  BY DEF Delete, Goto
<1>3. /\ flows' \in [Source -> Flow \cup {NoFlow}]
      /\ \A s \in Source : flows'[s] # NoFlow => flows'[s] = flows[s] /\ flows[s] # f
      /\ \A s \in Source : flows[s] # f => flows'[s] = flows[s]
  BY <1>1, <1>2 DEF TypeOK
<1>4. /\ pc' \in [Flow -> {"none", "dial", "send", "close", "wait", "delete", "ended"}]
      /\ pc'[f] = "ended" /\ \A g \in Flow : g # f => pc'[g] = pc[g]
  BY <1>1, <1>2 DEF TypeOK
<1>5. \A g \in Flow : Running(g)' => Running(g) /\ g # f
  BY <1>4 DEF Running
<1>6. TypeOK'
  BY <1>1, <1>2, <1>3, <1>4 DEF TypeOK
<1>7. FlowsInTable'
  <2>1. Active' \subseteq Active
    BY <1>3 DEF Active
  <2>2. IsFiniteSet(Active') /\ Cardinality(Active') <= Cardinality(Active)
    BY <1>1, <2>1, FS_Subset DEF FlowsInTable
  <2>3. Cardinality(Active') <= MaxUDPFlows
    BY <1>1, <2>2, FS_CardinalityType, ForwardAssumption DEF FlowsInTable
  <2>4. \A g \in Flow :
          /\ Running(g)' => g <= made' /\ owner'[g] \in Source /\ flows'[owner'[g]] = g
          /\ g \in open' => pc'[g] \in {"send", "close"}
          /\ reader'[g] = "run" => pc'[g] \in {"send", "close", "wait"}
    BY <1>1, <1>2, <1>3, <1>4, <1>5 DEF FlowsInTable
  <2>5. \A s \in Source : flows'[s] # NoFlow => owner'[flows'[s]] = s /\ Running(flows[s])'
    BY <1>1, <1>2, <1>3, <1>4 DEF FlowsInTable, Running, TypeOK
  <2> QED
    BY <2>2, <2>3, <2>4, <2>5 DEF FlowsInTable
<1>8. QueuesOrdered'
  BY <1>1, <1>2, <1>5 DEF QueuesOrdered
<1> QED
  BY <1>6, <1>7, <1>8, InvPartsNext

\* Every step of the loop and of a flow keeps the invariant.
LEMMA NextInv == Inv /\ [Next]_vars => Inv'
<1> SUFFICES ASSUME Inv, [Next]_vars PROVE Inv'
  OBVIOUS
<1>1. CASE UNCHANGED vars
  <2>1. UNCHANGED <<flows, made, owner, read, latest, main, queue, pc, reader, done, open, sent>>
    BY <1>1, Zenon DEF vars, loopVars
  <2>2. TypeOK /\ FlowsInTable /\ QueuesOrdered
    BY InvParts
  <2>3. TypeOK'
    BY <2>1, <2>2, Zenon DEF TypeOK
  <2>4. FlowsInTable' /\ QueuesOrdered'
    BY <2>1, <2>2, Zenon DEF FlowsInTable, QueuesOrdered, Running, Active
  <2> QED
    BY <2>3, <2>4, InvPartsNext
<1> QED
  BY <1>1, RefuseInv, QueueInv, StartInv, EndInv, FlowMovesInv, SendInv, DeleteInv
     DEF Next, FlowStep

\* The forwarder, whatever its sources, its sockets and its context do: every
\* socket and every reader belongs to the flow in the table of its source,
\* there are no more of them than MaxUDPFlows, and no queue outgrows its depth.
THEOREM ForwardSound == Spec => []ForwardInv
<1>1. Inv => ForwardInv
  BY DEF Inv
<1> QED
  BY <1>1, InitInv, NextInv, PTL DEF Spec

\* Only Send changes what was sent last, and it sends a pending datagram.
LEMMA NextSends == Inv /\ [Next]_vars => [SendsNext]_vars
<1> SUFFICES ASSUME Inv, Next PROVE SendsNext
  OBVIOUS
<1>1. CASE sent' = sent
  BY <1>1 DEF SendsNext
<1>2. ASSUME NEW f \in Flow, Send(f)
      PROVE  SendsNext
  <2>1. /\ pc[f] = "send" /\ queue[f] # <<>>
        /\ sent' = [sent EXCEPT ![owner[f]] = Head(queue[f])]
    BY <1>2 DEF Send
  <2>2. TypeOK /\ FlowsInTable /\ QueuesOrdered
    BY InvParts
  <2>3. /\ owner[f] \in Source /\ queue[f] \in Seq(1..MaxPackets) /\ Running(f)
        /\ latest[owner[f]] \in Nat /\ sent[owner[f]] \in Nat
    BY <2>1, <2>2 DEF TypeOK, FlowsInTable, Running
  <2>4. Pending(queue[f], sent[owner[f]], latest[owner[f]])
    BY <2>2, <2>3 DEF QueuesOrdered
  <2>5. /\ Head(queue[f]) \in 1..MaxPackets
        /\ sent[owner[f]] < Head(queue[f]) /\ Head(queue[f]) <= latest[owner[f]]
    BY <2>1, <2>3, <2>4, TailPending
  <2>6. sent \in [Source -> 0..MaxPackets]
    BY <2>2 DEF TypeOK
  <2> QED
    BY <2>1, <2>3, <2>5, <2>6 DEF SendsNext
<1>3. CASE ~\E f \in Flow : Send(f)
  <2>1. sent' = sent
    BY <1>3 DEF Next, FlowStep, Refuse, Queue, Start, Stop, Return, Dialed, DialFailed, SendFailed,
                Cancelled, CloseRemote, ReaderDone, Delete, AfterFunc, ReaderEnds
  <2> QED
    BY <1>1, <2>1
<1> QED
  BY <1>2, <1>3

\* A source's datagrams go out in the order in which they were read, across
\* the flows that carry them, and none goes out twice.
THEOREM DatagramsInOrder == Spec => SentInOrder
BY InitInv, NextInv, NextSends, PTL DEF Spec, SentInOrder

-----------------------------------------------------------------------------
(***************************************************************************)
(* The published services.                                                 *)
(***************************************************************************)
HIDE DEF Flow

\* A flow that is open has a timer, armed or about to be served.
LEMMA SrvInvParts ==
    ServiceIInv <=> /\ ServiceTypeOK /\ SlotsExact
                    /\ \A f \in Inbound :
                         /\ FlowSound(f)
                         /\ handler[f] # "none" /\ ~closed[f] => timer[f] # Off \/ "firing" \in checks[f]
BY Zenon DEF ServiceIInv, ServiceInv, Watched, NothingLeft, SlotsExact, FlowSound

\* A step of one flow, which finds the others as they were.
LEMMA SrvOneFlow ==
    ASSUME ServiceIInv, NEW f \in Inbound, ServiceTypeOK', SlotsExact', FlowSound(f)',
           handler'[f] # "none" /\ ~closed'[f] => timer'[f] # Off \/ "firing" \in checks'[f],
           \A g \in Inbound : g # f =>
             /\ handler'[g] = handler[g] /\ sockets'[g] = sockets[g] /\ closed'[g] = closed[g]
             /\ timer'[g] = timer[g] /\ checks'[g] = checks[g] /\ pump'[g] = pump[g]
    PROVE  ServiceIInv'
<1>1. \A g \in Inbound :
        /\ FlowSound(g)
        /\ handler[g] # "none" /\ ~closed[g] => timer[g] # Off \/ "firing" \in checks[g]
  BY SrvInvParts
<1>2. ASSUME NEW g \in Inbound
      PROVE  /\ FlowSound(g)'
             /\ handler'[g] # "none" /\ ~closed'[g] => timer'[g] # Off \/ "firing" \in checks'[g]
  <2>1. CASE g = f
    BY <2>1
  <2>2. CASE g # f
    BY <1>1, <2>2 DEF FlowSound
  <2> QED
    BY <2>1, <2>2, Zenon
<1> QED
  BY <1>2 DEF ServiceIInv, ServiceInv, Watched, NothingLeft, SlotsExact, FlowSound

\* The slots of a step that takes none and returns none.
LEMMA SrvSlotsKept ==
    ASSUME ServiceTypeOK, SlotsExact, UNCHANGED slots,
           \A f \in Inbound : handler'[f] \in {"dial", "proxy", "drain"} <=> handler[f] \in {"dial", "proxy", "drain"}
    PROVE  SlotsExact' /\ slots' \subseteq Inbound /\ Cardinality(slots') <= MaxServiceFlows
BY DEF SlotsExact, ServiceTypeOK

\* The handler of f returns its slot.
LEMMA SrvSlotReturned ==
    ASSUME ServiceTypeOK, SlotsExact, NEW f \in Inbound, slots' = slots \ {f},
           handler'[f] \notin {"dial", "proxy", "drain"}, \A g \in Inbound : g # f => handler'[g] = handler[g]
    PROVE  SlotsExact' /\ slots' \subseteq Inbound /\ Cardinality(slots') <= MaxServiceFlows
<1>1. slots' \subseteq slots /\ IsFiniteSet(slots) /\ Cardinality(slots) <= MaxServiceFlows
  BY DEF SlotsExact, ServiceTypeOK
<1>2. IsFiniteSet(slots') /\ Cardinality(slots') <= Cardinality(slots)
  BY <1>1, FS_Subset
<1>3. Cardinality(slots') <= MaxServiceFlows
  BY <1>1, <1>2, FS_CardinalityType, ServiceAssumption
<1> QED
  BY <1>2, <1>3 DEF SlotsExact, ServiceTypeOK

\* idlePacketConn.Close, whoever calls it.
LEMMA SrvClosed ==
    ASSUME ServiceTypeOK, NEW f \in Inbound, FlowSound(f), NEW others \in SUBSET {"out"},
           CloseSockets(f, others)
    PROVE  /\ sockets' \in [Inbound -> SUBSET {"in", "out"}] /\ closed' \in [Inbound -> BOOLEAN]
           /\ timer' \in [Inbound -> 0..Timeout \cup {Off}] /\ UNCHANGED <<quiet, checks>>
           /\ closed'[f] /\ ("in" \in sockets'[f] => "closing" \in checks[f])
           /\ sockets'[f] \subseteq sockets[f] /\ sockets'[f] \cap others = {}
           /\ \A g \in Inbound : g # f =>
                sockets'[g] = sockets[g] /\ closed'[g] = closed[g] /\ timer'[g] = timer[g]
<1> DEFINE gone == others \cup IF closed[f] THEN {} ELSE {"in"}
<1>1. /\ sockets' = [sockets EXCEPT ![f] = sockets[f] \ gone]
      /\ closed' = [closed EXCEPT ![f] = TRUE] /\ UNCHANGED <<quiet, checks>>
      /\ timer' = IF closed[f] THEN timer ELSE [timer EXCEPT ![f] = Off]
  BY DEF CloseSockets
<1>2. closed[f] \/ "in" \in gone
  OBVIOUS
<1>3. others \subseteq gone
  OBVIOUS
<1> HIDE DEF gone
<1>4. /\ sockets' \in [Inbound -> SUBSET {"in", "out"}] /\ sockets'[f] = sockets[f] \ gone
      /\ \A g \in Inbound : g # f => sockets'[g] = sockets[g]
  BY <1>1 DEF ServiceTypeOK
<1>5. /\ closed' \in [Inbound -> BOOLEAN] /\ closed'[f]
      /\ \A g \in Inbound : g # f => closed'[g] = closed[g]
  BY <1>1 DEF ServiceTypeOK
<1>6. /\ timer' \in [Inbound -> 0..Timeout \cup {Off}]
      /\ \A g \in Inbound : g # f => timer'[g] = timer[g]
  BY <1>1 DEF ServiceTypeOK
<1> QED
  BY <1>1, <1>2, <1>3, <1>4, <1>5, <1>6 DEF FlowSound

-----------------------------------------------------------------------------
LEMMA SrvInitInv == ServiceInit => ServiceIInv
<1> SUFFICES ASSUME ServiceInit PROVE ServiceIInv
  OBVIOUS
<1>1. slots = {} /\ IsFiniteSet({}) /\ Cardinality({}) = 0
  BY FS_EmptySet DEF ServiceInit
<1>2. ServiceTypeOK
  <2>1. /\ handler \in [Inbound -> {"none", "begin", "dial", "proxy", "drain", "done"}]
        /\ sockets \in [Inbound -> SUBSET {"in", "out"}] /\ closed \in [Inbound -> BOOLEAN]
        /\ checks \in [Inbound -> SUBSET {"firing", "closing"}] /\ cancelled \in BOOLEAN
    BY Zenon DEF ServiceInit
  <2>2. pump \in [Inbound -> [Way -> {"read", "touch", "write", "done"}]]
    BY DEF ServiceInit
  <2>3. timer \in [Inbound -> 0..Timeout \cup {Off}] /\ quiet \in [Inbound -> 0..Timeout]
    BY ServiceAssumption DEF ServiceInit
  <2> QED
    BY <1>1, <2>1, <2>2, <2>3, ServiceAssumption DEF ServiceTypeOK
<1>3. SlotsExact
  BY <1>1 DEF SlotsExact, ServiceInit
<1>4. \A f \in Inbound : FlowSound(f) /\ handler[f] = "none"
  BY DEF ServiceInit, FlowSound
<1> QED
  BY <1>2, <1>3, <1>4, SrvInvParts

\* A flow arrives, with its socket and its timer.
LEMMA SrvArriveInv ==
    ASSUME ServiceIInv, NEW f \in Inbound, newIdlePacketConn(f)
    PROVE  ServiceIInv'
<1>1. ServiceTypeOK /\ SlotsExact /\ FlowSound(f)
  BY SrvInvParts
<1>2. /\ handler[f] = "none" /\ handler' = [handler EXCEPT ![f] = "begin"]
      /\ sockets' = [sockets EXCEPT ![f] = {"in"}]
      /\ timer' = [timer EXCEPT ![f] = Timeout] /\ quiet' = [quiet EXCEPT ![f] = 0]
      /\ UNCHANGED <<cancelled, slots, closed, checks, pump>>
  BY DEF newIdlePacketConn
<1>3. /\ handler' \in [Inbound -> {"none", "begin", "dial", "proxy", "drain", "done"}]
      /\ handler'[f] = "begin" /\ \A g \in Inbound : g # f => handler'[g] = handler[g]
  BY <1>1, <1>2 DEF ServiceTypeOK
<1>4. /\ sockets' \in [Inbound -> SUBSET {"in", "out"}] /\ sockets'[f] = {"in"}
      /\ \A g \in Inbound : g # f => sockets'[g] = sockets[g]
  BY <1>1, <1>2 DEF ServiceTypeOK
<1>5. /\ timer' \in [Inbound -> 0..Timeout \cup {Off}] /\ timer'[f] = Timeout
      /\ \A g \in Inbound : g # f => timer'[g] = timer[g]
      /\ quiet' \in [Inbound -> 0..Timeout] /\ Timeout # Off
  BY <1>1, <1>2, ServiceAssumption DEF ServiceTypeOK
<1>6. SlotsExact' /\ slots' \subseteq Inbound /\ Cardinality(slots') <= MaxServiceFlows
  <2>1. \A g \in Inbound : handler'[g] \in {"dial", "proxy", "drain"} <=> handler[g] \in {"dial", "proxy", "drain"}
    BY <1>2, <1>3
  <2> QED
    BY <1>1, <1>2, <2>1, SrvSlotsKept
<1>7. ServiceTypeOK'
  BY <1>1, <1>2, <1>3, <1>4, <1>5, <1>6 DEF ServiceTypeOK
<1>8. FlowSound(f)'
  BY <1>1, <1>2, <1>3, <1>4, Zenon DEF FlowSound
<1> QED
  BY <1>2, <1>3, <1>4, <1>5, <1>6, <1>7, <1>8, SrvOneFlow

\* The timer fires, and checkIdle runs in its two steps.
LEMMA SrvTimerInv ==
    ASSUME ServiceIInv, NEW f \in Inbound, TimerFires(f)
    PROVE  ServiceIInv'
<1>1. ServiceTypeOK /\ SlotsExact /\ FlowSound(f)
  BY SrvInvParts
<1>2. /\ timer[f] = 0 /\ timer' = [timer EXCEPT ![f] = Off]
      /\ checks' = [checks EXCEPT ![f] = checks[f] \cup {"firing"}]
      /\ UNCHANGED <<cancelled, slots, handler, sockets, closed, quiet, pump>>
  BY DEF TimerFires
<1>3. /\ timer' \in [Inbound -> 0..Timeout \cup {Off}]
      /\ \A g \in Inbound : g # f => timer'[g] = timer[g]
      /\ timer[f] # Off
  BY <1>1, <1>2, ServiceAssumption DEF ServiceTypeOK
<1>4. /\ checks' \in [Inbound -> SUBSET {"firing", "closing"}]
      /\ checks'[f] = checks[f] \cup {"firing"}
      /\ \A g \in Inbound : g # f => checks'[g] = checks[g]
  BY <1>1, <1>2 DEF ServiceTypeOK
<1>5. SlotsExact' /\ ServiceTypeOK'
  BY <1>1, <1>2, <1>3, <1>4 DEF ServiceTypeOK, SlotsExact
<1>6. FlowSound(f)'
  BY <1>1, <1>2, <1>3, <1>4 DEF FlowSound
<1> QED
  BY <1>2, <1>3, <1>4, <1>5, <1>6, SrvOneFlow

LEMMA SrvCheckInv ==
    ASSUME ServiceIInv, NEW f \in Inbound, checkIdle(f)
    PROVE  ServiceIInv'
<1>1. ServiceTypeOK /\ SlotsExact /\ FlowSound(f)
  BY SrvInvParts
<1>2. /\ "firing" \in checks[f]
      /\ UNCHANGED <<cancelled, slots, handler, sockets, quiet, pump>>
  BY DEF checkIdle
<1>3. CASE ~closed[f] /\ quiet[f] >= Timeout
  <2>1. /\ closed' = [closed EXCEPT ![f] = TRUE] /\ checks' = [checks EXCEPT ![f] = {"closing"}]
        /\ UNCHANGED timer
    BY <1>3 DEF checkIdle
  <2>2. /\ closed' \in [Inbound -> BOOLEAN] /\ closed'[f]
        /\ checks' \in [Inbound -> SUBSET {"firing", "closing"}] /\ checks'[f] = {"closing"}
        /\ \A g \in Inbound : g # f => closed'[g] = closed[g] /\ checks'[g] = checks[g]
    BY <1>1, <2>1 DEF ServiceTypeOK
  <2>3. SlotsExact' /\ ServiceTypeOK'
    BY <1>1, <1>2, <2>1, <2>2 DEF ServiceTypeOK, SlotsExact
  <2>4. FlowSound(f)'
    BY <1>1, <1>2, <2>1, <2>2 DEF FlowSound
  <2> QED
    BY <1>2, <2>1, <2>2, <2>3, <2>4, SrvOneFlow, Zenon
<1>4. CASE ~(~closed[f] /\ quiet[f] >= Timeout)
  <2>1. /\ timer' = IF closed[f] THEN timer ELSE [timer EXCEPT ![f] = Timeout - quiet[f]]
        /\ checks' = [checks EXCEPT ![f] = checks[f] \ {"firing"}] /\ UNCHANGED closed
    BY <1>4, Zenon DEF checkIdle
  <2>2. Timeout - quiet[f] \in 0..Timeout /\ Off \notin 0..Timeout
    BY <1>1, ServiceAssumption DEF ServiceTypeOK
  <2>3. /\ timer' \in [Inbound -> 0..Timeout \cup {Off}] /\ (~closed[f] => timer'[f] # Off)
        /\ \A g \in Inbound : g # f => timer'[g] = timer[g]
    BY <1>1, <2>1, <2>2 DEF ServiceTypeOK
  <2>4. /\ checks' \in [Inbound -> SUBSET {"firing", "closing"}]
        /\ checks'[f] = checks[f] \ {"firing"}
        /\ \A g \in Inbound : g # f => checks'[g] = checks[g]
    BY <1>1, <2>1 DEF ServiceTypeOK
  <2>5. SlotsExact' /\ ServiceTypeOK'
    BY <1>1, <1>2, <2>1, <2>3, <2>4 DEF ServiceTypeOK, SlotsExact
  <2>6. handler[f] # "none"
    BY <1>1, <1>2, Zenon DEF FlowSound
  <2>7. FlowSound(f)'
    BY <1>1, <1>2, <2>1, <2>4, <2>6 DEF FlowSound
  <2> QED
    BY <1>2, <2>1, <2>3, <2>4, <2>5, <2>7, SrvOneFlow
<1> QED
  BY <1>3, <1>4

LEMMA SrvCloseIdleInv ==
    ASSUME ServiceIInv, NEW f \in Inbound, CloseIdle(f)
    PROVE  ServiceIInv'
<1>1. ServiceTypeOK /\ SlotsExact /\ FlowSound(f)
  BY SrvInvParts
<1>2. /\ "closing" \in checks[f] /\ sockets' = [sockets EXCEPT ![f] = sockets[f] \ {"in"}]
      /\ checks' = [checks EXCEPT ![f] = checks[f] \ {"closing"}]
      /\ UNCHANGED <<cancelled, slots, handler, closed, timer, quiet, pump>>
  BY DEF CloseIdle
<1>3. /\ sockets' \in [Inbound -> SUBSET {"in", "out"}] /\ sockets'[f] = sockets[f] \ {"in"}
      /\ \A g \in Inbound : g # f => sockets'[g] = sockets[g]
  BY <1>1, <1>2 DEF ServiceTypeOK
<1>4. /\ checks' \in [Inbound -> SUBSET {"firing", "closing"}]
      /\ checks'[f] = checks[f] \ {"closing"}
      /\ \A g \in Inbound : g # f => checks'[g] = checks[g]
  BY <1>1, <1>2 DEF ServiceTypeOK
<1>5. SlotsExact' /\ ServiceTypeOK'
  BY <1>1, <1>2, <1>3, <1>4 DEF ServiceTypeOK, SlotsExact
<1>6. closed[f] /\ FlowSound(f)'
  BY <1>1, <1>2, <1>3, <1>4 DEF FlowSound
<1> QED
  BY <1>2, <1>3, <1>4, <1>5, <1>6, SrvOneFlow

\* A pump moves: what touch does to the timer, or nothing but the pump.
LEMMA SrvPumpInv ==
    ASSUME ServiceIInv, NEW f \in Inbound, NEW w \in Way, PumpStep(f, w)
    PROVE  ServiceIInv'
<1>1. ServiceTypeOK /\ SlotsExact /\ FlowSound(f)
  BY SrvInvParts
<1>2. UNCHANGED <<cancelled, slots, handler, sockets, closed, checks>>
  BY DEF PumpStep, PumpRead, touch, PumpWrite, PumpFails, idleVars
<1>3. PICK place \in {"read", "touch", "write", "done"} : pump' = [pump EXCEPT ![f][w] = place]
  BY DEF PumpStep, PumpRead, touch, PumpWrite, PumpFails
<1>4. /\ pump' \in [Inbound -> [Way -> {"read", "touch", "write", "done"}]]
      /\ \A g \in Inbound : g # f => pump'[g] = pump[g]
  BY <1>1, <1>3 DEF ServiceTypeOK
<1>5. handler[f] # "none"
  BY <1>1 DEF PumpStep, PumpRead, touch, PumpWrite, PumpFails, Proxying, FlowSound
<1>6. /\ timer' \in [Inbound -> 0..Timeout \cup {Off}] /\ quiet' \in [Inbound -> 0..Timeout]
      /\ \A g \in Inbound : g # f => timer'[g] = timer[g]
      /\ timer'[f] # timer[f] => timer'[f] # Off
  <2>1. \/ UNCHANGED <<timer, quiet>>
        \/ timer' = [timer EXCEPT ![f] = Timeout] /\ quiet' = [quiet EXCEPT ![f] = 0]
    BY DEF PumpStep, PumpRead, touch, PumpWrite, PumpFails, idleVars
  <2>2. Timeout \in 0..Timeout /\ 0 \in 0..Timeout /\ Timeout # Off
    BY ServiceAssumption
  <2>3. timer \in [Inbound -> 0..Timeout \cup {Off}] /\ quiet \in [Inbound -> 0..Timeout]
    BY <1>1 DEF ServiceTypeOK
  <2>4. CASE UNCHANGED <<timer, quiet>>
    BY <2>3, <2>4
  <2>5. CASE timer' = [timer EXCEPT ![f] = Timeout] /\ quiet' = [quiet EXCEPT ![f] = 0]
    BY <2>2, <2>3, <2>5
  <2> QED
    BY <2>1, <2>4, <2>5
<1>7. SlotsExact' /\ ServiceTypeOK'
  BY <1>1, <1>2, <1>4, <1>6 DEF ServiceTypeOK, SlotsExact
<1>8. FlowSound(f)'
  BY <1>1, <1>2, <1>5 DEF FlowSound
<1>9. handler'[f] # "none" /\ ~closed'[f] => timer'[f] # Off \/ "firing" \in checks'[f]
  BY <1>2, <1>6, SrvInvParts
<1> QED
  BY <1>2, <1>4, <1>6, <1>7, <1>8, <1>9, SrvOneFlow

\* The handler gets a slot, and dials.
LEMMA SrvTakeSlotInv ==
    ASSUME ServiceIInv, NEW f \in Inbound, TakeSlot(f)
    PROVE  ServiceIInv'
<1>1. ServiceTypeOK /\ SlotsExact /\ FlowSound(f)
  BY SrvInvParts
<1>2. /\ handler[f] = "begin" /\ Cardinality(slots) < MaxServiceFlows
      /\ slots' = slots \cup {f} /\ handler' = [handler EXCEPT ![f] = "dial"]
      /\ UNCHANGED <<cancelled, sockets, closed, timer, quiet, checks, pump>>
  BY DEF TakeSlot, idleVars
<1>3. /\ handler' \in [Inbound -> {"none", "begin", "dial", "proxy", "drain", "done"}]
      /\ handler'[f] = "dial" /\ \A g \in Inbound : g # f => handler'[g] = handler[g]
  BY <1>1, <1>2 DEF ServiceTypeOK
<1>4. IsFiniteSet(slots') /\ Cardinality(slots') <= MaxServiceFlows
  <2>1. f \notin slots /\ IsFiniteSet(slots) /\ Cardinality(slots) \in Nat
    BY <1>1, <1>2, FS_CardinalityType DEF SlotsExact
  <2>2. IsFiniteSet(slots') /\ Cardinality(slots') = Cardinality(slots) + 1
    BY <1>2, <2>1, FS_AddElement
  <2> QED
    BY <1>2, <2>1, <2>2, ServiceAssumption
<1>5. slots' = {g \in Inbound : handler'[g] \in {"dial", "proxy", "drain"}}
  BY <1>1, <1>2, <1>3 DEF SlotsExact
<1>6. SlotsExact' /\ ServiceTypeOK'
  BY <1>1, <1>2, <1>3, <1>4, <1>5 DEF ServiceTypeOK, SlotsExact
<1>7. FlowSound(f)'
  BY <1>1, <1>2, <1>3, Zenon DEF FlowSound
<1>8. handler'[f] # "none" /\ ~closed'[f] => timer'[f] # Off \/ "firing" \in checks'[f]
  BY <1>2, SrvInvParts
<1> QED
  BY <1>2, <1>3, <1>6, <1>7, <1>8, SrvOneFlow, Zenon

LEMMA SrvDialedInv ==
    ASSUME ServiceIInv, NEW f \in Inbound, ServeDialed(f)
    PROVE  ServiceIInv'
<1>1. ServiceTypeOK /\ SlotsExact /\ FlowSound(f)
  BY SrvInvParts
<1>2. /\ handler[f] = "dial" /\ handler' = [handler EXCEPT ![f] = "proxy"]
      /\ sockets' = [sockets EXCEPT ![f] = sockets[f] \cup {"out"}]
      /\ UNCHANGED <<cancelled, slots, closed, timer, quiet, checks, pump>>
  BY DEF ServeDialed, idleVars
<1>3. /\ handler' \in [Inbound -> {"none", "begin", "dial", "proxy", "drain", "done"}]
      /\ handler'[f] = "proxy" /\ \A g \in Inbound : g # f => handler'[g] = handler[g]
  BY <1>1, <1>2 DEF ServiceTypeOK
<1>4. /\ sockets' \in [Inbound -> SUBSET {"in", "out"}] /\ sockets'[f] = sockets[f] \cup {"out"}
      /\ \A g \in Inbound : g # f => sockets'[g] = sockets[g]
  BY <1>1, <1>2 DEF ServiceTypeOK
<1>5. SlotsExact' /\ slots' \subseteq Inbound /\ Cardinality(slots') <= MaxServiceFlows
  <2>1. \A g \in Inbound : handler'[g] \in {"dial", "proxy", "drain"} <=> handler[g] \in {"dial", "proxy", "drain"}
    BY <1>2, <1>3
  <2> QED
    BY <1>1, <1>2, <2>1, SrvSlotsKept
<1>6. ServiceTypeOK'
  BY <1>1, <1>2, <1>3, <1>4, <1>5 DEF ServiceTypeOK
<1>7. FlowSound(f)'
  BY <1>1, <1>2, <1>3, <1>4, Zenon DEF FlowSound
<1>8. handler'[f] # "none" /\ ~closed'[f] => timer'[f] # Off \/ "firing" \in checks'[f]
  BY <1>2, SrvInvParts
<1> QED
  BY <1>2, <1>3, <1>4, <1>5, <1>6, <1>7, <1>8, SrvOneFlow

\* The handler refuses the flow, cannot dial, or sees the first pump end; or
\* the process is cancelled.  All of them close the flow.
LEMMA SrvClosingInv ==
    ASSUME ServiceIInv, NEW f \in Inbound, Refused(f) \/ ServeDialFailed(f) \/ FirstDone(f) \/ CancelFlow(f)
    PROVE  ServiceIInv'
<1>1. ServiceTypeOK /\ SlotsExact /\ FlowSound(f)
  BY SrvInvParts
<1>2. PICK others \in SUBSET {"out"} :
        CloseSockets(f, others) /\ (others = {"out"} \/ handler[f] \in {"begin", "dial"})
  BY DEF Refused, ServeDialFailed, FirstDone, CancelFlow
<1>3. /\ sockets' \in [Inbound -> SUBSET {"in", "out"}] /\ closed' \in [Inbound -> BOOLEAN]
      /\ timer' \in [Inbound -> 0..Timeout \cup {Off}] /\ UNCHANGED <<quiet, checks>>
      /\ closed'[f] /\ ("in" \in sockets'[f] => "closing" \in checks[f])
      /\ sockets'[f] \subseteq sockets[f] /\ sockets'[f] \cap others = {}
      /\ \A g \in Inbound : g # f =>
           sockets'[g] = sockets[g] /\ closed'[g] = closed[g] /\ timer'[g] = timer[g]
  BY <1>1, <1>2, SrvClosed, Zenon
<1>4. "out" \notin sockets'[f]
  BY <1>1, <1>2, <1>3 DEF FlowSound
<1>5. UNCHANGED <<cancelled, pump>> /\ handler[f] # "none"
  BY DEF Refused, ServeDialFailed, FirstDone, CancelFlow
<1>6. PICK place \in {"done", "drain", handler[f]} : handler' = [handler EXCEPT ![f] = place]
  BY <1>1 DEF Refused, ServeDialFailed, FirstDone, CancelFlow, ServiceTypeOK
<1>7. /\ handler' \in [Inbound -> {"none", "begin", "dial", "proxy", "drain", "done"}]
      /\ handler'[f] # "none" /\ \A g \in Inbound : g # f => handler'[g] = handler[g]
  BY <1>1, <1>5, <1>6 DEF ServiceTypeOK
<1>8. SlotsExact' /\ slots' \subseteq Inbound /\ Cardinality(slots') <= MaxServiceFlows
  <2>1. CASE ServeDialFailed(f)
    <3>1. slots' = slots \ {f} /\ handler'[f] = "done"
      BY <1>1, <2>1 DEF ServeDialFailed, ServiceTypeOK
    <3> QED
      BY <1>1, <1>7, <3>1, SrvSlotReturned
  <2>2. CASE Refused(f) \/ FirstDone(f) \/ CancelFlow(f)
    <3>1. /\ UNCHANGED slots
          /\ handler'[f] \in {"dial", "proxy", "drain"} <=> handler[f] \in {"dial", "proxy", "drain"}
      BY <1>1, <2>2 DEF Refused, FirstDone, CancelFlow, ServiceTypeOK
    <3>2. \A g \in Inbound : handler'[g] \in {"dial", "proxy", "drain"} <=> handler[g] \in {"dial", "proxy", "drain"}
      BY <1>7, <3>1
    <3> QED
      BY <1>1, <3>1, <3>2, SrvSlotsKept, Zenon
  <2> QED
    BY <2>1, <2>2
<1>9. ServiceTypeOK'
  BY <1>1, <1>3, <1>5, <1>7, <1>8 DEF ServiceTypeOK
<1>10. FlowSound(f)'
  BY <1>3, <1>4, <1>7, Zenon DEF FlowSound
<1> QED
  BY <1>3, <1>5, <1>7, <1>8, <1>9, <1>10, SrvOneFlow, Zenon

LEMMA SrvSecondDoneInv ==
    ASSUME ServiceIInv, NEW f \in Inbound, SecondDone(f)
    PROVE  ServiceIInv'
<1>1. ServiceTypeOK /\ SlotsExact /\ FlowSound(f)
  BY SrvInvParts
<1>2. /\ handler[f] = "drain" /\ handler' = [handler EXCEPT ![f] = "done"] /\ slots' = slots \ {f}
      /\ UNCHANGED <<cancelled, sockets, closed, timer, quiet, checks, pump>>
  BY Zenon DEF SecondDone, idleVars
<1>3. /\ handler' \in [Inbound -> {"none", "begin", "dial", "proxy", "drain", "done"}]
      /\ handler'[f] = "done" /\ \A g \in Inbound : g # f => handler'[g] = handler[g]
  BY <1>1, <1>2 DEF ServiceTypeOK
<1>4. SlotsExact' /\ slots' \subseteq Inbound /\ Cardinality(slots') <= MaxServiceFlows
  BY <1>1, <1>2, <1>3, SrvSlotReturned
<1>5. ServiceTypeOK'
  BY <1>1, <1>2, <1>3, <1>4 DEF ServiceTypeOK
<1>6. closed[f] /\ FlowSound(f)'
  BY <1>1, <1>2, <1>3, Zenon DEF FlowSound
<1> QED
  BY <1>2, <1>3, <1>4, <1>5, <1>6, SrvOneFlow, Zenon

\* Time passes, or the process is cancelled.
LEMMA SrvTickInv ==
    ASSUME ServiceIInv, Tick \/ Cancel
    PROVE  ServiceIInv'
<1>1. ServiceTypeOK /\ SlotsExact
  BY SrvInvParts
<1>2. UNCHANGED <<slots, handler, sockets, closed, checks, pump>> /\ cancelled' \in BOOLEAN
  BY <1>1, Zenon DEF Tick, Cancel, idleVars, ServiceTypeOK
<1>3. /\ timer' \in [Inbound -> 0..Timeout \cup {Off}]
      /\ \A f \in Inbound : timer'[f] = Off <=> timer[f] = Off
  <2>1. CASE Cancel
    BY <1>1, <2>1 DEF Cancel, idleVars, ServiceTypeOK
  <2>2. CASE Tick
    <3>1. timer' = [f \in Inbound |-> IF timer[f] \in {0, Off} THEN timer[f] ELSE timer[f] - 1]
      BY <2>2 DEF Tick
    <3>2. ASSUME NEW f \in Inbound, timer[f] \notin {0, Off}
          PROVE  timer[f] - 1 \in 0..Timeout
      <4>1. timer[f] \in 0..Timeout \cup {Off}
        BY <1>1 DEF ServiceTypeOK
      <4> QED
        BY <3>2, <4>1, ServiceAssumption
    <3> QED
      BY <1>1, <3>1, <3>2, ServiceAssumption DEF ServiceTypeOK
  <2> QED
    BY <2>1, <2>2
<1>4. quiet' \in [Inbound -> 0..Timeout]
  <2>1. CASE Cancel
    BY <1>1, <2>1 DEF Cancel, idleVars, ServiceTypeOK
  <2>2. CASE Tick
    <3>1. quiet' = [f \in Inbound |-> IF handler[f] = "none" \/ closed[f] \/ quiet[f] = Timeout
                                  THEN quiet[f] ELSE quiet[f] + 1]
      BY <2>2 DEF Tick
    <3>2. \A f \in Inbound : quiet[f] \in 0..Timeout
      BY <1>1 DEF ServiceTypeOK
    <3>3. \A f \in Inbound : quiet[f] # Timeout => quiet[f] + 1 \in 0..Timeout
      BY <3>2, ServiceAssumption
    <3> QED
      BY <3>1, <3>2, <3>3, Zenon
  <2> QED
    BY <2>1, <2>2
<1>5. ServiceTypeOK' /\ SlotsExact'
  BY <1>1, <1>2, <1>3, <1>4 DEF ServiceTypeOK, SlotsExact
<1>6. \A f \in Inbound :
        /\ FlowSound(f)'
        /\ handler'[f] # "none" /\ ~closed'[f] => timer'[f] # Off \/ "firing" \in checks'[f]
  BY <1>2, <1>3, SrvInvParts DEF FlowSound
<1> QED
  BY <1>5, <1>6 DEF ServiceIInv, ServiceInv, Watched, NothingLeft, SlotsExact, FlowSound

\* Every step keeps the invariant.
LEMMA SrvNextInv == ServiceIInv /\ [ServiceNext]_serviceVars => ServiceIInv'
<1> SUFFICES ASSUME ServiceIInv, [ServiceNext]_serviceVars PROVE ServiceIInv'
  OBVIOUS
<1>1. CASE UNCHANGED serviceVars
  BY <1>1 DEF serviceVars, ServiceIInv, ServiceInv, ServiceTypeOK, Watched, NothingLeft, SlotsExact, FlowSound
<1> QED
  BY <1>1, SrvArriveInv, SrvTimerInv, SrvCheckInv, SrvCloseIdleInv, SrvPumpInv, SrvTakeSlotInv, SrvDialedInv, SrvClosingInv,
     SrvSecondDoneInv, SrvTickInv DEF ServiceNext, Handler

\* The published services, under any traffic: the slots that are taken are
\* within the limit, an open flow has an idle timer that will look at it, and
\* a handler that has returned has left neither a slot nor a socket that
\* nobody is about to close.
THEOREM ServiceSound == ServiceSpec => []ServiceInv
<1>1. ServiceIInv => ServiceInv
  BY DEF ServiceIInv
<1> QED
  BY <1>1, SrvInitInv, SrvNextInv, PTL DEF ServiceSpec

\* Only checkIdle claims a flow, and only one that has been quiet.
LEMMA SrvNextClosesQuiet == ServiceIInv /\ [ServiceNext]_serviceVars => [ClosesQuiet]_serviceVars
<1> SUFFICES ASSUME ServiceIInv, ServiceNext PROVE ClosesQuiet
  OBVIOUS
<1>1. \A f \in Inbound : "closing" \in checks[f] => closed[f]
  BY SrvInvParts, Zenon DEF FlowSound
<1>2. ServiceTypeOK
  BY SrvInvParts
<1>3. CASE UNCHANGED checks
  BY <1>1, <1>3 DEF ClosesQuiet
<1>4. ASSUME NEW f \in Inbound, TimerFires(f) \/ CloseIdle(f)
      PROVE  ClosesQuiet
  <2>1. \A g \in Inbound : "closing" \in checks'[g] => "closing" \in checks[g]
    <3>1. CASE TimerFires(f)
      BY <1>2, <3>1 DEF TimerFires, ServiceTypeOK
    <3>2. CASE CloseIdle(f)
      BY <1>2, <3>2 DEF CloseIdle, ServiceTypeOK
    <3> QED
      BY <1>4, <3>1, <3>2
  <2> QED
    BY <1>1, <2>1 DEF ClosesQuiet
<1>5. ASSUME NEW f \in Inbound, checkIdle(f)
      PROVE  ClosesQuiet
  <2>1. CASE ~closed[f] /\ quiet[f] >= Timeout
    <3>1. checks' = [checks EXCEPT ![f] = {"closing"}]
      BY <1>5, <2>1 DEF checkIdle
    <3> QED
      BY <1>1, <1>2, <2>1, <3>1 DEF ClosesQuiet, ServiceTypeOK
  <2>2. CASE ~(~closed[f] /\ quiet[f] >= Timeout)
    <3>1. checks' = [checks EXCEPT ![f] = checks[f] \ {"firing"}]
      BY <1>5, <2>2 DEF checkIdle
    <3> QED
      BY <1>1, <1>2, <3>1 DEF ClosesQuiet, ServiceTypeOK
  <2> QED
    BY <2>1, <2>2
<1>6. CASE ~\E f \in Inbound : TimerFires(f) \/ CloseIdle(f) \/ checkIdle(f)
  <2>1. UNCHANGED checks
    BY <1>6, Zenon DEF ServiceNext, Handler, PumpStep, newIdlePacketConn, PumpRead, touch, PumpWrite, PumpFails,
                TakeSlot, ServeDialed, Refused, ServeDialFailed, FirstDone, CancelFlow, SecondDone, CloseSockets,
                Tick, Cancel, idleVars
  <2> QED
    BY <1>3, <2>1
<1> QED
  BY <1>4, <1>5, <1>6

\* Whatever the order in which datagrams, firings of the timer and their
\* checkIdle goroutines come, the idle timer closes no flow that was touched
\* less than Timeout ago.
THEOREM NeverClosedEarly == ServiceSpec => NotClosedEarly
BY SrvInitInv, SrvNextInv, SrvNextClosesQuiet, PTL DEF ServiceSpec, NotClosedEarly
=============================================================================
