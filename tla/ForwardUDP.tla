----------------------------- MODULE ForwardUDP -----------------------------
(***************************************************************************)
(* The local UDP forwarder (internal/proxy, udp.go, ForwardUDP).  One loop *)
(* reads the local socket and queues each datagram for the flow of its     *)
(* source; every flow has a goroutine that dials the tunnel and sends, and *)
(* a reader that returns the replies to the source.                        *)
(*                                                                         *)
(* A flow is a number; the flow of a source is replaced by a new one after *)
(* it ends.  Datagrams are numbered in the order in which the loop reads   *)
(* them.  Replies change no state here and have no action.                 *)
(***************************************************************************)
EXTENDS Integers, Sequences, FiniteSets

CONSTANTS
    Source,        \* source addresses of local applications
    NoFlow,
    MaxUDPFlows,
    QueueDepth,    \* udpQueueDepth
    MaxPackets, MaxFlows   \* bounds of the model

ASSUME ForwardAssumption ==
    /\ NoFlow \notin 1..MaxFlows
    /\ MaxUDPFlows \in Nat /\ QueueDepth \in Nat \ {0}
    /\ MaxPackets \in Nat /\ MaxFlows \in Nat

VARIABLES
    flows,     \* flows[s]: the flow of source s, or NoFlow
    owner,     \* owner[f]: the source of flow f
    queue,     \* queue[f]: flow.queue
    pc,        \* pc[f]: where start is
    reader,    \* reader[f]: the reader goroutine
    done,      \* done[f]: flowCtx is cancelled
    open,      \* the flows whose remote socket is open
    made,      \* flows made so far
    read,      \* datagrams read from the local socket so far
    latest,    \* latest[s]: the last datagram queued for s
    sent,      \* sent[s]: the last datagram of s that was sent
    main       \* "run", "wait" in wg.Wait, or "returned"

loopVars == <<flows, made, owner, read, latest, main>>
vars == <<loopVars, queue, pc, reader, done, open, sent>>

Flow == 1..MaxFlows

TypeOK ==
    /\ flows \in [Source -> Flow \cup {NoFlow}]
    /\ owner \in [Flow -> Source \cup {NoFlow}]
    /\ queue \in [Flow -> Seq(1..MaxPackets)]
    /\ \A f \in Flow : Len(queue[f]) <= QueueDepth
    /\ pc \in [Flow -> {"none", "dial", "send", "close", "wait", "delete", "ended"}]
    /\ reader \in [Flow -> {"none", "run", "ended"}]
    /\ done \in [Flow -> BOOLEAN] /\ open \subseteq Flow
    /\ made \in 0..MaxFlows /\ read \in 0..MaxPackets
    /\ latest \in [Source -> 0..MaxPackets] /\ sent \in [Source -> 0..MaxPackets]
    /\ main \in {"run", "wait", "returned"}

Init ==
    /\ flows = [s \in Source |-> NoFlow] /\ owner = [f \in Flow |-> NoFlow]
    /\ queue = [f \in Flow |-> <<>>]
    /\ pc = [f \in Flow |-> "none"] /\ reader = [f \in Flow |-> "none"]
    /\ done = [f \in Flow |-> FALSE] /\ open = {}
    /\ made = 0 /\ read = 0 /\ main = "run"
    /\ latest = [s \in Source |-> 0] /\ sent = [s \in Source |-> 0]

Goto(f, l) == pc' = [pc EXCEPT ![f] = l]

-----------------------------------------------------------------------------
(***************************************************************************)
(* The loop.  It holds mu from the lookup of the flow to the queueing.     *)
(***************************************************************************)

Active == {s \in Source : flows[s] # NoFlow}
HasRoom == Cardinality(Active) < MaxUDPFlows

\* A full queue drops its oldest datagram.  A datagram that the flow takes
\* during this step is one that it takes before or after it.
BugEnqueue(q, p) == IF Len(q) < QueueDepth THEN Append(q, p) ELSE q
enqueue(q, p) ==
    IF Len(q) < QueueDepth THEN Append(q, p) ELSE Append(Tail(q), p)

ReadLocal == main = "run" /\ read < MaxPackets /\ read' = read + 1

\* A new source finds the flow table full.
Refuse(s) ==
    /\ ReadLocal /\ flows[s] = NoFlow /\ ~HasRoom
    /\ UNCHANGED <<flows, made, owner, latest, main, queue, pc, reader, done, open, sent>>

Queue(s) ==
    /\ ReadLocal /\ flows[s] # NoFlow
    /\ queue' = [queue EXCEPT ![flows[s]] = enqueue(@, read')]
    /\ latest' = [latest EXCEPT ![s] = read']
    /\ UNCHANGED <<flows, made, owner, main, pc, reader, done, open, sent>>

Start(s) ==
    LET f == made + 1 IN
    /\ ReadLocal /\ flows[s] = NoFlow /\ HasRoom /\ made < MaxFlows
    /\ made' = f /\ flows' = [flows EXCEPT ![s] = f] /\ owner' = [owner EXCEPT ![f] = s]
    /\ queue' = [queue EXCEPT ![f] = <<read'>>] /\ latest' = [latest EXCEPT ![s] = read']
    /\ Goto(f, "dial")
    /\ UNCHANGED <<main, reader, done, open, sent>>

BugStop ==
    /\ main = "run" /\ main' = "wait"
    /\ UNCHANGED <<flows, made, owner, read, latest, queue, pc, reader, done, open, sent>>

\* ctx is cancelled or the local socket fails: the loop returns, cancels every
\* flow and waits for them.
Stop ==
    /\ main = "run" /\ main' = "wait" /\ done' = [f \in Flow |-> TRUE]
    /\ UNCHANGED <<flows, made, owner, read, latest, queue, pc, reader, open, sent>>

Return ==
    /\ main = "wait" /\ \A f \in Flow : pc[f] \in {"none", "ended"}
    /\ main' = "returned"
    /\ UNCHANGED <<flows, made, owner, read, latest, queue, pc, reader, done, open, sent>>

-----------------------------------------------------------------------------
(***************************************************************************)
(* A flow: the goroutine start, and its deferred calls in their order.     *)
(***************************************************************************)

Dialed(f) ==
    /\ pc[f] = "dial" /\ open' = open \cup {f}
    /\ Goto(f, "send") /\ reader' = [reader EXCEPT ![f] = "run"]
    /\ UNCHANGED <<loopVars, queue, done, sent>>

\* The dial fails, times out or is cancelled.
DialFailed(f) ==
    /\ pc[f] = "dial" /\ Goto(f, "delete")
    /\ UNCHANGED <<loopVars, queue, reader, done, open, sent>>

\* select picks either ready case, so a cancelled flow may go on sending on a
\* socket that is not closed yet.
Send(f) ==
    /\ pc[f] = "send" /\ queue[f] # <<>> /\ f \in open
    /\ queue' = [queue EXCEPT ![f] = Tail(@)]
    /\ sent' = [sent EXCEPT ![owner[f]] = Head(queue[f])]
    /\ UNCHANGED <<loopVars, pc, reader, done, open>>

\* The write fails, or misses its deadline.
SendFailed(f) ==
    /\ pc[f] = "send" /\ queue[f] # <<>>
    /\ queue' = [queue EXCEPT ![f] = Tail(@)] /\ Goto(f, "close")
    /\ UNCHANGED <<loopVars, reader, done, open, sent>>

Cancelled(f) ==
    /\ pc[f] = "send" /\ done[f] /\ Goto(f, "close")
    /\ UNCHANGED <<loopVars, queue, reader, done, open, sent>>

\* The deferred end() and remote.Close(), which then wait for readerDone.
CloseRemote(f) ==
    /\ pc[f] = "close" /\ Goto(f, "wait")
    /\ done' = [done EXCEPT ![f] = TRUE] /\ open' = open \ {f}
    /\ UNCHANGED <<loopVars, queue, reader, sent>>

ReaderDone(f) ==
    /\ pc[f] = "wait" /\ reader[f] = "ended" /\ Goto(f, "delete")
    /\ UNCHANGED <<loopVars, queue, reader, done, open, sent>>

\* The flow leaves the table last, and only if it is the one in the table.
Delete(f) ==
    /\ pc[f] = "delete" /\ Goto(f, "ended")
    /\ flows' = [s \in Source |-> IF flows[s] = f THEN NoFlow ELSE flows[s]]
    /\ UNCHANGED <<made, owner, read, latest, main, queue, reader, done, open, sent>>

\* context.AfterFunc closes the socket of a cancelled flow.
AfterFunc(f) ==
    /\ done[f] /\ f \in open /\ open' = open \ {f}
    /\ UNCHANGED <<loopVars, queue, pc, reader, done, sent>>

\* The reader's read fails because the socket is closed or idle for too long,
\* or the local socket refuses a reply.  The reader cancels the flow.
BugReaderEnds(f) ==
    /\ reader[f] = "run" /\ reader' = [reader EXCEPT ![f] = "ended"]
    /\ done' = [done EXCEPT ![f] = TRUE]
    /\ flows' = [s \in Source |-> IF flows[s] = f THEN NoFlow ELSE flows[s]]
    /\ UNCHANGED <<made, owner, read, latest, main, queue, pc, open, sent>>
ReaderEnds(f) ==
    /\ reader[f] = "run" /\ reader' = [reader EXCEPT ![f] = "ended"]
    /\ done' = [done EXCEPT ![f] = TRUE]
    /\ UNCHANGED <<loopVars, queue, pc, open, sent>>

FlowStep(f) ==
    \/ Dialed(f) \/ DialFailed(f) \/ Send(f) \/ SendFailed(f) \/ Cancelled(f)
    \/ CloseRemote(f) \/ ReaderDone(f) \/ Delete(f)

Next ==
    \/ \E s \in Source : Refuse(s) \/ Queue(s) \/ Start(s)
    \/ Stop \/ Return
    \/ \E f \in Flow : FlowStep(f) \/ AfterFunc(f) \/ ReaderEnds(f)

\* Goroutines run: a dial ends within its ten seconds and a write within its
\* five; a read of a closed socket fails.  A cancelled flow's select finds
\* flowCtx.Done ready each time, and its queue is not refilled forever.
Fairness ==
    /\ WF_vars(Return)
    /\ \A f \in Flow :
         /\ WF_vars(FlowStep(f)) /\ WF_vars(AfterFunc(f))
         /\ WF_vars(f \notin open /\ ReaderEnds(f))

Spec == Init /\ [][Next]_vars /\ Fairness

-----------------------------------------------------------------------------
(***************************************************************************)
(* What the forwarder promises.                                            *)
(***************************************************************************)

\* A remote socket, and the reader of one, belongs to the flow that its
\* source has in the table: replies on it go to an application whose
\* datagrams it carries.
SocketsInTable ==
    \A f \in Flow : f \in open \/ reader[f] = "run" => flows[owner[f]] = f

\* At most MaxUDPFlows sockets and readers exist, those of flows that are
\* ending included: the deferred deletion runs after the socket is closed and
\* the reader is gone.
SocketsBounded ==
    Cardinality({f \in Flow : f \in open \/ reader[f] = "run"}) <= MaxUDPFlows

\* The state invariant of the forwarder, its limits included.
ForwardInv == TypeOK /\ SocketsInTable /\ SocketsBounded

\* What makes ForwardInv inductive.  A flow is in the table, under its source,
\* while its goroutine runs; its socket and its reader do not outlast it.
Running(f) == pc[f] \notin {"none", "ended"}

FlowsInTable ==
    /\ \A f \in Flow :
         /\ Running(f) => f <= made /\ owner[f] \in Source /\ flows[owner[f]] = f
         /\ f \in open => pc[f] \in {"send", "close"}
         /\ reader[f] = "run" => pc[f] \in {"send", "close", "wait"}
    /\ \A s \in Source :
         flows[s] # NoFlow => owner[flows[s]] = s /\ Running(flows[s])
    /\ IsFiniteSet(Active) /\ Cardinality(Active) <= MaxUDPFlows

\* A queue holds datagrams of its source that are not sent yet, oldest first.
Pending(q, from, last) ==
    /\ \A i \in 1..Len(q) : from < q[i] /\ q[i] <= last
    /\ \A i, j \in 1..Len(q) : i < j => q[i] < q[j]

QueuesOrdered ==
    /\ \A f \in Flow : Running(f) => Pending(queue[f], sent[owner[f]], latest[owner[f]])
    /\ \A s \in Source : sent[s] <= latest[s] /\ latest[s] <= read

Inv == ForwardInv /\ FlowsInTable /\ QueuesOrdered

\* What a step sends was read after all that was sent before.
SendsNext ==
    \A s \in Source : sent'[s] # sent[s] => sent'[s] > sent[s] /\ sent'[s] <= latest[s]

\* The datagrams of a source are sent in the order they were read, each at
\* most once, even when its flow ends and another takes its place.
SentInOrder == [][SendsNext]_vars

\* The queue "drops the oldest pending packet" (udp.go, 76): the latest
\* datagram of a source is sent, unless its flow ends first.
LatestSent ==
    \A s \in Source, p \in 1..MaxPackets :
      (flows[s] # NoFlow /\ latest[s] = p) ~>
      (sent[s] >= p \/ latest[s] # p \/ flows[s] = NoFlow)

\* Datagrams keep their order, and the latest is not lost to older ones.
QueueKept == SentInOrder /\ LatestSent

\* ForwardUDP returns once it is stopped, and leaves no socket or goroutine.
Returns ==
    (main = "wait") ~> (main = "returned" /\ open = {} /\ \A f \in Flow : reader[f] # "run")
=============================================================================
