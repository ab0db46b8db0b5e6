--------------------------- MODULE CommandProofs ---------------------------
(***************************************************************************)
(* The order of the deferred calls, for any number of runs, clients and    *)
(* kills: what a run has pushed is a beginning of what its program defers, *)
(* in that order, and so every user of a resource is above it and ends     *)
(* first.                                                                  *)
(*                                                                         *)
(* The second half: commands use the control socket as Control specifies,  *)
(* every step of a command being a step of Control or leaving the socket   *)
(* alone.  What has to be shown is that runs of mosh do not start at the   *)
(* same time under one name, although nothing but their UDP port keeps     *)
(* them apart.  Both together give CommandInv.                             *)
(***************************************************************************)
EXTENDS Command, TLAPS

\* TypeOK without the state of the requests and of the accept loops.
Types ==
    /\ path \in Process \cup {Nothing} /\ listening \subseteq Process
    /\ pc \in [Process -> Place]
    /\ stopped \subseteq Process /\ closing \subseteq Process /\ kills \in 0..MaxKills
    /\ peer \in [Client -> Process \cup {Nothing}]
    /\ \A q \in Client : request[q] = "idle" <=> peer[q] = Nothing

-----------------------------------------------------------------------------
(***************************************************************************)
(* The tables: what each command does and defers.                          *)
(***************************************************************************)
AnyKind == {"forward", "up", "serve", "mosh"}
Item == Resource \cup Goroutine \cup {"control"}

LEMMA Lengths ==
    /\ Len(Deferred["forward"]) = 5 /\ Len(Deferred["up"]) = 5
    /\ Len(Deferred["serve"]) = 4 /\ Len(Deferred["mosh"]) = 6
    /\ Len(Program["forward"]) = 5 /\ Len(Program["up"]) = 5
    /\ Len(Program["serve"]) = 3 /\ Len(Program["mosh"]) = 5
  BY DEF Deferred, Program, forwardSteps, upSteps, serveSteps, moshSteps

\* The names deferred by a command are its own, and different.
LEMMA DeferredOnce ==
    ASSUME NEW k \in AnyKind, NEW i \in 1..Len(Deferred[k])
    PROVE  /\ Deferred[k][i] \in Item \ {"route"}
           /\ \A j \in 1..Len(Deferred[k]) : Deferred[k][i] = Deferred[k][j] => i = j
<1>1. CASE k = "forward"
  BY <1>1, Lengths DEF Deferred, Item, Resource, Goroutine
<1>2. CASE k = "up"
  BY <1>2, Lengths DEF Deferred, Item, Resource, Goroutine
<1>3. CASE k = "serve"
  BY <1>3, Lengths DEF Deferred, Item, Resource, Goroutine
<1>4. CASE k = "mosh"
  BY <1>4, Lengths DEF Deferred, Item, Resource, Goroutine
<1> QED
  BY <1>1, <1>2, <1>3, <1>4 DEF AnyKind

\* What a goroutine uses is deferred before it, and the client or the server
\* before the control socket.
LEMMA DeferredAfter ==
    ASSUME NEW k \in AnyKind, NEW i \in 1..Len(Deferred[k])
    PROVE  /\ Deferred[k][i] # "child"
           /\ Deferred[k][i] \in Goroutine =>
                \A u \in Uses[Deferred[k][i]] : u \in Needed /\ \E j \in 1..i - 1 : Deferred[k][j] = u
           /\ Deferred[k][i] = "control" =>
                \E j \in 1..i - 1 : Deferred[k][j] \in {"client", "server"}
<1>1. CASE k = "forward"
  BY <1>1, Lengths DEF Deferred, Goroutine, Uses, Needed
<1>2. CASE k = "up"
  BY <1>2, Lengths DEF Deferred, Goroutine, Uses, Needed
<1>3. CASE k = "serve"
  BY <1>3, Lengths DEF Deferred, Goroutine, Uses, Needed
<1>4. CASE k = "mosh"
  BY <1>4, Lengths DEF Deferred, Goroutine, Uses, Needed
<1> QED
  BY <1>1, <1>2, <1>3, <1>4 DEF AnyKind

\* What a row of a program adds to the deferred calls.
RowFits(k, n) ==
    LET row == Program[k][n + 1]
        d == Depth[k][n + 1]
    IN  /\ d \in 0..Len(Deferred[k]) /\ Len(row) \in 1..3
        /\ row[1] \in Resource => row \in Seq(Item) /\ \A i \in 1..Len(row) : row[i] \in Resource
        /\ row[1] \in {"renewal", "forward", "control"} => Len(row) = 1
        /\ row[1] \in Item \cup {"wait"}
        /\ row[1] = "child" => k = "mosh" /\ d = 6
        /\ row[1] = "route" => Depth[k][n + 2] = d /\ Len(row) = 1
        /\ row[1] \notin {"wait", "child"} => n + 1 \in 0..Len(Program[k]) - 1
        /\ row[1] \notin {"wait", "child", "route"} =>
             /\ Depth[k][n + 2] = d + Len(row)
             /\ \A i \in 1..Len(row) : d + i \in 1..Len(Deferred[k]) /\ Deferred[k][d + i] = row[i]

LEMMA RowsFit ==
    ASSUME NEW k \in AnyKind, NEW n \in 0..Len(Program[k]) - 1
    PROVE  RowFits(k, n)
<1>1. CASE k = "forward"
  <2>1. n = 0 \/ n = 1 \/ n = 2 \/ n = 3 \/ n = 4
    BY <1>1, Lengths
  <2>2. CASE n = 0
    <3>1. Program[k][n + 1] = <<"identity", "client">> /\ Depth[k][n + 1] = 0 /\ Depth[k][n + 2] = 2
      BY <1>1, <2>2 DEF Program, forwardSteps, Depth
    <3> QED
      BY <1>1, <2>2, <3>1, Lengths DEF RowFits, Deferred, Item, Resource, Goroutine
  <2>3. CASE n = 1
    <3>1. Program[k][n + 1] = <<"renewal">> /\ Depth[k][n + 1] = 2 /\ Depth[k][n + 2] = 3
      BY <1>1, <2>3 DEF Program, forwardSteps, Depth
    <3> QED
      BY <1>1, <2>3, <3>1, Lengths DEF RowFits, Deferred, Item, Resource, Goroutine
  <2>4. CASE n = 2
    <3>1. Program[k][n + 1] = <<"control">> /\ Depth[k][n + 1] = 3 /\ Depth[k][n + 2] = 4
      BY <1>1, <2>4 DEF Program, forwardSteps, Depth
    <3> QED
      BY <1>1, <2>4, <3>1, Lengths DEF RowFits, Deferred, Item, Resource, Goroutine
  <2>5. CASE n = 3
    <3>1. Program[k][n + 1] = <<"listener">> /\ Depth[k][n + 1] = 4 /\ Depth[k][n + 2] = 5
      BY <1>1, <2>5 DEF Program, forwardSteps, Depth
    <3> QED
      BY <1>1, <2>5, <3>1, Lengths DEF RowFits, Deferred, Item, Resource, Goroutine
  <2>6. CASE n = 4
    <3>1. Program[k][n + 1] = <<"wait">> /\ Depth[k][n + 1] = 5
      BY <1>1, <2>6 DEF Program, forwardSteps, Depth
    <3> QED
      BY <1>1, <2>6, <3>1, Lengths DEF RowFits, Deferred, Item, Resource, Goroutine
  <2> QED
    BY <2>1, <2>2, <2>3, <2>4, <2>5, <2>6
<1>2. CASE k = "up"
  <2>1. n = 0 \/ n = 1 \/ n = 2 \/ n = 3 \/ n = 4
    BY <1>2, Lengths
  <2>2. CASE n = 0
    <3>1. Program[k][n + 1] = <<"identity", "client", "tun">> /\ Depth[k][n + 1] = 0 /\ Depth[k][n + 2] = 3
      BY <1>2, <2>2 DEF Program, upSteps, Depth
    <3> QED
      BY <1>2, <2>2, <3>1, Lengths DEF RowFits, Deferred, Item, Resource, Goroutine
  <2>3. CASE n = 1
    <3>1. Program[k][n + 1] = <<"renewal">> /\ Depth[k][n + 1] = 3 /\ Depth[k][n + 2] = 4
      BY <1>2, <2>3 DEF Program, upSteps, Depth
    <3> QED
      BY <1>2, <2>3, <3>1, Lengths DEF RowFits, Deferred, Item, Resource, Goroutine
  <2>4. CASE n = 2
    <3>1. Program[k][n + 1] = <<"control">> /\ Depth[k][n + 1] = 4 /\ Depth[k][n + 2] = 5
      BY <1>2, <2>4 DEF Program, upSteps, Depth
    <3> QED
      BY <1>2, <2>4, <3>1, Lengths DEF RowFits, Deferred, Item, Resource, Goroutine
  <2>5. CASE n = 3
    <3>1. Program[k][n + 1] = <<"route">> /\ Depth[k][n + 1] = 5 /\ Depth[k][n + 2] = 5
      BY <1>2, <2>5 DEF Program, upSteps, Depth
    <3> QED
      BY <1>2, <2>5, <3>1, Lengths DEF RowFits, Deferred, Item, Resource, Goroutine
  <2>6. CASE n = 4
    <3>1. Program[k][n + 1] = <<"wait">> /\ Depth[k][n + 1] = 5
      BY <1>2, <2>6 DEF Program, upSteps, Depth
    <3> QED
      BY <1>2, <2>6, <3>1, Lengths DEF RowFits, Deferred, Item, Resource, Goroutine
  <2> QED
    BY <2>1, <2>2, <2>3, <2>4, <2>5, <2>6
<1>3. CASE k = "serve"
  <2>1. n = 0 \/ n = 1 \/ n = 2
    BY <1>3, Lengths
  <2>2. CASE n = 0
    <3>1. Program[k][n + 1] = <<"identity", "tun", "server">> /\ Depth[k][n + 1] = 0 /\ Depth[k][n + 2] = 3
      BY <1>3, <2>2 DEF Program, serveSteps, Depth
    <3> QED
      BY <1>3, <2>2, <3>1, Lengths DEF RowFits, Deferred, Item, Resource, Goroutine
  <2>3. CASE n = 1
    <3>1. Program[k][n + 1] = <<"control">> /\ Depth[k][n + 1] = 3 /\ Depth[k][n + 2] = 4
      BY <1>3, <2>3 DEF Program, serveSteps, Depth
    <3> QED
      BY <1>3, <2>3, <3>1, Lengths DEF RowFits, Deferred, Item, Resource, Goroutine
  <2>4. CASE n = 2
    <3>1. Program[k][n + 1] = <<"wait">> /\ Depth[k][n + 1] = 4
      BY <1>3, <2>4 DEF Program, serveSteps, Depth
    <3> QED
      BY <1>3, <2>4, <3>1, Lengths DEF RowFits, Deferred, Item, Resource, Goroutine
  <2> QED
    BY <2>1, <2>2, <2>3, <2>4
<1>4. CASE k = "mosh"
  <2>1. n = 0 \/ n = 1 \/ n = 2 \/ n = 3 \/ n = 4
    BY <1>4, Lengths
  <2>2. CASE n = 0
    <3>1. Program[k][n + 1] = <<"socket", "identity", "client">> /\ Depth[k][n + 1] = 0 /\ Depth[k][n + 2] = 3
      BY <1>4, <2>2 DEF Program, moshSteps, Depth
    <3> QED
      BY <1>4, <2>2, <3>1, Lengths DEF RowFits, Deferred, Item, Resource, Goroutine
  <2>3. CASE n = 1
    <3>1. Program[k][n + 1] = <<"control">> /\ Depth[k][n + 1] = 3 /\ Depth[k][n + 2] = 4
      BY <1>4, <2>3 DEF Program, moshSteps, Depth
    <3> QED
      BY <1>4, <2>3, <3>1, Lengths DEF RowFits, Deferred, Item, Resource, Goroutine
  <2>4. CASE n = 2
    <3>1. Program[k][n + 1] = <<"renewal">> /\ Depth[k][n + 1] = 4 /\ Depth[k][n + 2] = 5
      BY <1>4, <2>4 DEF Program, moshSteps, Depth
    <3> QED
      BY <1>4, <2>4, <3>1, Lengths DEF RowFits, Deferred, Item, Resource, Goroutine
  <2>5. CASE n = 3
    <3>1. Program[k][n + 1] = <<"forward">> /\ Depth[k][n + 1] = 5 /\ Depth[k][n + 2] = 6
      BY <1>4, <2>5 DEF Program, moshSteps, Depth
    <3> QED
      BY <1>4, <2>5, <3>1, Lengths DEF RowFits, Deferred, Item, Resource, Goroutine
  <2>6. CASE n = 4
    <3>1. Program[k][n + 1] = <<"child">> /\ Depth[k][n + 1] = 6
      BY <1>4, <2>6 DEF Program, moshSteps, Depth
    <3> QED
      BY <1>4, <2>6, <3>1, Lengths DEF RowFits, Deferred, Item, Resource, Goroutine
  <2> QED
    BY <2>1, <2>2, <2>3, <2>4, <2>5, <2>6
<1> QED
  BY <1>1, <1>2, <1>3, <1>4 DEF AnyKind

\* The first n of a command's deferred calls.
Prefix(k, n) == {Deferred[k][i] : i \in 1..n}

LEMMA PrefixUses ==
    ASSUME NEW k \in AnyKind, NEW n \in 0..Len(Deferred[k])
    PROVE  /\ \A g \in Prefix(k, n) \cap Goroutine : Uses[g] \subseteq Prefix(k, n) \cap Needed
           /\ "control" \in Prefix(k, n) => \E c \in {"client", "server"} : c \in Prefix(k, n)
           /\ "child" \notin Prefix(k, n)
<1>1. Len(Deferred[k]) \in Nat
  BY Lengths DEF AnyKind
<1>2. ASSUME NEW i \in 1..n, NEW j \in 1..i - 1 PROVE j \in 1..n /\ i \in 1..Len(Deferred[k])
  BY <1>1
<1>3. \A i \in 1..n : i \in 1..Len(Deferred[k])
  BY <1>1
<1>4. ASSUME NEW g \in Prefix(k, n) \cap Goroutine, NEW u \in Uses[g] PROVE u \in Prefix(k, n) \cap Needed
  <2>1. PICK i \in 1..n : g = Deferred[k][i]
    BY DEF Prefix
  <2>2. u \in Needed /\ \E j \in 1..i - 1 : Deferred[k][j] = u
    BY <1>3, <2>1, DeferredAfter
  <2> QED
    BY <1>2, <2>2 DEF Prefix
<1>5. ASSUME "control" \in Prefix(k, n) PROVE \E c \in {"client", "server"} : c \in Prefix(k, n)
  <2>1. PICK i \in 1..n : "control" = Deferred[k][i]
    BY <1>5 DEF Prefix
  <2>2. \E j \in 1..i - 1 : Deferred[k][j] \in {"client", "server"}
    BY <1>3, <2>1, DeferredAfter
  <2> QED
    BY <1>2, <2>2 DEF Prefix
<1>6. "child" \notin Prefix(k, n)
  BY <1>3, DeferredAfter DEF Prefix
<1> QED
  BY <1>4, <1>5, <1>6

\* The deferred calls are a prefix, and their number tells which.
LEMMA StackPrefix ==
    ASSUME NEW s \in Seq(Item), NEW k \in AnyKind, Len(s) <= Len(Deferred[k]),
           \A i \in 1..Len(s) : s[i] = Deferred[k][i]
    PROVE  Len(s) \in 0..Len(Deferred[k]) /\ Range(s) = Prefix(k, Len(s))
<1>1. Len(s) \in Nat /\ Len(Deferred[k]) \in Nat /\ DOMAIN s = 1..Len(s)
  BY Lengths DEF AnyKind
<1>2. Range(s) = {s[i] : i \in 1..Len(s)}
  BY <1>1 DEF Range
<1> QED
  BY <1>1, <1>2 DEF Prefix

\* What the invariant says of a run.
RunOK(p, n) ==
    /\ defers[p] \in Seq(Item) /\ n = Len(defers[p]) /\ n \in 0..Len(Deferred[kind])
    /\ Range(defers[p]) = Prefix(kind, n)
    /\ kind \in AnyKind /\ step[p] \in 0..Len(Program[kind]) - 1
    /\ held[p] \subseteq Resource /\ busy[p] \subseteq Goroutine
    /\ pc[p] \in Place

LEMMA Runs ==
    ASSUME Types, StackInv, NEW p \in Process
    PROVE  RunOK(p, Len(defers[p]))
<1>1. defers[p] \in Seq(Item) /\ kind \in AnyKind
  BY KindsAssumption DEF StackInv, Item, AnyKind
<1>2. Stacked(p) /\ held[p] \subseteq Resource /\ busy[p] \subseteq Goroutine /\ pc[p] \in Place
  BY DEF StackInv, Types
<1>3. Len(defers[p]) \in 0..Len(Deferred[kind]) /\ Range(defers[p]) = Prefix(kind, Len(defers[p]))
  BY <1>1, <1>2, StackPrefix DEF Stacked
<1> QED
  BY <1>1, <1>2, <1>3 DEF RunOK, Stacked

\* A step of run p.
LEMMA RunMoves ==
    ASSUME Types, StackInv, NEW p \in Process, kind' = kind,
           NEW m \in {"off", "going", "returning", "done"}, main' = [main EXCEPT ![p] = m],
           NEW n \in Nat, step' = [step EXCEPT ![p] = n],
           NEW d \in Seq(Item), defers' = [defers EXCEPT ![p] = d],
           NEW h \in SUBSET Resource, held' = [held EXCEPT ![p] = h],
           NEW b \in SUBSET Goroutine, busy' = [busy EXCEPT ![p] = b],
           NEW l \in Place, pc' = [pc EXCEPT ![p] = l],
           \A o \in Process : o # p => (o \in closing' <=> o \in closing),
           Stacked(p)', Kept(p)', Socket(p)'
    PROVE  StackInv'
<1>1. /\ kind' \in Kinds /\ main' \in [Process -> {"off", "going", "returning", "done"}]
      /\ step' \in [Process -> Nat] /\ defers' \in [Process -> Seq(Item)]
      /\ held' \in [Process -> SUBSET Resource] /\ busy' \in [Process -> SUBSET Goroutine]
  BY DEF StackInv, Item
<1>2. ASSUME NEW o \in Process, o # p PROVE Stacked(o)' /\ Kept(o)' /\ Socket(o)'
  <2>1. /\ main'[o] = main[o] /\ step'[o] = step[o] /\ defers'[o] = defers[o]
        /\ held'[o] = held[o] /\ busy'[o] = busy[o] /\ pc'[o] = pc[o]
        /\ (o \in closing' <=> o \in closing)
    BY <1>2 DEF StackInv, Types
  <2>2. Stacked(o) /\ Kept(o) /\ Socket(o)
    BY DEF StackInv
  <2>3. At(o, "control")' = At(o, "control") /\ At(o, "child")' = At(o, "child") /\ Top(o)' = Top(o)
    BY <2>1 DEF At, Row, Top
  <2>4. Stacked(o)'
    BY <2>1, <2>2 DEF Stacked
  <2>5. Kept(o)'
    BY <2>1, <2>2, <2>3, Zenon DEF Kept
  <2>6. Socket(o)'
    BY <2>1, <2>2, <2>3 DEF Socket
  <2> QED
    BY <2>4, <2>5, <2>6
<1>3. \A o \in Process : Stacked(o)' /\ Kept(o)' /\ Socket(o)'
  BY <1>2
<1> QED
  BY <1>1, <1>3 DEF StackInv, Item

LEMMA RunStays ==
    ASSUME StackInv, UNCHANGED cmdVars, UNCHANGED <<pc, closing>>
    PROVE  StackInv'
  BY DEF StackInv, Stacked, Kept, Socket, At, Row, Top, cmdVars

Served == {"run", "unlinked", "closed"}

LEMMA Places == \A l \in Place : l \in Starting \/ l = "off" \/ l \in Served
  BY DEF Place, Starting, Served

\* A run that goes forward has not closed its socket.
LEMMA GoingOpen ==
    ASSUME StackInv, NEW p \in Process, main[p] = "going", pc[p] # "off"
    PROVE  p \notin closing
  BY DEF StackInv, Socket, Top

\* A run begins to return.
LEMMA ReturnRun ==
    ASSUME Types, StackInv, NEW p \in Process, main[p] = "going", ReturnNow(p),
           UNCHANGED <<defers, held, closing>>, busy' = [busy EXCEPT ![p] = @ \ {"child"}],
           NEW l \in Place \ Starting, pc' = [pc EXCEPT ![p] = l], l \in Served <=> pc[p] \in Served
    PROVE  StackInv'
<1> DEFINE n == Len(defers[p])
<1>1. RunOK(p, n) /\ Stacked(p) /\ Kept(p) /\ Socket(p)
  BY Runs DEF StackInv
<1>2. /\ kind' = kind /\ main' = [main EXCEPT ![p] = "returning"] /\ step' = [step EXCEPT ![p] = 0]
      /\ main'[p] = "returning" /\ step'[p] = 0
  BY DEF ReturnNow, StackInv
<1>3. /\ defers'[p] = defers[p] /\ held'[p] = held[p] /\ busy'[p] = busy[p] \ {"child"} /\ pc'[p] = l
      /\ defers' = [defers EXCEPT ![p] = defers[p]] /\ held' = [held EXCEPT ![p] = held[p]]
      /\ busy' = [busy EXCEPT ![p] = busy[p] \ {"child"}]
  BY DEF StackInv, Types
<1>4. Stacked(p)'
  BY <1>1, <1>2, <1>3 DEF Stacked, RunOK
<1>5. Kept(p)'
  BY <1>1, <1>2, <1>3 DEF Kept
<1>6. Socket(p)'
  <2>1. pc'[p] \notin Starting
    BY <1>3
  <2>2. pc'[p] \in Served <=> "control" \in Range(defers'[p])
    BY <1>1, <1>3 DEF Socket, Served
  <2>3. pc'[p] # "off" => p \notin closing'
    BY <1>3, GoingOpen, Places DEF Served
  <2> QED
    BY <2>1, <2>2, <2>3 DEF Socket, Served
<1>7. /\ 0 \in Nat /\ "returning" \in {"off", "going", "returning", "done"}
      /\ defers[p] \in Seq(Item) /\ held[p] \in SUBSET Resource
      /\ busy[p] \ {"child"} \in SUBSET Goroutine /\ l \in Place
      /\ \A o \in Process : o # p => (o \in closing' <=> o \in closing)
  BY <1>1 DEF RunOK
<1> QED
  BY <1>2, <1>3, <1>4, <1>5, <1>6, <1>7, RunMoves, Zenon

\* A run takes a step that defers one call.
LEMMA PushRun ==
    ASSUME Types, StackInv, NEW p \in Process, NEW g \in {"renewal", "forward", "control"}, At(p, g),
           Defer(p, g), Advance(p), UNCHANGED <<held, closing>>,
           NEW B \in SUBSET ({g} \cap Goroutine), busy' = [busy EXCEPT ![p] = @ \cup B],
           NEW l \in Place \ Starting, pc' = [pc EXCEPT ![p] = l],
           l \in Served <=> pc[p] \in Served \/ g = "control",
           p \in closing => l = "off"
    PROVE  StackInv'
<1> DEFINE n == Len(defers[p])
           d == Append(defers[p], g)
<1>1. RunOK(p, n) /\ Stacked(p) /\ Kept(p) /\ Socket(p)
  BY Runs DEF StackInv
<1>2. main[p] = "going" /\ Program[kind][step[p] + 1][1] = g
  BY DEF At, Row
<1>3. RowFits(kind, step[p])
  BY <1>1, RowsFit, Zenon DEF RunOK
<1>4. /\ n = Depth[kind][step[p] + 1] /\ n + 1 \in 1..Len(Deferred[kind])
      /\ Deferred[kind][n + 1] = g /\ Depth[kind][step[p] + 2] = n + 1
      /\ step[p] + 1 \in 0..Len(Program[kind]) - 1
  <2>1. n = Depth[kind][step[p] + 1]
    BY <1>1, <1>2 DEF Stacked
  <2>2. Len(Program[kind][step[p] + 1]) = 1
    BY <1>2, <1>3 DEF RowFits
  <2>3. 1 \in 1..1
    OBVIOUS
  <2> QED
    BY <1>2, <1>3, <2>1, <2>2, <2>3, Zenon DEF RowFits
<1>5. /\ d \in Seq(Item) /\ Len(d) = n + 1 /\ d[n + 1] = g /\ \A i \in 1..n : d[i] = defers[p][i]
  BY <1>1 DEF RunOK, Item, Goroutine
<1>6. /\ kind' = kind /\ main' = [main EXCEPT ![p] = "going"] /\ step' = [step EXCEPT ![p] = step[p] + 1]
      /\ main'[p] = "going" /\ step'[p] = step[p] + 1 /\ step[p] + 1 \in Nat
  BY <1>2 DEF Advance, StackInv
<1>7. /\ defers'[p] = d /\ held'[p] = held[p] /\ busy'[p] = busy[p] \cup B /\ pc'[p] = l
      /\ defers' = [defers EXCEPT ![p] = d] /\ held' = [held EXCEPT ![p] = held[p]]
      /\ busy' = [busy EXCEPT ![p] = busy[p] \cup B]
  BY DEF StackInv, Types, Defer
<1>8. \A i \in 1..n + 1 : d[i] = Deferred[kind][i]
  <2>1. \A i \in 1..n + 1 : i \in 1..n \/ i = n + 1
    BY <1>1 DEF RunOK
  <2> QED
    BY <1>1, <1>4, <1>5, <2>1 DEF Stacked
<1>9. Stacked(p)'
  <2>1. n + 1 <= Len(Deferred[kind])
    BY <1>1, <1>4 DEF RunOK
  <2>2. step'[p] + 1 = step[p] + 2
    BY <1>1, <1>6 DEF RunOK
  <2> HIDE DEF n, d
  <2> QED
    BY <1>4, <1>5, <1>6, <1>7, <1>8, <2>1, <2>2 DEF Stacked
<1>10. Range(d) = Range(defers[p]) \cup {g}
  <2>1. DOMAIN d = 1..n + 1 /\ DOMAIN defers[p] = 1..n /\ \A i \in 1..n + 1 : i \in 1..n \/ i = n + 1
    BY <1>1, <1>5 DEF RunOK
  <2>2. \A i \in 1..n : i \in 1..n + 1
    BY <1>1 DEF RunOK
  <2>3. n + 1 \in 1..n + 1
    BY <1>1 DEF RunOK
  <2> HIDE DEF n, d
  <2> QED
    BY <1>5, <2>1, <2>2, <2>3 DEF Range
<1>11. Kept(p)'
  <2>1. "child" \notin busy'[p]
    BY <1>1, <1>2, <1>7 DEF Kept, At, Row, Goroutine
  <2>2. g \notin Needed
    BY DEF Needed
  <2> HIDE DEF d
  <2> QED
    BY <1>1, <1>6, <1>7, <1>10, <2>1, <2>2 DEF Kept
<1>12. Socket(p)'
  <2>1. pc'[p] \notin Starting
    BY <1>7
  <2>2. pc'[p] \in Served <=> "control" \in Range(defers'[p])
    BY <1>1, <1>7, <1>10 DEF Socket, Served
  <2>3. p \in closing' => pc'[p] = "off"
    BY <1>7
  <2> QED
    BY <2>1, <2>2, <2>3 DEF Socket, Served
<1>13. /\ "going" \in {"off", "going", "returning", "done"}
       /\ held[p] \in SUBSET Resource /\ busy[p] \cup B \in SUBSET Goroutine /\ l \in Place
       /\ \A o \in Process : o # p => (o \in closing' <=> o \in closing)
  BY <1>1, Zenon DEF RunOK
<1> HIDE DEF d
<1> QED
  BY <1>5, <1>6, <1>7, <1>9, <1>11, <1>12, <1>13, RunMoves, Zenon

LEMMA Split ==
    ASSUME NEW n \in Nat, NEW k \in Nat, NEW i \in 1..n + k
    PROVE  i \in 1..n \/ \E j \in 1..k : i = n + j
<1>1. i > n => i - n \in 1..k /\ i = n + (i - n)
  OBVIOUS
<1> QED
  BY <1>1

\* The elements of a sequence and of the beginning of a row.
Joined(t, s, r, k) ==
    /\ t \in Seq(Item) /\ Len(t) = Len(s) + k
    /\ \A i \in 1..Len(s) : t[i] = s[i]
    /\ \A i \in 1..k : t[Len(s) + i] = r[i]
    /\ Range(t) = Range(s) \cup {r[i] : i \in 1..k}

LEMMA Concat ==
    ASSUME NEW s \in Seq(Item), NEW r \in Seq(Item), NEW k \in 0..Len(r),
           NEW t, t = s \o SubSeq(r, 1, k)
    PROVE  Joined(t, s, r, k)
<1> DEFINE u == SubSeq(r, 1, k)
<1>1. u \in Seq(Item) /\ Len(u) = k /\ \A i \in 1..k : u[i] = r[i]
  OBVIOUS
<1>7. t = s \o u
  OBVIOUS
<1> HIDE DEF u
<1>2. /\ t \in Seq(Item) /\ Len(t) = Len(s) + k
      /\ \A i \in 1..Len(s) : t[i] = s[i]
      /\ \A i \in 1..k : t[Len(s) + i] = u[i]
  BY <1>1, <1>7
<1>3. DOMAIN t = 1..Len(s) + k /\ DOMAIN s = 1..Len(s) /\ Len(s) \in Nat /\ k \in Nat
  BY <1>2
<1>4. \A i \in 1..Len(s) + k : i \in 1..Len(s) \/ \E j \in 1..k : i = Len(s) + j
  BY <1>3, Split, Zenon
<1>5. (\A i \in 1..Len(s) : i \in 1..Len(s) + k) /\ \A j \in 1..k : Len(s) + j \in 1..Len(s) + k
  BY <1>3
<1>6. Range(t) = Range(s) \cup {r[i] : i \in 1..k}
  <2>1. \A i \in 1..k : t[Len(s) + i] = r[i]
    BY <1>1, <1>2
  <2>2. ASSUME NEW x \in Range(t) PROVE x \in Range(s) \cup {r[i] : i \in 1..k}
    <3>1. PICK i \in 1..Len(s) + k : x = t[i]
      BY <1>3 DEF Range
    <3>2. CASE i \in 1..Len(s)
      BY <1>2, <1>3, <3>1, <3>2, Zenon DEF Range
    <3>3. CASE \E j \in 1..k : i = Len(s) + j
      BY <2>1, <3>1, <3>3, Zenon
    <3> QED
      BY <1>4, <3>2, <3>3, Zenon
  <2>3. ASSUME NEW x \in Range(s) \cup {r[i] : i \in 1..k} PROVE x \in Range(t)
    <3>1. (\E i \in 1..Len(s) : x = s[i]) \/ \E j \in 1..k : x = r[j]
      BY <1>3 DEF Range
    <3>2. \E i \in 1..Len(s) + k : x = t[i]
      BY <1>2, <1>5, <2>1, <3>1, Zenon
    <3> QED
      BY <1>3, <3>2, Zenon DEF Range
  <2> QED
    BY <2>2, <2>3
<1> QED
  BY <1>1, <1>2, <1>6 DEF Joined

LEMMA AcquireRun ==
    ASSUME Types, StackInv, NEW p \in Process, Acquire(p)
    PROVE  StackInv'
<1>1. PICK k \in 0..Len(Row(p)), unwanted \in SUBSET (IF kind = "serve" THEN {"tun"} ELSE {}) :
        LET taken == {Row(p)[i] : i \in 1..k} \ unwanted
        IN  /\ held' = [held EXCEPT ![p] = @ \cup taken]
            /\ defers' = [defers EXCEPT ![p] =
                            IF Row(p)[1] = "route" THEN @ ELSE @ \o SubSeq(Row(p), 1, k)]
            /\ IF k = Len(Row(p)) THEN Advance(p) ELSE ReturnNow(p)
  BY Zenon DEF Acquire
<1> DEFINE n == Len(defers[p])
           row == Row(p)
           taken == {row[i] : i \in 1..k} \ unwanted
           h == held[p] \cup taken
           d == IF row[1] = "route" THEN defers[p] ELSE defers[p] \o SubSeq(row, 1, k)
           all == {row[i] : i \in 1..k}
<1>2. RunOK(p, n) /\ Stacked(p) /\ Kept(p) /\ Socket(p)
  BY Runs DEF StackInv
<1>3. main[p] = "going" /\ row[1] \in Resource /\ UNCHANGED <<busy, pc, closing>> /\ row = Program[kind][step[p] + 1]
  BY DEF Acquire, vars, Row
<1>4. RowFits(kind, step[p]) /\ row \in Seq(Item)
  <2>1. RowFits(kind, step[p])
    BY <1>2, RowsFit, Zenon DEF RunOK
  <2> HIDE DEF row
  <2> QED
    BY <1>3, <2>1, Zenon DEF RowFits
<1> HIDE DEF row
<1>5. /\ Len(row) \in 1..3 /\ \A i \in 1..Len(row) : row[i] \in Resource
      /\ row[1] \notin {"wait", "child", "renewal", "forward", "control"}
      /\ step[p] + 1 \in 0..Len(Program[kind]) - 1
  BY <1>3, <1>4, Zenon DEF RowFits, Resource
<1>6. all \subseteq Resource /\ taken \subseteq all /\ unwanted \subseteq {"tun"}
  <2>1. \A i \in 1..k : i \in 1..Len(row)
    BY <1>5 DEF row
  <2>2. unwanted \subseteq {"tun"}
    BY <1>1
  <2> QED
    BY <1>5, <2>1, <2>2, Zenon
<1>7. n = Depth[kind][step[p] + 1]
  BY <1>2, <1>3 DEF Stacked
<1>8. /\ kind' = kind /\ busy' = [busy EXCEPT ![p] = busy[p]] /\ pc' = [pc EXCEPT ![p] = pc[p]]
      /\ held' = [held EXCEPT ![p] = h] /\ defers' = [defers EXCEPT ![p] = d]
      /\ held'[p] = h /\ defers'[p] = d /\ busy'[p] = busy[p] /\ pc'[p] = pc[p]
  <2>1. kind' = kind
    BY <1>1 DEF Advance, ReturnNow
  <2>2. held' = [held EXCEPT ![p] = h]
    BY <1>1 DEF row
  <2>3. defers' = [defers EXCEPT ![p] = d]
    BY <1>1 DEF row
  <2> HIDE DEF h, d
  <2> QED
    BY <1>3, <2>1, <2>2, <2>3, Zenon DEF StackInv, Types
<1>9. /\ d \in Seq(Item) /\ Len(d) <= Len(Deferred[kind]) /\ \A i \in 1..Len(d) : d[i] = Deferred[kind][i]
      /\ k = Len(row) => Len(d) = Depth[kind][step[p] + 2]
      /\ Range(d) = Range(defers[p]) \cup (all \ {"route"})
  <2>1. CASE row[1] = "route"
    <3>1. Len(row) = 1 /\ Depth[kind][step[p] + 2] = n
      BY <1>3, <1>4, <1>7, <2>1, Zenon DEF RowFits
    <3>2. all \subseteq {"route"}
      BY <2>1, <3>1 DEF row
    <3>3. d = defers[p]
      BY <2>1
    <3> HIDE DEF all, d
    <3> QED
      BY <1>2, <3>1, <3>2, <3>3, Zenon DEF Stacked, RunOK
  <2>2. CASE row[1] # "route"
    <3>1. d = defers[p] \o SubSeq(row, 1, k) /\ k \in 0..Len(row)
      BY <2>2, Zenon DEF row
    <3>9. defers[p] \in Seq(Item)
      BY <1>2 DEF RunOK
    <3> HIDE DEF d
    <3>2. /\ d \in Seq(Item) /\ Len(d) = n + k
          /\ \A i \in 1..n : d[i] = defers[p][i]
          /\ \A i \in 1..k : d[n + i] = row[i]
          /\ Range(d) = Range(defers[p]) \cup all
      <4>1. Joined(d, defers[p], row, k)
        BY <1>4, <3>1, <3>9, Concat, Zenon
      <4> QED
        BY <4>1 DEF Joined
    <3>3. /\ Depth[kind][step[p] + 2] = n + Len(row)
          /\ \A i \in 1..Len(row) : n + i \in 1..Len(Deferred[kind]) /\ Deferred[kind][n + i] = row[i]
      BY <1>3, <1>4, <1>5, <1>7, <2>2, Zenon DEF RowFits
    <3>4. n \in Nat /\ k \in Nat /\ Len(Deferred[kind]) \in Nat /\ k <= Len(row) /\ Len(row) \in Nat
          /\ n <= Len(Deferred[kind])
      BY <1>2, <1>5, <3>1, Lengths DEF RunOK, AnyKind
    <3> HIDE DEF d, n
    <3>5. n + k <= Len(Deferred[kind])
      <4>1. CASE k = 0
        BY <3>4, <4>1
      <4>2. CASE k # 0
        <5>1. k \in 1..Len(row)
          BY <3>4, <4>2
        <5> QED
          BY <3>3, <3>4, <5>1
      <4> QED
        BY <4>1, <4>2
    <3>6. ASSUME NEW i \in 1..n + k PROVE d[i] = Deferred[kind][i]
      <4>1. CASE i \in 1..n
        BY <1>2, <3>2, <4>1 DEF Stacked, n
      <4>2. CASE i \notin 1..n
        <5>1. i - n \in 1..k /\ i = n + (i - n) /\ i - n \in 1..Len(row)
          BY <3>4, <4>2
        <5> QED
          BY <3>2, <3>3, <5>1
      <4> QED
        BY <4>1, <4>2
    <3>7. "route" \notin all
      <4>1. \A i \in 1..k : i \in 1..Len(row) /\ Deferred[kind][n + i] = row[i] /\ n + i \in 1..Len(Deferred[kind])
        BY <3>3, <3>4
      <4>2. \A i \in 1..Len(Deferred[kind]) : Deferred[kind][i] # "route"
        BY <1>2, DeferredOnce DEF RunOK
      <4> QED
        BY <4>1, <4>2
    <3>8. k = Len(row) => Len(d) = Depth[kind][step[p] + 2]
      BY <3>2, <3>3
    <3> HIDE DEF all
    <3> QED
      BY <3>2, <3>5, <3>6, <3>7, <3>8
  <2> QED
    BY <2>1, <2>2, Zenon
<1> HIDE DEF d, n
<1>10. PICK m \in {"going", "returning"}, j \in Nat :
        /\ main' = [main EXCEPT ![p] = m] /\ step' = [step EXCEPT ![p] = j]
        /\ main'[p] = m /\ step'[p] = j /\ j \in 0..Len(Program[kind]) - 1
        /\ m = "going" => k = Len(row) /\ j = step[p] + 1
        /\ m = "returning" => j = 0
  <2>1. CASE k = Len(row)
    <3>1. Advance(p)
      BY <1>1, <2>1 DEF row
    <3>2. /\ main' = [main EXCEPT ![p] = "going"] /\ step' = [step EXCEPT ![p] = step[p] + 1]
          /\ main'[p] = "going" /\ step'[p] = step[p] + 1 /\ step[p] + 1 \in Nat
      BY <1>3, <3>1 DEF Advance, StackInv
    <3> QED
      BY <1>5, <2>1, <3>2, Zenon
  <2>2. CASE k # Len(row)
    <3>1. ReturnNow(p)
      BY <1>1, <2>2 DEF row
    <3>2. /\ main' = [main EXCEPT ![p] = "returning"] /\ step' = [step EXCEPT ![p] = 0]
          /\ main'[p] = "returning" /\ step'[p] = 0
      BY <3>1 DEF ReturnNow, StackInv
    <3>3. 0 \in 0..Len(Program[kind]) - 1
      BY <1>2 DEF RunOK
    <3> QED
      BY <3>2, <3>3, Zenon
  <2> QED
    BY <2>1, <2>2
<1>11. Stacked(p)'
  <2>1. m = "going" => Len(d) = Depth[kind][j + 1]
    <3>1. step[p] \in Nat
      BY <1>2 DEF RunOK
    <3>2. m = "going" => j + 1 = step[p] + 2
      BY <1>10, <3>1
    <3> QED
      BY <1>9, <1>10, <3>2, Zenon
  <2> QED
    BY <1>8, <1>9, <1>10, <2>1 DEF Stacked
<1>12. Kept(p)'
  <2>1. "child" \notin busy[p]
    BY <1>2, <1>3, <1>5, Zenon DEF Kept, At, row
  <2>2. Range(d) \cap Needed \subseteq h
    BY <1>2, <1>6, <1>9, Zenon DEF Kept, Needed
  <2>3. h \subseteq (Range(d) \cap Resource) \cup {"route"}
    BY <1>2, <1>6, <1>9, Zenon DEF Kept
  <2>4. busy[p] \subseteq (Range(d) \cap Goroutine) \cup {"child"}
    BY <1>2, <1>9 DEF Kept
  <2> QED
    BY <1>8, <1>10, <2>1, <2>2, <2>3, <2>4 DEF Kept
<1>13. Socket(p)'
  <2>1. pc[p] \notin Starting
    BY <1>2, <1>3, <1>5, Zenon DEF Socket, At, row
  <2>2. "control" \in Range(d) <=> "control" \in Range(defers[p])
    BY <1>6, <1>9, Zenon DEF Resource
  <2>3. pc[p] # "off" => p \notin closing
    BY <1>3, GoingOpen
  <2> QED
    BY <1>2, <1>3, <1>8, <2>1, <2>2, <2>3 DEF Socket
<1>14. /\ m \in {"off", "going", "returning", "done"} /\ d \in Seq(Item)
       /\ h \in SUBSET Resource /\ busy[p] \in SUBSET Goroutine /\ pc[p] \in Place
       /\ \A o \in Process : o # p => (o \in closing' <=> o \in closing)
  BY <1>2, <1>3, <1>6, <1>9, Zenon DEF RunOK
<1> HIDE DEF h
<1> QED
  BY <1>8, <1>10, <1>11, <1>12, <1>13, <1>14, RunMoves, Zenon

\* A run whose goroutines and children change, or whose socket.
LEMMA BusyRun ==
    ASSUME Types, StackInv, NEW p \in Process, UNCHANGED <<kind, main, step, defers, held>>,
           NEW b \in SUBSET Goroutine, busy' = [busy EXCEPT ![p] = b],
           b \subseteq busy[p] \/ (b = busy[p] \cup {"child"} /\ At(p, "child")),
           NEW l \in Place, pc' = [pc EXCEPT ![p] = l],
           l \in Served <=> pc[p] \in Served,
           l \in Starting => At(p, "control") /\ p \notin closing',
           \A o \in Process : o # p => (o \in closing' <=> o \in closing),
           l # "off" /\ p \in closing' => Top(p) = "control"
    PROVE  StackInv'
<1>1. RunOK(p, Len(defers[p])) /\ Stacked(p) /\ Kept(p) /\ Socket(p)
  BY Runs, Zenon DEF StackInv
<1>2. /\ main'[p] = main[p] /\ step'[p] = step[p] /\ defers'[p] = defers[p] /\ held'[p] = held[p]
      /\ busy'[p] = b /\ pc'[p] = l
      /\ main' = [main EXCEPT ![p] = main[p]] /\ step' = [step EXCEPT ![p] = step[p]]
      /\ defers' = [defers EXCEPT ![p] = defers[p]] /\ held' = [held EXCEPT ![p] = held[p]]
      /\ main[p] \in {"off", "going", "returning", "done"} /\ step[p] \in Nat
  BY DEF StackInv, Types
<1>3. At(p, "control")' = At(p, "control") /\ At(p, "child")' = At(p, "child") /\ Top(p)' = Top(p)
  BY <1>2 DEF At, Row, Top
<1>4. Stacked(p)'
  BY <1>1, <1>2 DEF Stacked
<1>5. Kept(p)'
  <2>1. b \subseteq (Range(defers[p]) \cap Goroutine) \cup {"child"} /\ ("child" \in b => At(p, "child"))
    BY <1>1 DEF Kept
  <2>2. main[p] \in {"off", "done"} => b = {}
    BY <1>1 DEF Kept, At
  <2> QED
    BY <1>1, <1>2, <1>3, <2>1, <2>2 DEF Kept
<1>6. Socket(p)'
  BY <1>1, <1>2, <1>3 DEF Socket, Served
<1>7. defers[p] \in Seq(Item) /\ held[p] \in SUBSET Resource
  BY <1>1, Zenon DEF RunOK
<1> QED
  BY <1>2, <1>4, <1>5, <1>6, <1>7, RunMoves, Zenon

LEMMA ForthRun ==
    ASSUME Types, StackInv, NEW p \in Process, Forth(p)
    PROVE  StackInv'
<1>1. /\ pc[p] \in Place /\ pc \in [Process -> Place] /\ busy[p] \in SUBSET Goroutine
      /\ busy \in [Process -> SUBSET Goroutine] /\ Socket(p) /\ Kept(p)
  BY DEF StackInv, Types
<1>2. CASE Acquire(p)
  BY <1>2, AcquireRun
<1>3. CASE StepFails(p)
  <2>1. main[p] = "going" /\ ReturnNow(p) /\ UNCHANGED <<defers, held, busy, pc, closing>>
    BY <1>3, Zenon DEF StepFails, vars
  <2>2. busy' = [busy EXCEPT ![p] = @ \ {"child"}]
    BY <1>1, <1>3, <2>1 DEF StepFails
  <2>3. pc[p] \in Place \ Starting /\ pc' = [pc EXCEPT ![p] = pc[p]]
    BY <1>1, <1>3, <2>1 DEF StepFails, Socket, Starting
  <2> QED
    BY <2>1, <2>2, <2>3, ReturnRun, Zenon
<1>4. ASSUME NEW g, Spawn(p, g) PROVE StackInv'
  <2>1. /\ g \in {"renewal", "forward", "control"} /\ At(p, g) /\ Defer(p, g) /\ Advance(p) /\ g # "control"
        /\ busy' = [busy EXCEPT ![p] = @ \cup {g}] /\ UNCHANGED <<held, closing, pc>>
    BY <1>4 DEF Spawn, vars
  <2>2. {g} \in SUBSET ({g} \cap Goroutine)
    BY <1>4, Zenon DEF Spawn, Goroutine
  <2>3. pc[p] \in Place \ Starting /\ pc' = [pc EXCEPT ![p] = pc[p]]
    BY <1>1, <2>1, Zenon DEF Socket, At
  <2>4. p \in closing => pc[p] = "off"
    BY <2>1, GoingOpen, Zenon DEF At
  <2> QED
    BY <2>1, <2>2, <2>3, <2>4, PushRun, Zenon
<1>5. CASE RunChild(p)
  <2>1. /\ busy' = [busy EXCEPT ![p] = busy[p] \cup {"child"}] /\ At(p, "child")
        /\ UNCHANGED <<kind, main, step, defers, held, pc, closing>>
    BY <1>1, <1>5 DEF RunChild, vars
  <2>2. busy[p] \cup {"child"} \in SUBSET Goroutine /\ pc' = [pc EXCEPT ![p] = pc[p]]
    BY <1>1, <2>1 DEF Goroutine
  <2>3. pc[p] \in Starting => At(p, "control") /\ p \notin closing'
    BY <1>1, <2>1 DEF Socket
  <2>4. pc[p] # "off" /\ p \in closing' => Top(p) = "control"
    BY <1>1, <2>1 DEF Socket
  <2> QED
    BY <1>1, <2>1, <2>2, <2>3, <2>4, BusyRun, Zenon
<1>6. CASE ControlBegins(p)
  <2>1. /\ pc[p] = "off" /\ pc' = [pc EXCEPT ![p] = "look"] /\ At(p, "control") /\ p \notin closing
        /\ UNCHANGED <<kind, main, step, defers, held, busy, closing>>
    BY <1>6 DEF ControlBegins, Begin, Goto, cmdVars
  <2>2. busy' = [busy EXCEPT ![p] = busy[p]]
    BY <1>1, <2>1
  <2>3. "look" \in Place /\ "look" \notin Served /\ pc[p] \notin Served
    BY <2>1 DEF Place, Starting, Served
  <2> QED
    BY <1>1, <2>1, <2>2, <2>3, BusyRun, Zenon
<1>7. CASE ControlStarts(p)
  <2>1. PICK l \in Place : pc' = [pc EXCEPT ![p] = l] /\ l \in Starting \cup {"run", "off"}
    BY <1>7 DEF ControlStarts, StartPeer, Look, Dial, Remove, Bind, Chmod, Goto, Place, Starting
  <2>2. /\ pc'[p] = l /\ At(p, "control") /\ UNCHANGED <<held, busy, closing>> /\ main[p] = "going"
        /\ busy' = [busy EXCEPT ![p] = busy[p]]
    BY <1>1, <1>7, <2>1 DEF ControlStarts, StartPeer, Look, Dial, Remove, Bind, Chmod, At
  <2>3. pc[p] \in Starting /\ pc[p] \notin Served /\ p \notin closing
    BY <1>1, <1>7, Zenon DEF ControlStarts, StartPeer, Look, Dial, Remove, Bind, Chmod, Starting, Served, Socket
  <2>4. CASE l = "run"
    <3>1. Defer(p, "control") /\ Advance(p)
      BY <1>7, <2>2, <2>4 DEF ControlStarts
    <3>2. /\ busy' = [busy EXCEPT ![p] = @ \cup {}] /\ {} \in SUBSET ({"control"} \cap Goroutine)
          /\ "control" \in {"renewal", "forward", "control"} /\ l \in Place \ Starting /\ l \in Served
      BY <1>1, <2>1, <2>2, <2>4, Zenon DEF Starting, Served
    <3> QED
      BY <2>1, <2>2, <2>3, <3>1, <3>2, PushRun, Zenon
  <2>5. CASE l = "off"
    <3>1. ReturnNow(p) /\ UNCHANGED defers
      BY <1>7, <2>2, <2>5 DEF ControlStarts
    <3>2. "child" \notin busy[p]
      BY <1>1, <2>2, Zenon DEF Kept, At
    <3>3. busy[p] \ {"child"} = busy[p] /\ l \in Place \ Starting /\ l \notin Served
      BY <2>5, <3>2 DEF Starting, Served
    <3>4. busy' = [busy EXCEPT ![p] = @ \ {"child"}]
      BY <2>2, <3>3, Zenon
    <3> QED
      BY <2>1, <2>2, <2>3, <3>1, <3>3, <3>4, ReturnRun, Zenon
  <2>6. CASE l \notin {"run", "off"}
    <3>1. UNCHANGED <<kind, main, step, defers>>
      BY <1>7, <2>2, <2>6 DEF ControlStarts
    <3>2. l \notin Served
      BY <2>1, <2>6 DEF Starting, Served
    <3> QED
      BY <1>1, <2>1, <2>2, <2>3, <3>1, <3>2, BusyRun, Zenon
  <2> QED
    BY <2>4, <2>5, <2>6
<1> QED
  BY <1>2, <1>3, <1>4, <1>5, <1>6, <1>7 DEF Forth

LEMMA WaitRun ==
    ASSUME Types, StackInv, NEW p \in Process, Start(p) \/ ChildEnds(p) \/ WaitEnds(p)
    PROVE  StackInv'
<1>1. /\ pc[p] \in Place /\ pc \in [Process -> Place] /\ busy[p] \in SUBSET Goroutine
      /\ busy \in [Process -> SUBSET Goroutine] /\ Socket(p) /\ Kept(p) /\ Stacked(p)
  BY DEF StackInv, Types
<1>2. CASE Start(p)
  <2>1. /\ main[p] = "off" /\ main' = [main EXCEPT ![p] = "going"]
        /\ UNCHANGED <<kind, step, defers, held, busy, pc, closing>>
    BY <1>2 DEF Start, vars
  <2>2. RunOK(p, Len(defers[p]))
    BY Runs
  <2>3. defers[p] = <<>> /\ held[p] = {} /\ busy[p] = {} /\ step[p] = 0
    BY <1>1, <2>1 DEF Kept, Stacked
  <2>4. /\ main'[p] = "going" /\ step'[p] = 0 /\ defers'[p] = <<>> /\ held'[p] = {} /\ busy'[p] = {}
        /\ pc'[p] = pc[p] /\ step' = [step EXCEPT ![p] = step[p]] /\ pc' = [pc EXCEPT ![p] = pc[p]]
        /\ defers' = [defers EXCEPT ![p] = defers[p]] /\ held' = [held EXCEPT ![p] = held[p]]
        /\ busy' = [busy EXCEPT ![p] = busy[p]]
    BY <2>1, <2>3 DEF StackInv, Types
  <2>5. "control" \notin Range(defers[p])
    BY <2>3 DEF Range
  <2>6. pc[p] = "off"
    BY <1>1, <2>1, <2>5, Places DEF Socket, At, Served
  <2>7. Depth[kind][1] = 0 /\ Len(Deferred[kind]) \in Nat
    BY <2>2, Lengths DEF RunOK, AnyKind, Depth
  <2>8. Stacked(p)'
    <3>1. step'[p] + 1 = 1 /\ Len(defers'[p]) = 0
      BY <2>4
    <3> QED
      BY <1>1, <2>1, <2>3, <2>4, <2>7, <3>1 DEF Stacked
  <2>9. Kept(p)'
    BY <2>4 DEF Kept, Range
  <2>10. Socket(p)'
    BY <2>1, <2>3, <2>4, <2>5, <2>6 DEF Socket, Starting
  <2>11. /\ "going" \in {"off", "going", "returning", "done"} /\ step[p] \in Nat
         /\ defers[p] \in Seq(Item) /\ held[p] \in SUBSET Resource
         /\ \A o \in Process : o # p => (o \in closing' <=> o \in closing)
    BY <2>1, <2>2 DEF RunOK
  <2> QED
    BY <1>1, <2>1, <2>4, <2>8, <2>9, <2>10, <2>11, RunMoves, Zenon
<1>3. CASE ChildEnds(p) \/ WaitEnds(p)
  <2>1. /\ main[p] = "going" /\ Row(p)[1] \in {"child", "wait"} /\ ReturnNow(p)
        /\ UNCHANGED <<defers, held, pc, closing>>
    BY <1>3 DEF ChildEnds, WaitEnds, At, vars
  <2>2. busy' = [busy EXCEPT ![p] = @ \ {"child"}]
    <3>1. CASE ChildEnds(p)
      BY <3>1 DEF ChildEnds
    <3>2. CASE WaitEnds(p)
      <4>1. "child" \notin busy[p] /\ busy' = busy
        BY <1>1, <3>2, Zenon DEF WaitEnds, Kept, At
      <4>2. busy[p] \ {"child"} = busy[p]
        BY <4>1
      <4> QED
        BY <1>1, <4>1, <4>2
    <3> QED
      BY <1>3, <3>1, <3>2
  <2>3. pc[p] \in Place \ Starting /\ pc' = [pc EXCEPT ![p] = pc[p]]
    BY <1>1, <2>1, Zenon DEF Socket, At
  <2> QED
    BY <2>1, <2>2, <2>3, ReturnRun, Zenon
<1> QED
  BY <1>2, <1>3

LEMMA EndsRun ==
    ASSUME Types, StackInv, NEW p \in Process, MaintainEnds(p) \/ ForwardEnds(p) \/ CloseControl(p)
    PROVE  StackInv'
<1>1. /\ pc[p] \in Place /\ pc \in [Process -> Place] /\ busy[p] \in SUBSET Goroutine
      /\ busy \in [Process -> SUBSET Goroutine] /\ Socket(p)
  BY DEF StackInv, Types
<1>2. CASE MaintainEnds(p) \/ ForwardEnds(p)
  <2>1. PICK g : busy' = [busy EXCEPT ![p] = busy[p] \ {g}]
    BY <1>2 DEF MaintainEnds, ForwardEnds
  <2>2. UNCHANGED <<kind, main, step, defers, held, pc, closing>>
    BY <1>2 DEF MaintainEnds, ForwardEnds, vars
  <2>3. /\ busy[p] \ {g} \in SUBSET Goroutine /\ busy[p] \ {g} \subseteq busy[p]
        /\ pc' = [pc EXCEPT ![p] = pc[p]]
    BY <1>1, <2>2
  <2>4. /\ pc[p] \in Starting => At(p, "control") /\ p \notin closing'
        /\ pc[p] # "off" /\ p \in closing' => Top(p) = "control"
    BY <1>1, <2>2 DEF Socket
  <2> QED
    BY <1>1, <2>1, <2>2, <2>3, <2>4, BusyRun, Zenon
<1>3. CASE CloseControl(p)
  <2>1. /\ Top(p) = "control" /\ pc[p] \in {"run", "unlinked", "closed"} /\ closing' = closing \cup {p}
        /\ UNCHANGED <<kind, main, step, defers, held, busy, pc>>
    BY <1>3 DEF CloseControl, Return, cmdVars
  <2>2. busy' = [busy EXCEPT ![p] = busy[p]] /\ pc' = [pc EXCEPT ![p] = pc[p]] /\ pc[p] \notin Starting
    BY <1>1, <2>1 DEF Starting
  <2>3. \A o \in Process : o # p => (o \in closing' <=> o \in closing)
    BY <2>1
  <2> QED
    BY <1>1, <2>1, <2>2, <2>3, BusyRun, Zenon
<1> QED
  BY <1>2, <1>3

\* The beginning of a sequence.
LEMMA Shorter ==
    ASSUME NEW s \in Seq(Item), NEW j \in 0..Len(s)
    PROVE  /\ SubSeq(s, 1, j) \in Seq(Item) /\ Len(SubSeq(s, 1, j)) = j
           /\ \A i \in 1..j : SubSeq(s, 1, j)[i] = s[i]
  OBVIOUS

\* A run that returns gives back what it deferred last: all but the first j.
LEMMA DropRun ==
    ASSUME Types, StackInv, NEW p \in Process, main[p] = "returning", UNCHANGED <<kind, main, step, busy, closing>>,
           NEW j \in 0..Len(defers[p]), defers' = [defers EXCEPT ![p] = SubSeq(@, 1, j)],
           NEW gone, held' = [held EXCEPT ![p] = @ \ gone],
           gone \subseteq {Deferred[kind][i] : i \in j + 1..Len(defers[p])},
           \A i \in j + 1..Len(defers[p]) : Deferred[kind][i] \in gone \/ Deferred[kind][i] \notin Resource,
           \A i \in j + 1..Len(defers[p]) : Deferred[kind][i] \notin busy[p],
           NEW l \in Place \ Starting, pc' = [pc EXCEPT ![p] = l],
           l \in Served <=> pc[p] \in Served /\ \A i \in j + 1..Len(defers[p]) : Deferred[kind][i] # "control",
           l # "off" => p \notin closing
    PROVE  StackInv'
<1> DEFINE n == Len(defers[p])
           d == SubSeq(defers[p], 1, j)
           off == {Deferred[kind][i] : i \in j + 1..n}
<1>1. RunOK(p, n) /\ Stacked(p) /\ Kept(p) /\ Socket(p)
  BY Runs, Zenon DEF StackInv
<1>2. d \in Seq(Item) /\ Len(d) = j /\ \A i \in 1..j : d[i] = defers[p][i]
  BY <1>1, Shorter, Zenon DEF RunOK
<1>3. /\ main'[p] = "returning" /\ step'[p] = step[p] /\ defers'[p] = d /\ held'[p] = held[p] \ gone
      /\ busy'[p] = busy[p] /\ pc'[p] = l
      /\ main' = [main EXCEPT ![p] = "returning"] /\ step' = [step EXCEPT ![p] = step[p]]
      /\ defers' = [defers EXCEPT ![p] = d] /\ held' = [held EXCEPT ![p] = held[p] \ gone]
      /\ busy' = [busy EXCEPT ![p] = busy[p]] /\ step[p] \in Nat
  BY Zenon DEF StackInv, Types
<1>4. n \in Nat /\ j \in Nat /\ j <= n /\ n <= Len(Deferred[kind]) /\ Len(Deferred[kind]) \in Nat
  BY <1>1, Lengths DEF RunOK, AnyKind
<1>5. Range(d) = Prefix(kind, j) /\ Range(defers[p]) = Prefix(kind, n)
  <2>1. \A i \in 1..j : i \in 1..n
    BY <1>4
  <2>2. \A i \in 1..j : d[i] = Deferred[kind][i]
    BY <1>1, <1>2, <2>1, Zenon DEF Stacked
  <2>3. Len(d) <= Len(Deferred[kind]) /\ kind \in AnyKind
    BY <1>1, <1>2, <1>4 DEF RunOK
  <2> HIDE DEF d
  <2> QED
    BY <1>1, <1>2, <2>2, <2>3, StackPrefix, Zenon DEF RunOK
<1>6. Prefix(kind, n) = Prefix(kind, j) \cup off
  <2> HIDE DEF n
  <2>1. 1..n = 1..j \cup j + 1..n
    BY <1>4
  <2>2. ASSUME NEW i PROVE i \in 1..n <=> i \in 1..j \/ i \in j + 1..n
    BY <2>1
  <2> QED
    BY <2>2 DEF Prefix
<1>7. Prefix(kind, j) \cap off = {}
  <2>1. ASSUME NEW a \in 1..j, NEW b \in j + 1..n PROVE a \in 1..Len(Deferred[kind]) /\ b \in 1..Len(Deferred[kind]) /\ a # b
    BY <1>4
  <2> QED
    BY <1>1, <2>1, DeferredOnce DEF Prefix, RunOK
<1>8. Stacked(p)'
  <2>1. \A i \in 1..j : i \in 1..n
    BY <1>4
  <2> HIDE DEF d, n
  <2> QED
    BY <1>1, <1>2, <1>3, <1>4, <2>1 DEF Stacked, n
<1> HIDE DEF n, d, off
<1>9. gone \subseteq off /\ (\A x \in off : x \in gone \/ x \notin Resource) /\ \A x \in off : x \notin busy[p]
  BY Zenon DEF off, n
<1>10. Kept(p)'
  <2>1. Range(d) \cap Needed \subseteq held[p] \ gone
    BY <1>1, <1>5, <1>6, <1>7, <1>9, Zenon DEF Kept
  <2>2. held[p] \ gone \subseteq (Range(d) \cap Resource) \cup {"route"}
    BY <1>1, <1>5, <1>6, <1>9, Zenon DEF Kept
  <2>3. busy[p] \subseteq (Range(d) \cap Goroutine) \cup {"child"}
    BY <1>1, <1>5, <1>6, <1>9, Zenon DEF Kept
  <2>4. "child" \notin busy[p]
    BY <1>1, Zenon DEF Kept, At
  <2> QED
    BY <1>3, <2>1, <2>2, <2>3, <2>4, Zenon DEF Kept
<1>11. Socket(p)'
  <2>1. "control" \in Range(d) <=> "control" \in Range(defers[p]) /\ "control" \notin off
    BY <1>5, <1>6, <1>7, Zenon
  <2>2. l \in Served <=> pc[p] \in Served /\ "control" \notin off
    BY Zenon DEF off, n
  <2>3. l \in Served <=> "control" \in Range(d)
    BY <1>1, <2>1, <2>2, Zenon DEF Socket, Served
  <2> QED
    BY <1>3, <2>3, Zenon DEF Socket, Served
<1>12. /\ "returning" \in {"off", "going", "returning", "done"} /\ l \in Place
       /\ held[p] \ gone \in SUBSET Resource /\ busy[p] \in SUBSET Goroutine
       /\ \A o \in Process : o # p => (o \in closing' <=> o \in closing)
  BY <1>1, Zenon DEF RunOK
<1> QED
  BY <1>2, <1>3, <1>8, <1>10, <1>11, <1>12, RunMoves, Zenon

\* The last of the deferred calls.
LEMMA TopLast ==
    ASSUME Types, StackInv, NEW p \in Process, Top(p) \in Item
    PROVE  /\ main[p] = "returning" /\ Len(defers[p]) \in 1..Len(Deferred[kind])
           /\ Top(p) = Deferred[kind][Len(defers[p])]
<1>1. RunOK(p, Len(defers[p])) /\ Stacked(p)
  BY Runs DEF StackInv
<1>2. main[p] = "returning" /\ defers[p] # <<>> /\ Top(p) = defers[p][Len(defers[p])]
  BY DEF Top, Item, Resource, Goroutine
<1>3. Len(defers[p]) \in Nat \ {0} /\ Len(defers[p]) \in 1..Len(defers[p])
  BY <1>1, <1>2 DEF RunOK
<1> QED
  BY <1>1, <1>2, <1>3 DEF Stacked, RunOK

\* One call is done, and nothing is held on its account.
LEMMA PopRun ==
    ASSUME Types, StackInv, NEW p \in Process, Top(p) \in Item \ Resource, Top(p) \notin busy[p],
           Pop(p), UNCHANGED <<held, busy, closing>>,
           NEW l \in Place \ Starting, pc' = [pc EXCEPT ![p] = l],
           l \in Served <=> pc[p] \in Served /\ Top(p) # "control",
           l # "off" => p \notin closing
    PROVE  StackInv'
<1> DEFINE n == Len(defers[p])
<1>1. /\ main[p] = "returning" /\ n \in 1..Len(Deferred[kind]) /\ Top(p) = Deferred[kind][n]
  BY TopLast
<1>2. RunOK(p, n)
  BY Runs
<1>3. PICK j \in 0..n : j = n - 1 /\ \A i \in j + 1..n : i = n
  <2>1. n - 1 \in 0..n /\ \A i \in n - 1 + 1..n : i = n
    BY <1>1, <1>2 DEF RunOK
  <2> QED
    BY <2>1, Zenon
<1>4. UNCHANGED <<kind, main, step>> /\ defers' = [defers EXCEPT ![p] = SubSeq(@, 1, j)]
  BY <1>3 DEF Pop
<1>5. PICK gone : gone = {}
  BY Zenon
<1>6. held' = [held EXCEPT ![p] = @ \ gone]
  BY <1>5 DEF StackInv
<1>7. n \in j + 1..n
  BY <1>1, <1>3 DEF RunOK
<1>8. /\ gone \subseteq {Deferred[kind][i] : i \in j + 1..n}
      /\ \A i \in j + 1..n : Deferred[kind][i] \notin Resource
      /\ \A i \in j + 1..n : Deferred[kind][i] \notin busy[p]
      /\ l \in Served <=> pc[p] \in Served /\ \A i \in j + 1..n : Deferred[kind][i] # "control"
  BY <1>1, <1>3, <1>5, <1>7
<1> QED
  BY <1>1, <1>3, <1>4, <1>6, <1>8, DropRun, Zenon

\* The last of the deferred calls that are not resources'.
LEMMA LastKept ==
    ASSUME NEW n \in 0..6, NEW kept \in SUBSET (1..n), kept # {}
    PROVE  \E i \in kept : \A j \in kept : j <= i
<1>1. \A j \in kept : j \in {1, 2, 3, 4, 5, 6}
  OBVIOUS
<1>2. CASE 6 \in kept
  BY <1>1, <1>2
<1>3. CASE 6 \notin kept /\ 5 \in kept
  BY <1>1, <1>3
<1>4. CASE 6 \notin kept /\ 5 \notin kept /\ 4 \in kept
  BY <1>1, <1>4
<1>5. CASE 6 \notin kept /\ 5 \notin kept /\ 4 \notin kept /\ 3 \in kept
  BY <1>1, <1>5
<1>6. CASE 6 \notin kept /\ 5 \notin kept /\ 4 \notin kept /\ 3 \notin kept
  <2>1. \A j \in kept : j \in {1, 2}
    BY <1>1, <1>6
  <2>2. CASE 2 \in kept
    BY <2>1, <2>2
  <2>3. CASE 2 \notin kept
    <3>1. PICK x \in kept : x = 1
      BY <2>1, <2>3, Zenon
    <3>2. \A j \in kept : j <= x
      BY <2>1, <2>3, <3>1
    <3> QED
      BY <3>1, <3>2
  <2> QED
    BY <2>2, <2>3
<1> QED
  BY <1>2, <1>3, <1>4, <1>5, <1>6

LEMMA AtMostSix == ASSUME NEW a \in {4, 5, 6}, NEW n \in 0..a PROVE n \in 0..6
  OBVIOUS

LEMMA ReleaseRun ==
    ASSUME Types, StackInv, NEW p \in Process, Release(p)
    PROVE  StackInv'
<1> DEFINE n == Len(defers[p])
           kept == {i \in 1..Len(defers[p]) : defers[p][i] \notin Resource}
           last == CHOOSE i \in kept : \A j \in kept : j <= i
           gone == Range(SubSeq(defers[p], last + 1, Len(defers[p])))
<1>1. /\ Top(p) \in Resource /\ kept # {} /\ held' = [held EXCEPT ![p] = @ \ gone]
      /\ defers' = [defers EXCEPT ![p] = SubSeq(@, 1, last)]
      /\ UNCHANGED <<vars, kind, main, step, busy>>
  BY Zenon DEF Release
<1>2. main[p] = "returning"
  BY <1>1, TopLast DEF Item
<1>3. RunOK(p, n) /\ Stacked(p) /\ Socket(p) /\ Kept(p)
  BY Runs DEF StackInv
<1>4. n \in 0..6 /\ kept \in SUBSET (1..n)
  <2>1. n \in 0..Len(Deferred[kind]) /\ kind \in {"forward", "up", "serve", "mosh"}
    BY <1>3 DEF RunOK, AnyKind
  <2>2. Len(Deferred[kind]) \in {4, 5, 6}
    BY <2>1, Lengths
  <2>3. n \in 0..6
    <3> HIDE DEF n, kept
    <3> QED
      BY <2>1, <2>2, AtMostSix, Zenon
  <2>4. kept \in SUBSET (1..n)
    OBVIOUS
  <2> QED
    BY <2>3, <2>4, Zenon
<1>5. last \in kept /\ \A j \in kept : j <= last
  <2> HIDE DEF kept, n
  <2>1. \E i \in kept : \A j \in kept : j <= i
    BY <1>1, <1>4, LastKept, Zenon
  <2> QED
    BY <2>1
<1>6. last \in 1..n /\ last \in 0..n
  BY <1>4, <1>5
<1>7. \A i \in last + 1..n : i \in 1..n /\ i \notin kept
  <2> HIDE DEF last, kept
  <2>1. ASSUME NEW i \in last + 1..n PROVE i \in 1..n /\ ~(i <= last)
    BY <1>4, <1>6
  <2> QED
    BY <1>5, <2>1
<1>8. \A i \in last + 1..n : defers[p][i] \in Resource /\ defers[p][i] = Deferred[kind][i]
  BY <1>3, <1>7 DEF Stacked
<1> HIDE DEF last
<1>9. gone = {defers[p][i] : i \in last + 1..n}
  <2> DEFINE t == SubSeq(defers[p], last + 1, n)
  <2>1. /\ Len(t) = n - last /\ DOMAIN t = 1..n - last /\ \A i \in 1..n - last : t[i] = defers[p][last + i]
    BY <1>3, <1>4, <1>6 DEF RunOK
  <2>2. ASSUME NEW i \in last + 1..n PROVE i - last \in 1..n - last /\ last + (i - last) = i
    BY <1>4, <1>6
  <2>3. ASSUME NEW i \in 1..n - last PROVE last + i \in last + 1..n
    BY <1>4, <1>6
  <2>4. ASSUME NEW x \in Range(t) PROVE x \in {defers[p][i] : i \in last + 1..n}
    <3> HIDE DEF t
    <3>1. PICK i \in 1..n - last : x = t[i]
      BY <2>1 DEF Range
    <3> QED
      BY <2>1, <2>3, <3>1
  <2>5. ASSUME NEW x \in {defers[p][i] : i \in last + 1..n} PROVE x \in Range(t)
    <3> HIDE DEF t, n
    <3>1. PICK i \in last + 1..n : x = defers[p][i]
      OBVIOUS
    <3>2. i - last \in 1..n - last /\ t[i - last] = x
      BY <2>1, <2>2, <3>1
    <3> QED
      BY <2>1, <3>2 DEF Range
  <2> QED
    BY <2>4, <2>5
<1> HIDE DEF gone, kept
<1>10. gone = {Deferred[kind][i] : i \in last + 1..n}
  BY <1>8, <1>9
<1>11. \A i \in last + 1..n : Deferred[kind][i] \in gone
  BY <1>10
<1>12. \A i \in last + 1..n : Deferred[kind][i] \notin busy[p] /\ Deferred[kind][i] # "control"
  BY <1>3, <1>8 DEF RunOK, Goroutine, Resource
<1>13. pc[p] \in Place \ Starting /\ pc' = [pc EXCEPT ![p] = pc[p]] /\ closing' = closing
  BY <1>1, <1>2, <1>3, Zenon DEF RunOK, Socket, At, vars, Types
<1>14. pc[p] # "off" => p \notin closing
  BY <1>1, <1>3 DEF Socket, Resource
<1>15. gone \subseteq {Deferred[kind][i] : i \in last + 1..n}
  BY <1>10, Zenon
<1> QED
  BY <1>1, <1>2, <1>6, <1>11, <1>12, <1>13, <1>14, <1>15, DropRun, Zenon

LEMMA BackRun ==
    ASSUME Types, StackInv, NEW p \in Process, Await(p) \/ ControlEnds(p)
    PROVE  StackInv'
<1>1. /\ pc[p] \in Place /\ pc \in [Process -> Place] /\ busy[p] \in SUBSET Goroutine
      /\ busy \in [Process -> SUBSET Goroutine] /\ Socket(p)
  BY DEF StackInv, Types
<1>2. CASE Await(p)
  <2>1. /\ Top(p) \in {"renewal", "forward"} /\ Top(p) \notin busy[p] /\ Pop(p)
        /\ UNCHANGED <<held, busy, closing, pc>>
    BY <1>2, Zenon DEF Await, vars
  <2>2. Top(p) \in Item \ Resource /\ Top(p) # "control"
    BY <2>1 DEF Item, Resource, Goroutine
  <2>3. main[p] = "returning"
    BY <2>2, TopLast
  <2>4. pc[p] \in Place \ Starting /\ pc' = [pc EXCEPT ![p] = pc[p]]
    BY <1>1, <2>1, <2>3 DEF Socket, At
  <2>5. pc[p] # "off" => p \notin closing
    BY <1>1, <2>2 DEF Socket
  <2> QED
    BY <2>1, <2>2, <2>4, <2>5, PopRun, Zenon
<1>3. CASE ControlEnds(p)
  <2>1. UNCHANGED <<held, busy, closing>>
    BY <1>3 DEF ControlEnds, Ending, Unlink, CloseListener, Exit
  <2>2. CASE Exit(p)
    <3>1. /\ pc[p] = "closed" /\ p \in closing /\ pc' = [pc EXCEPT ![p] = "off"] /\ pc'[p] = "off"
      BY <1>1, <2>2 DEF Exit, Goto
    <3>2. Pop(p) /\ Top(p) = "control"
      BY <1>1, <1>3, <3>1 DEF ControlEnds, Socket
    <3>3. /\ Top(p) \in Item \ Resource /\ Top(p) \notin busy[p]
          /\ "off" \in Place \ Starting /\ "off" \notin Served
      BY <1>1, <3>2 DEF Item, Resource, Goroutine, Place, Starting, Served
    <3> QED
      BY <2>1, <3>1, <3>2, <3>3, PopRun, Zenon
  <2>3. CASE Unlink(p) \/ CloseListener(p)
    <3>1. PICK l \in {"unlinked", "closed"} : pc' = [pc EXCEPT ![p] = l] /\ pc'[p] = l
      BY <1>1, <2>3 DEF Unlink, CloseListener, Goto
    <3>2. pc[p] \in Served /\ l \in Served /\ l \in Place /\ l \notin Starting /\ pc[p] # "off"
      BY <2>3 DEF Unlink, CloseListener, Served, Place, Starting
    <3>3. UNCHANGED <<kind, main, step, defers>> /\ busy' = [busy EXCEPT ![p] = busy[p]]
      BY <1>1, <1>3, <2>1, <3>1 DEF ControlEnds
    <3>4. p \in closing' => Top(p) = "control"
      BY <1>1, <2>1, <3>2 DEF Socket
    <3> QED
      BY <1>1, <2>1, <3>1, <3>2, <3>3, <3>4, BusyRun, Zenon
  <2> QED
    BY <1>3, <2>2, <2>3 DEF ControlEnds, Ending
<1> QED
  BY <1>2, <1>3

LEMMA SomeSteps ==
    ASSUME NEW k \in AnyKind
    PROVE  Len(Program[k]) \in Nat \ {0} /\ Len(Deferred[k]) \in Nat
<1>1. CASE k = "forward"
  BY <1>1, Lengths
<1>2. CASE k = "up"
  BY <1>2, Lengths
<1>3. CASE k = "serve"
  BY <1>3, Lengths
<1>4. CASE k = "mosh"
  BY <1>4, Lengths
<1> QED
  BY <1>1, <1>2, <1>3, <1>4 DEF AnyKind

\* A run ends: it returns, or is killed.
LEMMA EndRun ==
    ASSUME Types, StackInv, NEW p \in Process, kind' = kind, closing' = closing,
           NEW m \in {"off", "done"}, main' = [main EXCEPT ![p] = m],
           step' = [step EXCEPT ![p] = 0], defers' = [defers EXCEPT ![p] = <<>>],
           held' = [held EXCEPT ![p] = {}], busy' = [busy EXCEPT ![p] = {}],
           pc' = [pc EXCEPT ![p] = "off"]
    PROVE  StackInv'
<1>1. /\ main'[p] = m /\ step'[p] = 0 /\ defers'[p] = <<>> /\ held'[p] = {} /\ busy'[p] = {}
      /\ pc'[p] = "off"
  BY DEF StackInv, Types
<1>2. kind' \in AnyKind /\ Len(Program[kind']) \in Nat \ {0} /\ Len(Deferred[kind']) \in Nat
  <2>1. kind \in AnyKind
    BY Runs DEF RunOK
  <2>2. Len(Program[kind]) \in Nat \ {0} /\ Len(Deferred[kind]) \in Nat
    BY <2>1, SomeSteps, Zenon
  <2> QED
    BY <2>1, <2>2
<1>3. Range(<<>>) = {} /\ Len(<<>>) = 0
  BY DEF Range
<1>4. Stacked(p)'
  <2>1. 0 \in 0..Len(Program[kind']) - 1 /\ 0 <= Len(Deferred[kind'])
    BY <1>2
  <2>2. \A i \in 1..0 : FALSE
    OBVIOUS
  <2> QED
    BY <1>1, <1>3, <2>1, <2>2 DEF Stacked
<1>5. Kept(p)'
  BY <1>1, <1>3, Zenon DEF Kept
<1>6. Socket(p)'
  BY <1>1, <1>3 DEF Socket, Starting
<1>7. /\ m \in {"off", "going", "returning", "done"} /\ 0 \in Nat /\ <<>> \in Seq(Item)
      /\ {} \in SUBSET Resource /\ {} \in SUBSET Goroutine /\ "off" \in Place
      /\ \A o \in Process : o # p => (o \in closing' <=> o \in closing)
  BY DEF Place
<1> QED
  BY <1>4, <1>5, <1>6, <1>7, RunMoves, Zenon

LEMMA FinishRun ==
    ASSUME Types, StackInv, NEW p \in Process, Finish(p) \/ KillProcess(p)
    PROVE  StackInv'
<1>1. CASE Finish(p)
  <2>1. /\ main[p] = "returning" /\ Range(defers[p]) \subseteq Resource
        /\ main' = [main EXCEPT ![p] = "done"]
        /\ held' = [held EXCEPT ![p] = @ \ (Range(defers[p]) \cup {"route"})]
        /\ defers' = [defers EXCEPT ![p] = <<>>]
        /\ UNCHANGED <<pc, closing, kind, step, busy>>
    BY <1>1 DEF Finish
  <2>2. Stacked(p) /\ Kept(p) /\ Socket(p) /\ pc[p] \in Place
    BY DEF StackInv, Types
  <2>3. step[p] = 0
    BY <2>1, <2>2, Zenon DEF Stacked
  <2>4. busy[p] = {}
    <3>1. Range(defers[p]) \cap Goroutine = {}
      BY <2>1 DEF Resource, Goroutine
    <3>2. "child" \notin busy[p]
      BY <2>1, <2>2, Zenon DEF Kept, At
    <3> QED
      BY <2>2, <3>1, <3>2 DEF Kept
  <2>5. held[p] \ (Range(defers[p]) \cup {"route"}) = {}
    BY <2>2, Zenon DEF Kept
  <2>6. pc[p] = "off"
    <3>1. "control" \notin Range(defers[p])
      BY <2>1 DEF Resource
    <3>2. pc[p] \notin Starting /\ pc[p] \notin Served
      BY <2>1, <2>2, <3>1 DEF Socket, At, Served
    <3> QED
      BY <2>2, <3>2, Places
  <2>7. /\ step' = [step EXCEPT ![p] = 0] /\ busy' = [busy EXCEPT ![p] = {}]
        /\ held' = [held EXCEPT ![p] = {}] /\ pc' = [pc EXCEPT ![p] = "off"]
    BY <2>1, <2>3, <2>4, <2>5, <2>6, Zenon DEF StackInv, Types
  <2>8. "done" \in {"off", "done"} /\ kind' = kind /\ closing' = closing
    BY <2>1
  <2> QED
    BY <2>1, <2>7, <2>8, EndRun, Zenon
<1>2. CASE KillProcess(p)
  <2>1. /\ kind' = kind /\ closing' = closing /\ step' = [step EXCEPT ![p] = 0]
        /\ defers' = [defers EXCEPT ![p] = <<>>] /\ held' = [held EXCEPT ![p] = {}]
        /\ busy' = [busy EXCEPT ![p] = {}] /\ pc' = [pc EXCEPT ![p] = "off"]
    BY <1>2 DEF KillProcess, Kill, Goto
  <2>2. PICK m \in {"off", "done"} : main' = [main EXCEPT ![p] = m]
    BY <1>2, Zenon DEF KillProcess
  <2> QED
    BY <2>1, <2>2, EndRun, Zenon
<1> QED
  BY <1>1, <1>2

LEMMA StackStep ==
    ASSUME Types, StackInv, [CommandNext]_allVars
    PROVE  StackInv'
<1>1. CASE UNCHANGED cmdVars /\ UNCHANGED <<pc, closing>>
  BY <1>1, RunStays
<1>2. ASSUME NEW p \in Process, Start(p) \/ Forth(p) \/ ChildEnds(p) \/ WaitEnds(p)
      PROVE  StackInv'
  BY <1>2, ForthRun, WaitRun
<1>3. ASSUME NEW p \in Process, Interrupt(p)
      PROVE  StackInv'
  BY <1>1, <1>3 DEF Interrupt, Signal
<1>4. ASSUME NEW p \in Process, MaintainEnds(p) \/ ForwardEnds(p) \/ ControlEnds(p) \/ KillProcess(p)
      PROVE  StackInv'
  BY <1>4, EndsRun, BackRun, FinishRun
<1>5. ASSUME NEW p \in Process, Back(p)
      PROVE  StackInv'
  <2>1. CASE CancelDeferred(p)
    BY <1>1, <2>1 DEF CancelDeferred, Signal
  <2> QED
    BY <1>5, <2>1, ReleaseRun, BackRun, EndsRun, FinishRun, Zenon DEF Back
<1>6. ASSUME NEW p \in Process, Loop(p), UNCHANGED cmdVars
      PROVE  StackInv'
  <2>1. UNCHANGED <<pc, closing>>
    BY <1>6 DEF Loop, Accept, Respond, Stop, Hangup, Abandon, serverVars
  <2> QED
    BY <1>1, <1>6, <2>1
<1>7. ASSUME NEW q \in Client, Request(q) \/ GiveUp(q) \/ Forget(q), UNCHANGED cmdVars
      PROVE  StackInv'
  BY <1>1, <1>7 DEF Request, GiveUp, Forget, serverVars
<1>8. CASE UNCHANGED allVars
  BY <1>1, <1>8 DEF allVars, vars
<1>9. CASE CommandNext
  BY <1>2, <1>3, <1>4, <1>5, <1>6, <1>7, <1>9, Zenon DEF CommandNext
<1> QED
  BY <1>8, <1>9

LEMMA CommandInitInv ==
    ASSUME CommandInit
    PROVE  Types /\ Binding /\ StackInv
<1>1. /\ Init /\ kind \in AnyKind /\ kind \in Kinds /\ closing = {}
      /\ main = [p \in Process |-> "off"] /\ step = [p \in Process |-> 0]
      /\ defers = [p \in Process |-> <<>>] /\ pc = [p \in Process |-> "off"]
      /\ held = [p \in Process |-> {}] /\ busy = [p \in Process |-> {}]
  BY KindsAssumption DEF CommandInit, AnyKind, Init
<1>2. Types
  BY <1>1, ControlAssumption DEF Init, Types, Place
<1>3. Binding
  BY <1>1 DEF Init, Binding, Starting
<1>4. Range(<<>>) = {} /\ Len(<<>>) = 0 /\ <<>> \in Seq(Item) /\ \A i \in 1..0 : FALSE
  BY DEF Range
<1>5. Len(Program[kind]) \in Nat \ {0} /\ Len(Deferred[kind]) \in Nat
  BY <1>1, SomeSteps
<1>6. ASSUME NEW p \in Process PROVE Stacked(p) /\ Kept(p) /\ Socket(p)
  <2>1. main[p] = "off" /\ step[p] = 0 /\ defers[p] = <<>> /\ held[p] = {} /\ busy[p] = {} /\ pc[p] = "off"
    BY <1>1
  <2>2. 0 \in 0..Len(Program[kind]) - 1 /\ 0 <= Len(Deferred[kind])
    BY <1>5
  <2>3. Stacked(p)
    BY <1>4, <2>1, <2>2 DEF Stacked
  <2>4. Kept(p)
    BY <1>4, <2>1, Zenon DEF Kept
  <2>5. Socket(p)
    BY <1>4, <2>1 DEF Socket, Starting
  <2> QED
    BY <2>3, <2>4, <2>5
<1>7. StackInv
  BY <1>1, <1>4, <1>6 DEF StackInv, Item
<1> QED
  BY <1>2, <1>3, <1>7

\* What the invariant says of each run.
LEMMA Outlived ==
    ASSUME Types, Binding, StackInv
    PROVE  UsersOutlived
<1> SUFFICES ASSUME NEW p \in Process
             PROVE  /\ \A g \in busy[p] : Uses[g] \subseteq held[p]
                    /\ serving[p] # Nothing => held[p] \cap {"client", "server"} # {}
  BY Zenon DEF UsersOutlived
<1> DEFINE n == Len(defers[p])
<1>1. RunOK(p, n) /\ Stacked(p) /\ Kept(p) /\ Socket(p)
  BY Runs DEF StackInv
<1>2. /\ Range(defers[p]) = Prefix(kind, n) /\ kind \in AnyKind /\ n \in 0..Len(Deferred[kind])
      /\ Prefix(kind, n) \cap Needed \subseteq held[p]
  BY <1>1, Zenon DEF RunOK, Kept
<1>3. /\ \A g \in Prefix(kind, n) \cap Goroutine : Uses[g] \subseteq Prefix(kind, n) \cap Needed
      /\ "control" \in Prefix(kind, n) => \E c \in {"client", "server"} : c \in Prefix(kind, n)
  BY <1>2, PrefixUses
<1>4. ASSUME NEW g \in busy[p], g # "child" PROVE Uses[g] \subseteq held[p]
  BY <1>1, <1>2, <1>3, <1>4, Zenon DEF Kept
<1>5. ASSUME "child" \in busy[p] PROVE Uses["child"] \subseteq held[p]
  <2>1. At(p, "child") /\ step[p] \in 0..Len(Program[kind]) - 1
    BY <1>1, <1>5, Zenon DEF Kept, Stacked
  <2>2. main[p] = "going" /\ kind = "mosh" /\ Depth[kind][step[p] + 1] = 6
    BY <1>2, <2>1, RowsFit, Zenon DEF RowFits, At, Row
  <2>3. n = 6
    BY <1>1, <2>2 DEF Stacked
  <2>4. 1 \in 1..6 /\ 3 \in 1..6 /\ Deferred["mosh"][1] = "socket" /\ Deferred["mosh"][3] = "client"
    BY DEF Deferred
  <2>5. "socket" \in Prefix(kind, n) /\ "client" \in Prefix(kind, n)
    BY <2>2, <2>3, <2>4 DEF Prefix
  <2> QED
    BY <1>2, <2>5 DEF Uses, Needed
<1>6. ASSUME serving[p] # Nothing PROVE held[p] \cap {"client", "server"} # {}
  <2>1. "control" \in Prefix(kind, n)
    BY <1>1, <1>2, <1>6, Zenon DEF Binding, Socket
  <2> QED
    BY <1>2, <1>3, <2>1 DEF Needed
<1> QED
  BY <1>4, <1>5, <1>6

LEMMA CommandImplied ==
    ASSUME AnsweredStopped, TypeOK, Types, Binding, StackInv
    PROVE  CommandInv
<1>1. ASSUME NEW p \in Process
      PROVE  /\ step[p] \in 0..Len(Program[kind]) - 1
             /\ Range(defers[p]) \subseteq Item
             /\ held[p] \subseteq Resource /\ busy[p] \subseteq Goroutine
             /\ pc[p] # "off" => main[p] \in {"going", "returning"}
             /\ main[p] = "done" => held[p] = {} /\ busy[p] = {} /\ p \notin listening
  <2>1. RunOK(p, Len(defers[p])) /\ Stacked(p) /\ Kept(p) /\ Socket(p)
    BY Runs DEF StackInv
  <2>2. /\ defers[p] \in Seq(Item) /\ step[p] \in 0..Len(Program[kind]) - 1
        /\ held[p] \subseteq Resource /\ busy[p] \subseteq Goroutine /\ pc[p] \in Place
    BY <2>1 DEF RunOK
  <2>3. Range(defers[p]) \subseteq Item
    BY <2>2 DEF Range
  <2>4. pc[p] # "off" => main[p] \in {"going", "returning"}
    <3>1. CASE main[p] \in {"off", "done"}
      <4>1. Range(defers[p]) = {}
        BY <2>1, <3>1 DEF Kept, Range
      <4> QED
        BY <2>1, <2>2, <3>1, <4>1, Places DEF Socket, At, Served
    <3> QED
      BY <3>1 DEF StackInv
  <2>5. main[p] = "done" => held[p] = {} /\ busy[p] = {}
    BY <2>1, Zenon DEF Kept
  <2>6. main[p] = "done" => p \notin listening
    BY <2>4 DEF Binding
  <2> QED
    BY <2>2, <2>3, <2>4, <2>5, <2>6, Zenon
<1>2. CommandTypeOK
  BY <1>1 DEF CommandTypeOK, StackInv, Item
<1>3. Reachable
  BY DEF Reachable, Binding
<1>4. NothingLeft
  BY <1>1 DEF NothingLeft
<1> QED
  BY <1>2, <1>3, <1>4, Outlived DEF CommandInv

-----------------------------------------------------------------------------
(***************************************************************************)
(* The control socket.                                                     *)
(***************************************************************************)
\* The inductive invariant: a run that is starting its socket is at that step
\* of its program, and a run of mosh that is past its first step holds the
\* port, which no other run holds.
PortInv ==
    /\ kind \in {"forward", "up", "serve", "mosh"}
    /\ main \in [Process -> {"off", "going", "returning", "done"}]
    /\ step \in [Process -> Nat]
    /\ held = [p \in Process |-> held[p]]
    /\ pc \in [Process -> Place]
    /\ \A p \in Process : pc[p] \in Starting => At(p, "control")
    /\ \A p \in Process : main[p] = "off" => step[p] = 0
    /\ \A p \in Process : kind = "mosh" /\ main[p] = "going" /\ step[p] # 0 => "socket" \in held[p]
    /\ \A p, o \in Process : "socket" \in held[p] /\ "socket" \in held[o] => p = o

LEMMA FirstRow ==
    ASSUME NEW p \in Process, kind = "mosh", step[p] = 0
    PROVE  Row(p) = <<"socket", "identity", "client">>
  BY DEF Row, Program, moshSteps

LEMMA InitPort == ASSUME CommandInit PROVE PortInv
  BY KindsAssumption DEF CommandInit, Init, PortInv, Place, Starting

\* A step of run p, or of no run.
LEMMA Moved ==
    ASSUME PortInv, NEW p \in Process, kind' = kind,
           NEW m \in {"off", "going", "returning", "done"}, main' = [main EXCEPT ![p] = m],
           NEW n \in Nat, step' = [step EXCEPT ![p] = n],
           NEW h, held' = [held EXCEPT ![p] = h],
           NEW l \in Place, pc' = [pc EXCEPT ![p] = l],
           l \in Starting => At(p, "control")',
           m = "off" => n = 0,
           kind = "mosh" /\ m = "going" /\ n # 0 => "socket" \in h,
           "socket" \in h => \A o \in Process : "socket" \in held[o] => o = p
    PROVE  PortInv'
<1>1. /\ kind' \in {"forward", "up", "serve", "mosh"}
      /\ main' \in [Process -> {"off", "going", "returning", "done"}]
      /\ step' \in [Process -> Nat] /\ held' = [o \in Process |-> held'[o]]
      /\ pc' \in [Process -> Place]
  BY DEF PortInv
<1>2. ASSUME NEW o \in Process, pc'[o] \in Starting PROVE At(o, "control")'
  <2>1. CASE o = p
    BY <1>2, <2>1 DEF PortInv
  <2>2. CASE o # p
    <3>1. pc'[o] = pc[o] /\ main'[o] = main[o] /\ step'[o] = step[o]
      BY <2>2 DEF PortInv
    <3>2. At(o, "control")
      BY <1>2, <3>1 DEF PortInv
    <3> QED
      BY <3>1, <3>2 DEF At, Row
  <2> QED
    BY <2>1, <2>2
<1>3. \A o \in Process : main'[o] = "off" => step'[o] = 0
  BY DEF PortInv
<1>4. \A o \in Process : kind' = "mosh" /\ main'[o] = "going" /\ step'[o] # 0 => "socket" \in held'[o]
  BY DEF PortInv
<1>5. \A q, o \in Process : "socket" \in held'[q] /\ "socket" \in held'[o] => q = o
  BY DEF PortInv
<1> QED
  BY <1>1, <1>2, <1>3, <1>4, <1>5 DEF PortInv

\* A step that leaves runs where they are.
LEMMA Stays ==
    ASSUME PortInv, UNCHANGED <<kind, main, step, held, pc>>
    PROVE  PortInv'
  BY DEF PortInv, At, Row

\* A run that moves and is not starting its socket.
LEMMA MovesOn ==
    ASSUME PortInv, NEW p \in Process, UNCHANGED <<kind, pc>>, pc[p] \notin Starting,
           NEW m \in {"off", "going", "returning", "done"}, main' = [main EXCEPT ![p] = m],
           NEW n \in Nat, step' = [step EXCEPT ![p] = n],
           NEW h, held' = [held EXCEPT ![p] = h],
           m = "off" => n = 0,
           kind = "mosh" /\ m = "going" /\ n # 0 => "socket" \in h,
           "socket" \in h => \A o \in Process : "socket" \in held[o] => o = p
    PROVE  PortInv'
<1>1. pc[p] \in Place /\ pc' = [pc EXCEPT ![p] = pc[p]]
  BY DEF PortInv
<1> QED
  BY <1>1, Moved, Zenon

\* A row past the first: the port is held.
LEMMA PastFirst ==
    ASSUME PortInv, NEW p \in Process, kind = "mosh", main[p] = "going", Row(p)[1] # "socket"
    PROVE  "socket" \in held[p]
<1>1. step[p] # 0
  BY FirstRow
<1> QED
  BY <1>1 DEF PortInv

LEMMA ReturnsPort ==
    ASSUME PortInv, NEW p \in Process, ReturnNow(p), UNCHANGED <<held, pc>>, pc[p] \notin Starting
    PROVE  PortInv'
<1>1. held' = [held EXCEPT ![p] = held[p]]
  BY DEF PortInv
<1>2. "socket" \in held[p] => \A o \in Process : "socket" \in held[o] => o = p
  BY DEF PortInv
<1>3. kind' = kind /\ main' = [main EXCEPT ![p] = "returning"] /\ step' = [step EXCEPT ![p] = 0]
  BY DEF ReturnNow
<1> QED
  BY <1>1, <1>2, <1>3, MovesOn, Zenon

LEMMA AdvancesPort ==
    ASSUME PortInv, NEW p \in Process, Advance(p), main[p] = "going", Row(p)[1] # "socket",
           held' = held, NEW l \in Place \ Starting, pc' = [pc EXCEPT ![p] = l]
    PROVE  PortInv'
<1>1. held' = [held EXCEPT ![p] = held[p]]
  BY DEF PortInv
<1>2. "socket" \in held[p] => \A o \in Process : "socket" \in held[o] => o = p
  BY DEF PortInv
<1>3. /\ kind' = kind /\ main' = [main EXCEPT ![p] = "going"]
      /\ step[p] + 1 \in Nat /\ step' = [step EXCEPT ![p] = step[p] + 1]
  BY DEF Advance, PortInv
<1>4. kind = "mosh" => "socket" \in held[p]
  BY PastFirst
<1> QED
  BY <1>1, <1>2, <1>3, <1>4, Moved, Zenon

LEMMA AcquirePort ==
    ASSUME PortInv, NEW p \in Process, Acquire(p)
    PROVE  PortInv'
<1>1. PICK k \in 0..Len(Row(p)), unwanted \in SUBSET (IF kind = "serve" THEN {"tun"} ELSE {}) :
        LET taken == {Row(p)[i] : i \in 1..k} \ unwanted
        IN  /\ \A r \in taken \cap Exclusive, o \in Process : r \notin held[o]
            /\ held' = [held EXCEPT ![p] = @ \cup taken]
            /\ IF k = Len(Row(p)) THEN Advance(p) ELSE ReturnNow(p)
  BY Zenon DEF Acquire
<1> DEFINE taken == {Row(p)[i] : i \in 1..k} \ unwanted
           h == held[p] \cup taken
<1>2. main[p] = "going" /\ Row(p)[1] \in Resource /\ UNCHANGED <<kind, pc>>
  BY DEF Acquire, vars, Advance, ReturnNow
<1>3. pc[p] \notin Starting
  BY <1>2 DEF PortInv, At, Resource
<1>5. held' = [held EXCEPT ![p] = h]
  BY <1>1 DEF PortInv
<1>6. "socket" \in h => \A o \in Process : "socket" \in held[o] => o = p
  BY <1>1 DEF PortInv, Exclusive
<1>7. CASE k = Len(Row(p))
  <2>1. /\ kind' = kind /\ main' = [main EXCEPT ![p] = "going"]
        /\ step[p] + 1 \in Nat /\ step' = [step EXCEPT ![p] = step[p] + 1]
    BY <1>1, <1>2, <1>7 DEF Advance, PortInv
  <2>2. ASSUME kind = "mosh" PROVE "socket" \in h
    <3>1. CASE step[p] = 0
      <4>1. Row(p)[1] = "socket" /\ 1 \in 1..k
        BY <1>7, <2>2, <3>1, FirstRow
      <4> QED
        BY <2>2, <4>1
    <3>2. CASE step[p] # 0
      BY <1>2, <2>2, <3>2 DEF PortInv
    <3> QED
      BY <3>1, <3>2
  <2> HIDE DEF h
  <2> QED
    BY <1>2, <1>3, <1>5, <1>6, <2>1, <2>2, MovesOn, Zenon
<1>8. CASE k # Len(Row(p))
  <2>1. kind' = kind /\ main' = [main EXCEPT ![p] = "returning"] /\ step' = [step EXCEPT ![p] = 0]
    BY <1>1, <1>8 DEF ReturnNow
  <2> HIDE DEF h
  <2> QED
    BY <1>2, <1>3, <1>5, <1>6, <2>1, MovesOn, Zenon
<1> QED
  BY <1>7, <1>8

LEMMA ForthPort ==
    ASSUME PortInv, NEW p \in Process, Forth(p)
    PROVE  PortInv'
<1>1. CASE Acquire(p)
  BY <1>1, AcquirePort
<1>2. CASE StepFails(p)
  <2>1. pc[p] \notin Starting
    BY <1>2 DEF StepFails, PortInv, Starting
  <2> QED
    BY <1>2, <2>1, ReturnsPort DEF StepFails, vars
<1>3. ASSUME NEW g, Spawn(p, g) PROVE PortInv'
  <2>1. main[p] = "going" /\ Row(p)[1] \in {"renewal", "forward"} /\ Advance(p) /\ UNCHANGED <<held, pc>>
    BY <1>3 DEF Spawn, At, vars
  <2>2. pc[p] \in Place \ Starting /\ pc' = [pc EXCEPT ![p] = pc[p]]
    BY <2>1 DEF PortInv, At
  <2> QED
    BY <2>1, <2>2, AdvancesPort, Zenon
<1>4. CASE RunChild(p)
  BY <1>4, Stays DEF RunChild, vars
<1>5. CASE ControlBegins(p)
  <2>1. pc' = [pc EXCEPT ![p] = "look"] /\ At(p, "control") /\ UNCHANGED <<kind, main, step, held>>
    BY <1>5 DEF ControlBegins, Begin, Goto, cmdVars
  <2> QED
    BY <2>1 DEF PortInv, At, Row,
                Place, Starting
<1>6. CASE ControlStarts(p)
  <2>1. PICK l \in Place : pc' = [pc EXCEPT ![p] = l] /\ l \in Starting \cup {"run", "off"}
    BY <1>6 DEF ControlStarts, StartPeer, Look, Dial, Remove, Bind, Chmod, Goto, Place, Starting
  <2>2. pc'[p] = l /\ At(p, "control") /\ held' = held
    BY <1>6, <2>1 DEF ControlStarts, PortInv
  <2>3. CASE l = "run"
    <3>1. Advance(p) /\ main[p] = "going" /\ Row(p)[1] # "socket"
      BY <1>6, <2>2, <2>3, Zenon DEF ControlStarts, At
    <3> QED
      BY <2>1, <2>2, <2>3, <3>1, AdvancesPort, Zenon DEF Starting
  <2>4. CASE l = "off"
    <3>1. /\ kind' = kind /\ main' = [main EXCEPT ![p] = "returning"]
          /\ step' = [step EXCEPT ![p] = 0]
      BY <1>6, <2>2, <2>4 DEF ControlStarts, ReturnNow
    <3>2. held' = [held EXCEPT ![p] = held[p]]
      BY <2>2 DEF PortInv
    <3>3. "socket" \in held[p] => \A o \in Process : "socket" \in held[o] => o = p
      BY DEF PortInv
    <3> QED
      BY <2>1, <2>4, <3>1, <3>2, <3>3, Moved, Zenon DEF Starting
  <2>5. CASE l \notin {"run", "off"}
    <3>1. UNCHANGED <<kind, main, step, held>>
      BY <1>6, <2>2, <2>5 DEF ControlStarts
    <3> QED
      BY <2>1, <2>2, <3>1 DEF PortInv, At, Row
  <2> QED
    BY <2>3, <2>4, <2>5
<1> QED
  BY <1>1, <1>2, <1>3, <1>4, <1>5, <1>6 DEF Forth

\* A run that returns gives up what it holds, and starts nothing.
LEMMA Loses ==
    ASSUME PortInv, NEW p \in Process, main[p] = "returning", UNCHANGED <<kind, step, pc>>,
           NEW m \in {"returning", "done"}, main' = [main EXCEPT ![p] = m],
           NEW R, held' = [held EXCEPT ![p] = @ \ R]
    PROVE  PortInv'
<1>1. pc[p] \notin Starting
  BY DEF PortInv, At
<1>2. step[p] \in Nat /\ step' = [step EXCEPT ![p] = step[p]]
  BY DEF PortInv
<1>3. "socket" \in held[p] \ R => \A o \in Process : "socket" \in held[o] => o = p
  BY DEF PortInv
<1>4. held' = [held EXCEPT ![p] = held[p] \ R]
  BY DEF PortInv
<1> QED
  BY <1>1, <1>2, <1>3, <1>4, MovesOn, Zenon

LEMMA BackPort ==
    ASSUME PortInv, NEW p \in Process, Back(p)
    PROVE  PortInv'
<1>1. CASE Release(p)
  <2>1. main[p] = "returning"
    BY <1>1 DEF Release, Top, Resource
  <2>2. \E R : held' = [held EXCEPT ![p] = @ \ R]
    BY <1>1, Zenon DEF Release
  <2>3. UNCHANGED <<kind, step, pc>> /\ main' = [main EXCEPT ![p] = "returning"]
    BY <1>1, <2>1 DEF Release, vars, PortInv
  <2> QED
    BY <2>1, <2>2, <2>3, Loses, Zenon
<1>2. CASE CancelDeferred(p) \/ Await(p) \/ CloseControl(p)
  BY <1>2, Stays, Zenon DEF CancelDeferred, Await, CloseControl, Signal, Return, Pop, vars, cmdVars
<1>3. CASE Finish(p)
  <2>1. UNCHANGED <<kind, step, pc>> /\ main' = [main EXCEPT ![p] = "done"] /\ main[p] = "returning"
    BY <1>3 DEF Finish
  <2>2. \E R : held' = [held EXCEPT ![p] = @ \ R]
    BY <1>3, Zenon DEF Finish
  <2> QED
    BY <2>1, <2>2, Loses, Zenon
<1> QED
  BY <1>1, <1>2, <1>3 DEF Back

LEMMA EndsPort ==
    ASSUME PortInv, NEW p \in Process, ControlEnds(p) \/ KillProcess(p)
    PROVE  PortInv'
<1>1. CASE ControlEnds(p)
  <2>1. PICK l \in Place \ Starting : pc' = [pc EXCEPT ![p] = l]
    BY <1>1 DEF ControlEnds, Ending, Unlink, CloseListener, Exit, Goto, Place, Starting
  <2>2. UNCHANGED <<kind, main, step, held>>
    BY <1>1 DEF ControlEnds, Pop
  <2> QED
    BY <2>1, <2>2 DEF PortInv, At, Row
<1>2. CASE KillProcess(p)
  <2>1. PICK m \in {"done", "off"} : main' = [main EXCEPT ![p] = m]
    BY <1>2, Zenon DEF KillProcess
  <2>2. /\ kind' = kind /\ step' = [step EXCEPT ![p] = 0] /\ held' = [held EXCEPT ![p] = {}]
        /\ pc' = [pc EXCEPT ![p] = "off"]
    BY <1>2 DEF KillProcess, Kill, Goto
  <2> QED
    <3>1. PICK n \in Nat : n = 0
      OBVIOUS
    <3>2. PICK h : h = {}
      BY Zenon
    <3>3. PICK l \in Place \ Starting : l = "off"
      BY DEF Place, Starting
    <3>4. "socket" \notin h /\ m # "going" /\ m \in {"off", "going", "returning", "done"}
      BY <3>2
    <3>5. /\ step' = [step EXCEPT ![p] = n] /\ held' = [held EXCEPT ![p] = h]
          /\ pc' = [pc EXCEPT ![p] = l]
      BY <2>2, <3>1, <3>2, <3>3
    <3> QED
      BY <2>1, <2>2, <3>1, <3>4, <3>5, Moved, Zenon
<1> QED
  BY <1>1, <1>2

LEMMA WaitPort ==
    ASSUME PortInv, NEW p \in Process, Start(p) \/ ChildEnds(p) \/ WaitEnds(p)
    PROVE  PortInv'
<1>1. CASE Start(p)
  <2>1. pc[p] \notin Starting /\ step[p] = 0 /\ UNCHANGED <<kind, pc>>
    BY <1>1 DEF Start, PortInv, At, vars
  <2>2. main' = [main EXCEPT ![p] = "going"] /\ step' = [step EXCEPT ![p] = 0]
    BY <1>1, <2>1 DEF Start, PortInv
  <2>3. held' = [held EXCEPT ![p] = held[p]]
    BY <1>1 DEF Start, PortInv
  <2>4. "socket" \in held[p] => \A o \in Process : "socket" \in held[o] => o = p
    BY DEF PortInv
  <2> QED
    <3>1. 0 \in Nat
      OBVIOUS
    <3> QED
      BY <2>1, <2>2, <2>3, <2>4, <3>1, MovesOn, Zenon
<1>2. CASE ChildEnds(p) \/ WaitEnds(p)
  <2>1. Row(p)[1] # "control" /\ ReturnNow(p) /\ UNCHANGED <<held, pc>>
    BY <1>2 DEF ChildEnds, WaitEnds, At, vars
  <2>2. pc[p] \notin Starting
    BY <2>1 DEF PortInv, At
  <2> QED
    BY <2>1, <2>2, ReturnsPort
<1> QED
  BY <1>1, <1>2

LEMMA PortStep ==
    ASSUME PortInv, [CommandNext]_allVars
    PROVE  PortInv'
<1>1. CASE UNCHANGED allVars
  BY <1>1, Stays DEF allVars, vars, cmdVars
<1>2. ASSUME NEW p \in Process, Start(p) \/ ChildEnds(p) \/ WaitEnds(p) PROVE PortInv'
  BY <1>2, WaitPort
<1>3. ASSUME NEW p \in Process, Forth(p) PROVE PortInv'
  BY <1>3, ForthPort
<1>4. ASSUME NEW p \in Process, Interrupt(p) \/ MaintainEnds(p) \/ ForwardEnds(p) PROVE PortInv'
  BY <1>4, Stays DEF Interrupt, MaintainEnds, ForwardEnds, Signal, vars, cmdVars
<1>5. ASSUME NEW p \in Process, Back(p) PROVE PortInv'
  BY <1>5, BackPort
<1>6. ASSUME NEW p \in Process, ControlEnds(p) \/ KillProcess(p) PROVE PortInv'
  BY <1>6, EndsPort
<1>7. ASSUME NEW p \in Process, Loop(p) /\ UNCHANGED cmdVars PROVE PortInv'
  BY <1>7, Stays, Zenon DEF Loop, Accept, Respond, Stop, Hangup, Abandon, serverVars, cmdVars
<1>8. ASSUME NEW q \in Client, (Request(q) \/ GiveUp(q) \/ Forget(q)) /\ UNCHANGED cmdVars
      PROVE  PortInv'
  BY <1>8, Stays DEF Request, GiveUp, Forget, serverVars, cmdVars
<1> QED
  BY <1>1, <1>2, <1>3, <1>4, <1>5, <1>6, <1>7, <1>8 DEF CommandNext

-----------------------------------------------------------------------------
\* A run of mosh that comes to its control socket finds no other starting.
LEMMA MoshAlone ==
    ASSUME PortInv, NEW p \in Process, kind = "mosh", At(p, "control"), pc[p] = "off"
    PROVE  Alone
<1>1. SUFFICES ASSUME NEW r \in Process, pc[r] \in Starting PROVE FALSE
  BY Zenon DEF Alone
<1>2. At(r, "control")
  BY <1>1 DEF PortInv
<1>3. "socket" \in held[p] /\ "socket" \in held[r]
  BY <1>2, PastFirst DEF At
<1>4. p = r
  BY <1>3 DEF PortInv
<1> QED
  BY <1>1, <1>4 DEF Starting

\* Cancelling a context is a signal, the second time nothing.
LEMMA Cancels ==
    ASSUME NEW p \in Process, stopped' = stopped \cup {p},
           UNCHANGED <<path, listening, pc, serving, closing, request, peer, kills>>
    PROVE  Signal(p) \/ UNCHANGED vars
<1>1. CASE p \in stopped
  BY <1>1 DEF vars
<1>2. CASE p \notin stopped
  BY <1>2 DEF Signal
<1> QED
  BY <1>1, <1>2

LEMMA StepImplements ==
    ASSUME PortInv, [CommandNext]_allVars
    PROVE  [Next]_vars
<1>1. CASE UNCHANGED allVars
  BY <1>1 DEF allVars
<1>2. ASSUME NEW p \in Process, Start(p) \/ ChildEnds(p) \/ WaitEnds(p) \/ MaintainEnds(p)
      PROVE  UNCHANGED vars
  BY <1>2 DEF Start, ChildEnds, WaitEnds, MaintainEnds
<1>3. ASSUME NEW p \in Process, Forth(p) PROVE [Next]_vars
  <2>1. CASE ControlBegins(p)
    <3>1. Overlap \/ Alone
      BY <2>1, MoshAlone DEF ControlBegins, Begin
    <3> QED
      BY <2>1, <3>1 DEF ControlBegins, Next
  <2>2. CASE ControlStarts(p)
    BY <2>2 DEF ControlStarts, Next
  <2>3. CASE ~ControlBegins(p) /\ ~ControlStarts(p)
    BY <1>3, <2>3, Zenon DEF Forth, Acquire, StepFails, Spawn, RunChild
  <2> QED
    BY <2>1, <2>2, <2>3
<1>4. ASSUME NEW p \in Process, ForwardEnds(p) \/ Finish(p) PROVE [Next]_vars
  <2>1. Signal(p) \/ UNCHANGED vars
    BY <1>4, Cancels DEF ForwardEnds, Finish
  <2> QED
    BY <2>1 DEF Next
<1>5. ASSUME NEW p \in Process, Interrupt(p) \/ CancelDeferred(p) \/ CloseControl(p) PROVE Next
  BY <1>5, Zenon DEF Interrupt, CancelDeferred, CloseControl, Next
<1>6. ASSUME NEW p \in Process, Release(p) \/ Await(p) PROVE UNCHANGED vars
  BY <1>6 DEF Release, Await
<1>7. ASSUME NEW p \in Process, ControlEnds(p) \/ KillProcess(p) \/ Loop(p) PROVE Next
  BY <1>7, Zenon DEF ControlEnds, KillProcess, Next
<1>8. ASSUME NEW q \in Client, Request(q) \/ GiveUp(q) \/ Forget(q) PROVE Next
  BY <1>8 DEF Next
<1> QED
  BY <1>1, <1>2, <1>3, <1>4, <1>5, <1>6, <1>7, <1>8 DEF CommandNext, Back

\* Whatever commands run, fail, are cancelled or killed, the control socket
\* sees steps of its own specification only: two runs are never in StartPeer
\* at once, for the commands that are started one at a time because they are,
\* and for mosh because its name contains the port it holds (mosh.go, lines
\* 198-218).
THEOREM Implements == CommandSpec => ControlHolds
<1>1. CommandInit => Init /\ PortInv
  BY InitPort DEF CommandInit
<1>2. PortInv /\ [CommandNext]_allVars => PortInv'
  BY PortStep
<1>3. PortInv /\ [CommandNext]_allVars => [Next]_vars
  BY StepImplements
<1> QED
  BY <1>1, <1>2, <1>3, PTL DEF CommandSpec, ControlHolds

-----------------------------------------------------------------------------
(***************************************************************************)
(* `qcat down' is answered by a process that it has stopped.               *)
(***************************************************************************)

\* The inductive invariant: a busy accept loop is busy with a request of a
\* client connected to it, and stop() has run before the connection is closed.
AnswerInv ==
    /\ request \in [Client -> {"idle", "queued", "read", "written", "stopping", "answered"}]
    /\ peer = [q \in Client |-> peer[q]]
    /\ serving \in [Process -> Client \cup {Nothing}]
    /\ \A p \in Process : serving[p] # Nothing =>
         peer[serving[p]] = p /\ request[serving[p]] \in {"read", "written", "stopping"}
    /\ \A q \in Client : request[q] \in {"stopping", "answered"} => peer[q] \in stopped

LEMMA InitAnswer == ASSUME Init PROVE AnswerInv
  BY DEF Init, AnswerInv

\* More processes may be stopped.
LEMMA KeepsAnswer ==
    ASSUME AnswerInv, UNCHANGED <<request, peer, serving>>, stopped \subseteq stopped'
    PROVE  AnswerInv'
  BY DEF AnswerInv

\* A request that no loop is busy with may end.
LEMMA ResetAnswer ==
    ASSUME AnswerInv, NEW p \in Process, NEW waiting, Reset(p, waiting), stopped' = stopped,
           \/ waiting = {"queued"} /\ serving' = serving
           \/ serving' = [serving EXCEPT ![p] = Nothing]
    PROVE  AnswerInv'
<1>1. /\ request' \in [Client -> {"idle", "queued", "read", "written", "stopping", "answered"}]
      /\ peer' = [q \in Client |-> peer'[q]]
      /\ serving' \in [Process -> Client \cup {Nothing}]
  BY DEF Reset, AnswerInv
<1>2. ASSUME NEW o \in Process, serving'[o] # Nothing
      PROVE  /\ peer'[serving'[o]] = o
             /\ request'[serving'[o]] \in {"read", "written", "stopping"}
  <2>1. serving'[o] = serving[o] /\ serving[o] \in Client
    BY <1>2 DEF AnswerInv
  <2>2. peer[serving[o]] = o /\ request[serving[o]] \in {"read", "written", "stopping"}
    BY <1>2, <2>1 DEF AnswerInv
  <2>3. ~(peer[serving[o]] = p /\ request[serving[o]] \in waiting)
    BY <1>2, <2>1, <2>2 DEF AnswerInv
  <2> QED
    BY <2>1, <2>2, <2>3 DEF Reset
<1>3. ASSUME NEW q \in Client, request'[q] \in {"stopping", "answered"} PROVE peer'[q] \in stopped'
  BY <1>3 DEF Reset, AnswerInv
<1> QED
  BY <1>1, <1>2, <1>3 DEF AnswerInv

LEMMA LoopAnswer ==
    ASSUME AnswerInv, NEW p \in Process, Loop(p)
    PROVE  AnswerInv'
<1> USE ControlAssumption
<1>1. ASSUME NEW q \in Client, Accept(p, q) PROVE AnswerInv'
  BY <1>1, SMTT(30) DEF Accept, AnswerInv, serverVars, ControlAssumption
<1>2. CASE Respond(p)
  BY <1>2 DEF Respond, AnswerInv, serverVars
<1>3. CASE Stop(p)
  BY <1>3, SMTT(30) DEF Stop, AnswerInv
<1>4. CASE Hangup(p)
  BY <1>4, SMTT(30) DEF Hangup, AnswerInv, serverVars
<1>5. CASE Abandon(p)
  BY <1>5, SMTT(30) DEF Abandon, AnswerInv, serverVars
<1> QED
  BY <1>1, <1>2, <1>3, <1>4, <1>5 DEF Loop

LEMMA StepAnswer ==
    ASSUME AnswerInv, [Next]_vars
    PROVE  AnswerInv'
<1>1. CASE UNCHANGED vars
  BY <1>1, KeepsAnswer DEF vars
<1>2. ASSUME NEW p \in Process, Begin(p) \/ Look(p) \/ Dial(p) \/ Remove(p) \/ Bind(p) PROVE AnswerInv'
  BY <1>2, KeepsAnswer DEF Begin, Look, Dial, Remove, Bind
<1>3. ASSUME NEW p \in Process, Chmod(p) PROVE AnswerInv'
  <2>1. CASE path # Nothing
    BY <1>3, <2>1, KeepsAnswer DEF Chmod
  <2>2. CASE path = Nothing
    BY <1>3, <2>2, ResetAnswer DEF Chmod
  <2> QED
    BY <2>1, <2>2
<1>4. ASSUME NEW p \in Process, Signal(p) \/ Return(p) \/ Unlink(p) \/ Exit(p) PROVE AnswerInv'
  BY <1>4, KeepsAnswer DEF Signal, Return, Unlink, Exit
<1>5. ASSUME NEW p \in Process, CloseListener(p) \/ Kill(p) PROVE AnswerInv'
  BY <1>5, ResetAnswer DEF CloseListener, Kill
<1>6. ASSUME NEW p \in Process, Loop(p) PROVE AnswerInv'
  BY <1>6, LoopAnswer
<1>7. ASSUME NEW q \in Client, Request(q) \/ GiveUp(q) \/ Forget(q) PROVE AnswerInv'
  <2>1. CASE Request(q)
    BY <2>1, SMTT(30) DEF Request, AnswerInv, serverVars
  <2>2. CASE GiveUp(q) \/ Forget(q)
    BY <2>2, SMTT(30) DEF GiveUp, Forget, AnswerInv, serverVars
  <2> QED
    BY <1>7, <2>1, <2>2
<1> QED
  BY <1>1, <1>2, <1>3, <1>4, <1>5, <1>6, <1>7 DEF Next, StartPeer, Ending

\* A `qcat down' that has read its answer to the end has stopped the process
\* that gave it, for any number of processes and clients, whichever are
\* cancelled or killed meanwhile (control.go, lines 78-85).
THEOREM DownStops == CommandSpec => []AnsweredStopped
<1>1. Init => AnswerInv
  BY InitAnswer
<1>2. AnswerInv /\ [Next]_vars => AnswerInv'
  BY StepAnswer
<1>3. AnswerInv => AnsweredStopped
  BY DEF AnswerInv, AnsweredStopped
<1> QED
  BY <1>1, <1>2, <1>3, Implements, PTL DEF ControlHolds

-----------------------------------------------------------------------------
(***************************************************************************)
(* Runs that do not overlap keep the socket reachable.                     *)
(***************************************************************************)

LEMMA TypeWhole ==
    ASSUME AnswerInv, Types
    PROVE  TypeOK
  BY DEF AnswerInv, Types, TypeOK

\* A process changes its own place and the socket, but no request.
LEMMA PlaceTypes ==
    ASSUME Types, NEW p \in Process, NEW l \in Place, pc' = [pc EXCEPT ![p] = l],
           path' \in Process \cup {Nothing}, listening' \subseteq Process,
           UNCHANGED <<stopped, closing, request, peer, kills>>
    PROVE  Types'
  BY DEF Types

LEMMA ResetTypes ==
    ASSUME AnswerInv, Types, NEW p \in Process, NEW waiting, Reset(p, waiting)
    PROVE  /\ peer' \in [Client -> Process \cup {Nothing}]
           /\ \A q \in Client : request'[q] = "idle" <=> peer'[q] = Nothing
<1>1. peer' \in [Client -> Process \cup {Nothing}]
  BY DEF Reset, Types
<1>2. ASSUME NEW q \in Client PROVE request'[q] = "idle" <=> peer'[q] = Nothing
  <2>1. request[q] = "idle" <=> peer[q] = Nothing
    BY DEF Types
  <2>2. CASE peer[q] = p /\ request[q] \in waiting
    BY <2>2 DEF Reset
  <2>3. CASE ~(peer[q] = p /\ request[q] \in waiting)
    BY <2>1, <2>3 DEF Reset
  <2> QED
    BY <2>2, <2>3
<1> QED
  BY <1>1, <1>2

LEMMA LoopTypes ==
    ASSUME AnswerInv, Types, NEW p \in Process, Loop(p)
    PROVE  Types'
<1> USE ControlAssumption
<1>1. ASSUME NEW q \in Client, Accept(p, q) PROVE Types'
  BY <1>1 DEF Accept, Types, AnswerInv, serverVars
<1>2. CASE Respond(p)
  BY <1>2 DEF Respond, Types, AnswerInv, serverVars
<1>3. CASE Stop(p)
  BY <1>3 DEF Stop, Types, AnswerInv
<1>4. CASE Hangup(p)
  BY <1>4 DEF Hangup, Types, AnswerInv, serverVars
<1>5. CASE Abandon(p)
  BY <1>5 DEF Abandon, Types, AnswerInv, serverVars
<1> QED
  BY <1>1, <1>2, <1>3, <1>4, <1>5 DEF Loop

LEMMA StepTypes ==
    ASSUME AnswerInv, Types, [Next]_vars
    PROVE  Types'
<1> USE ControlAssumption
<1>1. CASE UNCHANGED vars
  BY <1>1 DEF Types, vars
<1>2. ASSUME NEW p \in Process, Begin(p) \/ Look(p) \/ Dial(p) \/ Remove(p) \/ Bind(p) \/ Unlink(p) \/ Exit(p)
      PROVE  Types'
  <2>1. PICK l \in Place : pc' = [pc EXCEPT ![p] = l]
    BY <1>2 DEF Begin, Look, Dial, Remove, Bind, Unlink, Exit, Goto, Place, Starting
  <2>2. path' \in Process \cup {Nothing} /\ listening' \subseteq Process
    BY <1>2, Zenon DEF Begin, Look, Dial, Remove, Bind, Unlink, Exit, Types
  <2>3. UNCHANGED <<stopped, closing, request, peer, kills>>
    BY <1>2, Zenon DEF Begin, Look, Dial, Remove, Bind, Unlink, Exit
  <2> QED
    BY <2>1, <2>2, <2>3, PlaceTypes, Zenon
<1>3. ASSUME NEW p \in Process, Chmod(p) \/ CloseListener(p) \/ Kill(p) PROVE Types'
  <2>1. PICK l \in Place : pc' = [pc EXCEPT ![p] = l]
    BY <1>3 DEF Chmod, CloseListener, Kill, Goto, Place, Starting
  <2>2. path' = path /\ listening' \subseteq Process /\ UNCHANGED <<stopped, closing>>
    BY <1>3, Zenon DEF Chmod, CloseListener, Kill, Types
  <2>3. kills' \in 0..MaxKills
    <3>1. kills' = kills \/ (kills < MaxKills /\ kills' = kills + 1)
      BY <1>3, Zenon DEF Chmod, CloseListener, Kill
    <3>2. kills \in 0..MaxKills
      BY Zenon DEF Types
    <3> QED
      BY <3>1, <3>2
  <2>4. UNCHANGED <<request, peer>> \/ \E waiting : Reset(p, waiting)
    BY <1>3 DEF Chmod, CloseListener, Kill
  <2>5. /\ peer' \in [Client -> Process \cup {Nothing}]
        /\ \A q \in Client : request'[q] = "idle" <=> peer'[q] = Nothing
    <3>1. CASE UNCHANGED <<request, peer>>
      BY <3>1 DEF Types
    <3>2. CASE \E waiting : Reset(p, waiting)
      BY <3>2, ResetTypes
    <3> QED
      BY <2>4, <3>1, <3>2
  <2>6. pc' \in [Process -> Place]
    BY <2>1 DEF Types
  <2> QED
    BY <2>2, <2>3, <2>5, <2>6 DEF Types
<1>4. ASSUME NEW p \in Process, Signal(p) \/ Return(p) PROVE Types'
  BY <1>4 DEF Signal, Return, Types
<1>5. ASSUME NEW p \in Process, Loop(p) PROVE Types'
  BY <1>5, LoopTypes
<1>6. ASSUME NEW q \in Client, Request(q) \/ GiveUp(q) \/ Forget(q) PROVE Types'
  <2>1. CASE Request(q)
    BY <2>1 DEF Request, Types, AnswerInv, serverVars
  <2>2. CASE GiveUp(q) \/ Forget(q)
    BY <2>2 DEF GiveUp, Forget, Types, AnswerInv, serverVars
  <2> QED
    BY <1>6, <2>1, <2>2
<1> QED
  BY <1>1, <1>2, <1>3, <1>4, <1>5, <1>6 DEF Next, StartPeer, Ending

\* A step of process p from one place to another.
LEMMA BindMoves ==
    ASSUME Types, Binding, NEW p \in Process, NEW l \in Place, pc' = [pc EXCEPT ![p] = l],
           l \in Starting => pc[p] \in Starting \/ Alone,
           l \in {"chmod", "run"} => path' = p /\ p \in listening',
           l = "remove" => \A r \in Process : pc[r] # "run",
           l = "run" => \A r \in Process : r # p => pc[r] # "remove",
           \A r \in Process : r # p /\ pc[r] \in {"chmod", "run"} => path' = r /\ r \in listening',
           \A r \in listening' : r # p => r \in listening,
           p \in listening' => l \in {"chmod", "run", "unlinked"},
           listening' \subseteq Process,
           \A r \in Process : r # p => serving'[r] = serving[r],
           serving'[p] # Nothing => l \in {"run", "unlinked", "closed"}
    PROVE  Binding'
<1>1. pc'[p] = l /\ \A r \in Process : r # p => pc'[r] = pc[r]
  BY DEF Types
<1>2. \A o, r \in Process : pc'[o] \in Starting /\ pc'[r] \in Starting => o = r
  <2>1. ASSUME NEW r \in Process, r # p, l \in Starting, pc[r] \in Starting PROVE FALSE
    BY <2>1, Zenon DEF Binding, Alone
  <2> QED
    BY <1>1, <2>1 DEF Binding
<1>3. \A r \in Process : pc'[r] \in {"chmod", "run"} => path' = r /\ r \in listening'
  BY <1>1
<1>4. \A o \in Process : pc'[o] = "remove" => \A r \in Process : pc'[r] # "run"
  <2> SUFFICES ASSUME NEW o \in Process, pc'[o] = "remove", NEW r \in Process, pc'[r] = "run" PROVE FALSE
    OBVIOUS
  <2>1. CASE o = p
    BY <1>1, <2>1
  <2>2. CASE o # p /\ r = p
    BY <1>1, <2>2
  <2>3. CASE o # p /\ r # p
    BY <1>1, <2>3 DEF Binding
  <2> QED
    BY <2>1, <2>2, <2>3
<1>5. \A r \in listening' : pc'[r] \in {"chmod", "run", "unlinked"}
  BY <1>1 DEF Binding
<1>6. \A r \in Process : serving'[r] # Nothing => pc'[r] \in {"run", "unlinked", "closed"}
  BY <1>1 DEF Binding
<1> QED
  BY <1>2, <1>3, <1>4, <1>5, <1>6 DEF Binding

\* A step that moves no process and leaves the socket alone.
LEMMA BindStays ==
    ASSUME Binding, UNCHANGED <<path, listening, pc>>,
           \A r \in Process : serving'[r] # Nothing =>
              serving[r] # Nothing \/ pc[r] \in {"run", "unlinked", "closed"}
    PROVE  Binding'
  BY DEF Binding

LEMMA BindStep ==
    ASSUME ~Overlap, AnswerInv, Types, Binding, [Next]_vars
    PROVE  Binding'
<1> USE ControlAssumption
<1>1. CASE UNCHANGED vars
  BY <1>1, BindStays DEF vars
<1>2. /\ path \in Process \cup {Nothing} /\ listening \subseteq Process /\ pc \in [Process -> Place]
      /\ serving \in [Process -> Client \cup {Nothing}]
      /\ \A p \in Process : serving[p] # Nothing => pc[p] \in {"run", "unlinked", "closed"}
      /\ \A p \in Process : pc[p] \in {"chmod", "run"} => path = p /\ p \in listening
      /\ \A p \in listening : pc[p] \in {"chmod", "run", "unlinked"}
  BY DEF Types, AnswerInv, Binding
<1>3. ASSUME NEW p \in Process, Begin(p), Overlap \/ Alone PROVE Binding'
  <2>1. pc[p] = "off" /\ pc' = [pc EXCEPT ![p] = "look"] /\ UNCHANGED <<path, listening, serving>>
    BY <1>3 DEF Begin, Goto
  <2> QED
    BY <1>2, <1>3, <2>1, BindMoves, Zenon DEF Place, Starting
<1>4. ASSUME NEW p \in Process, Look(p) PROVE Binding'
  <2>1. PICK l \in {"bind", "dial"} : pc' = [pc EXCEPT ![p] = l]
    BY <1>4, Zenon DEF Look, Goto
  <2>2. pc[p] = "look" /\ UNCHANGED <<path, listening, serving>>
    BY <1>4 DEF Look
  <2> QED
    BY <1>2, <2>1, <2>2, BindMoves, Zenon DEF Place, Starting
<1>5. ASSUME NEW p \in Process, Dial(p) PROVE Binding'
  <2>1. pc[p] = "dial" /\ UNCHANGED <<path, listening, serving>>
    BY <1>5 DEF Dial
  <2>2. CASE path \in listening
    <3>1. pc' = [pc EXCEPT ![p] = "off"]
      BY <1>5, <2>2 DEF Dial, Goto
    <3> QED
      BY <1>2, <2>1, <3>1, BindMoves, Zenon DEF Place, Starting
  <2>3. CASE path \notin listening
    <3>1. pc' = [pc EXCEPT ![p] = "remove"]
      BY <1>5, <2>3 DEF Dial, Goto
    <3>2. \A r \in Process : pc[r] # "run"
      BY <1>2, <2>3
    <3> QED
      BY <1>2, <2>1, <3>1, <3>2, BindMoves, Zenon DEF Place, Starting
  <2> QED
    BY <2>2, <2>3
<1>6. ASSUME NEW p \in Process, Remove(p) PROVE Binding'
  <2>1. PICK l \in {"bind", "off"} : pc' = [pc EXCEPT ![p] = l]
    BY <1>6, Zenon DEF Remove, Goto
  <2>2. pc[p] = "remove" /\ path' = Nothing /\ UNCHANGED <<listening, serving>>
    BY <1>6 DEF Remove
  <2>3. \A r \in Process : r # p => pc[r] \notin {"chmod", "run"}
    BY <2>2 DEF Binding, Starting
  <2> QED
    BY <1>2, <2>1, <2>2, <2>3, BindMoves, Zenon DEF Place, Starting
<1>7. ASSUME NEW p \in Process, Bind(p) PROVE Binding'
  <2>1. pc[p] = "bind" /\ serving' = serving
    BY <1>7 DEF Bind
  <2>2. CASE path = Nothing
    <3>1. path' = p /\ listening' = listening \cup {p} /\ pc' = [pc EXCEPT ![p] = "chmod"]
      BY <1>7, <2>2 DEF Bind, Goto
    <3>2. \A r \in Process : pc[r] \notin {"chmod", "run"}
      BY <1>2, <2>2
    <3> QED
      BY <1>2, <2>1, <3>1, <3>2, BindMoves, Zenon DEF Place, Starting
  <2>3. CASE path # Nothing
    <3>1. pc' = [pc EXCEPT ![p] = "off"] /\ UNCHANGED <<path, listening>>
      BY <1>7, <2>3 DEF Bind, Goto
    <3> QED
      BY <1>2, <2>1, <3>1, BindMoves, Zenon DEF Place, Starting
  <2> QED
    BY <2>2, <2>3
<1>8. ASSUME NEW p \in Process, Chmod(p) PROVE Binding'
  <2>1. pc[p] = "chmod" /\ path = p /\ p \in listening /\ path # Nothing
    BY <1>2, <1>8 DEF Chmod
  <2>2. pc' = [pc EXCEPT ![p] = "run"] /\ UNCHANGED <<path, listening, serving>>
    BY <1>8, <2>1 DEF Chmod, Goto
  <2>3. \A r \in Process : r # p => pc[r] # "remove"
    BY <2>1, Zenon DEF Binding, Starting
  <2> QED
    BY <1>2, <2>1, <2>2, <2>3, BindMoves, Zenon DEF Place, Starting
<1>9. ASSUME NEW p \in Process, Signal(p) \/ Return(p) PROVE Binding'
  BY <1>9, BindStays DEF Signal, Return
<1>10. ASSUME NEW p \in Process, Unlink(p) PROVE Binding'
  <2>1. pc[p] = "run" /\ path' = Nothing /\ pc' = [pc EXCEPT ![p] = "unlinked"] /\ UNCHANGED <<listening, serving>>
    BY <1>10 DEF Unlink, Goto
  <2>2. \A r \in Process : r # p => pc[r] \notin {"chmod", "run"}
    BY <1>2, <2>1
  <2> QED
    BY <1>2, <2>1, <2>2, BindMoves, Zenon DEF Place, Starting
<1>11. ASSUME NEW p \in Process, CloseListener(p) PROVE Binding'
  <2>1. /\ pc[p] = "unlinked" /\ pc' = [pc EXCEPT ![p] = "closed"]
        /\ listening' = listening \ {p} /\ UNCHANGED <<path, serving>>
    BY <1>11 DEF CloseListener, Goto
  <2> QED
    BY <1>2, <2>1, BindMoves, Zenon DEF Place, Starting
<1>12. ASSUME NEW p \in Process, Exit(p) PROVE Binding'
  <2>1. /\ pc[p] = "closed" /\ serving[p] = Nothing /\ pc' = [pc EXCEPT ![p] = "off"]
        /\ UNCHANGED <<path, listening, serving>>
    BY <1>12 DEF Exit, Goto
  <2> QED
    BY <1>2, <2>1, BindMoves, Zenon DEF Place, Starting
<1>13. ASSUME NEW p \in Process, Kill(p) PROVE Binding'
  <2>1. /\ pc' = [pc EXCEPT ![p] = "off"] /\ listening' = listening \ {p} /\ path' = path
        /\ serving' = [serving EXCEPT ![p] = Nothing]
    BY <1>13 DEF Kill, Goto
  <2>2. serving'[p] = Nothing /\ \A r \in Process : r # p => serving'[r] = serving[r]
    BY <1>2, <2>1
  <2> QED
    BY <1>2, <2>1, <2>2, BindMoves, Zenon DEF Place, Starting
<1>14. ASSUME NEW p \in Process, Loop(p) PROVE Binding'
  <2>1. UNCHANGED <<path, listening, pc>>
    BY <1>14 DEF Loop, Accept, Respond, Stop, Hangup, Abandon, serverVars
  <2>2. \A r \in Process : serving'[r] # Nothing =>
           serving[r] # Nothing \/ pc[r] \in {"run", "unlinked", "closed"}
    BY <1>2, <1>14 DEF Loop, Accept, Respond, Stop, Hangup, Abandon
  <2> QED
    BY <2>1, <2>2, BindStays
<1>15. ASSUME NEW q \in Client, Request(q) \/ GiveUp(q) \/ Forget(q) PROVE Binding'
  BY <1>15, BindStays, Zenon DEF Request, GiveUp, Forget, serverVars
<1> QED
  BY <1>1, <1>3, <1>4, <1>5, <1>6, <1>7, <1>8, <1>9, <1>10, <1>11, <1>12, <1>13, <1>14, <1>15
     DEF Next, StartPeer, Ending

-----------------------------------------------------------------------------
(***************************************************************************)
(* The invariant of the commands.                                          *)
(***************************************************************************)
\* Of runs that do not start at the same time: the commands' types; a run
\* that serves its socket is reached by its path; a request is answered
\* "stopping" of a run that has been told to stop; nothing is closed under the
\* goroutine, child or request that uses it; and a run that has returned has
\* left nothing behind.
THEOREM CommandSound == ASSUME ~Overlap PROVE CommandSpec => []CommandInv
<1> DEFINE IInv == PortInv /\ AnswerInv /\ Types /\ Binding /\ StackInv
<1>1. CommandInit => IInv
  BY CommandInitInv, InitPort, InitAnswer DEF CommandInit
<1>2. IInv /\ [CommandNext]_allVars => IInv'
  <2> SUFFICES ASSUME IInv, [CommandNext]_allVars PROVE IInv'
    OBVIOUS
  <2>1. [Next]_vars
    BY StepImplements
  <2> QED
    BY <2>1, PortStep, StepAnswer, StepTypes, BindStep, StackStep
<1>3. IInv => CommandInv
  BY TypeWhole, CommandImplied DEF AnswerInv, AnsweredStopped
<1> QED
  BY <1>1, <1>2, <1>3, PTL DEF CommandSpec
=============================================================================
