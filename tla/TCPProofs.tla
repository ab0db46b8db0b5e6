----------------------------- MODULE TCPProofs -----------------------------
(***************************************************************************)
(* Proofs of the safety properties of module TCPForward, for any number of *)
(* connections and of slots and any room and amount of data.               *)
(***************************************************************************)
EXTENDS TCPForward, FiniteSetTheorems, TLAPS

-----------------------------------------------------------------------------
(***************************************************************************)
(* The slots of forward and socks: every path through the goroutine of a   *)
(* connection takes one slot and gives it back once, so that the channel   *)
(* is full only when Slots connections are at work.                        *)
(***************************************************************************)
\* The inductive invariant: the channel's length is the number of goroutines
\* at work, and within its capacity.
SlotInv ==
    /\ at \in [Conn -> [Side -> Place]]
    /\ slots \in 0..Slots
    /\ SlotsExact

AtWork == {c \in Conn : Working(c)}

-----------------------------------------------------------------------------
\* Places that are all at work, or none of them, leave the count alone.
LEMMA SlotSame ==
    ASSUME SlotInv, mode' = mode, slots' = slots,
           at' \in [Conn -> [Side -> Place]],
           \A c \in Conn : Working(c)' <=> Working(c)
    PROVE  SlotInv'
<1>1. AtWork' = AtWork
  BY DEF AtWork
<1> QED
  BY <1>1, Zenon DEF SlotInv, SlotsExact, AtWork

\* One step of the server's handler, or of the client's goroutine between two
\* places where it is at work.
LEMMA SlotMoves ==
    ASSUME SlotInv, mode' = mode, slots' = slots,
           NEW c \in Conn, NEW x \in Side, NEW place \in Place, Goto(c, x, place),
           x = "client" => Working(c) /\ place \in Busy
    PROVE  SlotInv'
<1>1. at' \in [Conn -> [Side -> Place]]
  BY DEF SlotInv, Goto, Side
<1>2. ASSUME NEW d \in Conn PROVE Working(d)' <=> Working(d)
  <2>1. CASE d # c
    BY <2>1 DEF SlotInv, Goto, Working
  <2>2. CASE d = c /\ x = "client"
    BY <2>2 DEF SlotInv, Goto, Working, Busy, Side
  <2>3. CASE d = c /\ x # "client"
    BY <2>3 DEF SlotInv, Goto, Working, Side
  <2> QED
    BY <2>1, <2>2, <2>3
<1> QED
  BY <1>1, <1>2, SlotSame

\* A goroutine that ends gives its slot back.
LEMMA SlotLeaves ==
    ASSUME SlotInv, mode' = mode, Release,
           NEW c \in Conn, NEW place \in Place \ Busy, Goto(c, "client", place), Working(c)
    PROVE  SlotInv'
<1>1. at' \in [Conn -> [Side -> Place]]
  BY DEF SlotInv, Goto, Side
<1>2. AtWork' = AtWork \ {c} /\ c \in AtWork
  BY DEF SlotInv, Goto, Working, AtWork, Side
<1>3. IsFiniteSet(AtWork)
  BY FS_Subset, TCPForwardAssumption DEF AtWork
<1>4. Cardinality(AtWork') = Cardinality(AtWork) - 1 /\ Cardinality(AtWork) \in Nat \ {0}
  <2>1. Cardinality(AtWork') = Cardinality(AtWork) - 1
    BY <1>2, <1>3, FS_RemoveElement, Zenon
  <2>2. Cardinality(AtWork) \in Nat /\ Cardinality(AtWork) # 0
    BY <1>2, <1>3, FS_CardinalityType, FS_EmptySet
  <2> QED
    BY <2>1, <2>2
<1>5. CASE mode = "connect"
  BY <1>1, <1>5 DEF SlotInv, SlotsExact, Release
<1>6. CASE mode # "connect"
  BY <1>1, <1>4, <1>6, TCPForwardAssumption DEF SlotInv, SlotsExact, Release, AtWork
<1> QED
  BY <1>5, <1>6

\* A connection that is accepted takes one.
LEMMA SlotAccepts ==
    ASSUME SlotInv, NEW c \in Conn, Accept(c)
    PROVE  SlotInv'
<1>1. at' \in [Conn -> [Side -> Place]] /\ mode' = mode
  BY DEF SlotInv, Goto, Accept, Side, Place, Busy
<1>2. AtWork' = AtWork \cup {c} /\ c \notin AtWork
  BY DEF SlotInv, Goto, Accept, Working, Busy, AtWork, Side
<1>3. IsFiniteSet(AtWork)
  BY FS_Subset, TCPForwardAssumption DEF AtWork
<1>4. Cardinality(AtWork') = Cardinality(AtWork) + 1 /\ Cardinality(AtWork) \in Nat
  BY <1>2, <1>3, FS_AddElement, FS_CardinalityType, Zenon
<1>5. CASE mode = "connect"
  BY <1>1, <1>5 DEF SlotInv, SlotsExact, Accept
<1>6. CASE mode # "connect"
  BY <1>1, <1>4, <1>6, TCPForwardAssumption DEF SlotInv, SlotsExact, Accept, AtWork
<1> QED
  BY <1>5, <1>6

\* With the process all of its goroutines are gone, and the channel with them.
LEMMA SlotVanishes ==
    ASSUME SlotInv, NEW c \in Conn, Vanish(c)
    PROVE  SlotInv'
<1>1. mode' = mode /\ slots' = 0
  BY Zenon DEF Vanish
<1>2. at' \in [Conn -> [Side -> Place]]
  BY Zenon DEF SlotInv, Vanish, Side, Place
<1>3. CASE mode = "connect"
  BY <1>1, <1>2, <1>3, TCPForwardAssumption DEF SlotInv, SlotsExact
<1>4. CASE mode # "connect"
  <2>1. \A d \in Conn : at'[d] = IF Working(d) THEN [at[d] EXCEPT !["client"] = "done"] ELSE at[d]
    BY <1>4, Zenon DEF Vanish
  <2>2. ASSUME NEW d \in Conn PROVE ~Working(d)'
    BY <2>1, Zenon DEF SlotInv, Working, Busy, Side
  <2>3. AtWork' = {}
    BY <2>2 DEF AtWork
  <2>4. Cardinality(AtWork') = 0
    BY <2>3, FS_EmptySet
  <2> QED
    BY <1>1, <1>2, <2>4, TCPForwardAssumption DEF SlotInv, SlotsExact, AtWork
<1> QED
  BY <1>3, <1>4

\* Steps of the network, the copies and the programs.
LEMMA SlotStill ==
    ASSUME SlotInv, UNCHANGED <<mode, at, slots>>
    PROVE  SlotInv'
  BY DEF SlotInv, SlotsExact, Working

LEMMA SlotClientSteps ==
    ASSUME SlotInv, NEW c \in Conn, Client(c)
    PROVE  SlotInv'
<1>1. CASE DialTCPPort(c)
  <2>3. PICK u \in Busy, v \in Busy : at' = [at EXCEPT ![c] = [client |-> u, server |-> v]]
    BY <1>1 DEF DialTCPPort, Busy
  <2>4. [client |-> u, server |-> v] \in [Side -> Place]
    BY DEF Side, Place
  <2>1. mode' = mode /\ slots' = slots /\ at' \in [Conn -> [Side -> Place]]
    <3>1. mode' = mode /\ slots' = slots
      BY <1>1, Zenon DEF DialTCPPort
    <3>2. at' \in [Conn -> [Side -> Place]]
      BY <2>3, <2>4 DEF SlotInv
    <3> QED
      BY <3>1, <3>2
  <2>2. ASSUME NEW d \in Conn PROVE Working(d)' <=> Working(d)
    BY <1>1 DEF DialTCPPort, SlotInv, Working, Busy
  <2> QED
    BY <2>1, <2>2, SlotSame
<1>2. CASE Greeted(c) \/ Granted(c)
  <2>1. mode' = mode /\ slots' = slots /\ Working(c)
    BY <1>2, Zenon DEF Greeted, Granted, Working, Busy
  <2>2. \E place \in Busy : Goto(c, "client", place)
    BY <1>2 DEF Greeted, Granted, Busy
  <2> QED
    BY <2>1, <2>2, SlotMoves DEF Place, Side
<1>3. CASE ClientFails(c)
  <2>1. mode' = mode /\ Release /\ Working(c) /\ Goto(c, "client", "failed")
    BY <1>3 DEF ClientFails, Working, Busy
  <2> QED
    BY <2>1, SlotLeaves DEF Place, Busy
<1>4. CASE ConnectReturns(c)
  <2>1. mode = "connect" /\ mode' = mode /\ slots' = slots /\ Goto(c, "client", "done")
    BY <1>4 DEF ConnectReturns
  <2>2. at' \in [Conn -> [Side -> Place]]
    BY <2>1 DEF SlotInv, Goto, Side, Place
  <2> QED
    BY <2>1, <2>2 DEF SlotInv, SlotsExact
<1> QED
  BY <1>1, <1>2, <1>3, <1>4 DEF Client

LEMMA SlotHandlerSteps ==
    ASSUME SlotInv, NEW c \in Conn, Handler(c)
    PROVE  SlotInv'
<1>1. mode' = mode /\ slots' = slots
  BY DEF Handler, ServeGreeting, ServeRequest, ServeFails, ServeDials, ServeDialFails
<1>2. \E place \in Place : Goto(c, "server", place)
  BY DEF Handler, ServeGreeting, ServeRequest, ServeFails, ServeDials, ServeDialFails, Place, Busy
<1> QED
  BY <1>1, <1>2, SlotMoves DEF Side

LEMMA SlotProxySteps ==
    ASSUME SlotInv, NEW c \in Conn, NEW x \in Side, ProxyConns(c, x)
    PROVE  SlotInv'
<1>1. CASE \E k \in Own(x) : EndCopy(c, k)
  BY <1>1, SlotStill, Zenon DEF EndCopy
<1>2. CASE ProxyEnds(c, x)
  <2>1. mode' = mode /\ slots' = slots /\ Goto(c, x, "drain") /\ at[c][x] = "proxy"
    BY <1>2, Zenon DEF ProxyEnds
  <2> QED
    BY <2>1, SlotMoves, Zenon DEF Working, Busy, Place
<1>3. CASE ProxyCloses(c, x) \/ DrainExpires(c, x)
  <2>1. mode' = mode /\ Goto(c, x, "done") /\ at[c][x] = "drain"
    BY <1>3, Zenon DEF ProxyCloses, DrainExpires
  <2>2. CASE x = "client"
    <3>1. Release /\ Working(c)
      BY <1>3, <2>1, <2>2 DEF ProxyCloses, DrainExpires, Working, Busy
    <3> QED
      BY <2>1, <2>2, <3>1, SlotLeaves, Zenon DEF Place, Busy
  <2>3. CASE x # "client"
    <3>1. slots' = slots
      BY <1>3, <2>3, Zenon DEF ProxyCloses, DrainExpires
    <3> QED
      BY <2>1, <2>3, <3>1, SlotMoves DEF Place
  <2> QED
    BY <2>2, <2>3
<1> QED
  BY <1>1, <1>2, <1>3 DEF ProxyConns

-----------------------------------------------------------------------------
LEMMA SlotStep ==
    ASSUME SlotInv, [Next]_vars
    PROVE  SlotInv'
<1>1. CASE Refuse \/ UNCHANGED vars
  BY <1>1, SlotStill DEF Refuse, vars
<1>2. ASSUME NEW c \in Conn, Accept(c) PROVE SlotInv'
  BY <1>2, SlotAccepts
<1>3. ASSUME NEW c \in Conn, Client(c) PROVE SlotInv'
  BY <1>3, SlotClientSteps
<1>4. ASSUME NEW c \in Conn, Vanish(c) PROVE SlotInv'
  BY <1>4, SlotVanishes
<1>5. ASSUME NEW c \in Conn, Handler(c) PROVE SlotInv'
  BY <1>5, SlotHandlerSteps
<1>6. ASSUME NEW c \in Conn, ServeLate(c) \/ Carry(c) \/ Negotiate(c) PROVE SlotInv'
  BY <1>6, SlotStill, Zenon DEF ServeLate, Carry, Deliver, Negotiate
<1>7. ASSUME NEW c \in Conn, NEW x \in Side, ProxyConns(c, x) PROVE SlotInv'
  BY <1>7, SlotProxySteps
<1>8. ASSUME NEW c \in Conn, NEW x \in Side, Lose(c, x) PROVE SlotInv'
  BY <1>8, SlotStill DEF Lose
<1>9. ASSUME NEW c \in Conn, NEW k \in Copies, Copy(c, k) PROVE SlotInv'
  BY <1>9, SlotStill DEF Copy
<1>10. ASSUME NEW c \in Conn, NEW x \in Program,
              Send(c, x) \/ Shut(c, x) \/ Abort(c, x) \/ Receive(c, x)
       PROVE  SlotInv'
  BY <1>10, SlotStill, Zenon DEF Send, Shut, Abort, Receive
<1> QED
  BY <1>1, <1>2, <1>3, <1>4, <1>5, <1>6, <1>7, <1>8, <1>9, <1>10 DEF Next

LEMMA SlotInit ==
    ASSUME Init
    PROVE  SlotInv
<1>1. at \in [Conn -> [Side -> Place]] /\ slots = 0
  BY DEF Init, Place
<1>2. AtWork = {}
  BY DEF Init, AtWork, Working, Busy, Side
<1>3. Cardinality(AtWork) = 0
  BY <1>2, FS_EmptySet
<1> QED
  BY <1>1, <1>3, TCPForwardAssumption DEF SlotInv, SlotsExact, AtWork

\* However connections end (refused, denied, failed at any step, reset, drained
\* or with the process), the channel holds one entry for each goroutine at work,
\* and never more than its capacity: no slot leaks and none is returned twice
\* (main.go, lines 580-610).
THEOREM SlotsReturned ==
    Spec => [](SlotsExact /\ slots \in 0..Slots)
<1>1. Init => SlotInv
  BY SlotInit
<1>2. SlotInv /\ [Next]_vars => SlotInv'
  BY SlotStep
<1>3. SlotInv => SlotsExact /\ slots \in 0..Slots
  BY DEF SlotInv
<1> QED
  BY <1>1, <1>2, <1>3, PTL DEF Spec
=============================================================================
