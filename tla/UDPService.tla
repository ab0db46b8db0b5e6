----------------------------- MODULE UDPService -----------------------------
(***************************************************************************)
(* A published UDP service on the server: every flow that the netstack     *)
(* hands over is wrapped in an idlePacketConn (tailcat.go), takes one of   *)
(* the shared slots (UDPServices in internal/proxy/udp.go), dials the      *)
(* fixed target and copies datagrams both ways (proxyUDPDatagrams in       *)
(* udp_frame.go) until a socket fails, the flow is idle or the process is  *)
(* cancelled.  "up" is the pump from the tunnel to the target.             *)
(***************************************************************************)
EXTENDS Integers, FiniteSets

CONSTANTS
    Inbound,          \* flows that may arrive
    MaxServiceFlows,  \* slots shared by all services (128)
    Timeout,          \* UDPIdleTimeout, in units of time
    Off               \* a timer that is stopped or has fired

ASSUME ServiceAssumption ==
    /\ MaxServiceFlows \in Nat \ {0} /\ Timeout \in Nat \ {0} /\ Off \notin 0..Timeout

VARIABLES
    cancelled,  \* the process's context
    slots,      \* the flows that hold a slot
    handler,    \* the flow's handler
    sockets,    \* its open sockets: "in" from the tunnel, "out" to the target
    closed,     \* idlePacketConn.closed
    timer,      \* time until the idle timer fires, or Off
    quiet,      \* time since the last touch, up to Timeout; deadline - now is Timeout - quiet
    checks,     \* checkIdle goroutines: "firing" has yet to lock, "closing" has yet to close
    pump        \* where each of the two pumps is

serviceVars == <<cancelled, slots, handler, sockets, closed, timer, quiet, checks, pump>>
idleVars == <<closed, timer, quiet, checks>>

Way == {"up", "down"}

ServiceTypeOK ==
    /\ cancelled \in BOOLEAN /\ slots \subseteq Inbound /\ Cardinality(slots) <= MaxServiceFlows
    /\ handler \in [Inbound -> {"none", "begin", "dial", "proxy", "drain", "done"}]
    /\ sockets \in [Inbound -> SUBSET {"in", "out"}] /\ closed \in [Inbound -> BOOLEAN]
    /\ timer \in [Inbound -> 0..Timeout \cup {Off}] /\ quiet \in [Inbound -> 0..Timeout]
    /\ checks \in [Inbound -> SUBSET {"firing", "closing"}]
    /\ pump \in [Inbound -> [Way -> {"read", "touch", "write", "done"}]]

ServiceInit ==
    /\ cancelled = FALSE /\ slots = {}
    /\ handler = [f \in Inbound |-> "none"] /\ sockets = [f \in Inbound |-> {}]
    /\ closed = [f \in Inbound |-> FALSE] /\ timer = [f \in Inbound |-> Off]
    /\ quiet = [f \in Inbound |-> 0] /\ checks = [f \in Inbound |-> {}]
    /\ pump = [f \in Inbound |-> [w \in Way |-> "read"]]

-----------------------------------------------------------------------------
(***************************************************************************)
(* idlePacketConn.                                                         *)
(***************************************************************************)

newIdlePacketConn(f) ==
    /\ handler[f] = "none"
    /\ handler' = [handler EXCEPT ![f] = "begin"]
    /\ sockets' = [sockets EXCEPT ![f] = {"in"}]
    /\ timer' = [timer EXCEPT ![f] = Timeout] /\ quiet' = [quiet EXCEPT ![f] = 0]
    /\ UNCHANGED <<cancelled, slots, closed, checks, pump>>

\* The runtime starts checkIdle in a goroutine of its own; it may be slow.
\* A timer that was armed again waits for it: a second checkIdle behind the
\* first would find what the first one leaves.
TimerFires(f) ==
    /\ timer[f] = 0 /\ "firing" \notin checks[f]
    /\ timer' = [timer EXCEPT ![f] = Off]
    /\ checks' = [checks EXCEPT ![f] = @ \cup {"firing"}]
    /\ UNCHANGED <<cancelled, slots, handler, sockets, closed, quiet, pump>>

BugCheckIdle(f) ==
    /\ "firing" \in checks[f]
    /\ closed' = [closed EXCEPT ![f] = TRUE]
    /\ checks' = [checks EXCEPT ![f] = IF closed[f] THEN @ \ {"firing"} ELSE {"closing"}]
    /\ UNCHANGED <<cancelled, slots, handler, sockets, timer, quiet, pump>>

\* Nothing if the flow is closed; the rest of the time if it was touched
\* since the timer fired; otherwise the flow is closed, its socket after the
\* mutex has been released.
checkIdle(f) ==
    /\ "firing" \in checks[f]
    /\ IF ~closed[f] /\ quiet[f] >= Timeout
       THEN /\ closed' = [closed EXCEPT ![f] = TRUE]
            /\ checks' = [checks EXCEPT ![f] = {"closing"}]
            /\ UNCHANGED timer
       ELSE /\ timer' = IF closed[f] THEN timer ELSE [timer EXCEPT ![f] = Timeout - quiet[f]]
            /\ checks' = [checks EXCEPT ![f] = @ \ {"firing"}]
            /\ UNCHANGED closed
    /\ UNCHANGED <<cancelled, slots, handler, sockets, quiet, pump>>

CloseIdle(f) ==
    /\ "closing" \in checks[f]
    /\ sockets' = [sockets EXCEPT ![f] = @ \ {"in"}]
    /\ checks' = [checks EXCEPT ![f] = @ \ {"closing"}]
    /\ UNCHANGED <<cancelled, slots, handler, closed, timer, quiet, pump>>

\* idlePacketConn.Close together with the closing of `others'.  It does not
\* touch the socket of a flow that checkIdle has claimed.
CloseSockets(f, others) ==
    /\ sockets' = [sockets EXCEPT ![f] = @ \ (others \cup IF closed[f] THEN {} ELSE {"in"})]
    /\ closed' = [closed EXCEPT ![f] = TRUE]
    /\ timer' = IF closed[f] THEN timer ELSE [timer EXCEPT ![f] = Off]
    /\ UNCHANGED <<quiet, checks>>

\* After a successful Read or Write of the tunnel's socket.
touch(f, w) ==
    /\ pump[f][w] = "touch"
    /\ pump' = [pump EXCEPT ![f][w] = IF w = "up" THEN "write" ELSE "read"]
    /\ IF closed[f] THEN UNCHANGED <<quiet, timer>>
       ELSE quiet' = [quiet EXCEPT ![f] = 0] /\ timer' = [timer EXCEPT ![f] = Timeout]
    /\ UNCHANGED <<cancelled, slots, handler, sockets, closed, checks>>

-----------------------------------------------------------------------------
(***************************************************************************)
(* The handler that UDPServices returns.                                   *)
(***************************************************************************)

\* No slot is free, or the process is ending.
Refused(f) ==
    /\ handler[f] = "begin" /\ (cancelled \/ Cardinality(slots) >= MaxServiceFlows)
    /\ handler' = [handler EXCEPT ![f] = "done"]
    /\ CloseSockets(f, {})
    /\ UNCHANGED <<cancelled, slots, pump>>

TakeSlot(f) ==
    /\ handler[f] = "begin" /\ Cardinality(slots) < MaxServiceFlows
    /\ slots' = slots \cup {f} /\ handler' = [handler EXCEPT ![f] = "dial"]
    /\ UNCHANGED <<cancelled, sockets, idleVars, pump>>

BugServeDialFailed(f) ==
    /\ handler[f] = "dial"
    /\ handler' = [handler EXCEPT ![f] = "done"]
    /\ CloseSockets(f, {})
    /\ UNCHANGED <<cancelled, slots, pump>>

ServeDialFailed(f) ==
    /\ handler[f] = "dial"
    /\ handler' = [handler EXCEPT ![f] = "done"] /\ slots' = slots \ {f}
    /\ CloseSockets(f, {})
    /\ UNCHANGED <<cancelled, pump>>

ServeDialed(f) ==
    /\ handler[f] = "dial"
    /\ handler' = [handler EXCEPT ![f] = "proxy"]
    /\ sockets' = [sockets EXCEPT ![f] = @ \cup {"out"}]
    /\ UNCHANGED <<cancelled, slots, idleVars, pump>>

\* context.AfterFunc for both sockets.
CancelFlow(f) ==
    /\ cancelled /\ handler[f] \in {"dial", "proxy", "drain"}
    /\ ~closed[f] \/ "out" \in sockets[f]
    /\ CloseSockets(f, {"out"})
    /\ UNCHANGED <<cancelled, slots, handler, pump>>

BugFirstDone(f) ==
    /\ handler[f] = "proxy" /\ \E w \in Way : pump[f][w] = "done"
    /\ handler' = [handler EXCEPT ![f] = "drain"]
    /\ UNCHANGED <<cancelled, slots, sockets, idleVars, pump>>

\* proxyUDPDatagrams: the first pump to end closes both sockets, the second
\* one then ends as well.
FirstDone(f) ==
    /\ handler[f] = "proxy" /\ \E w \in Way : pump[f][w] = "done"
    /\ handler' = [handler EXCEPT ![f] = "drain"]
    /\ CloseSockets(f, {"out"})
    /\ UNCHANGED <<cancelled, slots, pump>>

SecondDone(f) ==
    /\ handler[f] = "drain" /\ \A w \in Way : pump[f][w] = "done"
    /\ handler' = [handler EXCEPT ![f] = "done"] /\ slots' = slots \ {f}
    /\ UNCHANGED <<cancelled, sockets, idleVars, pump>>

-----------------------------------------------------------------------------
(***************************************************************************)
(* The pumps.                                                              *)
(***************************************************************************)
Proxying(f) == handler[f] \in {"proxy", "drain"}
source(w) == IF w = "up" THEN "in" ELSE "out"
sink(w)   == IF w = "up" THEN "out" ELSE "in"

PumpRead(f, w) ==
    /\ Proxying(f) /\ pump[f][w] = "read"
    /\ source(w) \in sockets[f]
    /\ pump' = [pump EXCEPT ![f][w] = IF w = "up" THEN "touch" ELSE "write"]
    /\ UNCHANGED <<cancelled, slots, handler, sockets, idleVars>>

PumpWrite(f, w) ==
    /\ Proxying(f) /\ pump[f][w] = "write" /\ sink(w) \in sockets[f]
    /\ pump' = [pump EXCEPT ![f][w] = IF w = "up" THEN "read" ELSE "touch"]
    /\ UNCHANGED <<cancelled, slots, handler, sockets, idleVars>>

\* A socket was closed, the target refused, or a write missed its deadline.
PumpFails(f, w) ==
    /\ Proxying(f)
    /\ \/ pump[f][w] = "read" /\ (source(w) \notin sockets[f] \/ w = "down")
       \/ pump[f][w] = "write"
    /\ pump' = [pump EXCEPT ![f][w] = "done"]
    /\ UNCHANGED <<cancelled, slots, handler, sockets, idleVars>>

\* A pump's read of a socket that has been closed returns.
PumpStops(f, w) == source(w) \notin sockets[f] /\ PumpFails(f, w)

Cancel ==
    /\ ~cancelled /\ cancelled' = TRUE
    /\ UNCHANGED <<slots, handler, sockets, idleVars, pump>>

Tick ==
    /\ timer' = [f \in Inbound |-> IF timer[f] \in {0, Off} THEN timer[f] ELSE timer[f] - 1]
    /\ quiet' = [f \in Inbound |-> IF handler[f] = "none" \/ closed[f] \/ quiet[f] = Timeout
                                   THEN quiet[f] ELSE quiet[f] + 1]
    /\ <<timer, quiet>>' # <<timer, quiet>>
    /\ UNCHANGED <<cancelled, slots, handler, sockets, closed, checks, pump>>

-----------------------------------------------------------------------------
Handler(f) ==
    \/ Refused(f) \/ TakeSlot(f) \/ ServeDialFailed(f) \/ ServeDialed(f)
    \/ FirstDone(f) \/ SecondDone(f)

PumpStep(f, w) == PumpRead(f, w) \/ touch(f, w) \/ PumpWrite(f, w) \/ PumpFails(f, w)

ServiceNext ==
    \/ \E f \in Inbound :
         \/ newIdlePacketConn(f) \/ TimerFires(f) \/ checkIdle(f) \/ CloseIdle(f)
         \/ Handler(f) \/ CancelFlow(f)
         \/ \E w \in Way : PumpStep(f, w)
    \/ Cancel \/ Tick

\* Goroutines and timers run; a dial ends within 10 seconds, a write within
\* 5, and a read once its socket is closed.  Traffic and the cancellation
\* need not come.
ServiceFairness ==
    /\ WF_serviceVars(Tick)
    /\ \A f \in Inbound :
         /\ WF_serviceVars(TimerFires(f)) /\ WF_serviceVars(checkIdle(f)) /\ WF_serviceVars(CloseIdle(f))
         /\ WF_serviceVars(Handler(f)) /\ WF_serviceVars(CancelFlow(f))
         /\ \A w \in Way :
              /\ WF_serviceVars(touch(f, w)) /\ WF_serviceVars(PumpStops(f, w))
              /\ WF_serviceVars(PumpWrite(f, w) \/ (pump[f][w] = "write" /\ PumpFails(f, w)))

ServiceSpec == ServiceInit /\ [][ServiceNext]_serviceVars /\ ServiceFairness

-----------------------------------------------------------------------------
\* A step that has checkIdle claim a flow finds it quiet for Timeout.
ClosesQuiet ==
    \A f \in Inbound : ~closed[f] /\ "closing" \in checks'[f] => quiet[f] >= Timeout

\* The idle timer never closes a flow that was touched less than Timeout ago:
\* a firing timer that lost the race against a datagram is rescheduled ("so a
\* concurrent touch cannot be followed by a spurious close", tailcat.go,
\* lines 2902-2904).
NotClosedEarly == [][ClosesQuiet]_serviceVars

\* While a flow is open its idle timer is armed or about to look at it, so
\* no interleaving of touches and firings leaves a flow without a timer.
Watched ==
    \A f \in Inbound :
        handler[f] # "none" /\ ~closed[f] => timer[f] # Off \/ "firing" \in checks[f]

\* A handler that returned left no socket behind, except the one that a
\* running checkIdle is about to close, and no slot.
NothingLeft ==
    \A f \in Inbound :
        handler[f] = "done" =>
                 /\ f \notin slots /\ "out" \notin sockets[f]
                 /\ "in" \in sockets[f] => "closing" \in checks[f]

\* The state invariant of the services: open flows are watched, ended ones gone.
ServiceInv == ServiceTypeOK /\ Watched /\ NothingLeft

\* What makes ServiceInv inductive.  The slots are those of the handlers that
\* are past begin and have not returned.
SlotsExact ==
    slots = {f \in Inbound : handler[f] \in {"dial", "proxy", "drain"}} /\ IsFiniteSet(slots)

\* The socket of a flow that is closed is closed too, or about to be by the
\* checkIdle that claimed it; the target's socket is that of a flow that is
\* proxied, and a flow that is not has never been touched.
FlowSound(f) ==
    /\ "closing" \in checks[f] => closed[f]
    /\ closed[f] /\ "in" \in sockets[f] => "closing" \in checks[f]
    /\ "out" \in sockets[f] => handler[f] = "proxy"
    /\ handler[f] \in {"drain", "done"} => closed[f]
    /\ handler[f] = "none" => /\ ~closed[f] /\ timer[f] = Off /\ checks[f] = {}
                        /\ \A w \in Way : pump[f][w] = "read"

ServiceIInv == ServiceInv /\ SlotsExact /\ \A f \in Inbound : FlowSound(f)

\* A flow whose traffic ends is closed by the idle timer and handed back:
\* its handler returns and both of its sockets are closed.
IdleEnds ==
    \A f \in Inbound :
        <>[][\A w \in Way : ~PumpRead(f, w)]_serviceVars =>
            (handler[f] # "none" ~> (handler[f] = "done" /\ sockets[f] = {}))

\* Cancelling the process ends every flow, however much traffic it carries.
CancelEnds ==
    \A f \in Inbound :
        (cancelled /\ handler[f] # "none") ~> (handler[f] = "done" /\ sockets[f] = {})

\* Every flow that is idle or cancelled ends, and gives back what it held.
FlowsEnd == IdleEnds /\ CancelEnds
=============================================================================
