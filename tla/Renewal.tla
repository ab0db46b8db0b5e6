------------------------------ MODULE Renewal ------------------------------
(***************************************************************************)
(* The client's maintenance of its lease (internal/transport, renew.go):   *)
(* the loop `watch' renews the session at an interval, probes the data     *)
(* path, and recovers after a failure or a gap in the clock.  Around it    *)
(* are a network that fails and returns, a machine that sleeps, a wall     *)
(* clock that is set, and the server's lease on the session.               *)
(*                                                                         *)
(* The unit of time is the ticker's period (5 s).  The loop's deadlines    *)
(* are on the wall clock and are kept relative to it, so setting the clock *)
(* moves all of them.                                                      *)
(***************************************************************************)
EXTENDS Integers

CONSTANTS
    Interval,        \* RenewInterval (45 min)
    SessionLifetime, \* SessionLifetime (60 min), kept by the server
    GapMax,          \* a longer gap between iterations is a sleep (15 s)
    ProbePeriod,     \* 30 s
    ProbeTimeout,    \* 10 s
    RenewTimeout,    \* of Client.Bootstrap (25 s)
    Retry,           \* 5 s
    Sleeps,          \* how long the machine may sleep
    Steps,           \* by how much the clock may be set
    MaxDisturb       \* bound of the model: disturbances

\* The lease leaves time for a renewal whose acknowledgement comes at its
\* deadline, the probe that checks it, and the renewal after the interval.  A
\* failed renewal is tried again before the next probe would be, and calls
\* that nothing hinders end before their deadlines.
ASSUME MarginAssumption ==
    /\ {Interval, SessionLifetime, GapMax, ProbePeriod, ProbeTimeout, RenewTimeout, Retry,
        MaxDisturb} \subseteq Nat
    /\ Sleeps \subseteq Nat /\ Steps \subseteq Int
    /\ 0 < Interval /\ Interval + RenewTimeout + ProbeTimeout + 2 < SessionLifetime
    /\ 0 < Retry /\ Retry < ProbePeriod
    /\ 1 < ProbeTimeout /\ ProbeTimeout <= RenewTimeout /\ 2 < RenewTimeout

VARIABLES
    loop,         \* "wait" at the select, or the call in progress
    sinceLast,    \* now - last
    toRenew,      \* nextRenew - now
    toProbe,      \* nextProbe - now
    recovering,
    due,          \* a probe is in progress and nextRenew has come
    tick,         \* the ticker's channel holds a tick
    busy,         \* time spent in the call in progress
    net,          \* the network works
    tainted,      \* it has not worked throughout the call in progress
    lease,        \* what is left of the lease; -1 when the server has swept it
    installed,    \* the server has installed the PSK of the renewal in progress
    ahead,        \* the server has a PSK whose acknowledgement has not arrived
    disturbed,    \* disturbances so far
    upset,        \* the machine has slept or its clock was set back
    calm,         \* time since the last disturbance, saturating
    outage        \* of it, how long the data path has not worked

clockVars == <<sinceLast, toRenew, toProbe>>
loopVars  == <<loop, recovering, due, tick, busy>>
pathVars  == <<lease, ahead, installed>>
envVars   == <<net, disturbed, upset, calm, outage>>
renewalVars == <<clockVars, loopVars, tainted, pathVars, envVars>>

\* How long an outage may last that nothing prolongs: a renewal in progress
\* ends, the next probe finds the outage at its timeout, and the renewal after
\* it takes a unit.
Bound == RenewTimeout + ProbePeriod + ProbeTimeout + 1

RenewalTypeOK ==
    /\ loop \in {"wait", "probe", "renew", "check", "stopped"}
    /\ sinceLast \in Int /\ toRenew \in Int /\ toProbe \in Int
    /\ {recovering, due, tick, net, tainted, installed, ahead, upset} \subseteq BOOLEAN
    /\ busy \in 0..RenewTimeout /\ lease \in -1..SessionLifetime
    /\ disturbed \in 0..MaxDisturb /\ calm \in 0..Bound + 1 /\ outage \in 0..Bound + 1

RenewalInit ==
    /\ loop = "wait" /\ sinceLast = 0 /\ toRenew = Interval /\ toProbe = ProbePeriod
    /\ recovering = FALSE /\ due = FALSE /\ tick = FALSE /\ busy = 0
    /\ net = TRUE /\ tainted = FALSE /\ lease = SessionLifetime
    /\ installed = FALSE /\ ahead = FALSE
    /\ disturbed = 0 /\ upset = FALSE /\ calm = 0 /\ outage = 0

PathWorks == net /\ lease > 0 /\ ~ahead

-----------------------------------------------------------------------------
(***************************************************************************)
(* The loop.                                                               *)
(***************************************************************************)

Begin(c) == loop' = c /\ busy' = 0 /\ tainted' = ~net
Wait     == loop' = "wait" /\ busy' = 0 /\ tainted' = FALSE

BugGap == sinceLast > GapMax
Gap == sinceLast > GapMax \/ sinceLast < 0

\* A tick: look at the clock, then probe, renew or wait.
OnTick ==
    LET rec == recovering \/ Gap
        left == IF Gap THEN 0 ELSE toRenew
    IN
    /\ loop = "wait" /\ tick /\ tick' = FALSE
    /\ recovering' = rec /\ toRenew' = left /\ sinceLast' = 0
    /\ IF ~rec /\ toProbe <= 0 THEN Begin("probe") /\ due' = (left <= 0)
       ELSE due' = FALSE /\ IF left > 0 THEN Wait ELSE Begin("renew")
    /\ UNCHANGED <<toProbe, pathVars, envVars>>

ProbeOK ==
    /\ loop = "probe" /\ PathWorks
    /\ toProbe' = ProbePeriod /\ due' = FALSE
    /\ IF due THEN Begin("renew") /\ UNCHANGED sinceLast ELSE Wait /\ sinceLast' = 0
    /\ UNCHANGED <<toRenew, recovering, tick, pathVars, envVars>>

\* A call fails at its deadline, or earlier on a network that has failed.
Fails(c, timeout) == loop = c /\ (tainted \/ busy = timeout)

ProbeFailed ==
    /\ Fails("probe", ProbeTimeout)
    /\ recovering' = TRUE /\ toRenew' = 0 /\ toProbe' = ProbePeriod /\ due' = FALSE
    /\ Begin("renew")
    /\ UNCHANGED <<sinceLast, tick, pathVars, envVars>>

\* The ends of an iteration that renewed.
Success ==
    /\ recovering' = FALSE /\ toRenew' = Interval /\ toProbe' = ProbePeriod
    /\ sinceLast' = 0 /\ Wait
Failure ==
    /\ recovering' = TRUE /\ toRenew' = Retry /\ sinceLast' = 0 /\ Wait
    /\ UNCHANGED toProbe

\* The server installs the new PSK.  It refuses to renew a lease that has
\* expired and is not swept yet.
Installed ==
    /\ loop = "renew" /\ net /\ ~installed /\ lease # 0
    /\ lease' = SessionLifetime /\ installed' = TRUE /\ ahead' = TRUE
    /\ UNCHANGED <<clockVars, loopVars, tainted, envVars>>

\* The acknowledgement arrives; a recovery is then checked by a probe.
RenewalOK ==
    /\ loop = "renew" /\ net /\ installed /\ installed' = FALSE /\ ahead' = FALSE
    /\ IF recovering THEN Begin("check") /\ UNCHANGED <<recovering, clockVars>> ELSE Success
    /\ UNCHANGED <<due, tick, lease, envVars>>

\* The renewal fails; the server may have installed the PSK all the same.
RenewalFailed ==
    /\ Fails("renew", RenewTimeout) /\ Failure
    /\ installed' = FALSE
    /\ UNCHANGED <<due, tick, lease, ahead, envVars>>

CheckOK ==
    /\ loop = "check" /\ PathWorks /\ Success
    /\ UNCHANGED <<due, tick, pathVars, envVars>>
CheckFailed ==
    /\ Fails("check", ProbeTimeout) /\ Failure
    /\ UNCHANGED <<due, tick, pathVars, envVars>>

\* ctx is cancelled.
Stopped ==
    /\ loop # "stopped" /\ loop' = "stopped"
    /\ UNCHANGED <<clockVars, recovering, due, tick, busy, tainted, pathVars, envVars>>

-----------------------------------------------------------------------------
(***************************************************************************)
(* Time, the network and the clock.                                        *)
(***************************************************************************)

\* The deadlines as the wall clock moves by k.  The next probe does not
\* matter to a recovering client, which sets it again when it is done.
WallClock(k) ==
    /\ sinceLast' = sinceLast + k /\ toRenew' = toRenew - k
    /\ toProbe' = IF recovering THEN 0 ELSE toProbe - k

Left(k) == IF lease - k > -1 THEN lease - k ELSE -1
Longer(t) == IF t > Bound THEN t ELSE t + 1
Limit == IF loop = "renew" THEN RenewTimeout ELSE ProbeTimeout

\* A call that nothing hinders ends within a unit of time.
Unhindered == net /\ ~tainted /\ (IF loop = "renew" THEN lease # 0 \/ installed ELSE PathWorks)

Elapse ==
    /\ loop # "stopped" /\ (loop = "wait" => ~tick)
    /\ loop # "wait" => busy < Limit /\ (Unhindered => busy < 1)
    /\ WallClock(1) /\ tick' = TRUE /\ busy' = IF loop = "wait" THEN 0 ELSE busy + 1
    /\ lease' = Left(1) /\ calm' = Longer(calm)
    /\ outage' = IF net /\ (lease' <= 0 \/ ahead) THEN Longer(outage) ELSE 0
    /\ UNCHANGED <<loop, recovering, due, net, tainted, ahead, installed, disturbed, upset>>

Disturb == disturbed < MaxDisturb /\ disturbed' = disturbed + 1 /\ calm' = 0 /\ outage' = 0

\* The machine sleeps.  Timers may or may not run meanwhile.
Sleep(k) ==
    /\ loop # "stopped" /\ Disturb /\ WallClock(k) /\ lease' = Left(k)
    /\ upset' = TRUE
    /\ tick' \in {tick, TRUE} /\ tainted' = (loop # "wait")
    /\ UNCHANGED <<loop, recovering, due, busy, net, ahead, installed>>

SetClock(k) ==
    /\ loop # "stopped" /\ Disturb /\ WallClock(k)
    /\ upset' = (upset \/ k < 0)
    /\ UNCHANGED <<loopVars, tainted, pathVars, net>>

NetworkChanges ==
    /\ loop # "stopped" /\ Disturb /\ net' = ~net /\ tainted' = (loop # "wait")
    /\ UNCHANGED <<clockVars, loopVars, pathVars, upset>>

RenewalNext ==
    \/ OnTick \/ ProbeOK \/ ProbeFailed
    \/ Installed \/ RenewalOK \/ RenewalFailed \/ CheckOK \/ CheckFailed \/ Stopped
    \/ Elapse \/ NetworkChanges
    \/ \E k \in Sleeps : Sleep(k)
    \/ \E k \in Steps : SetClock(k)

RenewalSpec == RenewalInit /\ [][RenewalNext]_renewalVars

-----------------------------------------------------------------------------
(***************************************************************************)
(* What maintenance promises.                                              *)
(***************************************************************************)

\* A session that the server has dropped, or whose PSK the two ends disagree
\* about, is restored within Bound of the last disturbance or of the moment
\* it broke, however the clock was set before.
OutageBounded == loop # "stopped" => outage <= Bound

\* If the clock is never set back and the machine stays awake, then the
\* client on a working network also keeps its lease: once it has recovered,
\* it renews in time, and both ends have the same PSK but during a renewal.
LeaseKept ==
    loop # "stopped" /\ ~upset /\ net /\ calm > Bound => lease > 0 /\ (ahead => loop = "renew")

\* A lost acknowledgement is not forgotten: the client that lags behind the
\* server's PSK is recovering and retries within Retry of its last attempt,
\* or is about to find the gap in the clock (renew.go, 77-82).
LagNoticed ==
    ahead /\ loop \notin {"renew", "stopped"} => recovering /\ (loop = "wait" => toRenew <= Retry \/ sinceLast < 0)

\* The state invariant of the loop: outages end, leases are kept and lags are
\* noticed.
RenewalInv == RenewalTypeOK /\ OutageBounded /\ LeaseKept /\ LagNoticed
-----------------------------------------------------------------------------
(***************************************************************************)
(* Why RenewalInv holds (ClientProofs).                                    *)
(***************************************************************************)
Calling == loop \in {"probe", "renew", "check"}

\* How many units pass before the waiting loop acts on what is due in t.
Turns(t) == IF t > 0 THEN t ELSE IF tick THEN 0 ELSE 1

\* A call has its place in the loop; one that the network or a sleep hinders
\* has met a disturbance since it began, and another takes a unit or, when
\* the server refuses a lease that has just expired, two.
CallsSound ==
    /\ loop = "wait" => busy = 0
    /\ loop \in {"probe", "check"} => busy <= ProbeTimeout
    /\ loop = "probe" => ~recovering /\ (busy > 0 => tick)
    /\ loop = "check" => recovering
    /\ installed => loop = "renew"
    /\ ahead => loop = "renew" \/ (loop = "wait" /\ recovering)
    /\ Calling /\ ~net => tainted
    /\ Calling /\ net /\ tainted => calm <= busy
    /\ loop \in {"probe", "check"} /\ ~tainted /\ lease > 0 => busy <= 1
    /\ loop = "renew" /\ ~tainted => busy <= 2 /\ (busy = 2 => installed \/ lease # 0)
    /\ installed /\ ~tainted => lease + busy >= SessionLifetime

\* The deadlines of a loop that waits: a clock that was set back has put them
\* off by what the next tick will notice.
DeadlinesKept ==
    /\ ~upset => sinceLast >= 0
    /\ loop = "wait" =>
         /\ IF recovering THEN toRenew + sinceLast <= Retry ELSE toProbe + sinceLast <= ProbePeriod
         /\ sinceLast < 0 /\ ~tick => outage = 0

\* How many units an outage lasts from here on, at most.  An untainted
\* renewal ends in one or two; a loop that waits gets to it by its next probe
\* or, recovering, by its next attempt.
RenewalLasts ==
    CASE lease = 0 /\ ~installed -> 1
      [] busy > 0 /\ (lease # 0 \/ installed) -> 0
      [] OTHER -> IF lease = 1 THEN 2 ELSE 1
Unnoticed == ProbePeriod + ProbeTimeout + 1
WaitLasts ==
    CASE sinceLast < 0 -> IF tick THEN 2 ELSE Bound
      [] sinceLast >= 0 /\ recovering -> Turns(toRenew) + 2
      [] OTHER -> IF lease = 1 THEN Unnoticed ELSE Turns(toProbe) + ProbeTimeout + 1
Lasts ==
    CASE loop = "wait" -> WaitLasts
      [] loop = "renew" -> IF tainted THEN Bound - busy ELSE RenewalLasts
      [] loop = "probe" -> IF lease = 1 THEN Unnoticed ELSE ProbeTimeout - busy + 1
      [] OTHER -> IF lease = 1 THEN Unnoticed ELSE ProbeTimeout - busy + Retry + 2

\* The loop has just renewed, and acts on no deadline before time passes.
Fresh ==
    \/ loop = "check" /\ ~tainted /\ busy = 0
    \/ loop = "wait" /\ ~recovering /\ sinceLast = 0 /\ toRenew = Interval /\ toProbe = ProbePeriod

\* An outage that is counted has begun or is about to, and ends in time.
OutageEnds ==
    /\ outage <= Bound /\ (~net => outage = 0)
    /\ net /\ (lease <= 1 \/ ahead) => outage + Lasts <= Bound
    /\ net /\ lease > 1 /\ ~ahead /\ outage > 0 => Fresh

\* The lease of a machine that stays awake lasts for the next renewal, but
\* after a disturbance that is recent enough.
WaitCovered ==
    IF recovering THEN net => calm + Turns(toRenew) + 2 <= Bound
    ELSE \/ lease >= Turns(toRenew) + 3
         \/ toRenew <= 0 /\ tick /\ (net => calm <= ProbeTimeout)
ProbeCovered ==
    \/ /\ lease + busy >= 3 /\ (tainted \/ busy <= 1)
       /\ due \/ (lease + busy >= 4 /\ lease >= toRenew + 3)
    \/ due /\ (net => calm <= ProbeTimeout + busy)
RenewalCovered ==
    IF installed THEN lease + busy >= SessionLifetime
    ELSE tainted \/ (lease + busy >= 2 /\ busy <= 1) \/ calm + RenewalLasts <= Bound
LeaseLasts ==
    ~upset =>
      /\ loop = "wait" => WaitCovered
      /\ loop = "probe" => ProbeCovered
      /\ loop = "renew" => RenewalCovered
      /\ loop = "check" => lease + busy >= SessionLifetime - RenewTimeout

\* The inductive invariant.
RenewalIInv == RenewalTypeOK /\ (loop # "stopped" => CallsSound /\ DeadlinesKept /\ OutageEnds /\ LeaseLasts)
=============================================================================
