---------------------------- MODULE ClientProofs ----------------------------
(***************************************************************************)
(* A client.  Proofs of the safety properties of module Renewal, for any   *)
(* interval, lifetime and timeouts that the lease covers, and of module    *)
(* ClientLifecycle, for any number of goroutines and any choice of the     *)
(* methods that they call.                                                 *)
(***************************************************************************)
EXTENDS Renewal, ClientLifecycle, TLAPS

-----------------------------------------------------------------------------
(***************************************************************************)
(* The renewal loop of a client.                                           *)
(***************************************************************************)
\* What is known of the constants.
RSizes ==
    /\ Interval \in Nat /\ SessionLifetime \in Nat /\ GapMax \in Nat /\ ProbePeriod \in Nat
    /\ ProbeTimeout \in Nat /\ RenewTimeout \in Nat /\ Retry \in Nat /\ MaxDisturb \in Nat
    /\ 0 < Interval /\ Interval + RenewTimeout + ProbeTimeout + 2 < SessionLifetime
    /\ 0 < Retry /\ Retry < ProbePeriod
    /\ 1 < ProbeTimeout /\ ProbeTimeout <= RenewTimeout /\ 2 < RenewTimeout

\* The type invariant, flags apart from numbers: the provers treat them apart.
RFlags ==
    /\ recovering \in BOOLEAN /\ due \in BOOLEAN /\ tick \in BOOLEAN /\ net \in BOOLEAN
    /\ tainted \in BOOLEAN /\ installed \in BOOLEAN /\ ahead \in BOOLEAN /\ upset \in BOOLEAN
RNumbers ==
    /\ loop \in {"wait", "probe", "renew", "check", "stopped"}
    /\ sinceLast \in Int /\ toRenew \in Int /\ toProbe \in Int
    /\ busy \in 0..RenewTimeout /\ lease \in -1..SessionLifetime
    /\ disturbed \in 0..MaxDisturb /\ calm \in 0..Bound + 1 /\ outage \in 0..Bound + 1

RSound == CallsSound /\ DeadlinesKept /\ OutageEnds /\ LeaseLasts

LEMMA RTypes == RenewalTypeOK <=> RFlags /\ RNumbers
BY Zenon DEF RenewalTypeOK, RFlags, RNumbers

LEMMA RTypesNext == RenewalTypeOK' <=> RFlags' /\ RNumbers'
BY Zenon DEF RenewalTypeOK, RFlags, RNumbers

\* The loop looks at the clock.
LEMMA ROnTickInv ==
    ASSUME RSizes, RFlags, RNumbers, RSound, loop # "stopped", OnTick
    PROVE  RFlags' /\ RNumbers' /\ RSound'
<1>1. due' \in BOOLEAN /\ recovering' \in BOOLEAN
  <2>1. recovering' = (recovering \/ Gap)
    BY Zenon DEF OnTick
  <2>2. due' = (0 <= 0) \/ due' = (toRenew <= 0) \/ due' = FALSE
    BY Zenon DEF OnTick
  <2>3. recovering' \in BOOLEAN
    BY <2>1, Zenon
  <2>4. due' \in BOOLEAN
    <3>1. CASE due' = (0 <= 0)
      BY <3>1, SMTT(30)
    <3>2. CASE due' = (toRenew <= 0)
      BY <3>2, SMTT(30)
    <3>3. CASE due' = FALSE
      BY <3>3, Zenon
    <3> QED
      BY <2>2, <3>1, <3>2, <3>3, Zenon
  <2> QED
    BY <2>3, <2>4
<1>2. RFlags'
  BY <1>1, Zenon DEF RFlags, OnTick, Gap, Begin, Wait, clockVars, loopVars, pathVars,
         envVars
<1>3. RNumbers'
  BY <1>2, <1>1, SMTT(30) DEF RSizes, RFlags, RNumbers, Bound, RSound, CallsSound, OnTick, Gap,
         Begin, Wait, clockVars, loopVars, pathVars, envVars
<1>4. CallsSound'
  BY <1>2, <1>1, SMTT(30) DEF RSizes, RFlags, RNumbers, Bound, RSound, CallsSound, Calling,
         OnTick, Gap, Begin, Wait, clockVars, loopVars, pathVars, envVars
<1>5. DeadlinesKept'
  BY <1>2, <1>1, SMTT(30) DEF RSizes, RFlags, RNumbers, Bound, RSound, CallsSound, DeadlinesKept,
         OnTick, Gap, Begin, Wait, clockVars, loopVars, pathVars, envVars
<1>6. OutageEnds'
  BY <1>2, <1>1, SMTT(30) DEF RSizes, RFlags, RNumbers, Bound, RSound, CallsSound, Calling,
         DeadlinesKept, OutageEnds, Fresh, Lasts, WaitLasts, Unnoticed, RenewalLasts,
         Turns, OnTick, Gap, Begin, Wait, clockVars, loopVars, pathVars, envVars
<1>7. LeaseLasts'
  BY <1>2, <1>1, SMTT(30) DEF RSizes, RFlags, RNumbers, Bound, RSound, CallsSound, Calling,
         DeadlinesKept, LeaseLasts, WaitCovered, ProbeCovered, RenewalCovered,
         RenewalLasts, Turns, OnTick, Gap, Begin, Wait, clockVars, loopVars,
         pathVars, envVars
<1> QED
  BY <1>2, <1>3, <1>4, <1>5, <1>6, <1>7, Zenon DEF RSound

\* A probe is answered.
LEMMA RProbeOKInv ==
    ASSUME RSizes, RFlags, RNumbers, RSound, loop # "stopped", ProbeOK
    PROVE  RFlags' /\ RNumbers' /\ RSound'
<1>1. RFlags'
  BY Zenon DEF RFlags, ProbeOK, PathWorks, Begin, Wait, clockVars, loopVars, pathVars,
         envVars
<1>2. RNumbers'
  BY <1>1, SMTT(30) DEF RSizes, RFlags, RNumbers, Bound, RSound, CallsSound, ProbeOK, PathWorks,
         Begin, Wait, clockVars, loopVars, pathVars, envVars
<1>3. CallsSound'
  BY <1>1, SMTT(30) DEF RSizes, RFlags, RNumbers, Bound, RSound, CallsSound, Calling, ProbeOK,
         PathWorks, Begin, Wait, clockVars, loopVars, pathVars, envVars
<1>4. DeadlinesKept'
  BY <1>1, SMTT(30) DEF RSizes, RFlags, RNumbers, Bound, RSound, CallsSound, DeadlinesKept,
         ProbeOK, PathWorks, Begin, Wait, clockVars, loopVars, pathVars, envVars
<1>5. OutageEnds'
  BY <1>1, SMTT(30) DEF RSizes, RFlags, RNumbers, Bound, RSound, CallsSound, Calling,
         DeadlinesKept, OutageEnds, Fresh, Lasts, WaitLasts, Unnoticed, RenewalLasts,
         Turns, ProbeOK, PathWorks, Begin, Wait, clockVars, loopVars, pathVars,
         envVars
<1>6. LeaseLasts'
  BY <1>1, SMTT(30) DEF RSizes, RFlags, RNumbers, Bound, RSound, CallsSound, Calling,
         DeadlinesKept, LeaseLasts, WaitCovered, ProbeCovered, RenewalCovered,
         RenewalLasts, Turns, ProbeOK, PathWorks, Begin, Wait, clockVars, loopVars,
         pathVars, envVars
<1> QED
  BY <1>1, <1>2, <1>3, <1>4, <1>5, <1>6, Zenon DEF RSound

\* A probe fails: the renewal after it is hindered by nothing, or the
\* disturbance is recent.
LEMMA RProbeFailedInv ==
    ASSUME RSizes, RFlags, RNumbers, RSound, loop # "stopped", ProbeFailed
    PROVE  RFlags' /\ RNumbers' /\ RSound'
<1>1. RFlags'
  BY Zenon DEF RFlags, ProbeFailed, Fails, Begin, clockVars, loopVars, pathVars,
         envVars
<1>2. RNumbers'
  BY <1>1, SMTT(30) DEF RSizes, RFlags, RNumbers, Bound, RSound, CallsSound, ProbeFailed, Fails,
         Begin, clockVars, loopVars, pathVars, envVars
<1>3. CallsSound'
  BY <1>1, SMTT(30) DEF RSizes, RFlags, RNumbers, Bound, RSound, CallsSound, Calling,
         ProbeFailed, Fails, Begin, clockVars, loopVars, pathVars, envVars
<1>4. DeadlinesKept'
  BY <1>1, SMTT(30) DEF RSizes, RFlags, RNumbers, Bound, RSound, CallsSound, DeadlinesKept,
         ProbeFailed, Fails, Begin, clockVars, loopVars, pathVars, envVars
<1>5. OutageEnds'
  BY <1>1, SMTT(30) DEF RSizes, RFlags, RNumbers, Bound, RSound, CallsSound, Calling,
         DeadlinesKept, OutageEnds, Fresh, Lasts, WaitLasts, Unnoticed, RenewalLasts,
         Turns, ProbeFailed, Fails, Begin, clockVars, loopVars, pathVars, envVars
<1>6. LeaseLasts'
  BY <1>1, SMTT(30) DEF RSizes, RFlags, RNumbers, Bound, RSound, CallsSound, Calling,
         DeadlinesKept, LeaseLasts, WaitCovered, ProbeCovered, RenewalCovered,
         RenewalLasts, Turns, ProbeFailed, Fails, Begin, clockVars, loopVars,
         pathVars, envVars
<1> QED
  BY <1>1, <1>2, <1>3, <1>4, <1>5, <1>6, Zenon DEF RSound

\* The server has the new PSK.
LEMMA RInstalledInv ==
    ASSUME RSizes, RFlags, RNumbers, RSound, loop # "stopped", Installed
    PROVE  RFlags' /\ RNumbers' /\ RSound'
<1>1. RFlags'
  BY Zenon DEF RFlags, Installed, clockVars, loopVars, pathVars, envVars
<1>2. RNumbers'
  BY <1>1, SMTT(30) DEF RSizes, RFlags, RNumbers, Bound, RSound, CallsSound, Installed,
         clockVars, loopVars, pathVars, envVars
<1>3. CallsSound'
  BY <1>1, SMTT(30) DEF RSizes, RFlags, RNumbers, Bound, RSound, CallsSound, Calling, Installed,
         clockVars, loopVars, pathVars, envVars
<1>4. DeadlinesKept'
  BY <1>1, SMTT(30) DEF RSizes, RFlags, RNumbers, Bound, RSound, CallsSound, DeadlinesKept,
         Installed, clockVars, loopVars, pathVars, envVars
<1>5. OutageEnds'
  BY <1>1, SMTT(30) DEF RSizes, RFlags, RNumbers, Bound, RSound, CallsSound, Calling,
         DeadlinesKept, OutageEnds, Fresh, Lasts, WaitLasts, Unnoticed, RenewalLasts,
         Turns, Installed, clockVars, loopVars, pathVars, envVars
<1>6. LeaseLasts'
  BY <1>1, SMTT(30) DEF RSizes, RFlags, RNumbers, Bound, RSound, CallsSound, Calling,
         DeadlinesKept, LeaseLasts, WaitCovered, ProbeCovered, RenewalCovered,
         RenewalLasts, Turns, Installed, clockVars, loopVars, pathVars, envVars
<1> QED
  BY <1>1, <1>2, <1>3, <1>4, <1>5, <1>6, Zenon DEF RSound

\* So has the client.
LEMMA RRenewedInv ==
    ASSUME RSizes, RFlags, RNumbers, RSound, loop # "stopped", RenewalOK
    PROVE  RFlags' /\ RNumbers' /\ RSound'
<1>1. RFlags'
  BY Zenon DEF RFlags, RenewalOK, Begin, Success, Wait, clockVars, loopVars, pathVars,
         envVars
<1>2. RNumbers'
  BY <1>1, SMTT(30) DEF RSizes, RFlags, RNumbers, Bound, RSound, CallsSound, RenewalOK, Begin,
         Success, Wait, clockVars, loopVars, pathVars, envVars
<1>3. CallsSound'
  BY <1>1, SMTT(30) DEF RSizes, RFlags, RNumbers, Bound, RSound, CallsSound, Calling, RenewalOK,
         Begin, Success, Wait, clockVars, loopVars, pathVars, envVars
<1>4. DeadlinesKept'
  BY <1>1, SMTT(30) DEF RSizes, RFlags, RNumbers, Bound, RSound, CallsSound, DeadlinesKept,
         RenewalOK, Begin, Success, Wait, clockVars, loopVars, pathVars, envVars
<1>5. OutageEnds'
  BY <1>1, SMTT(30) DEF RSizes, RFlags, RNumbers, Bound, RSound, CallsSound, Calling,
         DeadlinesKept, OutageEnds, Fresh, Lasts, WaitLasts, Unnoticed, RenewalLasts,
         Turns, RenewalOK, Begin, Success, Wait, clockVars, loopVars, pathVars,
         envVars
<1>6. LeaseLasts'
  BY <1>1, SMTT(30) DEF RSizes, RFlags, RNumbers, Bound, RSound, CallsSound, Calling,
         DeadlinesKept, LeaseLasts, WaitCovered, ProbeCovered, RenewalCovered,
         RenewalLasts, Turns, RenewalOK, Begin, Success, Wait, clockVars, loopVars,
         pathVars, envVars
<1> QED
  BY <1>1, <1>2, <1>3, <1>4, <1>5, <1>6, Zenon DEF RSound

\* A renewal fails, which it does only after a disturbance.
LEMMA RRenewFailedInv ==
    ASSUME RSizes, RFlags, RNumbers, RSound, loop # "stopped", RenewalFailed
    PROVE  RFlags' /\ RNumbers' /\ RSound'
<1>1. RFlags'
  BY Zenon DEF RFlags, RenewalFailed, Fails, Failure, Wait, clockVars, loopVars,
         pathVars, envVars
<1>2. RNumbers'
  BY <1>1, SMTT(30) DEF RSizes, RFlags, RNumbers, Bound, RSound, CallsSound, RenewalFailed, Fails,
         Failure, Wait, clockVars, loopVars, pathVars, envVars
<1>3. CallsSound'
  BY <1>1, SMTT(30) DEF RSizes, RFlags, RNumbers, Bound, RSound, CallsSound, Calling,
         RenewalFailed, Fails, Failure, Wait, clockVars, loopVars, pathVars, envVars
<1>4. DeadlinesKept'
  BY <1>1, SMTT(30) DEF RSizes, RFlags, RNumbers, Bound, RSound, CallsSound, DeadlinesKept,
         RenewalFailed, Fails, Failure, Wait, clockVars, loopVars, pathVars, envVars
<1>5. OutageEnds'
  BY <1>1, SMTT(30) DEF RSizes, RFlags, RNumbers, Bound, RSound, CallsSound, Calling,
         DeadlinesKept, OutageEnds, Fresh, Lasts, WaitLasts, Unnoticed, RenewalLasts,
         Turns, RenewalFailed, Fails, Failure, Wait, clockVars, loopVars, pathVars,
         envVars
<1>6. LeaseLasts'
  BY <1>1, SMTT(30) DEF RSizes, RFlags, RNumbers, Bound, RSound, CallsSound, Calling,
         DeadlinesKept, LeaseLasts, WaitCovered, ProbeCovered, RenewalCovered,
         RenewalLasts, Turns, RenewalFailed, Fails, Failure, Wait, clockVars,
         loopVars, pathVars, envVars
<1> QED
  BY <1>1, <1>2, <1>3, <1>4, <1>5, <1>6, Zenon DEF RSound

\* The renewed session works.
LEMMA RCheckOKInv ==
    ASSUME RSizes, RFlags, RNumbers, RSound, loop # "stopped", CheckOK
    PROVE  RFlags' /\ RNumbers' /\ RSound'
<1>1. RFlags'
  BY Zenon DEF RFlags, CheckOK, PathWorks, Success, Wait, clockVars, loopVars,
         pathVars, envVars
<1>2. RNumbers'
  BY <1>1, SMTT(30) DEF RSizes, RFlags, RNumbers, Bound, RSound, CallsSound, CheckOK, PathWorks,
         Success, Wait, clockVars, loopVars, pathVars, envVars
<1>3. CallsSound'
  BY <1>1, SMTT(30) DEF RSizes, RFlags, RNumbers, Bound, RSound, CallsSound, Calling, CheckOK,
         PathWorks, Success, Wait, clockVars, loopVars, pathVars, envVars
<1>4. DeadlinesKept'
  BY <1>1, SMTT(30) DEF RSizes, RFlags, RNumbers, Bound, RSound, CallsSound, DeadlinesKept,
         CheckOK, PathWorks, Success, Wait, clockVars, loopVars, pathVars, envVars
<1>5. OutageEnds'
  BY <1>1, SMTT(30) DEF RSizes, RFlags, RNumbers, Bound, RSound, CallsSound, Calling,
         DeadlinesKept, OutageEnds, Fresh, Lasts, WaitLasts, Unnoticed, RenewalLasts,
         Turns, CheckOK, PathWorks, Success, Wait, clockVars, loopVars, pathVars,
         envVars
<1>6. LeaseLasts'
  BY <1>1, SMTT(30) DEF RSizes, RFlags, RNumbers, Bound, RSound, CallsSound, Calling,
         DeadlinesKept, LeaseLasts, WaitCovered, ProbeCovered, RenewalCovered,
         RenewalLasts, Turns, CheckOK, PathWorks, Success, Wait, clockVars,
         loopVars, pathVars, envVars
<1> QED
  BY <1>1, <1>2, <1>3, <1>4, <1>5, <1>6, Zenon DEF RSound

\* It does not.
LEMMA RCheckFailedInv ==
    ASSUME RSizes, RFlags, RNumbers, RSound, loop # "stopped", CheckFailed
    PROVE  RFlags' /\ RNumbers' /\ RSound'
<1>1. RFlags'
  BY Zenon DEF RFlags, CheckFailed, Fails, Failure, Wait, clockVars, loopVars,
         pathVars, envVars
<1>2. RNumbers'
  BY <1>1, SMTT(30) DEF RSizes, RFlags, RNumbers, Bound, RSound, CallsSound, CheckFailed, Fails,
         Failure, Wait, clockVars, loopVars, pathVars, envVars
<1>3. CallsSound'
  BY <1>1, SMTT(30) DEF RSizes, RFlags, RNumbers, Bound, RSound, CallsSound, Calling,
         CheckFailed, Fails, Failure, Wait, clockVars, loopVars, pathVars, envVars
<1>4. DeadlinesKept'
  BY <1>1, SMTT(30) DEF RSizes, RFlags, RNumbers, Bound, RSound, CallsSound, DeadlinesKept,
         CheckFailed, Fails, Failure, Wait, clockVars, loopVars, pathVars, envVars
<1>5. OutageEnds'
  BY <1>1, SMTT(30) DEF RSizes, RFlags, RNumbers, Bound, RSound, CallsSound, Calling,
         DeadlinesKept, OutageEnds, Fresh, Lasts, WaitLasts, Unnoticed, RenewalLasts,
         Turns, CheckFailed, Fails, Failure, Wait, clockVars, loopVars, pathVars,
         envVars
<1>6. LeaseLasts'
  BY <1>1, SMTT(30) DEF RSizes, RFlags, RNumbers, Bound, RSound, CallsSound, Calling,
         DeadlinesKept, LeaseLasts, WaitCovered, ProbeCovered, RenewalCovered,
         RenewalLasts, Turns, CheckFailed, Fails, Failure, Wait, clockVars,
         loopVars, pathVars, envVars
<1> QED
  BY <1>1, <1>2, <1>3, <1>4, <1>5, <1>6, Zenon DEF RSound

\* Time passes: an outage is a unit longer, and what is left of it shorter.
LEMMA RElapseInv ==
    ASSUME RSizes, RFlags, RNumbers, RSound, loop # "stopped", Elapse
    PROVE  RFlags' /\ RNumbers' /\ RSound'
<1>1. RFlags'
  BY Zenon DEF RFlags, Elapse, WallClock, Left, Longer, Limit, Unhindered, PathWorks,
         clockVars, loopVars, pathVars, envVars
<1>2. RNumbers'
  BY <1>1, SMTT(30) DEF RSizes, RFlags, RNumbers, Bound, RSound, CallsSound, Elapse, WallClock,
         Left, Longer, Limit, Unhindered, PathWorks, clockVars, loopVars, pathVars,
         envVars
<1>3. CallsSound'
  BY <1>1, SMTT(30) DEF RSizes, RFlags, RNumbers, Bound, RSound, CallsSound, Calling, Elapse,
         WallClock, Left, Longer, Limit, Unhindered, PathWorks, clockVars, loopVars,
         pathVars, envVars
<1>4. DeadlinesKept'
  BY <1>1, SMTT(30) DEF RSizes, RFlags, RNumbers, Bound, RSound, CallsSound, DeadlinesKept,
         Elapse, WallClock, Left, Longer, Limit, Unhindered, PathWorks, clockVars,
         loopVars, pathVars, envVars
<1>5. OutageEnds'
  BY <1>1, SMTT(30) DEF RSizes, RFlags, RNumbers, Bound, RSound, CallsSound, Calling,
         DeadlinesKept, OutageEnds, Fresh, Lasts, WaitLasts, Unnoticed, RenewalLasts,
         Turns, Elapse, WallClock, Left, Longer, Limit, Unhindered, PathWorks,
         clockVars, loopVars, pathVars, envVars
<1>6. LeaseLasts'
  BY <1>1, SMTT(30) DEF RSizes, RFlags, RNumbers, Bound, RSound, CallsSound, Calling,
         DeadlinesKept, LeaseLasts, WaitCovered, ProbeCovered, RenewalCovered,
         RenewalLasts, Turns, Elapse, WallClock, Left, Longer, Limit, Unhindered,
         PathWorks, clockVars, loopVars, pathVars, envVars
<1> QED
  BY <1>1, <1>2, <1>3, <1>4, <1>5, <1>6, Zenon DEF RSound

\* The network fails or comes back.
LEMMA RNetworkChangesInv ==
    ASSUME RSizes, RFlags, RNumbers, RSound, loop # "stopped", NetworkChanges
    PROVE  RFlags' /\ RNumbers' /\ RSound'
<1>1. RFlags'
  BY Zenon DEF RFlags, NetworkChanges, Disturb, clockVars, loopVars, pathVars, envVars
<1>2. RNumbers'
  BY <1>1, SMTT(30) DEF RSizes, RFlags, RNumbers, Bound, RSound, CallsSound, NetworkChanges,
         Disturb, clockVars, loopVars, pathVars, envVars
<1>3. CallsSound'
  BY <1>1, SMTT(30) DEF RSizes, RFlags, RNumbers, Bound, RSound, CallsSound, Calling,
         NetworkChanges, Disturb, clockVars, loopVars, pathVars, envVars
<1>4. DeadlinesKept'
  BY <1>1, SMTT(30) DEF RSizes, RFlags, RNumbers, Bound, RSound, CallsSound, DeadlinesKept,
         NetworkChanges, Disturb, clockVars, loopVars, pathVars, envVars
<1>5. OutageEnds'
  BY <1>1, SMTT(30) DEF RSizes, RFlags, RNumbers, Bound, RSound, CallsSound, Calling,
         DeadlinesKept, OutageEnds, Fresh, Lasts, WaitLasts, Unnoticed, RenewalLasts,
         Turns, NetworkChanges, Disturb, clockVars, loopVars, pathVars, envVars
<1>6. LeaseLasts'
  BY <1>1, SMTT(30) DEF RSizes, RFlags, RNumbers, Bound, RSound, CallsSound, Calling,
         DeadlinesKept, LeaseLasts, WaitCovered, ProbeCovered, RenewalCovered,
         RenewalLasts, Turns, NetworkChanges, Disturb, clockVars, loopVars, pathVars,
         envVars
<1> QED
  BY <1>1, <1>2, <1>3, <1>4, <1>5, <1>6, Zenon DEF RSound

\* The machine sleeps.
LEMMA RSleepInv ==
    ASSUME RSizes, RFlags, RNumbers, RSound, loop # "stopped", NEW k \in Nat, Sleep(k)
    PROVE  RFlags' /\ RNumbers' /\ RSound'
<1>1. (tainted' <=> loop # "wait") /\ (tick => tick')
  <2>1. tainted' = (loop # "wait") /\ tick' \in {tick, TRUE}
    BY Zenon DEF Sleep
  <2>2. tainted' <=> loop # "wait"
    BY <2>1, Zenon
  <2>3. tick => tick'
    BY <2>1, Zenon
  <2> QED
    BY <2>2, <2>3
<1>2. RFlags'
  BY <1>1, Zenon DEF RFlags, Sleep, Disturb, WallClock, Left, clockVars, loopVars,
         pathVars, envVars
<1>3. RNumbers'
  BY <1>2, <1>1, SMTT(30) DEF RSizes, RFlags, RNumbers, Bound, RSound, CallsSound, Sleep,
         Disturb, WallClock, Left, clockVars, loopVars, pathVars, envVars
<1>4. CallsSound'
  BY <1>2, <1>1, SMTT(30) DEF RSizes, RFlags, RNumbers, Bound, RSound, CallsSound, Calling,
         Sleep, Disturb, WallClock, Left, clockVars, loopVars, pathVars, envVars
<1>5. DeadlinesKept'
  BY <1>2, <1>1, SMTT(30) DEF RSizes, RFlags, RNumbers, Bound, RSound, CallsSound, DeadlinesKept,
         Sleep, Disturb, WallClock, Left, clockVars, loopVars, pathVars, envVars
<1>6. OutageEnds'
  BY <1>2, <1>1, SMTT(30) DEF RSizes, RFlags, RNumbers, Bound, RSound, CallsSound, Calling,
         DeadlinesKept, OutageEnds, Fresh, Lasts, WaitLasts, Unnoticed, RenewalLasts,
         Turns, Sleep, Disturb, WallClock, Left, clockVars, loopVars, pathVars,
         envVars
<1>7. LeaseLasts'
  BY <1>2, <1>1, SMTT(30) DEF RSizes, RFlags, RNumbers, Bound, RSound, CallsSound, Calling,
         DeadlinesKept, LeaseLasts, WaitCovered, ProbeCovered, RenewalCovered,
         RenewalLasts, Turns, Sleep, Disturb, WallClock, Left, clockVars, loopVars,
         pathVars, envVars
<1> QED
  BY <1>2, <1>3, <1>4, <1>5, <1>6, <1>7, Zenon DEF RSound

\* The clock is set.
LEMMA RSetClockInv ==
    ASSUME RSizes, RFlags, RNumbers, RSound, loop # "stopped", NEW k \in Int, SetClock(k)
    PROVE  RFlags' /\ RNumbers' /\ RSound'
<1>1. upset' <=> upset \/ k < 0
  BY Zenon DEF SetClock
<1>2. RFlags'
  BY <1>1, Zenon DEF RFlags, SetClock, Disturb, WallClock, clockVars, loopVars,
         pathVars, envVars
<1>3. RNumbers'
  BY <1>2, <1>1, SMTT(30) DEF RSizes, RFlags, RNumbers, Bound, RSound, CallsSound, SetClock,
         Disturb, WallClock, clockVars, loopVars, pathVars, envVars
<1>4. CallsSound'
  BY <1>2, <1>1, SMTT(30) DEF RSizes, RFlags, RNumbers, Bound, RSound, CallsSound, Calling,
         SetClock, Disturb, WallClock, clockVars, loopVars, pathVars, envVars
<1>5. DeadlinesKept'
  BY <1>2, <1>1, SMTT(30) DEF RSizes, RFlags, RNumbers, Bound, RSound, CallsSound, DeadlinesKept,
         SetClock, Disturb, WallClock, clockVars, loopVars, pathVars, envVars
<1>6. OutageEnds'
  BY <1>2, <1>1, SMTT(30) DEF RSizes, RFlags, RNumbers, Bound, RSound, CallsSound, Calling,
         DeadlinesKept, OutageEnds, Fresh, Lasts, WaitLasts, Unnoticed, RenewalLasts,
         Turns, SetClock, Disturb, WallClock, clockVars, loopVars, pathVars, envVars
<1>7. LeaseLasts'
  BY <1>2, <1>1, SMTT(30) DEF RSizes, RFlags, RNumbers, Bound, RSound, CallsSound, Calling,
         DeadlinesKept, LeaseLasts, WaitCovered, ProbeCovered, RenewalCovered,
         RenewalLasts, Turns, SetClock, Disturb, WallClock, clockVars, loopVars,
         pathVars, envVars
<1> QED
  BY <1>2, <1>3, <1>4, <1>5, <1>6, <1>7, Zenon DEF RSound

\* A client that has just started.
LEMMA RInitInv ==
    ASSUME RSizes, RenewalInit
    PROVE  RenewalIInv
<1>1. RFlags
  BY Zenon DEF RenewalInit, RFlags
<1>2. RNumbers
  BY SMTT(30) DEF RenewalInit, RSizes, RNumbers, Bound
<1>3. CallsSound /\ DeadlinesKept
  BY <1>1, SMTT(30) DEF RenewalInit, RSizes, CallsSound, Calling, DeadlinesKept
<1>4. OutageEnds
  BY <1>1, SMTT(30) DEF RenewalInit, RSizes, OutageEnds, Bound
<1>5. LeaseLasts
  BY <1>1, SMTT(30) DEF RenewalInit, RSizes, LeaseLasts, WaitCovered, Turns
<1> QED
  BY <1>1, <1>2, <1>3, <1>4, <1>5, RTypes, Zenon DEF RenewalIInv

\* Every step keeps the invariant; a loop that has stopped takes none.
LEMMA RNextInv ==
    ASSUME RSizes, RenewalIInv, [RenewalNext]_renewalVars
    PROVE  RenewalIInv'
<1>1. CASE UNCHANGED renewalVars
  <2>1. UNCHANGED <<loop, sinceLast, toRenew, toProbe, recovering, due, tick, busy, net, tainted,
                    lease, installed, ahead, disturbed, upset, calm, outage>>
    BY <1>1 DEF renewalVars, clockVars, loopVars, pathVars, envVars
  <2>2. RenewalTypeOK' = RenewalTypeOK
    BY <2>1 DEF RenewalTypeOK, Bound
  <2>3. CallsSound' = CallsSound
    BY <2>1, Zenon DEF CallsSound, Calling
  <2>4. DeadlinesKept' = DeadlinesKept
    BY <2>1 DEF DeadlinesKept
  <2>5. OutageEnds' = OutageEnds
    BY <2>1 DEF OutageEnds, Fresh, Lasts, WaitLasts, Unnoticed, RenewalLasts, Turns, Bound
  <2>6. LeaseLasts' = LeaseLasts
    BY <2>1 DEF LeaseLasts, WaitCovered, ProbeCovered, RenewalCovered, RenewalLasts, Turns, Bound
  <2> QED
    BY <2>1, <2>2, <2>3, <2>4, <2>5, <2>6, Zenon DEF RenewalIInv
<1>2. CASE Stopped
  <2>1. /\ loop' = "stopped"
        /\ UNCHANGED <<sinceLast, toRenew, toProbe, recovering, due, tick, busy, net, tainted, lease,
                       installed, ahead, disturbed, upset, calm, outage>>
    BY <1>2 DEF Stopped, clockVars, pathVars, envVars
  <2>2. RenewalTypeOK'
    BY <2>1, SMTT(30) DEF RenewalIInv, RenewalTypeOK, Bound
  <2> QED
    BY <2>1, <2>2 DEF RenewalIInv
<1>3. ASSUME RenewalNext, ~Stopped
      PROVE  RenewalIInv'
  <2>1. loop # "stopped"
    BY <1>3, Zenon
       DEF RenewalNext, OnTick, ProbeOK, ProbeFailed, Installed, RenewalOK, RenewalFailed,
           CheckOK, CheckFailed, Fails, Elapse, NetworkChanges, Sleep, SetClock
  <2>2. RFlags /\ RNumbers /\ RSound
    BY <2>1, RTypes, Zenon DEF RenewalIInv, RSound
  <2>3. RFlags' /\ RNumbers' /\ RSound'
    <3>1. ASSUME NEW k \in Sleeps, Sleep(k) PROVE RFlags' /\ RNumbers' /\ RSound'
      BY <2>1, <2>2, <3>1, RSleepInv, MarginAssumption, Zenon
    <3>2. ASSUME NEW k \in Steps, SetClock(k) PROVE RFlags' /\ RNumbers' /\ RSound'
      BY <2>1, <2>2, <3>2, RSetClockInv, MarginAssumption
    <3> QED
      BY <1>3, <2>1, <2>2, <3>1, <3>2, ROnTickInv, RProbeOKInv, RProbeFailedInv, RInstalledInv,
         RRenewedInv, RRenewFailedInv, RCheckOKInv, RCheckFailedInv, RElapseInv, RNetworkChangesInv,
         Zenon DEF RenewalNext
  <2> QED
    BY <2>3, RTypesNext, Zenon DEF RenewalIInv, RSound
<1> QED
  BY <1>1, <1>2, <1>3, Zenon

\* What the invariant gives: an outage that is counted is bounded with what is
\* left of it; a lease that could run out has a disturbance that is recent.
LEMMA RInvGives ==
    ASSUME RSizes, RenewalIInv
    PROVE  RenewalInv
<1>1. CASE loop = "stopped"
  BY <1>1 DEF RenewalIInv, RenewalInv, OutageBounded, LeaseKept, LagNoticed
<1>2. CASE loop # "stopped"
  <2>1. RFlags /\ RNumbers /\ RSound /\ RenewalTypeOK
    BY <1>2, RTypes, Zenon DEF RenewalIInv, RSound
  <2>2. OutageBounded
    BY <2>1, Zenon DEF RSound, OutageEnds, OutageBounded
  <2>3. LeaseKept
    BY <1>2, <2>1, SMTT(30)
       DEF RSizes, RFlags, RNumbers, RSound, Bound, CallsSound, Calling, LeaseLasts,
           WaitCovered, ProbeCovered, RenewalCovered, RenewalLasts, Turns, LeaseKept
  <2>4. LagNoticed
    BY <1>2, <2>1, SMTT(30)
       DEF RSizes, RFlags, RNumbers, RSound, CallsSound, DeadlinesKept, LagNoticed
  <2> QED
    BY <2>1, <2>2, <2>3, <2>4 DEF RenewalInv
<1> QED
  BY <1>1, <1>2

\* For every interval, timeout and period that leave the margins, and however
\* the machine sleeps, its network fails and its clock is set: an outage that
\* nothing prolongs ends within Bound, the lease of a machine that stays awake
\* is renewed in time, and a client that lags behind the server's PSK retries.
THEOREM RenewalSound == RenewalSpec => []RenewalInv
<1>1. RSizes
  BY MarginAssumption DEF RSizes
<1>2. RenewalInit => RenewalIInv
  BY <1>1, RInitInv
<1>3. RenewalIInv /\ [RenewalNext]_renewalVars => RenewalIInv'
  BY <1>1, RNextInv
<1>4. RenewalIInv => RenewalInv
  BY <1>1, RInvGives
<1> QED
  BY <1>2, <1>3, <1>4, PTL DEF RenewalSpec

-----------------------------------------------------------------------------
(***************************************************************************)
(* The methods of a client.                                                *)
(***************************************************************************)
USE DEF Method, Place, Backend

\* A client that nobody has used yet.
LEMMA InitInv == Init => Inv
<1> SUFFICES ASSUME Init PROVE Inv
  OBVIOUS
<1>1. TypeOK
  <2>1. psk \in [Backend -> 0..MaxPSK] /\ held \in [Caller -> [lb : 0..MaxBackends, psk : 0..MaxPSK]]
    BY BoundAssumption DEF Init
  <2>2. op \in [Caller -> Method] /\ pc \in [Caller -> Place]
    BY DEF Init
  <2>3. /\ startMu \in Caller \cup {NoOne} /\ renewMu \in Caller \cup {NoOne}
        /\ built \in 0..MaxBackends /\ lb \in 0..built /\ open \subseteq 1..built
        /\ made \in 0..MaxPSK
    BY BoundAssumption DEF Init
  <2>4. /\ Bootstrap \in BOOLEAN /\ closed \in BOOLEAN /\ started \in BOOLEAN
        /\ upDone \in BOOLEAN /\ meowed \in BOOLEAN
    BY Zenon DEF Init
  <2>5. \A c \in Caller : startMu # c /\ renewMu # c
    BY NoOneAssumption DEF Init
  <2> QED
    BY <2>1, <2>2, <2>3, <2>4, <2>5 DEF TypeOK
<1>2. RenewalOnLive /\ OneBackend /\ DialHasBackend /\ MutexesHeld
  BY NoOneAssumption
     DEF Init, RenewalOnLive, OneBackend, DialHasBackend, MutexesHeld
<1>3. BackendFollows /\ PSKsOrdered
  BY BoundAssumption DEF Init, BackendFollows, PSKsOrdered
<1> QED
  BY <1>1, <1>2, <1>3 DEF Inv, ClientInv

\* A method that returns releases its mutexes and changes nothing else: a
\* refused call, a status query, a timeout, the end of a dial.
LEMMA ReturnInv ==
    ASSUME Inv, NEW c \in Caller, Return(c), UNCHANGED shared
    PROVE  Inv'
<1>1. TypeOK'
  BY NoOneAssumption, BoundAssumption DEF Inv, ClientInv, TypeOK, Return, Goto, shared
<1>2. RenewalOnLive' /\ OneBackend' /\ DialHasBackend'
  BY DEF Inv, ClientInv, TypeOK, Return, Goto, shared, RenewalOnLive, OneBackend, DialHasBackend
<1>3. MutexesHeld'
  BY NoOneAssumption DEF Inv, ClientInv, TypeOK, MutexesHeld, Return, Goto, shared
<1>4. BackendFollows'
  BY DEF Inv, ClientInv, TypeOK, BackendFollows, Return, Goto, shared
<1>5. PSKsOrdered'
  BY DEF Inv, ClientInv, TypeOK, PSKsOrdered, Return, Goto, shared
<1> QED
  BY <1>1, <1>2, <1>3, <1>4, <1>5 DEF Inv, ClientInv

\* A goroutine that takes no mutex and releases none moves on.
LEMMA CallInv ==
    ASSUME Inv, NEW c \in Caller, NEW o \in Methods[c], Call(c, o)
    PROVE  Inv'
<1>1. o \in Method
  BY MethodAssumption
<1>2. TypeOK'
  BY <1>1 DEF Inv, ClientInv, TypeOK, Call, FirstMutex, Goto, shared
<1>3. RenewalOnLive' /\ OneBackend' /\ DialHasBackend'
  BY DEF Inv, ClientInv, TypeOK, Call, FirstMutex, Goto, shared, RenewalOnLive, OneBackend,
         DialHasBackend, BackendFollows
<1>4. MutexesHeld'
  BY <1>1 DEF Inv, ClientInv, TypeOK, MutexesHeld, Call, FirstMutex, Goto, shared
<1>5. BackendFollows'
  BY DEF Inv, ClientInv, TypeOK, BackendFollows, Call, FirstMutex, Goto, shared
<1>6. PSKsOrdered'
  BY DEF Inv, ClientInv, TypeOK, PSKsOrdered, Call, FirstMutex, Goto, shared
<1> QED
  BY <1>2, <1>3, <1>4, <1>5, <1>6 DEF Inv, ClientInv

\* renewMu is taken before startMu.
LEMMA LockRenewInv ==
    ASSUME Inv, NEW c \in Caller, LockRenew(c)
    PROVE  Inv'
<1>1. TypeOK'
  BY NoOneAssumption, BoundAssumption DEF Inv, ClientInv, TypeOK, LockRenew, Goto, shared
<1>2. RenewalOnLive' /\ OneBackend' /\ DialHasBackend'
  BY NoOneAssumption DEF Inv, ClientInv, TypeOK, RenewalOnLive, OneBackend, DialHasBackend, MutexesHeld,
         BackendFollows, LockRenew, Goto, shared
<1>3. MutexesHeld'
  BY NoOneAssumption DEF Inv, ClientInv, TypeOK, MutexesHeld, LockRenew, Goto, shared
<1>4. BackendFollows'
  BY NoOneAssumption DEF Inv, ClientInv, TypeOK, OneBackend, MutexesHeld, BackendFollows, LockRenew, Goto, shared
<1>5. PSKsOrdered'
  BY NoOneAssumption DEF Inv, ClientInv, TypeOK, RenewalOnLive, MutexesHeld, BackendFollows, PSKsOrdered, LockRenew, Goto, shared
<1> QED
  BY <1>1, <1>2, <1>3, <1>4, <1>5 DEF Inv, ClientInv

\* ensureStarted finds a client that is up.
LEMMA AlreadyStartedInv ==
    ASSUME Inv, NEW c \in Caller, AlreadyStarted(c)
    PROVE  Inv'
<1>1. TypeOK'
  <2>1. PICK place \in {"meowing", "dialing", "ready"} : pc' = [pc EXCEPT ![c] = place]
    BY Zenon DEF AlreadyStarted, EnsuredNext, Goto
  <2>2. startMu # c /\ renewMu # c
    BY NoOneAssumption DEF Inv, MutexesHeld, AlreadyStarted, Entering, AtStart
  <2> QED
    BY <2>1, <2>2 DEF Inv, ClientInv, TypeOK, AlreadyStarted, shared
<1>2. RenewalOnLive' /\ OneBackend' /\ DialHasBackend'
  BY NoOneAssumption DEF Inv, ClientInv, TypeOK, RenewalOnLive, OneBackend, DialHasBackend, MutexesHeld,
         BackendFollows, AlreadyStarted, EnsuredNext, Entering, AtStart, Goto, shared
<1>3. MutexesHeld'
  BY NoOneAssumption DEF Inv, ClientInv, TypeOK, MutexesHeld, AlreadyStarted, EnsuredNext, Entering, AtStart, Goto, shared
<1>4. BackendFollows'
  BY NoOneAssumption DEF Inv, ClientInv, TypeOK, OneBackend, MutexesHeld, BackendFollows, AlreadyStarted, EnsuredNext, Entering, AtStart, Goto, shared
<1>5. PSKsOrdered'
  BY NoOneAssumption DEF Inv, ClientInv, TypeOK, RenewalOnLive, MutexesHeld, BackendFollows, PSKsOrdered, AlreadyStarted, EnsuredNext, Entering, AtStart, Goto, shared
<1> QED
  BY <1>1, <1>2, <1>3, <1>4, <1>5 DEF Inv, ClientInv

\* initLocked builds a backend, or uses the one that a failed attempt left.
LEMMA InitLockedInv ==
    ASSUME Inv, NEW c \in Caller, initLocked(c)
    PROVE  Inv'
<1>1. /\ pc[c] = "startMu" /\ op[c] \in {"ping", "dial"} /\ startMu = NoOne
      /\ ~closed /\ ~started /\ startMu' = c /\ pc' = [pc EXCEPT ![c] = "network"]
      /\ UNCHANGED <<Bootstrap, renewMu, closed, started, upDone, psk, made, op, held>>
  BY DEF initLocked, Entering, AtStart, Goto
<1>2. /\ pc' \in [Caller -> Place] /\ pc'[c] = "network"
      /\ \A d \in Caller : d # c => pc'[d] = pc[d]
  BY <1>1 DEF Inv, ClientInv, TypeOK
<1>3. /\ built' \in 0..MaxBackends /\ lb' \in 1..built' /\ open' \subseteq 1..built'
      /\ meowed' \in BOOLEAN /\ lb' \in open' /\ open' \subseteq {lb'}
  <2>1. /\ built \in 0..MaxBackends /\ lb \in 0..built /\ open \subseteq 1..built
        /\ open \subseteq {lb} /\ meowed \in BOOLEAN /\ MaxBackends \in Nat
    BY BoundAssumption DEF Inv, ClientInv, TypeOK, OneBackend
  <2>2. CASE lb # 0
    <3>1. UNCHANGED <<lb, built, open, meowed>>
      BY <2>2 DEF initLocked
    <3>2. lb \in open
      BY <1>1, <2>2 DEF Inv, BackendFollows
    <3> QED
      BY <2>1, <2>2, <3>1, <3>2
  <2>3. CASE lb = 0
    <3>1. /\ built < MaxBackends /\ built' = built + 1 /\ lb' = built + 1
          /\ open' = open \cup {built + 1} /\ meowed' = FALSE
      BY <2>3 DEF initLocked
    <3>2. open = {}
      BY <2>1, <2>3
    <3>3. built' \in 0..MaxBackends /\ lb' \in 1..built' /\ lb' = built'
      BY <2>1, <3>1
    <3> QED
      BY <3>1, <3>2, <3>3, Zenon
  <2> QED
    BY <2>2, <2>3
<1>4. \A d \in Caller : pc[d] \notin {"network", "bootstrap", "agreed", "meowing", "dialing",
                                      "renewing", "renewed"}
  BY <1>1, NoOneAssumption DEF Inv, MutexesHeld, BackendFollows
<1>5. TypeOK'
  BY <1>1, <1>2, <1>3, <1>4 DEF Inv, ClientInv, TypeOK, MutexesHeld
<1>6. RenewalOnLive' /\ OneBackend' /\ DialHasBackend'
  BY <1>1, <1>2, <1>3, <1>4 DEF RenewalOnLive, OneBackend, DialHasBackend
<1>7. MutexesHeld'
  BY <1>1, <1>2, <1>4 DEF Inv, MutexesHeld
<1>8. BackendFollows' /\ PSKsOrdered'
  BY <1>1, <1>2, <1>3, <1>4 DEF Inv, BackendFollows, PSKsOrdered
<1> QED
  BY <1>5, <1>6, <1>7, <1>8 DEF Inv, ClientInv

\* The backend runs.
LEMMA StartedInv ==
    ASSUME Inv, NEW c \in Caller, Started(c)
    PROVE  Inv'
<1>1. TypeOK'
  BY NoOneAssumption, BoundAssumption, Zenon DEF Inv, ClientInv, TypeOK, Started, Goto
<1>2. RenewalOnLive' /\ OneBackend' /\ DialHasBackend'
  BY NoOneAssumption DEF Inv, ClientInv, TypeOK, RenewalOnLive, OneBackend, DialHasBackend, MutexesHeld,
         BackendFollows, Started, Goto
<1>3. MutexesHeld'
  BY NoOneAssumption DEF Inv, ClientInv, TypeOK, MutexesHeld, Started, Goto
<1>4. BackendFollows'
  BY NoOneAssumption DEF Inv, ClientInv, TypeOK, OneBackend, MutexesHeld, BackendFollows, Started, Goto
<1>5. PSKsOrdered'
  BY NoOneAssumption DEF Inv, ClientInv, TypeOK, RenewalOnLive, MutexesHeld, BackendFollows, PSKsOrdered, Started, Goto
<1> QED
  BY <1>1, <1>2, <1>3, <1>4, <1>5 DEF Inv, ClientInv

\* The first handshake fails and the backend is discarded.
LEMMA BootstrapFailedInv ==
    ASSUME Inv, NEW c \in Caller, BootstrapFailed(c)
    PROVE  Inv'
<1>1. TypeOK'
  <2>1. /\ psk' \in [Backend -> 0..MaxPSK] /\ open' \subseteq 1..built /\ lb' \in 0..built
        /\ UNCHANGED <<Bootstrap, closed, started, upDone, meowed, built, made, op>>
    BY BoundAssumption DEF Inv, ClientInv, TypeOK, BootstrapFailed, CloseBackend, Return
  <2>2. pc' \in [Caller -> Place] /\ held' \in [Caller -> [lb : 0..MaxBackends, psk : 0..MaxPSK]]
    BY BoundAssumption DEF Inv, ClientInv, TypeOK, BootstrapFailed, Return, Goto
  <2>3. /\ startMu' \in Caller \cup {NoOne} /\ renewMu' \in Caller \cup {NoOne}
        /\ \A d \in Caller : /\ startMu' = d => pc'[d] \in {"network", "bootstrap", "agreed"}
                             /\ renewMu' = d => pc'[d] \in {"startMu", "renewing", "renewed"}
    BY NoOneAssumption DEF Inv, ClientInv, TypeOK, BootstrapFailed, Return, Goto
  <2> QED
    BY <2>1, <2>2, <2>3, Zenon DEF Inv, ClientInv, TypeOK
<1>2. RenewalOnLive' /\ OneBackend' /\ DialHasBackend'
  BY NoOneAssumption DEF Inv, ClientInv, TypeOK, RenewalOnLive, OneBackend, DialHasBackend, MutexesHeld,
         BackendFollows, BootstrapFailed, CloseBackend, Return, Goto
<1>3. MutexesHeld'
  BY NoOneAssumption DEF Inv, ClientInv, TypeOK, MutexesHeld, BootstrapFailed, CloseBackend, Return, Goto
<1>4. BackendFollows'
  BY NoOneAssumption DEF Inv, ClientInv, TypeOK, OneBackend, MutexesHeld, BackendFollows, BootstrapFailed, CloseBackend, Return, Goto
<1>5. PSKsOrdered'
  BY NoOneAssumption DEF Inv, ClientInv, TypeOK, RenewalOnLive, MutexesHeld, BackendFollows, PSKsOrdered, BootstrapFailed, CloseBackend, Return, Goto
<1> QED
  BY <1>1, <1>2, <1>3, <1>4, <1>5 DEF Inv, ClientInv

\* The first handshake gives the backend its PSK.
LEMMA BootstrapAgreedInv ==
    ASSUME Inv, NEW c \in Caller, BootstrapAgreed(c)
    PROVE  Inv'
<1>1. /\ pc[c] = "bootstrap" /\ made < MaxPSK /\ made' = made + 1
      /\ psk' = [psk EXCEPT ![lb] = made + 1] /\ pc' = [pc EXCEPT ![c] = "agreed"]
      /\ UNCHANGED <<Bootstrap, startMu, renewMu, closed, started, upDone, meowed, lb, built,
                     open, op, held>>
  BY DEF BootstrapAgreed, Goto
<1>2. /\ pc' \in [Caller -> Place] /\ pc'[c] = "agreed"
      /\ \A d \in Caller : d # c => pc'[d] = pc[d]
  BY <1>1 DEF Inv, ClientInv, TypeOK
<1>3. startMu = c /\ ~started /\ lb \in open /\ Bootstrap
  BY <1>1, NoOneAssumption DEF Inv, MutexesHeld, BackendFollows
<1>4. lb \in Backend /\ made \in Nat /\ made + 1 \in 0..MaxPSK
  BY <1>1, <1>3, BoundAssumption DEF Inv, ClientInv, TypeOK
<1>5. /\ psk' \in [Backend -> 0..MaxPSK] /\ psk'[lb] = made + 1
      /\ \A b \in Backend : b # lb => psk'[b] = psk[b]
  BY <1>1, <1>4 DEF Inv, ClientInv, TypeOK
<1>6. \A d \in Caller : pc[d] \notin {"meowing", "dialing", "renewing", "renewed"}
  BY <1>3 DEF Inv, BackendFollows
<1>7. TypeOK'
  BY <1>1, <1>2, <1>4, <1>5 DEF Inv, ClientInv, TypeOK
<1>8. RenewalOnLive' /\ OneBackend' /\ DialHasBackend'
  BY <1>1, <1>2, <1>6, Zenon DEF Inv, ClientInv, RenewalOnLive, OneBackend, DialHasBackend
<1>9. MutexesHeld'
  BY <1>1, <1>2, <1>3 DEF Inv, MutexesHeld
<1>10. BackendFollows' /\ PSKsOrdered'
  <2>1. \A b \in Backend : psk'[b] <= made'
    BY <1>1, <1>4, <1>5 DEF Inv, ClientInv, TypeOK, PSKsOrdered
  <2>2. psk'[lb] # 0
    BY <1>4, <1>5
  <2> QED
    BY <1>1, <1>2, <1>3, <1>6, <2>1, <2>2 DEF Inv, BackendFollows, PSKsOrdered
<1> QED
  BY <1>7, <1>8, <1>9, <1>10 DEF Inv, ClientInv

\* The client is up.
LEMMA BootstrapDoneInv ==
    ASSUME Inv, NEW c \in Caller, BootstrapDone(c)
    PROVE  Inv'
<1>1. TypeOK'
  BY NoOneAssumption, BoundAssumption DEF Inv, ClientInv, TypeOK, BootstrapDone, EnsuredNext, Goto
<1>2. RenewalOnLive' /\ OneBackend' /\ DialHasBackend'
  BY NoOneAssumption DEF Inv, ClientInv, TypeOK, RenewalOnLive, OneBackend, DialHasBackend, MutexesHeld,
         BackendFollows, BootstrapDone, EnsuredNext, Goto
<1>3. MutexesHeld'
  BY NoOneAssumption DEF Inv, ClientInv, TypeOK, MutexesHeld, BootstrapDone, EnsuredNext, Goto
<1>4. BackendFollows'
  BY NoOneAssumption DEF Inv, ClientInv, TypeOK, OneBackend, MutexesHeld, BackendFollows, BootstrapDone, EnsuredNext, Goto
<1>5. PSKsOrdered'
  BY NoOneAssumption DEF Inv, ClientInv, TypeOK, RenewalOnLive, MutexesHeld, BackendFollows, PSKsOrdered, BootstrapDone, EnsuredNext, Goto
<1> QED
  BY <1>1, <1>2, <1>3, <1>4, <1>5 DEF Inv, ClientInv

\* The server acknowledges a client without a bootstrap.
LEMMA MeowedInv ==
    ASSUME Inv, Meowed
    PROVE  Inv'
<1>1. TypeOK'
  BY NoOneAssumption, BoundAssumption DEF Inv, ClientInv, TypeOK, Meowed
<1>2. RenewalOnLive' /\ OneBackend' /\ DialHasBackend'
  BY NoOneAssumption DEF Inv, ClientInv, TypeOK, RenewalOnLive, OneBackend, DialHasBackend, MutexesHeld,
         BackendFollows, Meowed
<1>3. MutexesHeld'
  BY NoOneAssumption DEF Inv, ClientInv, TypeOK, MutexesHeld, Meowed
<1>4. BackendFollows'
  BY NoOneAssumption DEF Inv, ClientInv, TypeOK, OneBackend, MutexesHeld, BackendFollows, Meowed
<1>5. PSKsOrdered'
  BY NoOneAssumption DEF Inv, ClientInv, TypeOK, RenewalOnLive, MutexesHeld, BackendFollows, PSKsOrdered, Meowed
<1> QED
  BY <1>1, <1>2, <1>3, <1>4, <1>5 DEF Inv, ClientInv

\* The ping of a client without a bootstrap is answered.
LEMMA PingAnsweredInv ==
    ASSUME Inv, NEW c \in Caller, PingAnswered(c)
    PROVE  Inv'
<1>1. TypeOK'
  BY NoOneAssumption, BoundAssumption DEF Inv, ClientInv, TypeOK, PingAnswered, Goto
<1>2. RenewalOnLive' /\ OneBackend' /\ DialHasBackend'
  BY NoOneAssumption DEF Inv, ClientInv, TypeOK, RenewalOnLive, OneBackend, DialHasBackend, MutexesHeld,
         BackendFollows, PingAnswered, Goto
<1>3. MutexesHeld'
  BY NoOneAssumption DEF Inv, ClientInv, TypeOK, MutexesHeld, PingAnswered, Goto
<1>4. BackendFollows'
  BY NoOneAssumption DEF Inv, ClientInv, TypeOK, OneBackend, MutexesHeld, BackendFollows, PingAnswered, Goto
<1>5. PSKsOrdered'
  BY NoOneAssumption DEF Inv, ClientInv, TypeOK, RenewalOnLive, MutexesHeld, BackendFollows, PSKsOrdered, PingAnswered, Goto
<1> QED
  BY <1>1, <1>2, <1>3, <1>4, <1>5 DEF Inv, ClientInv

\* A probe is sent, or sent again.
LEMMA ProbeInv ==
    ASSUME Inv, NEW c \in Caller, ProbeSent(c) \/ ProbeAgain(c)
    PROVE  Inv'
<1>1. PICK place \in {"probing", "startMu"} : pc' = [pc EXCEPT ![c] = place]
  BY DEF ProbeSent, ProbeAgain, Goto
<1>2. /\ pc' \in [Caller -> Place] /\ pc'[c] = place
      /\ \A d \in Caller : d # c => pc'[d] = pc[d]
  BY <1>1 DEF Inv, ClientInv, TypeOK
<1>3. /\ op[c] = "probe" /\ pc[c] \in {"probing", "startMu"}
      /\ UNCHANGED <<startMu, renewMu, shared, op, held>>
  BY DEF ProbeSent, ProbeAgain, AtStart, Inv, MutexesHeld
<1>4. UNCHANGED <<Bootstrap, closed, started, upDone, meowed, lb, built, open, psk, made>>
  BY <1>3 DEF shared
<1>5. startMu # c /\ renewMu # c
  BY <1>3 DEF Inv, ClientInv, TypeOK, MutexesHeld
<1>6. TypeOK'
  BY <1>2, <1>3, <1>4, <1>5 DEF Inv, ClientInv, TypeOK
<1>7. RenewalOnLive' /\ OneBackend' /\ DialHasBackend'
  BY <1>2, <1>3, <1>4, Zenon DEF Inv, ClientInv, RenewalOnLive, OneBackend, DialHasBackend
<1>8. MutexesHeld'
  BY <1>2, <1>3, <1>5 DEF Inv, MutexesHeld
<1>9. BackendFollows' /\ PSKsOrdered'
  BY <1>2, <1>3, <1>4, Zenon DEF Inv, BackendFollows, PSKsOrdered
<1> QED
  BY <1>6, <1>7, <1>8, <1>9 DEF Inv, ClientInv

\* A renewal begins: it keeps the backend, and renewMu, for its handshake.
LEMMA RenewBeginsInv ==
    ASSUME Inv, NEW c \in Caller, RenewBegins(c)
    PROVE  Inv'
<1>1. TypeOK'
  <2>1. pc' = [pc EXCEPT ![c] = "renewing"] /\ held' = [held EXCEPT ![c].lb = lb]
    BY DEF RenewBegins, Goto
  <2>2. pc' \in [Caller -> Place] /\ held' \in [Caller -> [lb : 0..MaxBackends, psk : 0..MaxPSK]]
    <3>1. lb \in 0..MaxBackends
      BY BoundAssumption DEF Inv, ClientInv, TypeOK
    <3> QED
      BY <2>1, <3>1, Zenon DEF Inv, ClientInv, TypeOK
  <2>3. startMu # c /\ UNCHANGED <<startMu, renewMu, op>> /\ UNCHANGED shared
    BY NoOneAssumption DEF RenewBegins, AtStart
  <2> QED
    BY <2>1, <2>2, <2>3 DEF Inv, ClientInv, TypeOK, shared
<1>2. RenewalOnLive' /\ OneBackend' /\ DialHasBackend'
  BY NoOneAssumption DEF Inv, ClientInv, TypeOK, RenewalOnLive, OneBackend, DialHasBackend, MutexesHeld,
         BackendFollows, RenewBegins, AtStart, Goto, shared
<1>3. MutexesHeld'
  BY NoOneAssumption DEF Inv, ClientInv, TypeOK, MutexesHeld, RenewBegins, AtStart, Goto, shared
<1>4. BackendFollows'
  BY NoOneAssumption DEF Inv, ClientInv, TypeOK, OneBackend, MutexesHeld, BackendFollows, RenewBegins, AtStart, Goto, shared
<1>5. PSKsOrdered'
  BY NoOneAssumption DEF Inv, ClientInv, TypeOK, RenewalOnLive, MutexesHeld, BackendFollows, PSKsOrdered, RenewBegins, AtStart, Goto, shared
<1> QED
  BY <1>1, <1>2, <1>3, <1>4, <1>5 DEF Inv, ClientInv

\* The server agrees to a new PSK.
LEMMA RenewAgreedInv ==
    ASSUME Inv, NEW c \in Caller, RenewAgreed(c)
    PROVE  Inv'
<1>1. TypeOK'
  <2>1. /\ made \in 0..MaxPSK /\ made < MaxPSK /\ made' = made + 1
        /\ pc' = [pc EXCEPT ![c] = "renewed"] /\ held' = [held EXCEPT ![c].psk = made + 1]
    BY DEF RenewAgreed, Goto, Inv, ClientInv, TypeOK
  <2>2. made' \in 0..MaxPSK
    BY <2>1, BoundAssumption
  <2>3. pc' \in [Caller -> Place] /\ held' \in [Caller -> [lb : 0..MaxBackends, psk : 0..MaxPSK]]
    BY <2>1, <2>2, Zenon DEF Inv, ClientInv, TypeOK
  <2>4. startMu # c
    BY Zenon DEF RenewAgreed, Inv, ClientInv, TypeOK
  <2> QED
    BY <2>1, <2>2, <2>3, <2>4 DEF Inv, ClientInv, TypeOK, RenewAgreed
<1>2. RenewalOnLive' /\ OneBackend' /\ DialHasBackend'
  BY NoOneAssumption DEF Inv, ClientInv, TypeOK, RenewalOnLive, OneBackend, DialHasBackend, MutexesHeld,
         BackendFollows, RenewAgreed, Goto
<1>3. MutexesHeld'
  BY NoOneAssumption DEF Inv, ClientInv, TypeOK, MutexesHeld, RenewAgreed, Goto
<1>4. BackendFollows'
  BY NoOneAssumption DEF Inv, ClientInv, TypeOK, OneBackend, MutexesHeld, BackendFollows, RenewAgreed, Goto
<1>5. PSKsOrdered'
  BY NoOneAssumption DEF Inv, ClientInv, TypeOK, RenewalOnLive, MutexesHeld, BackendFollows, PSKsOrdered, RenewAgreed, Goto
<1> QED
  BY <1>1, <1>2, <1>3, <1>4, <1>5 DEF Inv, ClientInv

\* The renewal installs its PSK.
LEMMA RenewInstallsInv ==
    ASSUME Inv, NEW c \in Caller, RenewInstalls(c)
    PROVE  Inv'
<1>1. /\ pc[c] = "renewed" /\ psk' = [psk EXCEPT ![held[c].lb] = held[c].psk]
      /\ pc' = [pc EXCEPT ![c] = "ready"]
      /\ held' = [held EXCEPT ![c] = [lb |-> 0, psk |-> 0]]
      /\ startMu' = (IF startMu = c THEN NoOne ELSE startMu)
      /\ renewMu' = (IF renewMu = c THEN NoOne ELSE renewMu)
      /\ UNCHANGED <<op, Bootstrap, closed, started, upDone, meowed, lb, built, open, made>>
  BY DEF RenewInstalls, Return, Goto
<1>2. /\ held[c].lb = lb /\ lb \in open /\ started /\ renewMu = c
      /\ held[c].psk <= made /\ psk[lb] < held[c].psk
  BY <1>1 DEF Inv, ClientInv, RenewalOnLive, MutexesHeld, BackendFollows, PSKsOrdered
<1>3. lb \in Backend /\ held[c].psk \in 0..MaxPSK
  BY <1>2, BoundAssumption DEF Inv, ClientInv, TypeOK
<1>4. /\ psk' \in [Backend -> 0..MaxPSK] /\ psk'[lb] = held[c].psk
      /\ \A b \in Backend : b # lb => psk'[b] = psk[b]
  BY <1>1, <1>2, <1>3 DEF Inv, ClientInv, TypeOK
<1>5. /\ pc' \in [Caller -> Place] /\ pc'[c] = "ready"
      /\ \A d \in Caller : d # c => pc'[d] = pc[d]
  BY <1>1 DEF Inv, ClientInv, TypeOK
<1>6. held' \in [Caller -> [lb : 0..MaxBackends, psk : 0..MaxPSK]]
  BY <1>1, BoundAssumption DEF Inv, ClientInv, TypeOK
<1>7. \A d \in Caller : pc'[d] \notin {"renewing", "renewed"}
  BY <1>1, <1>2, <1>5 DEF Inv, MutexesHeld
<1>8. startMu' = startMu /\ renewMu' = NoOne
  BY <1>1, <1>2, Zenon DEF Inv, ClientInv, TypeOK
<1>9. TypeOK'
  BY <1>1, <1>4, <1>5, <1>6, <1>8, NoOneAssumption DEF Inv, ClientInv, TypeOK
<1>10. RenewalOnLive' /\ OneBackend' /\ DialHasBackend'
  <2>1. psk[lb] \in 0..MaxPSK
    BY <1>3 DEF Inv, ClientInv, TypeOK
  <2>2. psk'[lb] # 0
    BY <1>2, <1>3, <1>4, <2>1
  <2> QED
    BY <1>1, <1>5, <1>7, <2>2 DEF Inv, ClientInv, RenewalOnLive, OneBackend, DialHasBackend
<1>11. MutexesHeld'
  BY <1>1, <1>2, <1>5, <1>7, <1>8, NoOneAssumption DEF Inv, MutexesHeld
<1>12. BackendFollows' /\ PSKsOrdered'
  <2>1. \A b \in Backend : psk'[b] <= made
    BY <1>2, <1>4 DEF Inv, PSKsOrdered
  <2>2. psk[lb] \in 0..MaxPSK
    BY <1>3 DEF Inv, ClientInv, TypeOK
  <2>3. psk'[lb] # 0
    BY <1>2, <1>3, <1>4, <2>2
  <2> QED
    BY <1>1, <1>5, <1>7, <1>8, <2>1, <2>3 DEF Inv, BackendFollows, PSKsOrdered
<1> QED
  BY <1>9, <1>10, <1>11, <1>12 DEF Inv, ClientInv

\* Close, which holds both mutexes: no start and no renewal is under way.
LEMMA CloseInv ==
    ASSUME Inv, NEW c \in Caller, Close(c)
    PROVE  Inv'
<1>1. /\ pc[c] = "startMu" /\ op[c] = "close" /\ startMu = NoOne /\ closed' = TRUE
      /\ pc' = [pc EXCEPT ![c] = "ready"]
      /\ held' = [held EXCEPT ![c] = [lb |-> 0, psk |-> 0]]
      /\ startMu' = (IF startMu = c THEN NoOne ELSE startMu)
      /\ renewMu' = (IF renewMu = c THEN NoOne ELSE renewMu)
      /\ UNCHANGED <<op, Bootstrap, started, upDone, meowed, lb, built, made>>
  BY DEF Close, AtStart, Return, Goto
<1>2. renewMu = c /\ startMu' = NoOne /\ renewMu' = NoOne
  BY <1>1 DEF Inv, MutexesHeld
<1>3. /\ pc' \in [Caller -> Place] /\ pc'[c] = "ready"
      /\ \A d \in Caller : d # c => pc'[d] = pc[d]
  BY <1>1 DEF Inv, ClientInv, TypeOK
<1>4. \A d \in Caller : pc'[d] \notin {"network", "bootstrap", "agreed", "renewing", "renewed"}
  BY <1>1, <1>2, <1>3, NoOneAssumption DEF Inv, MutexesHeld
<1>5. /\ open' = {} /\ psk' \in [Backend -> 0..MaxPSK]
      /\ \A b \in Backend : psk'[b] = psk[b] \/ psk'[b] = 0
  <2>1. /\ open \subseteq {lb} /\ open \subseteq Backend /\ 0 \notin open
        /\ psk \in [Backend -> 0..MaxPSK] /\ 0 \in 0..MaxPSK
    BY BoundAssumption DEF Inv, ClientInv, TypeOK, OneBackend
  <2>2. CASE lb # 0
    <3>1. open' = open \ {lb} /\ psk' = IF lb \in open THEN [psk EXCEPT ![lb] = 0] ELSE psk
      BY <2>2 DEF Close, CloseBackend
    <3> QED
      BY <2>1, <3>1
  <2>3. CASE lb = 0
    BY <2>1, <2>3, Zenon DEF Close
  <2> QED
    BY <2>2, <2>3
<1>6. held' \in [Caller -> [lb : 0..MaxBackends, psk : 0..MaxPSK]]
  BY <1>1, BoundAssumption DEF Inv, ClientInv, TypeOK
<1>7. TypeOK'
  BY <1>1, <1>2, <1>3, <1>5, <1>6, NoOneAssumption DEF Inv, ClientInv, TypeOK
<1>8. RenewalOnLive' /\ OneBackend' /\ DialHasBackend'
  BY <1>1, <1>3, <1>4, <1>5, Zenon DEF Inv, ClientInv, RenewalOnLive, OneBackend, DialHasBackend
<1>9. MutexesHeld'
  BY <1>1, <1>2, <1>3, <1>4, NoOneAssumption DEF Inv, MutexesHeld
<1>10. BackendFollows'
  BY <1>1, <1>2, <1>3, <1>4, <1>5 DEF Inv, BackendFollows
<1>11. PSKsOrdered'
  <2>1. \A b \in Backend : psk[b] <= made /\ 0 <= made
    BY DEF Inv, ClientInv, TypeOK, PSKsOrdered
  <2> QED
    BY <1>1, <1>4, <1>5, <2>1 DEF PSKsOrdered
<1> QED
  BY <1>7, <1>8, <1>9, <1>10, <1>11 DEF Inv, ClientInv

\* Every step keeps the invariant.
LEMMA NextInv == Inv /\ [Next]_vars => Inv'
<1> SUFFICES ASSUME Inv, [Next]_vars PROVE Inv'
  OBVIOUS
<1>1. ASSUME NEW c \in Caller, NEW o \in Methods[c], Call(c, o)
      PROVE  Inv'
  BY <1>1, CallInv
<1>2. ASSUME NEW c \in Caller, Locks(c)
      PROVE  Inv'
  <2>1. CASE StartRefused(c) \/ Status(c) \/ ProbeRefused(c) \/ RefreshNetwork(c) \/ RenewRefused(c)
    BY <2>1, ReturnInv DEF StartRefused, Status, ProbeRefused, RefreshNetwork, RenewRefused
  <2> QED
    BY <1>2, <2>1, LockRenewInv, AlreadyStartedInv, InitLockedInv, ProbeInv, RenewBeginsInv,
       CloseInv DEF Locks
<1>3. ASSUME NEW c \in Caller, StartSteps(c)
      PROVE  Inv'
  <2>1. CASE StartFailed(c) \/ PingTimeout(c) \/ Dialed(c)
    BY <2>1, ReturnInv DEF StartFailed, PingTimeout, Dialed
  <2> QED
    BY <1>3, <2>1, StartedInv, BootstrapFailedInv, BootstrapAgreedInv, BootstrapDoneInv,
       PingAnsweredInv DEF StartSteps
<1>4. ASSUME NEW c \in Caller, RenewSteps(c)
      PROVE  Inv'
  <2>1. CASE RenewFailed(c)
    BY <2>1, ReturnInv DEF RenewFailed
  <2> QED
    BY <1>4, <2>1, RenewAgreedInv, RenewInstallsInv DEF RenewSteps
<1>5. ASSUME NEW c \in Caller, ProbeAgain(c) \/ ProbeEnds(c)
      PROVE  Inv'
  BY <1>5, ProbeInv, ReturnInv DEF ProbeEnds
<1>6. CASE Meowed
  BY <1>6, MeowedInv
<1>7. CASE UNCHANGED vars
  BY <1>7, Zenon DEF vars, shared, Inv, ClientInv, TypeOK, RenewalOnLive, OneBackend, DialHasBackend,
              MutexesHeld, BackendFollows, PSKsOrdered
<1> QED
  BY <1>1, <1>2, <1>3, <1>4, <1>5, <1>6, <1>7 DEF Next

\* Whatever goroutines do with a client, and in whatever order its mutexes let
\* them: a renewal installs its PSK in the live backend, no engine is left
\* open beside the current one or after Close, and a dial that takes no mutex
\* finds a backend with a PSK (quantumcat.go, lines 92 to 108).
THEOREM ClientSound == Spec => []ClientInv
<1>1. Inv => ClientInv
  BY DEF Inv
<1> QED
  BY <1>1, InitInv, NextInv, PTL DEF Spec

\* A step replaces the PSK of an open backend by a newer one or not at all.
LEMMA NextNotOlder == Inv /\ [Next]_vars => [NotOlder]_vars
<1> SUFFICES ASSUME Inv, Next PROVE NotOlder
  OBVIOUS
<1>1. \A b \in open \cap open' : b \in Backend /\ psk[b] \in 0..MaxPSK /\ psk[b] <= made
  BY BoundAssumption DEF Inv, ClientInv, TypeOK, PSKsOrdered
<1>2. \A b \in open \cap open' : psk[b] \in Int
  BY <1>1
<1>3. CASE psk' = psk
  BY <1>2, <1>3 DEF NotOlder
<1>4. ASSUME NEW c \in Caller, BootstrapAgreed(c)
      PROVE  NotOlder
  <2>1. psk' = [psk EXCEPT ![lb] = made + 1] /\ made \in Int /\ psk \in [Backend -> 0..MaxPSK]
    BY <1>4 DEF BootstrapAgreed, Inv, ClientInv, TypeOK
  <2> QED
    BY <1>1, <2>1 DEF NotOlder
<1>5. ASSUME NEW c \in Caller, RenewInstalls(c)
      PROVE  NotOlder
  <2>1. /\ pc[c] = "renewed" /\ psk' = [psk EXCEPT ![held[c].lb] = held[c].psk]
        /\ psk \in [Backend -> 0..MaxPSK] /\ held[c].psk \in Int
    BY <1>5 DEF RenewInstalls, Inv, ClientInv, TypeOK
  <2>2. held[c].lb = lb /\ psk[lb] < held[c].psk
    BY <2>1 DEF Inv, ClientInv, RenewalOnLive, PSKsOrdered
  <2> QED
    BY <1>1, <2>1, <2>2 DEF NotOlder
<1>6. ASSUME NEW c \in Caller, BootstrapFailed(c) \/ Close(c)
      PROVE  NotOlder
  <2>1. \/ psk' = psk
        \/ open' = open \ {lb} /\ psk' = [psk EXCEPT ![lb] = 0]
    BY <1>6, Zenon DEF BootstrapFailed, Close, CloseBackend
  <2>2. psk \in [Backend -> 0..MaxPSK]
    BY DEF Inv, ClientInv, TypeOK
  <2>3. CASE open' = open \ {lb} /\ psk' = [psk EXCEPT ![lb] = 0]
    <3> SUFFICES ASSUME NEW b \in open \cap open' PROVE psk'[b] >= psk[b]
      BY DEF NotOlder
    <3>1. b # lb /\ psk'[b] = psk[b]
      BY <1>1, <2>2, <2>3
    <3> QED
      BY <1>2, <3>1
  <2> QED
    BY <1>3, <2>1, <2>3
<1>7. CASE ~\E c \in Caller :
             BootstrapAgreed(c) \/ RenewInstalls(c) \/ BootstrapFailed(c) \/ Close(c)
  <2>1. psk' = psk
    BY <1>7, Zenon DEF Next, Call, Locks, StartSteps, RenewSteps, LockRenew, AlreadyStarted,
                StartRefused, initLocked, Status, ProbeSent, ProbeRefused, RefreshNetwork,
                RenewRefused, RenewBegins, StartFailed, Started, BootstrapDone, PingAnswered,
                PingTimeout, Dialed, RenewFailed, RenewAgreed, ProbeAgain, ProbeEnds, Meowed,
                shared
  <2> QED
    BY <1>3, <2>1
<1> QED
  BY <1>4, <1>5, <1>6, <1>7

\* Renewals that overlap, or that race a failed start or Close, never put an
\* older PSK back: renewMu orders their installations as the server ordered
\* their agreements.
THEOREM PSKNeverOlder == Spec => NewestPSK
BY InitInv, NextInv, NextNotOlder, PTL DEF Spec, NewestPSK
=============================================================================
