------------------------------ MODULE Command ------------------------------
(***************************************************************************)
(* The life of a qcat command (cmd/qcat: main.go, mosh.go, udp.go): it     *)
(* takes its resources one by one, starts its goroutines and children,     *)
(* waits, and gives everything back in the reverse order, as its deferred  *)
(* calls do.  Its control socket is module Control's; the runs of Process  *)
(* are of one command under one name.                                      *)
(*                                                                         *)
(* `forward' stands for forward, with and without --udp, and socks: what   *)
(* they listen on is bound after the control socket.                       *)
(***************************************************************************)
EXTENDS Control, Sequences, Functions

CONSTANT Kinds   \* the commands that are run

ASSUME KindsAssumption == Kinds \subseteq {"forward", "up", "serve", "mosh"}

VARIABLES
    kind,    \* the command
    main,    \* each run of it: "off", "going", "returning" or "done"
    step,    \* how many steps of its program it has taken
    defers,  \* its deferred calls
    held,    \* what it holds
    busy     \* its goroutines and children

cmdVars == <<kind, main, step, defers, held, busy>>
allVars == <<vars, cmdVars>>

\* The steps of each command, in the order of the code; resources in a row
\* are one step.  A call that holds nothing (Ping, Configure, Peers, the
\* export, bootstrapMosh) only fails or succeeds, and is part of the next one.
forwardSteps ==
    << <<"identity", "client">>, <<"renewal">>, <<"control">>, <<"listener">>, <<"wait">> >>
upSteps ==
    << <<"identity", "client", "tun">>, <<"renewal">>, <<"control">>, <<"route">>, <<"wait">> >>
serveSteps == << <<"identity", "tun", "server">>, <<"control">>, <<"wait">> >>
moshSteps ==
    << <<"socket", "identity", "client">>, <<"control">>, <<"renewal">>, <<"forward">>, <<"child">> >>

Program ==
    [forward |-> forwardSteps, up |-> upSteps, serve |-> serveSteps, mosh |-> moshSteps]

Resource == {"socket", "identity", "client", "tun", "server", "listener", "route"}
BugExclusive == {"listener"}
\* Bound to a local port: one process at a time.
Exclusive == {"socket", "listener"}
Goroutine == {"renewal", "forward", "child"}

\* What a goroutine uses, which must not be closed under it.
Uses == [renewal |-> {"identity", "client"}, forward |-> {"socket", "client"},
         child |-> {"socket", "client"}]

CommandTypeOK ==
    /\ TypeOK /\ kind \in Kinds /\ main \in [Process -> {"off", "going", "returning", "done"}]
    /\ \A p \in Process :
         /\ step[p] \in 0..Len(Program[kind]) - 1
         /\ Range(defers[p]) \subseteq Resource \cup Goroutine \cup {"control"}
         /\ held[p] \subseteq Resource /\ busy[p] \subseteq Goroutine
         /\ pc[p] # "off" => main[p] \in {"going", "returning"}

CommandInit ==
    /\ Init /\ kind \in Kinds
    /\ main = [p \in Process |-> "off"] /\ step = [p \in Process |-> 0]
    /\ defers = [p \in Process |-> <<>>]
    /\ held = [p \in Process |-> {}] /\ busy = [p \in Process |-> {}]

-----------------------------------------------------------------------------
(***************************************************************************)
(* Forward through the program.                                            *)
(***************************************************************************)
Row(p) == Program[kind][step[p] + 1]
At(p, s) == main[p] = "going" /\ Row(p)[1] = s
Advance(p) == step' = [step EXCEPT ![p] = @ + 1] /\ UNCHANGED <<kind, main>>
ReturnNow(p) ==
    /\ main' = [main EXCEPT ![p] = "returning"] /\ step' = [step EXCEPT ![p] = 0]
    /\ UNCHANGED kind
Defer(p, d) == defers' = [defers EXCEPT ![p] = Append(@, d)]

Start(p) ==
    /\ main[p] = "off" /\ p \notin stopped
    /\ main' = [main EXCEPT ![p] = "going"]
    /\ UNCHANGED <<vars, kind, step, defers, held, busy>>

\* All of a row, or the first k when the next one fails.  serve has a device
\* only with --tun, and what it defers for one does nothing without; a route
\* is deleted by the deferred call of its device.
Acquire(p) ==
    /\ main[p] = "going" /\ Row(p)[1] \in Resource
    /\ \E k \in 0..Len(Row(p)), unwanted \in SUBSET (IF kind = "serve" THEN {"tun"} ELSE {}) :
         LET taken == {Row(p)[i] : i \in 1..k} \ unwanted
         IN  /\ \A r \in taken \cap Exclusive, o \in Process : r \notin held[o]
             /\ held' = [held EXCEPT ![p] = @ \cup taken]
             /\ defers' = [defers EXCEPT ![p] =
                             IF Row(p)[1] = "route" THEN @ ELSE @ \o SubSeq(Row(p), 1, k)]
             /\ IF k = Len(Row(p)) THEN Advance(p) ELSE ReturnNow(p)
    /\ UNCHANGED <<vars, busy>>

\* The step or a call before it fails, or its context is cancelled.
StepFails(p) ==
    /\ main[p] = "going" /\ (At(p, "control") => pc[p] = "off")
    /\ Row(p)[1] \notin Resource \cup {"wait"} /\ "child" \notin busy[p]
    /\ ReturnNow(p) /\ UNCHANGED <<vars, defers, held, busy>>

\* The goroutine of Maintain, and mosh's of ForwardUDP.
Spawn(p, g) ==
    /\ g \in {"renewal", "forward"} /\ At(p, g)
    /\ busy' = [busy EXCEPT ![p] = @ \cup {g}] /\ Defer(p, g) /\ Advance(p)
    /\ UNCHANGED <<vars, held>>

\* control.StartPeer: a name at a time, but for mosh, whose name contains
\* the port of the socket that it holds.
ControlBegins(p) ==
    /\ At(p, "control") /\ (Overlap \/ Alone \/ kind = "mosh") /\ Begin(p)
    /\ UNCHANGED cmdVars

\* StartPeer's last step takes the command on, or makes it return.
ControlStarts(p) ==
    /\ At(p, "control") /\ StartPeer(p)
    /\ IF pc'[p] = "run" THEN Defer(p, "control") /\ Advance(p)
       ELSE IF pc'[p] = "off" THEN ReturnNow(p) /\ UNCHANGED defers
       ELSE UNCHANGED <<kind, main, step, defers>>
    /\ UNCHANGED <<held, busy>>

-----------------------------------------------------------------------------
(***************************************************************************)
(* Waiting: mosh-client, the accept loop, the reload loop.                *)
(***************************************************************************)
RunChild(p) ==
    /\ At(p, "child") /\ "child" \notin busy[p]
    /\ busy' = [busy EXCEPT ![p] = @ \cup {"child"}]
    /\ UNCHANGED <<vars, kind, main, step, defers, held>>

\* mosh-client ends by itself, or is told to by the context, and killed if it
\* does not.
ChildEnds(p) ==
    /\ At(p, "child") /\ "child" \in busy[p]
    /\ busy' = [busy EXCEPT ![p] = @ \ {"child"}] /\ ReturnNow(p)
    /\ UNCHANGED <<vars, defers, held>>

\* An error of the accept loop or of ForwardUDP; serve's identity helper has
\* exited; up waits for its context only.
WaitEnds(p) ==
    /\ At(p, "wait") /\ (kind = "up" => p \in stopped) /\ ReturnNow(p)
    /\ UNCHANGED <<vars, defers, held, busy>>

Cancelled(p) == p \in stopped /\ (ChildEnds(p) \/ WaitEnds(p))

\* A signal.  Before StartPeer it does what StepFails does.
Interrupt(p) == pc[p] # "off" /\ Signal(p) /\ UNCHANGED cmdVars

\* Maintain returns when its context is done: stopRenewal, or cancel.
Top(p) == IF main[p] = "returning" /\ defers[p] # <<>> THEN defers[p][Len(defers[p])] ELSE "nothing"

MaintainEnds(p) ==
    /\ "renewal" \in busy[p] /\ (p \in stopped \/ (kind # "mosh" /\ Top(p) = "renewal"))
    /\ busy' = [busy EXCEPT ![p] = @ \ {"renewal"}]
    /\ UNCHANGED <<vars, kind, main, step, defers, held>>

\* ForwardUDP fails or is cancelled; its goroutine then cancels the command.
ForwardEnds(p) ==
    /\ "forward" \in busy[p] /\ busy' = [busy EXCEPT ![p] = @ \ {"forward"}]
    /\ stopped' = stopped \cup {p}
    /\ UNCHANGED <<path, listening, pc, serving, closing, request, peer, kills>>
    /\ UNCHANGED <<kind, main, step, defers, held>>

-----------------------------------------------------------------------------
(***************************************************************************)
(* Back: the deferred calls, last first.                                   *)
(***************************************************************************)
Pop(p) == defers' = [defers EXCEPT ![p] = SubSeq(@, 1, Len(@) - 1)] /\ UNCHANGED <<kind, main, step>>

\* Resources in a row, down to a goroutine or the control socket.
Release(p) ==
    LET kept == {i \in 1..Len(defers[p]) : defers[p][i] \notin Resource}
        last == CHOOSE i \in kept : \A j \in kept : j <= i
    IN  /\ Top(p) \in Resource /\ kept # {}
        /\ held' = [held EXCEPT ![p] = @ \ Range(SubSeq(defers[p], last + 1, Len(defers[p])))]
        /\ defers' = [defers EXCEPT ![p] = SubSeq(@, 1, last)]
        /\ UNCHANGED <<vars, kind, main, step, busy>>

BugCancelDeferred(p) ==
    /\ kind = "mosh" /\ Top(p) = "renewal" /\ Signal(p)
    /\ UNCHANGED cmdVars

\* mosh's deferred calls cancel the command before they wait.
CancelDeferred(p) ==
    /\ kind = "mosh" /\ Top(p) \in {"renewal", "forward"} /\ Signal(p)
    /\ UNCHANGED cmdVars

BugAwait(p) ==
    /\ Top(p) \in {"renewal", "forward"} /\ (kind = "mosh" => p \in stopped)
    /\ Pop(p) /\ UNCHANGED <<vars, held, busy>>

\* <-renewDone and <-forwardDone.
Await(p) ==
    /\ Top(p) \in {"renewal", "forward"} /\ (kind = "mosh" => p \in stopped)
    /\ Top(p) \notin busy[p]
    /\ Pop(p) /\ UNCHANGED <<vars, held, busy>>

\* closeControl returns when the accept loop has ended.
CloseControl(p) == Top(p) = "control" /\ Return(p) /\ UNCHANGED cmdVars

ControlEnds(p) ==
    /\ Ending(p)
    /\ IF pc'[p] = "off" THEN Pop(p) ELSE UNCHANGED <<kind, main, step, defers>>
    /\ UNCHANGED <<held, busy>>

\* The last resources, and cancel, which was deferred first.
Finish(p) ==
    /\ main[p] = "returning" /\ Range(defers[p]) \subseteq Resource
    /\ main' = [main EXCEPT ![p] = "done"] /\ stopped' = stopped \cup {p}
    /\ held' = [held EXCEPT ![p] = @ \ (Range(defers[p]) \cup {"route"})]
    /\ defers' = [defers EXCEPT ![p] = <<>>]
    /\ UNCHANGED <<path, listening, pc, serving, closing, request, peer, kills>>
    /\ UNCHANGED <<kind, step, busy>>

\* The kernel takes back what a killed process held, but not its inode.
\* One without a control socket leaves nothing.
KillProcess(p) ==
    /\ pc[p] # "off" /\ Kill(p)
    /\ main' = [main EXCEPT ![p] = IF p \in stopped \cup closing THEN "done" ELSE "off"]
    /\ defers' = [defers EXCEPT ![p] = <<>>]
    /\ held' = [held EXCEPT ![p] = {}] /\ busy' = [busy EXCEPT ![p] = {}]
    /\ step' = [step EXCEPT ![p] = 0] /\ UNCHANGED kind

-----------------------------------------------------------------------------
Forth(p) ==
    \/ Acquire(p) \/ StepFails(p) \/ Spawn(p, "renewal") \/ Spawn(p, "forward") \/ RunChild(p)
    \/ ControlBegins(p) \/ ControlStarts(p)
Back(p) == Release(p) \/ CancelDeferred(p) \/ Await(p) \/ CloseControl(p) \/ Finish(p)
Own(p) ==
    \/ Forth(p) \/ Cancelled(p) \/ Back(p) \/ ControlEnds(p)
    \/ MaintainEnds(p) \/ (p \in stopped /\ ForwardEnds(p))

CommandNext ==
    \/ \E p \in Process :
         \/ Start(p) \/ Forth(p) \/ ChildEnds(p) \/ WaitEnds(p)
         \/ Interrupt(p) \/ MaintainEnds(p) \/ ForwardEnds(p)
         \/ Back(p) \/ ControlEnds(p) \/ (Loop(p) /\ UNCHANGED cmdVars) \/ KillProcess(p)
    \/ \E q \in Client : (Request(q) \/ GiveUp(q) \/ Forget(q)) /\ UNCHANGED cmdVars

\* Steps are taken and calls return: of what a process can do by itself,
\* something is done.  A command that is not cancelled may wait for ever.
CommandSpec ==
    /\ CommandInit /\ [][CommandNext]_allVars
    /\ \A p \in Process : WF_allVars(Own(p)) /\ WF_allVars(Loop(p) /\ UNCHANGED cmdVars)

-----------------------------------------------------------------------------
\* Nothing is closed under its users: a goroutine's client, identity and
\* socket outlive it, and a request that the control socket answers finds
\* the client or server whose status it asks for (the order of the deferred
\* calls in main.go, lines 449-501, and mosh.go, lines 196-251).
UsersOutlived ==
    \A p \in Process :
      /\ \A g \in busy[p] : Uses[g] \subseteq held[p]
      /\ serving[p] # Nothing => held[p] \cap {"client", "server"} # {}

\* A command that has returned has left nothing behind: no resource, route,
\* goroutine or child, and no socket.
NothingLeft ==
    \A p \in Process :
      main[p] = "done" => held[p] = {} /\ busy[p] = {} /\ p \notin listening

\* The state invariant of commands.
CommandInv == CommandTypeOK /\ Reachable /\ AnsweredStopped /\ UsersOutlived /\ NothingLeft

-----------------------------------------------------------------------------
(***************************************************************************)
(* Why CommandInv holds (CommandProofs).                                   *)
(***************************************************************************)
\* What a command has deferred when it waits, in the order of the code, and
\* how much of it after each number of steps.
Deferred ==
    [forward |-> <<"identity", "client", "renewal", "control", "listener">>,
     up      |-> <<"identity", "client", "tun", "renewal", "control">>,
     serve   |-> <<"identity", "tun", "server", "control">>,
     mosh    |-> <<"socket", "identity", "client", "control", "renewal", "forward">>]
Depth ==
    [forward |-> <<0, 2, 3, 4, 5>>, up |-> <<0, 3, 4, 5, 5>>, serve |-> <<0, 3, 4>>,
     mosh |-> <<0, 3, 4, 5, 6>>]

\* What somebody uses.
Needed == {"socket", "identity", "client", "server"}

\* The deferred calls of a run are the first of its command's.
Stacked(p) ==
    /\ step[p] \in 0..Len(Program[kind]) - 1
    /\ Len(defers[p]) <= Len(Deferred[kind])
    /\ \A i \in 1..Len(defers[p]) : defers[p][i] = Deferred[kind][i]
    /\ main[p] = "going" => Len(defers[p]) = Depth[kind][step[p] + 1]
    /\ main[p] # "going" => step[p] = 0

\* A run holds, runs and serves what its deferred calls end, but for a child,
\* which it awaits, and a route.
Kept(p) ==
    /\ Range(defers[p]) \cap Needed \subseteq held[p]
    /\ held[p] \subseteq (Range(defers[p]) \cap Resource) \cup {"route"}
    /\ busy[p] \subseteq (Range(defers[p]) \cap Goroutine) \cup {"child"}
    /\ "child" \in busy[p] => At(p, "child")
    /\ main[p] \in {"off", "done"} => defers[p] = <<>> /\ held[p] = {} /\ busy[p] = {}

\* A run has its socket while the call that closes it is deferred.
Socket(p) ==
    /\ pc[p] \in Starting => At(p, "control") /\ p \notin closing
    /\ pc[p] \in {"run", "unlinked", "closed"} <=> "control" \in Range(defers[p])
    /\ pc[p] # "off" /\ p \in closing => Top(p) = "control"

StackInv ==
    /\ kind \in Kinds /\ main \in [Process -> {"off", "going", "returning", "done"}]
    /\ step \in [Process -> Nat]
    /\ defers \in [Process -> Seq(Resource \cup Goroutine \cup {"control"})]
    /\ held \in [Process -> SUBSET Resource] /\ busy \in [Process -> SUBSET Goroutine]
    /\ \A p \in Process : Stacked(p) /\ Kept(p) /\ Socket(p)

\* The socket's own part, of runs that do not overlap: at most one is starting;
\* the path names the run that has bound it, until that unlinks it; and what
\* is about to be removed is nobody's.
Binding ==
    /\ \A p, r \in Process : pc[p] \in Starting /\ pc[r] \in Starting => p = r
    /\ \A p \in Process : pc[p] \in {"chmod", "run"} => path = p /\ p \in listening
    /\ \A p \in Process : pc[p] = "remove" => \A r \in Process : pc[r] # "run"
    /\ \A p \in listening : pc[p] \in {"chmod", "run", "unlinked"}
    /\ \A p \in Process : serving[p] # Nothing => pc[p] \in {"run", "unlinked", "closed"}

\* The inductive invariant of commands.
CommandIInv == TypeOK /\ Binding /\ StackInv

\* Commands use the control socket as its module specifies; mosh's runs never
\* start at the same time, because each holds the port that names it.
ControlHolds == Init /\ [][Next]_vars

\* Commands that are cancelled, or have begun to return, come to their end: no
\* deferred call waits for a goroutine that was not told to stop, and no run
\* of the command for another.
Leaving(p) == main[p] \in {"going", "returning"} /\ (p \in stopped \/ main[p] = "returning")
CommandEnds == (\E p \in Process : Leaving(p)) ~> ~\E p \in Process : Leaving(p)
=============================================================================
