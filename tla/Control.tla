------------------------------ MODULE Control ------------------------------
(***************************************************************************)
(* The local control socket of internal/control/control.go: processes that *)
(* run the same command under the same name, and `qcat down' asking it to  *)
(* stop.  The socket's path names the inode of the process that bound it;  *)
(* a process that is killed leaves its inode behind.  Closing a Unix       *)
(* listener unlinks the path by name, then closes the socket.  A request   *)
(* is a "stop"; "info" and "status" are answered without a change of state.*)
(***************************************************************************)
EXTENDS Integers

CONSTANTS
    Process,   \* runs of one command
    Client,    \* `qcat down' invocations
    Nothing,   \* no inode, no connection
    Overlap,   \* whether two runs may be in StartPeer at the same time
    MaxKills   \* processes killed, a bound of the model

ASSUME ControlAssumption ==
    /\ Nothing \notin Process \cup Client /\ Overlap \in BOOLEAN /\ MaxKills \in Nat

VARIABLES
    path,       \* the process whose inode the path names, or Nothing
    listening,  \* processes with an open listener
    pc,         \* each process
    serving,    \* the connection its accept loop is busy with, or Nothing
    stopped,    \* processes whose context is cancelled, by stop() or a signal
    closing,    \* processes that have called the function StartPeer returned
    request,    \* each client's request: where it stands
    peer,       \* the process a client is connected to
    kills

vars == <<path, listening, pc, serving, stopped, closing, request, peer, kills>>
serverVars == <<path, listening, pc, stopped, closing, kills>>

Starting == {"look", "dial", "remove", "bind", "chmod"}
Place == Starting \cup {"off", "run", "unlinked", "closed"}

\* A client is connected to a process from the dial to the end of the
\* request, and a busy accept loop is busy with a request that is under way.
TypeOK ==
    /\ path \in Process \cup {Nothing} /\ listening \subseteq Process
    /\ pc \in [Process -> Place] /\ serving \in [Process -> Client \cup {Nothing}]
    /\ stopped \subseteq Process /\ closing \subseteq Process /\ kills \in 0..MaxKills
    /\ request \in [Client -> {"idle", "queued", "read", "written", "stopping", "answered"}]
    /\ peer \in [Client -> Process \cup {Nothing}]
    /\ \A q \in Client : request[q] = "idle" <=> peer[q] = Nothing
    /\ \A p \in Process : serving[p] # Nothing =>
         peer[serving[p]] = p /\ request[serving[p]] \in {"read", "written", "stopping"}

Init ==
    /\ path = Nothing /\ listening = {} /\ stopped = {} /\ closing = {} /\ kills = 0
    /\ pc = [p \in Process |-> "off"] /\ serving = [p \in Process |-> Nothing]
    /\ request = [q \in Client |-> "idle"] /\ peer = [q \in Client |-> Nothing]

Goto(p, place) == pc' = [pc EXCEPT ![p] = place]

-----------------------------------------------------------------------------
(***************************************************************************)
(* StartPeer.                                                              *)
(***************************************************************************)
Alone == \A r \in Process : pc[r] \notin Starting

Begin(p) ==
    /\ pc[p] = "off" /\ p \notin closing
    /\ Goto(p, "look")
    /\ UNCHANGED <<path, listening, serving, stopped, closing, request, peer, kills>>

Look(p) ==
    /\ pc[p] = "look"
    /\ Goto(p, IF path = Nothing THEN "bind" ELSE "dial")
    /\ UNCHANGED <<path, listening, serving, stopped, closing, request, peer, kills>>

\* Someone answers: the command is already running.
Dial(p) ==
    /\ pc[p] = "dial"
    /\ Goto(p, IF path \in listening THEN "off" ELSE "remove")
    /\ UNCHANGED <<path, listening, serving, stopped, closing, request, peer, kills>>

\* os.Remove of whatever the path names now; it fails if there is nothing.
Remove(p) ==
    /\ pc[p] = "remove"
    /\ path' = Nothing /\ Goto(p, IF path = Nothing THEN "off" ELSE "bind")
    /\ UNCHANGED <<listening, serving, stopped, closing, request, peer, kills>>

Bind(p) ==
    /\ pc[p] = "bind"
    /\ IF path = Nothing
       THEN path' = p /\ listening' = listening \cup {p} /\ Goto(p, "chmod")
       ELSE Goto(p, "off") /\ UNCHANGED <<path, listening>>
    /\ UNCHANGED <<serving, stopped, closing, request, peer, kills>>

\* The connections of a listener that is closed are reset: their requests fail.
Reset(p, waiting) ==
    /\ request' = [q \in Client |-> IF peer[q] = p /\ request[q] \in waiting
                                    THEN "idle" ELSE request[q]]
    /\ peer' = [q \in Client |-> IF peer[q] = p /\ request[q] \in waiting
                                 THEN Nothing ELSE peer[q]]

\* Fails, and closes the listener, when the path has gone.
Chmod(p) ==
    /\ pc[p] = "chmod"
    /\ IF path # Nothing THEN Goto(p, "run") /\ UNCHANGED <<listening, request, peer>>
       ELSE Goto(p, "off") /\ listening' = listening \ {p} /\ Reset(p, {"queued"})
    /\ UNCHANGED <<path, serving, stopped, closing, kills>>

-----------------------------------------------------------------------------
(***************************************************************************)
(* The accept loop: one connection at a time.                              *)
(***************************************************************************)
Accept(p, q) ==
    /\ pc[p] \in {"run", "unlinked"} /\ p \in listening /\ serving[p] = Nothing
    /\ request[q] = "queued" /\ peer[q] = p
    /\ request' = [request EXCEPT ![q] = "read"] /\ serving' = [serving EXCEPT ![p] = q]
    /\ UNCHANGED <<serverVars, peer>>

\* The answer is written before stop() is called.
Respond(p) ==
    /\ serving[p] # Nothing /\ request[serving[p]] = "read"
    /\ request' = [request EXCEPT ![serving[p]] = "written"]
    /\ UNCHANGED <<serverVars, serving, peer>>

Stop(p) ==
    /\ serving[p] # Nothing /\ request[serving[p]] = "written"
    /\ stopped' = stopped \cup {p}
    /\ request' = [request EXCEPT ![serving[p]] = "stopping"]
    /\ UNCHANGED <<path, listening, pc, closing, kills, serving, peer>>

\* c.Close: the client has read the answer to its end.
Hangup(p) ==
    /\ serving[p] # Nothing /\ request[serving[p]] = "stopping"
    /\ request' = [request EXCEPT ![serving[p]] = "answered"]
    /\ serving' = [serving EXCEPT ![p] = Nothing]
    /\ UNCHANGED <<serverVars, peer>>

\* A request that cannot be read, or misses its deadline of a second.
Abandon(p) ==
    /\ serving[p] # Nothing /\ request[serving[p]] = "read"
    /\ request' = [request EXCEPT ![serving[p]] = "idle"]
    /\ peer' = [peer EXCEPT ![serving[p]] = Nothing]
    /\ serving' = [serving EXCEPT ![p] = Nothing]
    /\ UNCHANGED serverVars

-----------------------------------------------------------------------------
(***************************************************************************)
(* The end: a signal or stop() cancels the context, whose AfterFunc closes *)
(* the listener; the process returns, closes it too, and awaits the loop.  *)
(***************************************************************************)
Signal(p) ==
    /\ p \notin stopped /\ stopped' = stopped \cup {p}
    /\ UNCHANGED <<path, listening, pc, closing, kills, serving, request, peer>>

Return(p) ==
    /\ pc[p] \in {"run", "unlinked", "closed"} /\ p \notin closing
    /\ closing' = closing \cup {p}
    /\ UNCHANGED <<path, listening, pc, stopped, kills, serving, request, peer>>

Unlink(p) ==
    /\ pc[p] = "run" /\ p \in stopped \cup closing
    /\ path' = Nothing /\ Goto(p, "unlinked")
    /\ UNCHANGED <<listening, serving, stopped, closing, request, peer, kills>>

CloseListener(p) ==
    /\ pc[p] = "unlinked"
    /\ listening' = listening \ {p} /\ Goto(p, "closed")
    /\ Reset(p, {"queued"})
    /\ UNCHANGED <<path, serving, stopped, closing, kills>>

Exit(p) ==
    /\ pc[p] = "closed" /\ p \in closing /\ serving[p] = Nothing
    /\ Goto(p, "off")
    /\ UNCHANGED <<path, listening, serving, stopped, closing, request, peer, kills>>

\* The process is killed: its inode stays.  A client that had its answer but
\* not the end of the connection gets the end now.
Kill(p) ==
    /\ kills < MaxKills
    /\ kills' = kills + 1 /\ Goto(p, "off")
    /\ listening' = listening \ {p}
    /\ serving' = [serving EXCEPT ![p] = Nothing]
    /\ Reset(p, {"queued", "read", "written", "stopping"})
    /\ UNCHANGED <<path, stopped, closing>>

-----------------------------------------------------------------------------
\* Query: dial the socket; an answer is complete when the server hangs up.
Request(q) ==
    /\ request[q] = "idle" /\ path \in listening
    /\ request' = [request EXCEPT ![q] = "queued"] /\ peer' = [peer EXCEPT ![q] = path]
    /\ UNCHANGED <<serverVars, serving>>

\* The client gives up after two seconds: before it is accepted, Query fails.
GiveUp(q) ==
    /\ request[q] = "queued"
    /\ request' = [request EXCEPT ![q] = "idle"] /\ peer' = [peer EXCEPT ![q] = Nothing]
    /\ UNCHANGED <<serverVars, serving>>

Forget(q) ==
    /\ request[q] = "answered"
    /\ request' = [request EXCEPT ![q] = "idle"] /\ peer' = [peer EXCEPT ![q] = Nothing]
    /\ UNCHANGED <<serverVars, serving>>

StartPeer(p) == Look(p) \/ Dial(p) \/ Remove(p) \/ Bind(p) \/ Chmod(p)
Loop(p) == (\E q \in Client : Accept(p, q)) \/ Respond(p) \/ Stop(p) \/ Hangup(p) \/ Abandon(p)
Ending(p) == Unlink(p) \/ CloseListener(p) \/ Exit(p)

Next ==
    \/ \E p \in Process : \/ (Overlap \/ Alone) /\ Begin(p)
                          \/ StartPeer(p) \/ Loop(p) \/ Signal(p) \/ Return(p) \/ Ending(p) \/ Kill(p)
    \/ \E q \in Client : Request(q) \/ GiveUp(q) \/ Forget(q)

\* A process that was not killed goes on running its goroutines.
Spec ==
    /\ Init /\ [][Next]_vars
    /\ \A p \in Process : WF_vars(StartPeer(p)) /\ WF_vars(Loop(p)) /\ WF_vars(Ending(p))

-----------------------------------------------------------------------------
\* "Local status and shutdown over a protected Unix socket" (the package's
\* comment): a command that runs can be reached through its socket.
Reachable ==
    \A p \in Process : pc[p] = "run" /\ p \notin stopped \cup closing => path = p /\ p \in listening

\* A `qcat down' that got its answer has stopped the process that it spoke
\* to, although the answer is written before stop() runs: Query reads to the
\* end of the connection ("Responses arrive after stop is invoked and the
\* server closes the socket", control_test.go, line 71).
AnsweredStopped == \A q \in Client : request[q] = "answered" => peer[q] \in stopped
=============================================================================
