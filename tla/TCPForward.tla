---------------------------- MODULE TCPForward ----------------------------
(***************************************************************************)
(* A TCP stream through the tunnel: `qcat forward', `socks' or `connect'   *)
(* on the client's side (cmd/qcat/main.go), SOCKS negotiation              *)
(* (internal/proxy/socks.go), the handlers of `qcat serve', and the two    *)
(* pairs of copies of ProxyConns (third_party/tailcat/tailcat.go).         *)
(*                                                                         *)
(*    A --LU--> client --FU,RU--> server --OU--> B                         *)
(*    A <--LD-- client <--RD,FD-- server <--OD-- B                         *)
(*                                                                         *)
(* A is the local program (the terminal, for connect), B the target.  A    *)
(* hop is a sequence of tokens that ends with "fin" once its writer has    *)
(* shut it down; the reader leaves the fin there.  On the tunnel's own     *)
(* connection R a token is in flight (F) before it is received (R): gVisor *)
(* sends it again until it is acknowledged, or the endpoint is gone.       *)
(***************************************************************************)
EXTENDS Integers, Sequences, FiniteSets

CONSTANTS
    Conn,     \* accepted connections, or runs of connect
    Mode,     \* the commands that are run, of "forward", "socks", "connect"
    Slots,    \* capacity of the channel that bounds forward and socks
    Room,     \* tokens a hop holds, a bound of the model
    MaxSent,  \* data tokens each program sends, a bound of the model
    Tries,    \* transmissions of a fin in proxyConnDrainTimeout
    MaxLost   \* transmissions of a fin that are lost, a bound of the model

ASSUME TCPForwardAssumption ==
    /\ IsFiniteSet(Conn) /\ Mode \subseteq {"forward", "socks", "connect"}
    /\ Slots \in Nat \ {0} /\ Room \in Nat \ {0} /\ Tries \in Nat \ {0}

VARIABLES
    mode,    \* the command
    at,      \* the goroutine of each connection on the client, its handler on the server
    copies,  \* the copies of ProxyConns that run
    net,     \* the hops of each chain
    lost,    \* transmissions of a fin that were lost
    late,    \* whether Serve's deadline passed while it dialled
    gone,    \* whether the client's process has gone
    slots,   \* the length of the channel slots
    app,     \* the two programs
    socks,   \* what A knows of its own negotiation
    sent, got, eof, garbled  \* data sent and received, ends and wrong tokens seen

vars == <<mode, at, copies, net, lost, late, gone, slots, app, socks, sent, got, eof, garbled>>
appVars == <<app, socks, sent, got, eof, garbled>>
faultVars == <<lost, late, gone>>

Side == {"client", "server"}
Busy == {"dial", "greet", "request", "proxy", "drain"}
Place == Busy \cup {"none", "done", "failed"}
Program == {"A", "B"}
Hop == {"LU", "FU", "RU", "OU", "OD", "FD", "RD", "LD"}
Link == {"L", "R", "O"}
LinkOf(h) == IF h \in {"LU", "LD"} THEN "L" ELSE IF h \in {"OU", "OD"} THEN "O" ELSE "R"
Copies == {"cu", "cd", "su", "sd"}
Source == [cu |-> "LU", su |-> "RU", sd |-> "OD", cd |-> "RD"]
Target == [cu |-> "FU", su |-> "OU", sd |-> "FD", cd |-> "LD"]
Own(x) == IF x = "client" THEN {"cu", "cd"} ELSE {"su", "sd"}
Token == {"hello", "badhello", "ok", "noauth", "request", "badrequest", "granted", "deny",
          "data", "fin"}

-----------------------------------------------------------------------------
(***************************************************************************)
(* TCP, as the proxies see it (external).                                  *)
(***************************************************************************)
Fresh == [buf |-> [h \in Hop |-> <<>>], reset |-> {}, deaf |-> {}]

Head1(n, h) == IF n.buf[h] = <<>> THEN "nothing" ELSE Head(n.buf[h])
Ended(n, h) == n.buf[h] # <<>> /\ n.buf[h][Len(n.buf[h])] = "fin"
Pop(n, h) == [n EXCEPT !.buf[h] = Tail(@)]
Reset(n, l) == [n EXCEPT !.reset = @ \cup {l}]

\* Whether a write fails, or would get a reset for an answer.
Broken(n, h) == LinkOf(h) \in n.reset \/ h \in n.deaf

\* Writing to a connection whose other end was closed resets it.
Put(n, h, t) ==
    IF LinkOf(h) \in n.reset THEN n
    ELSE IF h \in n.deaf THEN Reset(n, LinkOf(h))
    ELSE [n EXCEPT !.buf[h] = Append(@, t)]

\* CloseWrite: one fin for each direction, behind the data.
ShutWrite(n, h) ==
    IF LinkOf(h) \in n.reset \/ h \in n.deaf \/ Ended(n, h)
       \/ (h = "FU" /\ Ended(n, "RU")) \/ (h = "FD" /\ Ended(n, "RD"))
    THEN n ELSE [n EXCEPT !.buf[h] = Append(@, "fin")]

\* Close of the end that reads hop in and writes hop out: a reset when data
\* was left unread.
Close(n, in, out) ==
    LET m == IF Head1(n, in) \notin {"nothing", "fin"} THEN Reset(n, LinkOf(in)) ELSE ShutWrite(n, out)
    IN  [m EXCEPT !.deaf = @ \cup {in}]

\* The endpoint of R that reads in and writes out is in Closing or LastAck.
LastAck(n, in, out) == "R" \notin n.reset /\ Ended(n, out) /\ Ended(n, in)

Deliver(c, f, r) ==
    /\ <<f, r>> \in {<<"FU", "RU">>, <<"FD", "RD">>} /\ net[c].buf[f] # <<>>
    /\ "R" \notin net[c].reset /\ ~gone[c]
    /\ Len(net[c].buf[r]) < Room \/ Head1(net[c], f) = "fin" \/ r \in net[c].deaf
    /\ LET n == Pop(net[c], f)
       IN  net' = [net EXCEPT ![c] = IF r \notin n.deaf \/ Head1(net[c], f) # "fin"
                                     THEN Put(n, r, Head1(net[c], f)) ELSE n]
    /\ UNCHANGED <<mode, at, copies, faultVars, slots, appVars>>

-----------------------------------------------------------------------------
\* A copy belongs to a goroutine that is in ProxyConns.
TypeOK ==
    /\ mode \in Mode /\ slots \in 0..Slots
    /\ at \in [Conn -> [Side -> Place]]
    /\ copies \in [Conn -> SUBSET Copies]
    /\ net \in [Conn -> [buf : [Hop -> Seq(Token)], reset : SUBSET Link, deaf : SUBSET Hop]]
    /\ lost \in [Conn -> 0..MaxLost] /\ late \in [Conn -> BOOLEAN] /\ gone \in [Conn -> BOOLEAN]
    /\ app \in [Conn -> [Program -> {"none", "open", "shut", "aborted"}]]
    /\ socks \in [Conn -> {"start", "hello", "ok", "request", "granted", "denied"}]
    /\ sent \in [Conn -> [Program -> 0..MaxSent]] /\ got \in [Conn -> [Program -> 0..MaxSent]]
    /\ eof \in [Conn -> SUBSET Program] /\ garbled \in [Conn -> SUBSET Program]
    /\ \A c \in Conn, x \in Side : copies[c] \cap Own(x) # {} => at[c][x] = "proxy"

Init ==
    /\ mode \in Mode /\ slots = 0
    /\ at = [c \in Conn |-> [x \in Side |-> "none"]]
    /\ copies = [c \in Conn |-> {}] /\ net = [c \in Conn |-> Fresh]
    /\ lost = [c \in Conn |-> 0] /\ late = [c \in Conn |-> FALSE] /\ gone = [c \in Conn |-> FALSE]
    /\ app = [c \in Conn |-> [x \in Program |-> "none"]] /\ socks = [c \in Conn |-> "start"]
    /\ sent = [c \in Conn |-> [x \in Program |-> 0]] /\ got = [c \in Conn |-> [x \in Program |-> 0]]
    /\ eof = [c \in Conn |-> {}] /\ garbled = [c \in Conn |-> {}]

Working(c) == at[c]["client"] \in Busy
Goto(c, x, place) == at' = [at EXCEPT ![c][x] = place]
SetNet(c, n) == net' = [net EXCEPT ![c] = n]
Release == slots' = IF mode = "connect" THEN slots ELSE slots - 1

\* The ends of the tunnel's connection, and of the connection to A or B.
CloseTunnel(n, x) == IF x = "client" THEN Close(n, "RD", "FU") ELSE Close(n, "RU", "FD")
CloseOuter(n, x) == IF x = "client" THEN Close(n, "LU", "LD") ELSE Close(n, "OD", "OU")

-----------------------------------------------------------------------------
(***************************************************************************)
(* The client's side: the accept loop and the goroutine of a connection.   *)
(***************************************************************************)
Accept(c) ==
    /\ at[c]["client"] = "none" /\ ~gone[c] /\ (mode # "connect" => slots < Slots)
    /\ Goto(c, "client", "dial") /\ app' = [app EXCEPT ![c]["A"] = "open"]
    /\ slots' = IF mode = "connect" THEN slots ELSE slots + 1
    /\ UNCHANGED <<mode, copies, net, faultVars, socks, sent, got, eof, garbled>>

\* With every slot taken a connection is closed at once.
Refuse == mode # "connect" /\ slots = Slots /\ UNCHANGED vars

\* Port 1 for forward and socks, a published port for connect; forward
\* begins proxy.Dial.
DialTCPPort(c) ==
    /\ at[c]["client"] = "dial"
    /\ at' = [at EXCEPT ![c] = [client |-> IF mode = "forward" THEN "greet" ELSE "proxy",
                                server |-> IF mode = "connect" THEN "dial" ELSE "greet"]]
    /\ IF mode = "forward"
       THEN SetNet(c, Put(net[c], "FU", "hello")) /\ UNCHANGED copies
       ELSE copies' = [copies EXCEPT ![c] = @ \cup Own("client")] /\ UNCHANGED net
    /\ UNCHANGED <<mode, faultVars, slots, appVars>>

Greeted(c) ==
    /\ at[c]["client"] = "greet" /\ Head1(net[c], "RD") = "ok"
    /\ \E t \in {"request", "badrequest"} : SetNet(c, Put(Pop(net[c], "RD"), "FU", t))
    /\ Goto(c, "client", "request")
    /\ UNCHANGED <<mode, copies, faultVars, slots, appVars>>

BugGranted(c) ==
    /\ at[c]["client"] = "request" /\ Head1(net[c], "RD") = "granted"
    /\ Goto(c, "client", "proxy") /\ copies' = [copies EXCEPT ![c] = @ \cup Own("client")]
    /\ UNCHANGED <<mode, net, faultVars, slots, appVars>>

Granted(c) ==
    /\ at[c]["client"] = "request" /\ Head1(net[c], "RD") = "granted"
    /\ SetNet(c, Pop(net[c], "RD"))
    /\ Goto(c, "client", "proxy") /\ copies' = [copies EXCEPT ![c] = @ \cup Own("client")]
    /\ UNCHANGED <<mode, faultVars, slots, appVars>>

\* An error, another answer, or the deadline of proxy.Dial.
ClientFails(c) ==
    /\ at[c]["client"] \in {"dial", "greet", "request"}
    /\ SetNet(c, CloseOuter(IF at[c]["client"] = "dial" THEN net[c]
                            ELSE CloseTunnel(net[c], "client"), "client"))
    /\ Goto(c, "client", "failed") /\ Release
    /\ UNCHANGED <<mode, copies, faultVars, appVars>>

\* connect returns with the end of what it receives, whatever is left of its
\* input.
ConnectReturns(c) ==
    /\ mode = "connect" /\ at[c]["client"] = "proxy" /\ "cd" \notin copies[c]
    /\ SetNet(c, LET n == CloseTunnel(net[c], "client")
                 IN  [ShutWrite(n, "LD") EXCEPT !.deaf = @ \cup {"LU"}])
    /\ copies' = [copies EXCEPT ![c] = @ \ Own("client")] /\ Goto(c, "client", "done")
    /\ UNCHANGED <<mode, faultVars, slots, appVars>>

\* The process ends, with what it had not yet got across; nothing answers
\* for it in the tunnel.
Vanish(c) ==
    LET all == IF mode = "connect" THEN {c} ELSE Conn
        left(n) == CloseOuter([n EXCEPT !.buf["FU"] = <<>>, !.buf["FD"] = <<>>, !.buf["RD"] = <<>>],
                              "client")
    IN  /\ at[c]["client"] # "none" /\ ~gone[c]
        /\ gone' = [d \in Conn |-> gone[d] \/ d \in all]
        /\ net' = [d \in Conn |-> IF d \in all THEN left(net[d]) ELSE net[d]]
        /\ at' = [d \in Conn |-> IF d \in all /\ Working(d) THEN [at[d] EXCEPT !["client"] = "done"]
                                       ELSE at[d]]
        /\ copies' = [d \in Conn |-> IF d \in all THEN copies[d] \ Own("client") ELSE copies[d]]
        /\ slots' = 0
        /\ UNCHANGED <<mode, lost, late, appVars>>

-----------------------------------------------------------------------------
(***************************************************************************)
(* The server's side: Serve, or the handler of a published port.           *)
(***************************************************************************)
Answer(c, n, t) == IF late[c] \/ mode = "connect" THEN n ELSE Put(n, "FD", t)

ServeGreeting(c) ==
    /\ at[c]["server"] = "greet" /\ Head1(net[c], "RU") \in {"hello", "badhello"}
    /\ IF Head1(net[c], "RU") = "hello"
       THEN SetNet(c, Put(Pop(net[c], "RU"), "FD", "ok")) /\ Goto(c, "server", "request")
       ELSE /\ SetNet(c, CloseTunnel(Put(Pop(net[c], "RU"), "FD", "noauth"), "server"))
            /\ Goto(c, "server", "done")
    /\ UNCHANGED <<mode, copies, faultVars, slots, appVars>>

ServeRequest(c) ==
    /\ at[c]["server"] = "request" /\ Head1(net[c], "RU") \in {"request", "badrequest"}
    /\ IF Head1(net[c], "RU") = "request"
       THEN SetNet(c, Pop(net[c], "RU")) /\ Goto(c, "server", "dial")
       ELSE /\ SetNet(c, CloseTunnel(Put(Pop(net[c], "RU"), "FD", "deny"), "server"))
            /\ Goto(c, "server", "done")
    /\ UNCHANGED <<mode, copies, faultVars, slots, appVars>>

\* What is read is neither, or the deadline passes; a request that ends in
\* its address is answered.
ServeFails(c) ==
    /\ at[c]["server"] \in {"greet", "request"}
    /\ \/ SetNet(c, CloseTunnel(net[c], "server"))
       \/ /\ at[c]["server"] = "request" /\ Head1(net[c], "RU") = "fin"
          /\ SetNet(c, CloseTunnel(Put(net[c], "FD", "deny"), "server"))
    /\ Goto(c, "server", "done")
    /\ UNCHANGED <<mode, copies, faultVars, slots, appVars>>

\* The deadline passes while Serve dials: it fails the answer, and is lifted.
ServeLate(c) ==
    /\ at[c]["server"] = "dial" /\ mode # "connect" /\ ~late[c]
    /\ late' = [late EXCEPT ![c] = TRUE]
    /\ UNCHANGED <<mode, at, copies, net, lost, gone, slots, appVars>>

ServeDials(c) ==
    /\ at[c]["server"] = "dial"
    /\ SetNet(c, Answer(c, net[c], "granted")) /\ app' = [app EXCEPT ![c]["B"] = "open"]
    /\ Goto(c, "server", "proxy") /\ copies' = [copies EXCEPT ![c] = @ \cup Own("server")]
    /\ UNCHANGED <<mode, faultVars, slots, socks, sent, got, eof, garbled>>

ServeDialFails(c) ==
    /\ at[c]["server"] = "dial"
    /\ SetNet(c, CloseTunnel(Answer(c, net[c], "deny"), "server")) /\ Goto(c, "server", "done")
    /\ UNCHANGED <<mode, copies, faultVars, slots, appVars>>

-----------------------------------------------------------------------------
(***************************************************************************)
(* ProxyConns, on both sides.                                              *)
(***************************************************************************)
Copy(c, k) ==
    LET t == Head1(net[c], Source[k])
    IN  /\ k \in copies[c] /\ t \notin {"nothing", "fin"}
        /\ ~Broken(net[c], Target[k]) /\ Len(net[c].buf[Target[k]]) < Room
        /\ SetNet(c, Put(Pop(net[c], Source[k]), Target[k], t))
        /\ UNCHANGED <<mode, at, copies, faultVars, slots, appVars>>

BugEndCopy(c, k) ==
    /\ k \in copies[c] /\ Head1(net[c], Source[k]) = "fin"
    /\ SetNet(c, ShutWrite(net[c], Target[k]))
    /\ copies' = [copies EXCEPT ![c] = @ \ (IF k \in Own("client") THEN Own("client") ELSE Own("server"))]
    /\ UNCHANGED <<mode, at, faultVars, slots, appVars>>

\* The copy ends with its source, or with an error of either connection; the
\* target is shut down (not the standard output of connect).
EndCopy(c, k) ==
    LET t == Head1(net[c], Source[k])
    IN  /\ k \in copies[c]
        /\ \/ t = "fin" /\ SetNet(c, IF mode = "connect" /\ k = "cd" THEN net[c]
                                     ELSE ShutWrite(net[c], Target[k]))
           \/ LinkOf(Source[k]) \in net[c].reset /\ SetNet(c, ShutWrite(net[c], Target[k]))
           \/ /\ t \notin {"nothing", "fin"} /\ Broken(net[c], Target[k])
              /\ SetNet(c, Put(net[c], Target[k], t))
        /\ copies' = [copies EXCEPT ![c] = @ \ {k}]
        /\ UNCHANGED <<mode, at, faultVars, slots, appVars>>

Unacknowledged(c, x) ==
    IF x = "client" THEN LastAck(net[c], "RD", "FU") ELSE LastAck(net[c], "RU", "FD")

\* Both copies have ended: A's or B's connection is closed at once.
ProxyEnds(c, x) ==
    /\ at[c][x] = "proxy" /\ copies[c] \cap Own(x) = {} /\ (x = "client" => mode # "connect")
    /\ SetNet(c, CloseOuter(net[c], x)) /\ Goto(c, x, "drain")
    /\ UNCHANGED <<mode, copies, faultVars, slots, appVars>>

\* The fin of an endpoint that waits for its acknowledgement is lost, and
\* sent again; other losses change nothing.
Lose(c, x) ==
    /\ at[c][x] = "drain" /\ Unacknowledged(c, x) /\ lost[c] < MaxLost
    /\ lost' = [lost EXCEPT ![c] = @ + 1]
    /\ UNCHANGED <<mode, at, copies, net, late, gone, slots, appVars>>

\* gVisor forgets a fin that is not acknowledged when it is closed.
Forgotten(c, x) == [CloseTunnel(net[c], x) EXCEPT !.buf[IF x = "client" THEN "FU" ELSE "FD"] = <<>>]

BugProxyCloses(c, x) ==
    /\ at[c][x] = "drain"
    /\ SetNet(c, IF Unacknowledged(c, x) /\ lost[c] > 0 THEN Forgotten(c, x) ELSE CloseTunnel(net[c], x))
    /\ Goto(c, x, "done") /\ IF x = "client" THEN Release ELSE UNCHANGED slots
    /\ UNCHANGED <<mode, copies, faultVars, appVars>>

\* closeProxyConnTimeout: the tunnel's connection when our fin is
\* acknowledged, or not expected to be.
ProxyCloses(c, x) ==
    /\ at[c][x] = "drain" /\ ~Unacknowledged(c, x)
    /\ SetNet(c, CloseTunnel(net[c], x)) /\ Goto(c, x, "done")
    /\ IF x = "client" THEN Release ELSE UNCHANGED slots
    /\ UNCHANGED <<mode, copies, faultVars, appVars>>

DrainExpires(c, x) ==
    /\ at[c][x] = "drain" /\ Unacknowledged(c, x) /\ lost[c] >= Tries
    /\ SetNet(c, Forgotten(c, x)) /\ Goto(c, x, "done")
    /\ IF x = "client" THEN Release ELSE UNCHANGED slots
    /\ UNCHANGED <<mode, copies, faultVars, appVars>>

-----------------------------------------------------------------------------
(***************************************************************************)
(* The two programs (external): each sends, shuts down its direction, goes *)
(* on reading, or aborts.  A negotiates for itself with socks.             *)
(***************************************************************************)
Out(x) == IF x = "A" THEN "LU" ELSE "OD"
In(x) == IF x = "A" THEN "LD" ELSE "OU"

Send(c, x) ==
    /\ app[c][x] = "open" /\ sent[c][x] < MaxSent
    /\ x = "A" /\ mode = "socks" => socks[c] = "granted"
    /\ ~Broken(net[c], Out(x)) /\ Len(net[c].buf[Out(x)]) < Room
    /\ SetNet(c, Put(net[c], Out(x), "data")) /\ sent' = [sent EXCEPT ![c][x] = @ + 1]
    /\ UNCHANGED <<mode, at, copies, faultVars, slots, app, socks, got, eof, garbled>>

Negotiate(c) ==
    /\ mode = "socks" /\ app[c]["A"] = "open" /\ ~Broken(net[c], "LU")
    /\ \E step \in {<<"start", "hello", "hello">>, <<"start", "badhello", "hello">>,
                    <<"ok", "request", "request">>, <<"ok", "badrequest", "request">>} :
         /\ socks[c] = step[1] /\ socks' = [socks EXCEPT ![c] = step[3]]
         /\ SetNet(c, Put(net[c], "LU", step[2]))
    /\ UNCHANGED <<mode, at, copies, faultVars, slots, app, sent, got, eof, garbled>>

Shut(c, x) ==
    /\ app[c][x] = "open"
    /\ SetNet(c, ShutWrite(net[c], Out(x))) /\ app' = [app EXCEPT ![c][x] = "shut"]
    /\ UNCHANGED <<mode, at, copies, faultVars, slots, socks, sent, got, eof, garbled>>

Abort(c, x) ==
    /\ app[c][x] \in {"open", "shut"} /\ ~Broken(net[c], Out(x))
    /\ SetNet(c, Reset(net[c], LinkOf(Out(x)))) /\ app' = [app EXCEPT ![c][x] = "aborted"]
    /\ UNCHANGED <<mode, at, copies, faultVars, slots, socks, sent, got, eof, garbled>>

\* What A makes of an answer to its negotiation.
Reaction(t) ==
    {r \in {<<"hello", "ok", "ok">>, <<"hello", "noauth", "denied">>, <<"ok", "deny", "denied">>,
            <<"request", "granted", "granted">>, <<"request", "deny", "denied">>} : r[2] = t}

Receive(c, x) ==
    LET t == Head1(net[c], In(x))
        answer == {r \in Reaction(t) : x = "A" /\ mode = "socks" /\ r[1] = socks[c]}
        expected == t = "data" /\ (x = "A" /\ mode = "socks" => socks[c] = "granted")
    IN  /\ app[c][x] \in {"open", "shut"} /\ LinkOf(In(x)) \notin net[c].reset
        /\ x \notin eof[c] /\ t # "nothing"
        /\ SetNet(c, IF t = "fin" THEN net[c] ELSE Pop(net[c], In(x)))
        /\ eof' = [eof EXCEPT ![c] = IF t = "fin" THEN @ \cup {x} ELSE @]
        /\ got' = [got EXCEPT ![c][x] = IF t = "data" THEN @ + 1 ELSE @]
        /\ socks' = [socks EXCEPT ![c] = IF answer # {} THEN (CHOOSE r \in answer : TRUE)[3] ELSE @]
        /\ garbled' = [garbled EXCEPT ![c] = IF expected \/ answer # {} \/ t = "fin" THEN @
                                             ELSE @ \cup {x}]
        /\ UNCHANGED <<mode, at, copies, faultVars, slots, app, sent>>

-----------------------------------------------------------------------------
Client(c) == DialTCPPort(c) \/ Greeted(c) \/ Granted(c) \/ ClientFails(c) \/ ConnectReturns(c)
Handler(c) ==
    ServeGreeting(c) \/ ServeRequest(c) \/ ServeFails(c) \/ ServeDials(c) \/ ServeDialFails(c)
ProxyConns(c, x) ==
    (\E k \in Own(x) : EndCopy(c, k)) \/ ProxyEnds(c, x) \/ ProxyCloses(c, x) \/ DrainExpires(c, x)
Carry(c) == Deliver(c, "FU", "RU") \/ Deliver(c, "FD", "RD")

Next ==
    \/ Refuse
    \/ \E c \in Conn :
         \/ Accept(c) \/ Client(c) \/ Vanish(c) \/ Handler(c) \/ ServeLate(c) \/ Carry(c)
         \/ \E x \in Side : ProxyConns(c, x) \/ Lose(c, x)
         \/ \E k \in Copies : Copy(c, k)
         \/ \E x \in Program : Send(c, x) \/ Shut(c, x) \/ Abort(c, x) \/ Receive(c, x)
         \/ Negotiate(c)

\* Goroutines run, calls with a deadline return, the tunnel carries what it
\* is given, and the programs read; they need not send, or end.
Fairness ==
    \A c \in Conn :
      /\ WF_vars(Client(c)) /\ WF_vars(Handler(c))
      /\ WF_vars(Deliver(c, "FU", "RU")) /\ WF_vars(Deliver(c, "FD", "RD"))
      /\ \A x \in Side : WF_vars(ProxyConns(c, x))
      /\ \A k \in Copies : WF_vars(Copy(c, k))
      /\ \A x \in Program : WF_vars(Receive(c, x))

Spec == Init /\ [][Next]_vars /\ Fairness

-----------------------------------------------------------------------------
Over(c, x) == app[c][x] \in {"shut", "aborted"}

\* A program that sees the end of a stream has all of it: a half-close goes
\* through the two proxies behind the data ("propagating the TCP half-close
\* instead of tearing down the whole connection", tailcat.go, lines
\* 2763-2768).  Excepted are a program that aborts, a client that never
\* joined the stream or has gone, and the input of a connect that returned.
Complete ==
    \A c \in Conn :
      /\ "B" \in eof[c] => \/ got[c]["B"] = sent[c]["A"] \/ app[c]["A"] = "aborted"
                           \/ mode = "connect" /\ Over(c, "B")
                           \/ at[c]["client"] = "failed"
      /\ "A" \in eof[c] => \/ got[c]["A"] = sent[c]["B"] \/ app[c]["B"] = "aborted"
                           \/ at[c]["client"] = "failed" \/ gone[c]

\* Every way out of the goroutine of a connection gives its slot back, once:
\* the channel holds one entry for each goroutine (main.go, lines 589-610).
SlotsExact == mode # "connect" => slots = Cardinality({c \in Conn : Working(c)})

\* SOCKS and payload do not mix: no program gets a token of the other's
\* negotiation, and A gets its two answers before the first data, unless
\* Serve's deadline had passed when it answered.
ReplyFirst ==
    \A c \in Conn : /\ "B" \notin garbled[c]
                    /\ "A" \in garbled[c] => mode = "socks" /\ late[c]

\* The state invariant of forwarded streams.
TCPInv == TypeOK /\ SlotsExact /\ ReplyFirst

\* When the programs have finished, so do both proxies, and the slot is free:
\* a fin that is lost is waited for (closeProxyConnTimeout), unless it is
\* lost for five seconds or the client's process has gone.
Ends ==
    \A c \in Conn :
      (Over(c, "A") /\ app[c]["B"] # "open") ~>
        \/ ~Working(c) /\ at[c]["server"] \in {"none", "done"}
        \/ app[c]["B"] = "open" \/ lost[c] >= Tries \/ gone[c]
=============================================================================
