------------------------------ MODULE Listener ------------------------------
(***************************************************************************)
(* Listeners on the server's own address (third_party/tailcat/listen.go),  *)
(* the packet filter that admits their ports, the flow handlers of         *)
(* netstack that hand connections to Accept, and Server.Close.             *)
(*                                                                         *)
(* A port stands for a network and a number.  conns is unbuffered: a       *)
(* connection is handed over when one side waits and the other arrives,    *)
(* and closing closedc releases at once whoever waits on either side.      *)
(***************************************************************************)
EXTENDS Integers, FiniteSets

CONSTANTS
    TCPPort, UDPPort,
    NoPort,
    All,                     \* no list of served ports: every one is admitted
    ServedTCP, ServedUDP,    \* ServedTCPPorts and ServedUDPPorts: a set, or All
    OnUDP,                   \* whether there is a handler for UDP flows
    MaxListeners,            \* calls of Listen, a bound of the model
    Conn,                    \* connections and flows
    Acceptor                 \* goroutines that call Accept

Port == TCPPort \cup UDPPort

ASSUME ListenerAssumption ==
    /\ TCPPort \cap UDPPort = {} /\ NoPort \notin Port /\ OnUDP \in BOOLEAN /\ MaxListeners \in Nat
    /\ ServedTCP = All \/ ServedTCP \subseteq TCPPort
    /\ ServedUDP = All \/ ServedUDP \subseteq UDPPort

VARIABLES
    server,    \* Server.lb and its end
    state,     \* each listener
    port,      \* its port
    table,     \* tcpListeners and udpListeners
    filter,    \* the ports the installed packet filter admits
    conn, to,  \* each connection, and the listener it goes to
    accept, on \* each Accept call, and its listener

listenerVars == <<server, state, port, table, filter, conn, to, accept, on>>
connVars == <<conn, to>>
acceptVars == <<accept, on>>

Listeners == 1..MaxListeners
NoListener == 0

\* No one waits at a listener that is not open.
ListenerTypeOK ==
    /\ server \in {"new", "running", "closing", "closed"}
    /\ state \in [Listeners -> {"none", "starting", "open", "closed"}]
    /\ port \in [Listeners -> Port \cup {NoPort}] /\ filter \subseteq Port
    /\ table \in [Port -> Listeners \cup {NoListener}]
    /\ conn \in [Conn -> {"none", "looked", "blocked", "accepted", "closed", "served", "reset"}]
    /\ to \in [Conn -> Listeners \cup {NoListener}]
    /\ accept \in [Acceptor -> {"idle", "waiting"}]
    /\ on \in [Acceptor -> Listeners \cup {NoListener}]
    /\ \A c \in Conn : conn[c] = "blocked" => state[to[c]] = "open"
    /\ \A a \in Acceptor : accept[a] = "waiting" => state[on[a]] = "open"

ListenerInit ==
    /\ server = "new" /\ state = [l \in Listeners |-> "none"]
    /\ port = [l \in Listeners |-> NoPort] /\ table = [p \in Port |-> NoListener]
    /\ filter = {}
    /\ conn = [c \in Conn |-> "none"] /\ to = [c \in Conn |-> NoListener]
    /\ accept = [a \in Acceptor |-> "idle"] /\ on = [a \in Acceptor |-> NoListener]

Listened(t) == {p \in Port : t[p] # NoListener}

\* The ports that OnTCP and OnUDP serve.
Served ==
    (IF ServedTCP = All THEN TCPPort ELSE ServedTCP)
    \cup (IF ~OnUDP THEN {} ELSE IF ServedUDP = All THEN UDPPort ELSE ServedUDP)

\* The ports that buildFilterLocked admits on the server's own address.
buildFilter(t) == Served \cup Listened(t)

-----------------------------------------------------------------------------
(***************************************************************************)
(* Start, Listen and Close.                                                *)
(***************************************************************************)
\* startLocked, by Start or by the first Listen; a start that fails leaves
\* the server new.
StartLocked ==
    /\ server = "new" /\ server' = "running" /\ filter' = buildFilter(table)
    /\ UNCHANGED <<state, port, table, connVars, acceptVars>>

\* Listen has found a backend, and let go of startMu.  The program does not
\* call Listen once it has called Close, but a call may be under way.
Listen(l) ==
    /\ server = "running" /\ state[l] = "none"
    /\ state' = [state EXCEPT ![l] = "starting"]
    /\ UNCHANGED <<server, port, table, filter, connVars, acceptVars>>

\* Under listenerMu: the port asked for, or any unused one, is free.
Register(l, p) ==
    /\ state[l] = "starting" /\ table[p] = NoListener
    /\ state' = [state EXCEPT ![l] = "open"] /\ port' = [port EXCEPT ![l] = p]
    /\ table' = [table EXCEPT ![p] = l] /\ filter' = buildFilter(table')
    /\ UNCHANGED <<server, connVars, acceptVars>>

InUse(l) ==
    /\ state[l] = "starting" /\ Listened(table) # {}
    /\ state' = [state EXCEPT ![l] = "none"]
    /\ UNCHANGED <<server, port, table, filter, connVars, acceptVars>>

\* closedc is closed: blocked handlers close their connections, and pending
\* Accept calls return net.ErrClosed.
Release(ls) ==
    /\ state' = [l \in Listeners |-> IF l \in ls THEN "closed" ELSE state[l]]
    /\ conn' = [c \in Conn |-> IF conn[c] = "blocked" /\ to[c] \in ls THEN "closed" ELSE conn[c]]
    /\ accept' = [a \in Acceptor |-> IF on[a] \in ls THEN "idle" ELSE accept[a]]
    /\ on' = [a \in Acceptor |-> IF on[a] \in ls THEN NoListener ELSE on[a]]
    /\ UNCHANGED <<port, to>>

BugCloseNoFilter(l) ==
    /\ state[l] = "open" /\ Release({l})
    /\ table' = [table EXCEPT ![port[l]] = NoListener]
    /\ UNCHANGED <<server, filter>>

\* A second Close finds the listener closed and does nothing.
CloseLocked(l) ==
    /\ state[l] = "open" /\ Release({l})
    /\ table' = [table EXCEPT ![port[l]] = NoListener]
    /\ filter' = buildFilter(table')
    /\ UNCHANGED server

\* Server.Close: every registered listener, without a new filter; then the
\* backend.
CloseListeners ==
    /\ server = "running" /\ server' = "closing"
    /\ Release({table[p] : p \in Listened(table)})
    /\ table' = [p \in Port |-> NoListener]
    /\ UNCHANGED filter

ServerClose ==
    /\ server = "closing" /\ server' = "closed"
    /\ UNCHANGED <<state, port, table, filter, connVars, acceptVars>>

-----------------------------------------------------------------------------
(***************************************************************************)
(* Connections and Accept.                                                 *)
(***************************************************************************)
\* A connection that the filter admits: to the port's listener, else to
\* OnTCP or OnUDP, which serve the served ports, else refused.
Arrive(c, p) ==
    /\ conn[c] = "none" /\ server \in {"running", "closing"} /\ p \in filter
    /\ conn' = [conn EXCEPT ![c] =
                  IF table[p] # NoListener THEN "looked"
                  ELSE IF p \in Served THEN "served" ELSE "reset"]
    /\ to' = [to EXCEPT ![c] = table[p]]
    /\ UNCHANGED <<server, state, port, table, filter, acceptVars>>

\* handle: to a pending Accept, or closed, or blocked until one of them.
HandleGiven(c, a) ==
    /\ conn[c] = "looked" /\ accept[a] = "waiting" /\ on[a] = to[c]
    /\ conn' = [conn EXCEPT ![c] = "accepted"]
    /\ accept' = [accept EXCEPT ![a] = "idle"] /\ on' = [on EXCEPT ![a] = NoListener]
    /\ UNCHANGED <<server, state, port, table, filter, to>>

BugHandleBlocks(c) ==
    /\ conn[c] = "looked" /\ \A a \in Acceptor : on[a] # to[c]
    /\ conn' = [conn EXCEPT ![c] = "blocked"]
    /\ UNCHANGED <<server, state, port, table, filter, to, acceptVars>>

HandleBlocks(c) ==
    /\ conn[c] = "looked" /\ \A a \in Acceptor : on[a] # to[c]
    /\ conn' = [conn EXCEPT ![c] = IF state[to[c]] = "closed" THEN "closed" ELSE "blocked"]
    /\ UNCHANGED <<server, state, port, table, filter, to, acceptVars>>

AcceptTaken(a, c) ==
    /\ accept[a] = "idle" /\ conn[c] = "blocked"
    /\ conn' = [conn EXCEPT ![c] = "accepted"]
    /\ UNCHANGED <<server, state, port, table, filter, to, acceptVars>>

\* AcceptContext waits at an open listener; at a closed one it returns
\* net.ErrClosed and nothing changes.
AcceptWaits(a, l) ==
    /\ accept[a] = "idle" /\ state[l] = "open"
    /\ \A c \in Conn : ~(conn[c] = "blocked" /\ to[c] = l)
    /\ accept' = [accept EXCEPT ![a] = "waiting"] /\ on' = [on EXCEPT ![a] = l]
    /\ UNCHANGED <<server, state, port, table, filter, connVars>>

AcceptCancelled(a) ==
    /\ accept[a] = "waiting"
    /\ accept' = [accept EXCEPT ![a] = "idle"] /\ on' = [on EXCEPT ![a] = NoListener]
    /\ UNCHANGED <<server, state, port, table, filter, connVars>>

Handle(c) == HandleBlocks(c) \/ \E a \in Acceptor : HandleGiven(c, a)

ListenerNext ==
    \/ StartLocked \/ CloseListeners \/ ServerClose
    \/ \E l \in Listeners : Listen(l) \/ InUse(l) \/ CloseLocked(l) \/ \E p \in Port : Register(l, p)
    \/ \E c \in Conn : Handle(c) \/ \E p \in Port : Arrive(c, p)
    \/ \E a \in Acceptor : AcceptCancelled(a)
                           \/ (\E c \in Conn : AcceptTaken(a, c)) \/ \E l \in Listeners : AcceptWaits(a, l)

\* The goroutine netstack starts for a connection runs.
ListenerSpec == ListenerInit /\ [][ListenerNext]_listenerVars /\ \A c \in Conn : WF_listenerVars(Handle(c))

-----------------------------------------------------------------------------
\* The table names exactly the open listeners, each under its port: a second
\* Close does not unregister the port's next listener (closeLocked).
TableExact ==
    \A l \in Listeners : state[l] = "open" <=> \E p \in Port : table[p] = l /\ port[l] = p

\* The packet filter follows the listeners: it admits a port while, and only
\* while, a connection there would be delivered, to an open listener or to
\* OnTCP or OnUDP ("again whenever the set of active listeners changes",
\* tailcat.go, lines 1014-1016).
FilterFollows ==
    server = "running" =>
      filter = Served \cup {port[l] : l \in {k \in Listeners : state[k] = "open"}}

\* The state invariant of the server's listeners.
ListenerInv == ListenerTypeOK /\ TableExact /\ FilterFollows

\* What makes ListenerInv inductive.  What the table names is open, under the
\* port it is named by; a connection that has looked its listener up has one,
\* which was open then.
TableOpen ==
    \A p \in Port : table[p] # NoListener => state[table[p]] = "open" /\ port[table[p]] = p

LookedUp ==
    /\ \A c \in Conn :
         /\ conn[c] = "looked" => to[c] \in Listeners /\ state[to[c]] \in {"open", "closed"}
         /\ conn[c] = "blocked" => to[c] \in Listeners
    /\ \A a \in Acceptor : accept[a] = "waiting" => on[a] \in Listeners

\* FilterFollows, in the terms of the code: the filter is the one that
\* buildFilterLocked makes of the table.
FilterBuilt == server = "running" => filter = buildFilter(table)

ListenerIInv == ListenerInv /\ TableOpen /\ LookedUp

\* A connection handed to a listener that closes is accepted or closed: its
\* handler, which looked the listener up before, does not block for ever.
Disposed ==
    \A c \in Conn, l \in Listeners :
      (to[c] = l /\ state[l] = "closed") ~> conn[c] \notin {"looked", "blocked"}

\* Once Server.Close has returned there is no open listener left, on which
\* an Accept would wait for ever: "Close shuts down the server, closing any
\* listeners created by Server.Listen" (tailcat.go, lines 1129-1130).  The
\* code does not keep this for a Listen that is between its two mutexes.
NoneOpenAfterClose == server = "closed" => \A l \in Listeners : state[l] # "open"
=============================================================================
