----------------------------- MODULE Arguments -----------------------------
(***************************************************************************)
(* What the commands make of their arguments before they start (cmd/qcat:  *)
(* udp.go, main.go, mosh.go): the services that `qcat serve' publishes,    *)
(* and the session that mosh-server announces.                             *)
(*                                                                         *)
(* A number is what strconv.ParseUint makes of a text, and MaxPort + 1     *)
(* stands for a text that it refuses.  Sums are taken in 64 bits.          *)
(***************************************************************************)
EXTENDS Maps, Sequences

CONSTANTS
    MaxPort,    \* 65535
    MaxEntries, \* repetitions of an option, a bound of the model
    MaxLines    \* lines that mosh-server prints, a bound of the model

VARIABLES
    input,   \* what is parsed
    result   \* what came of it

vars == <<input, result>>

S == INSTANCE SequencesExt

Number == 0..MaxPort + 1
Port == 1..MaxPort
Target == [host : {"host"}, port : Number] \cup {[host |-> "", port |-> 1]}

\* FIRST:LAST=HOST:PORT, or without LAST.
UDPEntry == [first : Number, ranged : {TRUE}, last : Number, target : Target]
            \cup [first : Number, ranged : {FALSE}, last : {0}, target : Target]
TCPEntry == [port : Number, target : Target]

\* A line of mosh-server: MOSH CONNECT with a port, the same misspelt, or
\* another one.
Line == {[says |-> "connect", port |-> n] : n \in Number}
        \cup {[says |-> "misspelt", port |-> 0], [says |-> "other", port |-> 0]}

Failure == [ok |-> FALSE]

-----------------------------------------------------------------------------
ValidateTarget(t) == t.port \in Port /\ t.host # ""

\* targets[port] = target, if the port is free.
publish(acc, port, target) ==
    IF ~acc.ok \/ port \in DOMAIN acc.targets THEN Failure
    ELSE [acc EXCEPT !.targets = Put(@, port, target)]

BugFits(base, first, last) == base <= MaxPort
Fits(base, first, last) == base + last - first <= MaxPort

udpEntry(acc, e) ==
    LET last == IF e.ranged THEN e.last ELSE e.first
        mapped(port) == IF e.ranged THEN [e.target EXCEPT !.port = @ + port - e.first] ELSE e.target
    IN  IF /\ acc.ok /\ e.first \in Port /\ last <= MaxPort /\ e.first <= last
           /\ ValidateTarget(e.target) /\ Fits(e.target.port, e.first, last)
        THEN S!FoldLeft(LAMBDA a, port : publish(a, port, mapped(port)), acc,
                        [i \in 1..last - e.first + 1 |-> e.first + i - 1])
        ELSE Failure

Nothing == [ok |-> TRUE, targets |-> Empty]
udpServiceSpecs(entries) == S!FoldLeft(udpEntry, Nothing, entries)

\* Port 1 is kept for SOCKS.
tcpEntry(acc, e) ==
    IF e.port \in 2..MaxPort /\ ValidateTarget(e.target) THEN publish(acc, e.port, e.target)
    ELSE Failure

\* serve: the published ports, and the targets that SOCKS may be asked for.
serve(tcp, allow, udp, tun) ==
    LET services == S!FoldLeft(tcpEntry, Nothing, tcp)
        allowed == {e.target : e \in S!ToSet(tcp)} \cup S!ToSet(allow)
        forwards == allowed # {} \/ udp
    IN  IF services.ok /\ (\A t \in S!ToSet(allow) : ValidateTarget(t)) /\ tun # forwards
        THEN [ok |-> TRUE, targets |-> services.targets, allowed |-> allowed] ELSE Failure

\* One announcement among the lines; port is 0 until there is one.
parseMoshConnect(lines, expectedPort) ==
    LET line(acc, l) ==
          IF ~acc.ok \/ l.says = "other" THEN acc
          ELSE IF l.says = "connect" /\ acc.port = 0 /\ l.port \in Port /\ expectedPort \in {0, l.port}
               THEN [ok |-> TRUE, port |-> l.port] ELSE Failure
        session == S!FoldLeft(line, [ok |-> TRUE, port |-> 0], lines)
    IN  IF session.ok /\ session.port # 0 THEN session ELSE Failure

\* LOCALPORT:TUNNELPORT of `qcat udp'; the local port may be 0, for any.
udpForwardSpec(l, r) ==
    IF l <= MaxPort /\ r \in Port THEN [ok |-> TRUE, local |-> l, remote |-> r] ELSE Failure

-----------------------------------------------------------------------------
Lists(T, n) == UNION {[1..k -> T] : k \in 0..n}

Input == [what : {"udp"}, entries : Lists(UDPEntry, MaxEntries)]
         \cup [what : {"serve"}, tcp : Lists(TCPEntry, MaxEntries), allow : Lists(Target, 1),
               udp : BOOLEAN, tun : BOOLEAN]
         \cup [what : {"mosh"}, lines : Lists(Line, MaxLines), expected : 0..MaxPort]
         \cup [what : {"forward"}, local : Number, remote : Number]

Unparsed == [ok |-> FALSE, unparsed |-> TRUE]

Init == input \in Input /\ result = Unparsed

Parse ==
    /\ result = Unparsed
    /\ result' = CASE input.what = "udp"     -> udpServiceSpecs(input.entries)
                   [] input.what = "serve"   -> serve(input.tcp, input.allow, input.udp, input.tun)
                   [] input.what = "mosh"    -> parseMoshConnect(input.lines, input.expected)
                   [] input.what = "forward" -> udpForwardSpec(input.local, input.remote)
    /\ UNCHANGED input

Next == Parse

Spec == Init /\ [][Next]_vars

-----------------------------------------------------------------------------
\* The tunnel ports of an entry, and where it sends one of them.
Claimed(e) == e.first..(IF e.ranged THEN e.last ELSE e.first)
SentTo(e, port) == [host |-> e.target.host, port |-> e.target.port + (port - e.first)]

Disjoint(sets) == \A i, j \in DOMAIN sets : i # j => sets[i] \cap sets[j] = {}

\* The --udp options are refused exactly when one of them names a port or a
\* target that does not exist, runs past the last port on either side, has an
\* empty range, or shares a tunnel port with another.  Otherwise each tunnel
\* port goes to the destination as far from the base as it is from FIRST, and
\* no other port is published.
UDPExact(entries) ==
    LET good == /\ \A i \in DOMAIN entries :
                     LET e == entries[i]
                     IN  /\ Claimed(e) # {} /\ Claimed(e) \subseteq Port /\ e.target.host # ""
                         /\ e.target.port # 0
                         /\ \A port \in Claimed(e) : SentTo(e, port).port \in Port
                /\ Disjoint([i \in DOMAIN entries |-> Claimed(entries[i])])
    IN  /\ result.ok <=> good
        /\ good => /\ DOMAIN result.targets = UNION {Claimed(entries[i]) : i \in DOMAIN entries}
                   /\ \A i \in DOMAIN entries : \A port \in Claimed(entries[i]) :
                        result.targets[port] = SentTo(entries[i], port)

\* A server starts with services or with --tun, never with both or neither;
\* port 1 stays free for SOCKS, a port has one target, and SOCKS allows the
\* targets of the published services and of --allow-target, no others.
ServeExact(in) ==
    LET tcp == [i \in DOMAIN in.tcp |-> in.tcp[i].port]
        named == S!ToSet(in.allow) \cup {in.tcp[i].target : i \in DOMAIN in.tcp}
    IN  /\ result.ok <=> /\ S!ToSet(tcp) \subseteq Port \ {1} /\ IsInjective(tcp)
                         /\ \A t \in named : t.port \in Port /\ t.host # ""
                         /\ in.tun <=> ~in.udp /\ named = {}
        /\ result.ok => /\ DOMAIN result.targets = S!ToSet(tcp) /\ result.allowed = named
                        /\ \A i \in DOMAIN tcp : result.targets[tcp[i]] = in.tcp[i].target

\* A mosh session is accepted exactly when one line, wherever it stands, begins
\* as an announcement, and that one is well formed and has the port asked for.
MoshExact(lines, expected) ==
    LET said == {i \in DOMAIN lines : lines[i].says # "other"}
    IN  result.ok <=> \E i \in said : /\ said = {i} /\ lines[i].says = "connect"
                                      /\ lines[i].port \in (IF expected = 0 THEN Port ELSE {expected})
                                      /\ result = [ok |-> TRUE, port |-> lines[i].port]

\* A command starts with what its arguments say, or does not start.
ArgumentsExact ==
    result # Unparsed =>
      CASE input.what = "udp"     -> UDPExact(input.entries)
        [] input.what = "serve"   -> ServeExact(input)
        [] input.what = "mosh"    -> MoshExact(input.lines, input.expected)
        [] input.what = "forward" -> result.ok => result.remote \in Port
=============================================================================
