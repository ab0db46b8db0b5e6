------------------------------ MODULE UDPFrame ------------------------------
(***************************************************************************)
(* The framing of UDP datagrams over the tunnel (internal/proxy,           *)
(* udp_frame.go): framedUDP.Write splits a datagram into fragments, and    *)
(* udpDecoder.accept at the other end reassembles them.  The path between  *)
(* loses, delays and reorders fragments, and may deliver one again.        *)
(*                                                                         *)
(* The contents of the i-th fragment of datagram d are <<d, i>>, and a     *)
(* datagram is known by the identifier of its Write.  Time is counted in   *)
(* fractions of udpAssemblyLifetime.                                       *)
(***************************************************************************)
EXTENDS Integers, FiniteSets, Functions, FiniteSetsExt

CONSTANTS
    Chunk,           \* udpChunkSize
    MaxDatagram,     \* MaxUDPDatagram
    MaxFragments,    \* length of udpAssembly.chunks, and bits of seen
    MaxAssemblies,   \* udpMaxAssemblies
    Lifetime,        \* udpAssemblyLifetime
    Garbage,         \* frames of a sender that does not frame, or frames wrongly
    Sizes,           \* sizes of datagrams the application sends
    MaxRepeats, MaxWrites, MaxTime   \* bounds of the model

NoData == <<>>

VARIABLES
    next,      \* framedUDP.next, the identifier of the last datagram
    size,      \* size[d]: length of the d-th datagram
    index,     \* the next fragment to write; count(size[next]) when Write has returned
    net,       \* fragments on the path
    repeats,   \* how often it has delivered one and kept it
    pending,   \* udpDecoder.pending
    closed,    \* Read has failed
    now,
    out,       \* what accept returned last, NoData if nothing
    got,       \* the datagrams it has returned
    arrivals   \* arrivals[d][i]: when fragment i of datagram d was received

writeVars == <<next, size, index>>
vars == <<writeVars, net, repeats, pending, closed, now, out, got, arrivals>>

Datagram == 1..MaxWrites
Time     == 0..MaxTime

\* How many fragments a datagram of n bytes has, and the length of the i-th.
count(n) == LET c == (n + Chunk - 1) \div Chunk IN IF c = 0 THEN 1 ELSE c
length(n, i) == LET rest == n - i * Chunk IN IF rest < Chunk THEN rest ELSE Chunk

Frame == [id : Datagram, size : Sizes, index : 0..MaxFragments - 1, len : 0..Chunk, data : Datagram \X Nat]

TypeOK ==
    /\ next \in 0..MaxWrites /\ size \in [Datagram -> Sizes \cup {0}]
    /\ index \in 0..MaxFragments /\ net \subseteq Frame /\ repeats \in 0..MaxRepeats
    /\ DOMAIN pending \subseteq Datagram /\ Cardinality(DOMAIN pending) <= MaxAssemblies
    /\ \A d \in DOMAIN pending :
         /\ pending[d].size \in Sizes /\ pending[d].remaining \in 1..MaxFragments - 1
         /\ DOMAIN pending[d].chunks \subseteq 0..MaxFragments - 1
         /\ pending[d].expires \in 0..MaxTime + Lifetime
    /\ closed \in BOOLEAN /\ now \in Time
    /\ got \subseteq Datagram
    /\ arrivals \in [Datagram -> [0..MaxFragments - 1 -> SUBSET Time]]

Init ==
    /\ next = 0 /\ size = [d \in Datagram |-> 0] /\ index = MaxFragments
    /\ net = {} /\ repeats = 0 /\ pending = <<>> /\ closed = FALSE /\ now = 0
    /\ out = NoData /\ got = {}
    /\ arrivals = [d \in Datagram |-> [i \in 0..MaxFragments - 1 |-> {}]]

-----------------------------------------------------------------------------
(***************************************************************************)
(* The writer.  Writes exclude each other (writeMu).                       *)
(***************************************************************************)

Writing == next > 0 /\ index < count(size[next])

Write(n) ==
    /\ ~Writing /\ next < MaxWrites
    /\ next' = next + 1 /\ size' = [size EXCEPT ![next'] = n] /\ index' = 0
    /\ UNCHANGED <<net, repeats, pending, closed, now, out, got, arrivals>>

fragment ==
    [id |-> next, size |-> size[next], index |-> index,
     len |-> length(size[next], index), data |-> <<next, index>>]

WriteFragment ==
    /\ Writing /\ net' = net \cup {fragment} /\ index' = index + 1
    /\ UNCHANGED <<next, size, repeats, pending, closed, now, out, got, arrivals>>

\* The socket refuses a fragment; Write returns, the fragments before it are sent.
WriteFailed ==
    /\ Writing /\ index' = count(size[next])
    /\ UNCHANGED <<next, size, net, repeats, pending, closed, now, out, got, arrivals>>

-----------------------------------------------------------------------------
(***************************************************************************)
(* udpDecoder.accept.  What has expired is dropped first.                  *)
(***************************************************************************)

live == Restrict(pending, {d \in DOMAIN pending : now < pending[d].expires})

valid(f) ==
    /\ f.size <= MaxDatagram /\ f.index < count(f.size)
    /\ f.len = length(f.size, f.index)

set(L, d, a) == [e \in DOMAIN L \cup {d} |-> IF e = d THEN a ELSE L[e]]

\* A full table gives up an assembly with the earliest deadline.
oldest(L) ==
    {d \in DOMAIN L : \A e \in DOMAIN L : L[d].expires <= L[e].expires}

BugRoomEarly(L) ==
    IF Cardinality(DOMAIN L) < MaxAssemblies - 1 THEN {L}
    ELSE {Restrict(L, DOMAIN L \ {d}) : d \in oldest(L)}
room(L) ==
    IF Cardinality(DOMAIN L) < MaxAssemblies THEN {L}
    ELSE {Restrict(L, DOMAIN L \ {d}) : d \in oldest(L)}

fresh(f) ==
    [size |-> f.size, chunks |-> <<>>, remaining |-> count(f.size), expires |-> now + Lifetime]

\* The tables, with an assembly for f's datagram, that may result.
started(L, f) ==
    IF f.id \in DOMAIN L THEN {L} ELSE {set(K, f.id, fresh(f)) : K \in room(L)}

\* A fragment seen before, or of another size, changes nothing.
stored(a, f) ==
    IF a.size # f.size \/ f.index \in DOMAIN a.chunks THEN a
    ELSE [a EXCEPT !.chunks = set(@, f.index, f.data), !.remaining = @ - 1]

whole(d) == [i \in 0..count(size[d]) - 1 |-> <<d, i>>]
Returned(data) ==
    /\ out' = data
    /\ got' = got \cup {d \in 1..next : data = whole(d)}
Dropped == out' = NoData /\ UNCHANGED got

AcceptInvalid(f) == ~valid(f) /\ pending' = live /\ Dropped

\* One fragment is the whole datagram.
AcceptWhole(f) ==
    /\ valid(f) /\ count(f.size) = 1
    /\ pending' = live /\ Returned([i \in {0} |-> f.data])

AcceptFragment(f) ==
    /\ valid(f) /\ count(f.size) > 1
    /\ \E L \in started(live, f) :
         LET a == stored(L[f.id], f) IN
         IF a.remaining = 0
         THEN pending' = Restrict(L, DOMAIN L \ {f.id}) /\ Returned(a.chunks)
         ELSE pending' = set(L, f.id, a) /\ Dropped

accept(f) == AcceptInvalid(f) \/ AcceptWhole(f) \/ AcceptFragment(f)

Read(f) ==
    /\ ~closed /\ accept(f)
    /\ \/ net' = net \ {f} /\ UNCHANGED repeats
       \/ repeats < MaxRepeats /\ repeats' = repeats + 1 /\ UNCHANGED net
    /\ arrivals' = [arrivals EXCEPT ![f.id][f.index] = @ \cup {now}]
    /\ UNCHANGED <<writeVars, closed, now>>

\* A frame that framedUDP did not write.
ReadGarbage(f) ==
    /\ ~closed /\ accept(f)
    /\ UNCHANGED <<writeVars, net, repeats, closed, now, arrivals>>

\* The socket fails or its deadline passes: both users of Read give up.
ReadFailed ==
    /\ ~closed /\ closed' = TRUE /\ pending' = <<>> /\ out' = NoData
    /\ UNCHANGED <<writeVars, net, repeats, now, got, arrivals>>

Tick ==
    /\ now < MaxTime /\ now' = now + 1 /\ out' = NoData
    /\ UNCHANGED <<writeVars, net, repeats, pending, closed, got, arrivals>>

Next ==
    \/ \E n \in Sizes : Write(n)
    \/ WriteFragment \/ WriteFailed
    \/ \E f \in net : Read(f)
    \/ \E f \in Garbage : ReadGarbage(f)
    \/ ReadFailed \/ Tick

Spec == Init /\ [][Next]_vars

-----------------------------------------------------------------------------
(***************************************************************************)
(* What framing promises.                                                  *)
(***************************************************************************)

\* What accept returns is a datagram that was written, whole and unmixed,
\* whatever was lost, repeated, reordered or evicted ("FramedUDP preserves
\* application datagrams", udp_frame.go, 108).
Intact ==
    out # NoData => \E d \in 1..next : out = whole(d)

\* A datagram is not lost by the decoder: if all of its fragments arrive within
\* udpAssemblyLifetime of the first, and the datagrams with a fragment in that
\* time or a lifetime before leave room for it, then it is returned.
Times(d) == UNION {arrivals[d][i] : i \in 0..MaxFragments - 1}
Reassembled ==
    \A d \in 1..next :
      LET F     == 0..count(size[d]) - 1
          begin == Min(Times(d))
          end   == Max({Min(arrivals[d][i]) : i \in F})
          rivals == {e \in 1..next \ {d} : \E t \in Times(e) : begin - Lifetime < t /\ t <= end}
      IN  /\ \A i \in F : arrivals[d][i] # {}
          /\ end < begin + Lifetime /\ Cardinality(rivals) < MaxAssemblies
          => d \in got

\* Every datagram fits (65507 bytes are 63 fragments of 1056 bytes), and is
\* returned whole and unmixed or, when there was no room for it, not at all.
FrameInv ==
    /\ TypeOK /\ \A n \in Sizes : n \in 0..MaxDatagram /\ count(n) <= MaxFragments
    /\ Intact /\ Reassembled
=============================================================================
