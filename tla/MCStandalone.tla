---------------------------- MODULE MCStandalone ---------------------------
(***************************************************************************)
(* Renewal, UDPFrame and Arguments on small instances.  The three share no *)
(* state: each behaviour is one of the part that was chosen at first, and  *)
(* the others stay where they start.                                       *)
(***************************************************************************)
EXTENDS Renewal

CONSTANTS
    Chunk, MaxDatagram, MaxFragments, MaxAssemblies, AssemblyLifetime, Garbage,
    Sizes, MaxRepeats, MaxWrites, MaxTime,
    MaxPort, MaxEntries, MaxLines

VARIABLES
    part,   \* the part that runs
    next, size, index, path, repeats, pending, closed, now, out, got, arrivals,
    input, result

frameVars == <<next, size, index, path, repeats, pending, closed, now, out, got, arrivals>>
argumentVars == <<input, result>>

Frame == INSTANCE UDPFrame WITH Lifetime <- AssemblyLifetime, net <- path
Args == INSTANCE Arguments

\* Units of five seconds: how far the clock may be set.
ClockSteps == {-20, -3, -1, 1, 5}

\* Two bytes to a fragment.  An index past the end, a frame that is too
\* short, and a datagram that is too large, under an identifier in use.
MCGarbage ==
    LET frame(n, i, l) == [id |-> 1, size |-> n, index |-> i, len |-> l, data |-> <<0, i>>]
    IN  {frame(3, 2, -1), frame(3, 1, 2), frame(9, 0, 2)}

StandaloneInit ==
    /\ part \in {"renewal", "frame", "arguments"}
    /\ RenewalInit /\ Frame!Init
    /\ IF part = "arguments" THEN Args!Init ELSE input = {} /\ result = Args!Unparsed

StandaloneNext ==
    \/ part = "renewal" /\ RenewalNext /\ UNCHANGED <<part, frameVars, argumentVars>>
    \/ part = "frame" /\ Frame!Next /\ UNCHANGED <<part, renewalVars, argumentVars>>
    \/ part = "arguments" /\ Args!Next /\ UNCHANGED <<part, renewalVars, frameVars>>

StandaloneSpec == StandaloneInit /\ [][StandaloneNext]_<<part, renewalVars, frameVars, argumentVars>>


\* Datagrams cross the fragmenting path whole, unmixed and, where the decoder
\* has room, all of them (UDPFrame).
FrameHolds == Frame!FrameInv

\* A command starts with what its arguments say, or does not start (Arguments).
ArgumentsHold == Args!ArgumentsExact
=============================================================================
