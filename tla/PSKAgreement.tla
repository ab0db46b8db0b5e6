---------------------------- MODULE PSKAgreement ----------------------------
(***************************************************************************)
(* What the authenticated bootstrap promises about pre-shared keys, with   *)
(* no packets, tables or clocks: the server installs ever newer PSKs for a *)
(* client process and may drop the session at any time; the client only    *)
(* ever switches to a newer PSK that the server has installed for it.      *)
(* PSKs are numbered in the order in which they were made.                 *)
(***************************************************************************)
EXTENDS Integers

CONSTANT Source

VARIABLES
    server,   \* server[s]: the PSK the server uses for s, 0 if none
    client,   \* client[s]: the PSK s uses, 0 if none
    past      \* past[s]: every PSK the server has ever installed for s

vars == <<server, client, past>>

Init ==
    /\ server = [s \in Source |-> 0]
    /\ client = [s \in Source |-> 0]
    /\ past = [s \in Source |-> {}]

\* A new session or a renewal: never a PSK used before, nor an older one.  A
\* new session may take the place of other ones, which end.
Install(s, ended) ==
    /\ server' \in [Source -> Nat]
    /\ \A o \in past[s] : server'[s] > o
    /\ \A r \in Source \ {s} : server'[r] = IF r \in ended THEN 0 ELSE server[r]
    /\ past' = [past EXCEPT ![s] = @ \cup {server'[s]}]
    /\ UNCHANGED client

\* Sessions end: expiry, revocation, disconnection, a failed or rolled back
\* installation, the end of the server process.
Drop(ended) ==
    /\ server' = [s \in Source |-> IF s \in ended THEN 0 ELSE server[s]]
    /\ UNCHANGED <<client, past>>

\* The client learns that its PSK was installed.
Adopt(s) ==
    /\ \E n \in past[s] : n > client[s] /\ client' = [client EXCEPT ![s] = n]
    /\ UNCHANGED <<server, past>>

Next ==
    \/ \E s \in Source, ended \in SUBSET Source : Install(s, ended)
    \/ \E ended \in SUBSET Source : Drop(ended)
    \/ \E s \in Source : Adopt(s)

Spec == Init /\ [][Next]_vars
=============================================================================
