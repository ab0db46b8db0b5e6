---------------------------- MODULE MCTransport ----------------------------
(* The composed server and a client on a small instance.                   *)
EXTENDS Transport

CONSTANTS s1, alice

OneOwner == [s \in Source |-> alice]
=============================================================================
