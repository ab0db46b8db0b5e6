---------------------------- MODULE MCHandshake ----------------------------
(* Handshake on a small instance: one client process.                      *)
EXTENDS Handshake

CONSTANTS s1, alice

OneOwner == [s \in Source |-> alice]
=============================================================================
