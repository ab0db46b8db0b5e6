----------------------------- MODULE MCListener -----------------------------
(***************************************************************************)
(* Instances of Listener for TLC.                                          *)
(***************************************************************************)
EXTENDS Listener

CONSTANTS t1, t2, u1, c1, c2, a1
=============================================================================
