----------------------------- MODULE MCCommand -----------------------------
(***************************************************************************)
(* An instance of Command for TLC.                                         *)
(***************************************************************************)
EXTENDS Command

CONSTANTS p1, p2, q1
=============================================================================
