---------------------------- MODULE MCTCPForward ----------------------------
(***************************************************************************)
(* An instance of TCPForward for TLC.                                      *)
(***************************************************************************)
EXTENDS TCPForward

CONSTANT c1
=============================================================================
