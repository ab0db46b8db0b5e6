---------------------------- MODULE MCSEIdentity ----------------------------
(***************************************************************************)
(* Instances of SEIdentity for TLC.                                        *)
(***************************************************************************)
EXTENDS SEIdentity

CONSTANTS c1, c2, k1, k2
=============================================================================
