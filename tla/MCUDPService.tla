---------------------------- MODULE MCUDPService ----------------------------
(***************************************************************************)
(* Instances of UDPService for TLC.                                        *)
(***************************************************************************)
EXTENDS UDPService

CONSTANTS f1, f2
=============================================================================
