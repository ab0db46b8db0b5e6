------------------------- MODULE MCClientLifecycle -------------------------
(***************************************************************************)
(* ClientLifecycle on a small instance.                                    *)
(***************************************************************************)
EXTENDS ClientLifecycle

CONSTANTS main, watch, control

\* A command's main goroutine, its maintenance loop, and a third that does
\* what either of them may be doing at the same time.
Goroutines ==
    [c \in Caller |->
        CASE c = main    -> {"ping", "dial", "close"}
          [] c = watch   -> {"probe", "refresh", "renew"}
          [] c = control -> {"status", "dial", "renew", "close"}]
=============================================================================
