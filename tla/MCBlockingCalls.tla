--------------------------- MODULE MCBlockingCalls ---------------------------
(* TLC instances of BlockingCalls. *)
EXTENDS BlockingCalls, TLC
=============================================================================
