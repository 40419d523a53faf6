------------------------------ MODULE MCIOLoop ------------------------------
(* TLC instances of IOLoop. *)
EXTENDS IOLoop, TLC
=============================================================================
