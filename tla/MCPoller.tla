------------------------------ MODULE MCPoller ------------------------------
(* TLC instances of Poller. *)
EXTENDS Poller
=============================================================================
