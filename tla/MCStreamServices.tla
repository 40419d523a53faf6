--------------------------- MODULE MCStreamServices ---------------------------
(* TLC instances of StreamServices. *)
EXTENDS StreamServices, TLC
=============================================================================
