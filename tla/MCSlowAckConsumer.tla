------------------------- MODULE MCSlowAckConsumer -------------------------
(***************************************************************************)
(* TLC instances of SlowAckConsumer.                                       *)
(***************************************************************************)
EXTENDS SlowAckConsumer, TLC

Symmetry == Permutations(Messages)
=============================================================================
