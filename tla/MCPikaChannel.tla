--------------------------- MODULE MCPikaChannel ---------------------------
(* TLC instances of PikaChannel. *)
EXTENDS PikaChannel
=============================================================================
