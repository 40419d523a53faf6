-------------------------- MODULE MCPikaConnection --------------------------
(* TLC instances of PikaConnection. *)
EXTENDS PikaConnection
=============================================================================
