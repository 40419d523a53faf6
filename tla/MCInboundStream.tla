--------------------------- MODULE MCInboundStream ---------------------------
(* TLC instances of InboundStream. *)
EXTENDS InboundStream

Symmetry == Permutations(Channels) \cup Permutations(Arguments)

\* Contents on several channels; replies and their callbacks; heartbeats.
ThreeWorkloads ==
    {[types |-> {"content"}, frames |-> 6, adds |-> 0, time |-> 0],
     [types |-> {"reply"}, frames |-> 2, adds |-> 3, time |-> 0],
     [types |-> {"heartbeat", "content"}, frames |-> 3, adds |-> 0, time |-> 7]}
=============================================================================
