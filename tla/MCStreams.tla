----------------------------- MODULE MCStreams -----------------------------
(* Streams of at most three chunks through a channel that holds one event. *)
EXTENDS Streams

MCReplies == {<<>>, <<"w", "w", "m1", "m2">>, <<"w", "w", "n", "n">>}
MCPreviousTurns == {<<"w", "w">>}
=============================================================================
