------------------------------ MODULE MCProxy -------------------------------
(* Two streaming requests with one hash, of which the first to join leads: one *)
(* whose route has a live sink, and whose tools run in the proxy, and one that  *)
(* has neither.                                                               *)
EXTENDS Proxy

MCRequests == {"live", "plain"}
MCKeys == {"k"}
MCKeyOf == [r \in MCRequests |-> "k"]
MCStreaming == MCRequests
MCLive == {"live"}
MCOpted == {"live"}
=============================================================================
