------------------------------ MODULE MCMining ------------------------------
(* Two workers share a rate limiter; a second session may start while the first *)
(* is stopping, and end after it or before it.                                  *)
EXTENDS Mining

MCWorkers == {"w1", "w2"}
=============================================================================
