-------------------------- MODULE MCCircuitBreaker --------------------------
(* Constants of the circuit breaker's runs: four requests share one breaker.   *)
EXTENDS CircuitBreaker

MCCallers == {"r1", "r2", "r3", "r4"}
=============================================================================
