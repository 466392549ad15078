-------------------------- MODULE MCCircuitBreaker --------------------------
(* Three concurrent calls over a breaker with every threshold at its smallest *)
(* telling value.                                                             *)
EXTENDS CircuitBreaker, TLC

CONSTANTS c1, c2, c3
=============================================================================
