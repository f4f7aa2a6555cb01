-------------------------- MODULE MCCircuitBreaker --------------------------
(* Model-checking instance of CircuitBreaker: three callers, so that late     *)
(* answers of a CLOSED period and of an earlier HALF_OPEN episode can both be *)
(* outstanding while a new probe is granted.                                  *)
EXTENDS CircuitBreaker

CONSTANTS c1, c2, c3

MCCallers == {c1, c2, c3}
=============================================================================
