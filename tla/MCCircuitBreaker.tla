---------------------------- MODULE MCCircuitBreaker ----------------------------
(***************************************************************************)
(* Two calls at a time of one breaker, with either kind of window.         *)
(***************************************************************************)
EXTENDS CircuitBreaker

CONSTANTS a, b
================================================================================
