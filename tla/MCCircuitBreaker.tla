--------------------------- MODULE MCCircuitBreaker ---------------------------
(* Small instances of CircuitBreaker for TLC. *)
EXTENDS CircuitBreaker

CONSTANTS a, b, c, d

FourCallers == {a, b, c, d}
ThreeCallers == {a, b, c}
=============================================================================
