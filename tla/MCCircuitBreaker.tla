------------------------- MODULE MCCircuitBreaker -------------------------
(* Requests in progress at once, and a fast and a slow latency: 3 is more  *)
(* than twice 1.                                                           *)
EXTENDS CircuitBreaker

CONSTANTS c1, c2, c3

MCCallers == {c1, c2, c3}
MCTwoCallers == {c1, c2}
MCLatencies == {1, 3}
=============================================================================
