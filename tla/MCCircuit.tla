------------------------------- MODULE MCCircuit -------------------------------
(* Small instances of the circuit breaker. *)
EXTENDS Circuit, TLC

CONSTANTS j1, j2

TwoJobs == {j1, j2}
=============================================================================
