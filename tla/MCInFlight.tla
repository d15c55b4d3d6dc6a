------------------------------- MODULE MCInFlight -------------------------------
(* Small instances of the in-flight cap. *)
EXTENDS InFlight, TLC

CONSTANTS p1, p2, p3, p4

MCProcs == {p1, p2, p3, p4}
=============================================================================
