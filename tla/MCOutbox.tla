-------------------------------- MODULE MCOutbox --------------------------------
(* Small instances of the pull outbox. *)
EXTENDS Outbox, TLC

CONSTANTS r1, r2

MCRequests == {r1, r2}
MCPositions == {1, 2, 3}
=============================================================================
