----------------------------- MODULE MCDeadman ------------------------------
(* Instances of Heartbeat and Deadman for TLC. *)
EXTENDS Deadman

CONSTANTS j1, j2, p1, p2
=============================================================================
