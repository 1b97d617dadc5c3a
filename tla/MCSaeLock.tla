----------------------------- MODULE MCSaeLock ------------------------------
(* SaeLock for TLC: an ARM core and two SHARC cores, each with a main loop *)
(* and an interrupt level.                                                 *)
EXTENDS SaeLock

CONSTANTS Arm, S1, S2

=============================================================================
