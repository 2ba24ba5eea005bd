---------------------------- MODULE MCSpscQueue ----------------------------
(* Model-checking instance of SpscQueue; constants are set in the .cfg     *)
(* files; the ring is small enough that the producer laps it.             *)
EXTENDS SpscQueue

=============================================================================
