--------------------------- MODULE MCSpscRelaxed ---------------------------
(* Model-checking instance of SpscRelaxed; constants are set in the .cfg   *)
(* files.                                                                  *)
EXTENDS SpscRelaxed

=============================================================================
