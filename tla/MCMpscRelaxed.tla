--------------------------- MODULE MCMpscRelaxed ---------------------------
(* Model-checking instance of MpscRelaxed; constants are set in the .cfg   *)
(* files.                                                                  *)
EXTENDS MpscRelaxed

=============================================================================
