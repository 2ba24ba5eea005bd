---------------------------- MODULE MCMpscQueue ----------------------------
(* Model-checking instance of MpscQueue; the constants are set in the .cfg *)
(* files: three, two or one producers, and a ring small enough (two or    *)
(* four slots) that the offers wrap onto slots used before.                *)
EXTENDS MpscQueue

=============================================================================
