-------------------------- MODULE MCMessageFiles --------------------------
(* Model-checking instance of MessageFiles.  The directory starts empty,  *)
(* as load_current_file_test makes it, or holds an events file whose last *)
(* component is no number.                                                *)
EXTENDS MessageFiles

MCStartFiles == {[kind |-> "events", id |-> NoId]}

=============================================================================
