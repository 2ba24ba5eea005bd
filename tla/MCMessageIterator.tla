------------------------- MODULE MCMessageIterator -------------------------
(* Model-checking instance of MessageIterator: two message files holding   *)
(* messages 1-2 and 3-4, each recorded, as add_message_file records every *)
(* file, with message_id_start 0.                                          *)
EXTENDS MessageIterator

MCFiles == <<[file_id |-> 1, message_id_start |-> 0],
             [file_id |-> 2, message_id_start |-> 0]>>

MCContents == (1 :> <<1, 2>>) @@ (2 :> <<3, 4>>)

=============================================================================
