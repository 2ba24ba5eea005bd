---------------------------- MODULE MCByteBuffer ----------------------------
(* Model-checking instance of ByteBuffer; constants are set in the .cfg.   *)
EXTENDS ByteBuffer

=============================================================================
