----------------------------- MODULE MCMrswMap -----------------------------
(* Model-checking instance of MrswMap; constants are set in the .cfg       *)
(* files.  Three commits make a container be published twice, so counts   *)
(* left behind by earlier gets come back into play.                        *)
EXTENDS MrswMap

=============================================================================
