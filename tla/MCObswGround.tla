---------------------------- MODULE MCObswGround ----------------------------
(* The flight application observed by the ground segment. *)
EXTENDS ObswGround, McTelecommands
=============================================================================
