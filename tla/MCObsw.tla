------------------------------- MODULE MCObsw -------------------------------
(* The flight application by itself, for runs that need no ground segment. *)
EXTENDS ObswEnv, McTelecommands
=============================================================================
