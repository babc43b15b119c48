------------------------------ MODULE MCPuller -------------------------------
(* Two client objects are all that are ever in use at once. *)
EXTENDS Puller
=============================================================================
