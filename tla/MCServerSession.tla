-------------------------- MODULE MCServerSession --------------------------
(* ServerSession with the bounds of the configurations. *)
EXTENDS ServerSession
=============================================================================
