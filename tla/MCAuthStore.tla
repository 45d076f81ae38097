---------------------------- MODULE MCAuthStore ----------------------------
(* AuthStore with the bounds of the configurations. *)
EXTENDS AuthStore
=============================================================================
