----------------------------- MODULE MCQueryCache -----------------------------
(* Instance of QueryCache for TLC: its bounds are in the configuration file. *)
EXTENDS QueryCache
=============================================================================
