--------------------------- MODULE MCHttpExchange ---------------------------
(* The instance TLC checks: see HttpExchange_retry.cfg for its bounds.     *)
EXTENDS HttpExchange

CONSTANTS c1, c2
=============================================================================
