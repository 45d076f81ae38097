------------------------ MODULE MCStateReconciler ------------------------
(* StateReconciler on two values. *)
EXTENDS StateReconciler

CONSTANTS v1, v2
MCValues == {v1, v2}
=============================================================================
