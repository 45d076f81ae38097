------------------------- MODULE MCEventDelivery -------------------------
(* EventDelivery with two sinks; the bounds are in the configurations. *)
EXTENDS EventDelivery
=============================================================================
