------------------------- MODULE MCChannelLifecycle -------------------------
(* ChannelLifecycle with the bounds of the configurations. *)
EXTENDS ChannelLifecycle
=============================================================================
