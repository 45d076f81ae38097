--------------------------- MODULE MCProviderCustody ---------------------------
(* Instance of ProviderCustody for TLC: its bounds are in the configuration file. *)
EXTENDS ProviderCustody
=============================================================================
