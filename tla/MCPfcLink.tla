----------------------------- MODULE MCPfcLink -----------------------------
(* Instances of PfcLink: the values of the constants are in the cfgs. *)
EXTENDS PfcLink
=============================================================================
