--------------------------- MODULE MCDciLifecycle ---------------------------
(* Instances of DciLifecycle: the values of the constants are in the cfgs. *)
EXTENDS DciLifecycle
=============================================================================
