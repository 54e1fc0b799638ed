----------------------------- MODULE MCBifrost -----------------------------
(* Bifrost with the constants of MCBifrost.cfg. *)
EXTENDS Bifrost
=============================================================================
