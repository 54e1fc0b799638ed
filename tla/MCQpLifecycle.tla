--------------------------- MODULE MCQpLifecycle ---------------------------
(* Constants for checking QpLifecycle. *)
EXTENDS QpLifecycle

CONSTANTS f1, f2
=============================================================================
