-------------------------- MODULE MCRdmaTransport --------------------------
(* Constants for checking RdmaTransport: a flow of a few packets, the last *)
(* one short.  Every constant is a plain value given in the .cfg.          *)
EXTENDS RdmaTransport
=============================================================================
