--------------------------- MODULE MCEgressShaper ---------------------------
(* Constants for checking EgressShaper: two flows share the first group,   *)
(* the second group has one of another priority.                           *)
EXTENDS EgressShaper

CONSTANTS g, h

Groups == [q \in {1, 2, 3} |-> IF q = 2 THEN h ELSE g]
Priorities == [q \in {1, 2, 3, 4} |-> IF q = 2 THEN 4 ELSE 3]
=============================================================================
