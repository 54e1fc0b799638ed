-------------------------- MODULE MCHostScheduler --------------------------
(* Constants for checking HostScheduler: three flows of a host, the last   *)
(* of a priority of its own.                                               *)
EXTENDS HostScheduler

CONSTANTS a, b, c

Started == <<a, b, c>>
Sizes == [q \in {a, b, c} |-> IF q = a THEN 1 ELSE 2]
StopAndWait == [q \in {a, b, c} |-> 1]
Priorities == [q \in {a, b, c} |-> IF q = c THEN 4 ELSE 3]
=============================================================================
