---------------------------- MODULE MCSwitchMmu ----------------------------
(* Constants for checking SwitchMmu on a two-port switch. *)
EXTENDS SwitchMmu

CONSTANTS p1, p2

LosslessQueue == 3
LossyQueue == 1

Pkt(i, o, q, s, c) == [in |-> i, out |-> o, q |-> q, size |-> s, class |-> c]

(* Lossless packets of one and two units both ways, lossy ones both ways.  *)
TwoWay ==
  {Pkt(p1, p2, LosslessQueue, s, LOSSLESS) : s \in 1..2} \cup
  {Pkt(p2, p1, LosslessQueue, s, LOSSLESS) : s \in 1..2} \cup
  {Pkt(p1, p2, LossyQueue, 2, LOSSY), Pkt(p2, p1, LossyQueue, 1, LOSSY)}

(* A lossy packet whose priority tag names the lossless queue. *)
Mixed == TwoWay \cup {Pkt(p1, p2, LosslessQueue, 1, LOSSY)}

Everywhere(x) == [k \in PQ |-> x]
Xoff == Everywhere(2)
Xon == Everywhere(1)
XonOffset == Everywhere(1)
SomeReserve == [k \in PQ |-> IF k[2] = LosslessQueue THEN 2 ELSE 0]
AlphaOne == Everywhere([num |-> 1, den |-> 1])
AlphaHigh == Everywhere([num |-> 100, den |-> 1])

(* Provisioned as longhaul-convergence.cc does, buffer = pool + headroom,  *)
(* but for a lossy egress pool smaller than what the ingress would let in.  *)
SmallLossyEgress == [c \in Class |-> IF c = LOSSY THEN 3 ELSE 16]
=============================================================================
