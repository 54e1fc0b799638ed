--------------------------- MODULE ReliableStream ---------------------------
(***************************************************************************)
(* What one RDMA flow promises its two ends: bytes are delivered in order  *)
(* and without holes, the sender believes acknowledged only what has been  *)
(* delivered, and the flow is reported complete when every byte is         *)
(* acknowledged.                                                           *)
(***************************************************************************)
EXTENDS Integers

CONSTANT Size            \* bytes of the flow

VARIABLES
  received,              \* the bytes that have been delivered
  acked,                 \* length of the prefix the sender believes delivered
  done                   \* the sender has reported completion

Prefix(n) == 0..(n - 1)

Init == received = {} /\ acked = 0 /\ done = FALSE

Arrive ==
  \E n \in 1..Size :
    /\ received \subseteq Prefix(n)
    /\ received' = Prefix(n)
    /\ UNCHANGED <<acked, done>>

Learn ==
  /\ ~done
  /\ acked' \in (acked + 1)..Size
  /\ Prefix(acked') \subseteq received
  /\ done' = (acked' = Size)
  /\ UNCHANGED received

Next == Arrive \/ Learn

Spec == Init /\ [][Next]_<<received, acked, done>>
=============================================================================
