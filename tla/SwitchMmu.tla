----------------------------- MODULE SwitchMmu -----------------------------
(***************************************************************************)
(* The shared buffer of a switch: SwitchMmu's admission decisions and byte *)
(* counters, driven by SwitchNode::SendToDev when a packet arrives and by  *)
(* SwitchNode::SwitchNotifyDequeue when one leaves.  The buffer model is   *)
(* "sonic" with Dynamic Thresholds (DT), the default of the constructor    *)
(* and of the long-haul experiments.                                       *)
(*                                                                         *)
(* A packet is what the MMU sees of it: ingress port, egress port, queue   *)
(* index (not 0: the control queue bypasses the MMU), size and class.  The *)
(* order in which packets leave is the egress queues' business and is left *)
(* open here: any buffered packet may be the next one dequeued.            *)
(***************************************************************************)
EXTENDS ByteSum

CONSTANTS
  Port,            \* network interfaces of the switch
  Queue,           \* data queue indices (1 .. qCnt-1)
  Packet,          \* the packets that can arrive
  bufferPool,      \* whole buffer
  ingressPool,     \* shared by both classes at the ingress
  egressPool,      \* per class, at the egress
  reserveIngress,  \* per ingress queue: reserved bytes
  xoff,            \* per ingress queue: headroom limit
  xon, xon_offset, \* per ingress queue: resume levels
  alphaIngress,    \* per ingress queue: DT's alpha, a fraction [num, den]
  alphaEgress,     \* per egress queue: the same
  Word,            \* 2^64: counters are uint64_t
  MaxDrops         \* bound on the drop statistic

LOSSLESS == 0
LOSSY == 1
Class == {LOSSLESS, LOSSY}

(* Per-port per-queue arrays, at the ingress and at the egress. *)
PQ == Port \X Queue

Fraction == [num : Nat, den : Nat \ {0}]

ASSUME MmuConfig ==
  /\ IsFiniteSet(Port)
  /\ IsFiniteSet(Queue)
  /\ IsFiniteSet(Packet)
  /\ Packet \subseteq [in : Port, out : Port, q : Queue, size : Nat \ {0}, class : Class]
  /\ bufferPool \in Nat
  /\ ingressPool \in Nat
  /\ egressPool \in [Class -> Nat]
  /\ reserveIngress \in [PQ -> Nat]
  /\ xoff \in [PQ -> Nat]
  /\ xon \in [PQ -> Nat]
  /\ xon_offset \in [PQ -> Nat]
  /\ alphaIngress \in [PQ -> Fraction]
  /\ alphaEgress \in [PQ -> Fraction]
  /\ Word \in Nat
  /\ MaxDrops \in Nat

(* The reserved areas are carved out of the ingress pool. *)
ASSUME ReserveFits == Total(PQ, reserveIngress) <= ingressPool

VARIABLES
  buffered,                \* packets held in the egress queues, as a bag
  ingress_bytes, egress_bytes, xoffUsed, paused,
  totalUsed, egressPoolUsed, xoffTotalUsed, totalIngressReservedUsed,
  sharedPoolUsed,
  m_admissionDropPackets

vars == <<buffered, ingress_bytes, egress_bytes, xoffUsed, paused, totalUsed,
          egressPoolUsed, xoffTotalUsed, totalIngressReservedUsed,
          sharedPoolUsed, m_admissionDropPackets>>

In(p) == <<p.in, p.q>>
Out(p) == <<p.out, p.q>>

xoffTotal == Total(PQ, xoff)
totalIngressReserved == Total(PQ, reserveIngress)

(* uint64_t subtraction *)
a -- b == IF a >= b THEN a - b ELSE a - b + Word

(* The guarded subtraction of the Remove operations: never below zero. *)
Minus(a, b) == IF a >= b THEN a - b ELSE 0

Lesser(a, b) == IF a <= b THEN a ELSE b

-----------------------------------------------------------------------------
(* Thresholds *)

(* Bytes an ingress queue that holds n bytes draws from its reserve. *)
ReservedUsed(iq, n) == Lesser(n, reserveIngress[iq])

(* GetIngressSharedUsed, for given values of the three counters. *)
SharedUsed(total, headroom, reserved) == (total -- headroom) -- reserved

(* DT: alpha times what remains of the pool, nothing when it is full. *)
DynamicThreshold(alpha, pool, used) ==
  IF pool > used THEN (alpha.num * (pool - used)) \div alpha.den ELSE 0

IngressThreshold(iq, total, headroom, reserved) ==
  DynamicThreshold(alphaIngress[iq], ingressPool - totalIngressReserved,
                   SharedUsed(total, headroom, reserved))

EgressThreshold(p) ==
  DynamicThreshold(alphaEgress[Out(p)], egressPool[p.class], egressPoolUsed[p.class])

-----------------------------------------------------------------------------
(* Admission *)

BufferFull(p) == p.size + totalUsed > bufferPool

LossyIngressDrop(p) ==
  LET n == p.size + ingress_bytes[In(p)] IN
  \/ /\ n > IngressThreshold(In(p), totalUsed, xoffTotalUsed, totalIngressReservedUsed)
     /\ n > reserveIngress[In(p)]
  \/ p.size + (totalUsed -- xoffTotalUsed) > ingressPool
  \/ BufferFull(p)

(* Mutation: the lossless bound forgets the headroom pool. *)
DropWithoutHeadroomPool(p) ==
  LET inHeadroom == xoffUsed[In(p)] > 0 IN
  \/ inHeadroom /\ p.size + xoffUsed[In(p)] > xoff[In(p)]
  \/ p.size + totalUsed > ingressPool
  \/ BufferFull(p)

(* Mutation: the headroom limit is compared without the packet's size. *)
DropWhenHeadroomExceeded(p) ==
  \/ xoffUsed[In(p)] > xoff[In(p)]
  \/ p.size + totalUsed > ingressPool + xoffTotal
  \/ BufferFull(p)

LosslessIngressDrop(p) ==
  LET inHeadroom == xoffUsed[In(p)] > 0 IN
  \/ /\ inHeadroom
     /\ p.size + ingress_bytes[In(p)] > reserveIngress[In(p)]
     /\ p.size + xoffUsed[In(p)] > xoff[In(p)]
  \/ inHeadroom /\ p.size + xoffTotalUsed > xoffTotal
  \/ p.size + totalUsed > ingressPool + xoffTotal
  \/ BufferFull(p)

CheckIngressAdmission(p) ==
  IF p.class = LOSSY THEN ~LossyIngressDrop(p) ELSE ~LosslessIngressDrop(p)

CheckEgressAdmission(p) ==
  /\ p.size + egress_bytes[Out(p)] <= EgressThreshold(p)
  /\ p.size + egressPoolUsed[p.class] <= egressPool[p.class]
  /\ ~BufferFull(p)

Admitted(p) == CheckIngressAdmission(p) /\ CheckEgressAdmission(p)

-----------------------------------------------------------------------------
(* Counter updates *)

(* Mutation: the old reserved use is not taken out. *)
RereservedTwice(iq, before, after) ==
  totalIngressReservedUsed + ReservedUsed(iq, after)

(* totalIngressReservedUsed once a queue goes from before to after bytes. *)
Rereserved(iq, before, after) ==
  Minus(totalIngressReservedUsed, ReservedUsed(iq, before)) + ReservedUsed(iq, after)

(* Mutation: the threshold test leaves the arriving packet out. *)
TakesHeadroomLate(p) ==
  LET iq == In(p) IN
  /\ p.class = LOSSLESS
  /\ \/ xoffUsed[iq] > 0
     \/ ingress_bytes[iq] > IngressThreshold(iq, totalUsed, xoffTotalUsed,
                                             totalIngressReservedUsed)

(* A lossless packet goes to headroom when its queue already uses some, or *)
(* when the queue, this packet included, is above its threshold.           *)
TakesHeadroom(p) ==
  LET iq == In(p)
      n == ingress_bytes[iq] + p.size IN
  /\ p.class = LOSSLESS
  /\ \/ xoffUsed[iq] > 0
     \/ n > IngressThreshold(iq, totalUsed + p.size, xoffTotalUsed,
                             Rereserved(iq, ingress_bytes[iq], n))

(* Mutation: the queue's old headroom stays in the total. *)
UpdateKeepsOldHeadroom(p) ==
  LET iq == In(p)
      n == ingress_bytes[iq] + p.size
      headroom == IF TakesHeadroom(p) THEN xoffUsed[iq] + p.size ELSE xoffUsed[iq] IN
  /\ totalIngressReservedUsed' = Rereserved(iq, ingress_bytes[iq], n)
  /\ ingress_bytes' = [ingress_bytes EXCEPT ![iq] = n]
  /\ totalUsed' = totalUsed + p.size
  /\ xoffUsed' = [xoffUsed EXCEPT ![iq] = headroom]
  /\ xoffTotalUsed' = IF p.class = LOSSLESS THEN xoffTotalUsed + headroom
                                            ELSE xoffTotalUsed

UpdateIngressAdmission(p) ==
  LET iq == In(p)
      n == ingress_bytes[iq] + p.size
      headroom == IF TakesHeadroom(p) THEN xoffUsed[iq] + p.size ELSE xoffUsed[iq] IN
  /\ totalIngressReservedUsed' = Rereserved(iq, ingress_bytes[iq], n)
  /\ ingress_bytes' = [ingress_bytes EXCEPT ![iq] = n]
  /\ totalUsed' = totalUsed + p.size
  /\ xoffUsed' = [xoffUsed EXCEPT ![iq] = headroom]
  /\ xoffTotalUsed' = IF p.class = LOSSLESS
                      THEN (xoffTotalUsed -- xoffUsed[iq]) + headroom
                      ELSE xoffTotalUsed

UpdateEgressAdmission(p) ==
  /\ egress_bytes' = [egress_bytes EXCEPT ![Out(p)] = @ + p.size]
  /\ egressPoolUsed' = [egressPoolUsed EXCEPT ![p.class] = @ + p.size]

(* sharedPoolUsed is charged by the ingress update for a lossless packet   *)
(* that stays out of headroom and by the egress update for a lossy one.    *)
ChargeSharedPool(p) ==
  sharedPoolUsed' = IF TakesHeadroom(p) THEN (sharedPoolUsed + p.size) -- p.size
                                        ELSE sharedPoolUsed + p.size

(* Mutation: a packet larger than the headroom left releases none of it. *)
RemoveLeavesHeadroom(p) ==
  LET iq == In(p)
      n == Minus(ingress_bytes[iq], p.size)
      h == xoffUsed[iq]
      headroom == IF p.class = LOSSLESS /\ h >= p.size THEN h - p.size ELSE h IN
  /\ totalIngressReservedUsed' = Rereserved(iq, ingress_bytes[iq], n)
  /\ ingress_bytes' = [ingress_bytes EXCEPT ![iq] = n]
  /\ totalUsed' = Minus(totalUsed, p.size)
  /\ xoffUsed' = [xoffUsed EXCEPT ![iq] = headroom]
  /\ xoffTotalUsed' = Minus(xoffTotalUsed, xoffUsed[iq]) + headroom

RemoveFromIngressAdmission(p) ==
  LET iq == In(p)
      n == Minus(ingress_bytes[iq], p.size)
      headroom == IF p.class = LOSSLESS THEN Minus(xoffUsed[iq], p.size) ELSE xoffUsed[iq] IN
  /\ totalIngressReservedUsed' = Rereserved(iq, ingress_bytes[iq], n)
  /\ ingress_bytes' = [ingress_bytes EXCEPT ![iq] = n]
  /\ totalUsed' = Minus(totalUsed, p.size)
  /\ xoffUsed' = [xoffUsed EXCEPT ![iq] = headroom]
  /\ xoffTotalUsed' = IF p.class = LOSSLESS
                      THEN Minus(xoffTotalUsed, xoffUsed[iq]) + headroom
                      ELSE xoffTotalUsed

(* Mutations: the release names the ingress queue; it names one class. *)
RemoveFromWrongQueue(p) ==
  /\ egress_bytes' = [egress_bytes EXCEPT ![In(p)] = Minus(@, p.size)]
  /\ egressPoolUsed' = [egressPoolUsed EXCEPT ![p.class] = Minus(@, p.size)]

RemoveFromLosslessPool(p) ==
  /\ egress_bytes' = [egress_bytes EXCEPT ![Out(p)] = Minus(@, p.size)]
  /\ egressPoolUsed' = [egressPoolUsed EXCEPT ![LOSSLESS] = Minus(@, p.size)]

RemoveFromEgressAdmission(p) ==
  /\ egress_bytes' = [egress_bytes EXCEPT ![Out(p)] = Minus(@, p.size)]
  /\ egressPoolUsed' = [egressPoolUsed EXCEPT ![p.class] = Minus(@, p.size)]

(* Mutations: a straddling packet releases its whole size; the release     *)
(* ignores headroom and does not clip.                                     *)
ReleaseWholePacket(p) ==
  LET h == xoffUsed[In(p)] IN
  sharedPoolUsed' = IF p.class = LOSSLESS /\ h >= p.size THEN sharedPoolUsed
                    ELSE Minus(sharedPoolUsed, p.size)

ReleaseUnguarded(p) == sharedPoolUsed' = sharedPoolUsed - p.size

(* Headroom is emptied first; only what it does not cover comes out of the *)
(* shared pool, without a guard when the packet straddles the two.         *)
ReleaseSharedPool(p) ==
  LET h == xoffUsed[In(p)] IN
  sharedPoolUsed' =
    IF p.class = LOSSY \/ h = 0 THEN Minus(sharedPoolUsed, p.size)
    ELSE IF h >= p.size THEN sharedPoolUsed
    ELSE sharedPoolUsed -- (p.size - h)

-----------------------------------------------------------------------------
(* PFC decisions *)

CheckShouldPause(iq, headroom) == ~paused[iq] /\ headroom > 0

(* Mutation: resume although headroom is in use. *)
ResumeInHeadroom(iq, n, headroom, total, totalHeadroom, reserved) ==
  /\ paused[iq]
  /\ n + xon_offset[iq] <= IngressThreshold(iq, total, totalHeadroom, reserved)

CheckShouldResume(iq, n, headroom, total, totalHeadroom, reserved) ==
  /\ paused[iq]
  /\ headroom = 0
  /\ \/ n < xon[iq]
     \/ n + xon_offset[iq] <= IngressThreshold(iq, total, totalHeadroom, reserved)

CheckAndSendPfc(iq) ==
  paused' = [paused EXCEPT ![iq] = @ \/ CheckShouldPause(iq, xoffUsed'[iq])]

(* Mutation: the check runs before the packet is removed. *)
ResumeBeforeRemove(iq) ==
  paused' = [paused EXCEPT ![iq] = @ /\
     ~CheckShouldResume(iq, ingress_bytes[iq], xoffUsed[iq], totalUsed,
                        xoffTotalUsed, totalIngressReservedUsed)]

CheckAndSendResume(iq) ==
  paused' = [paused EXCEPT ![iq] = @ /\
     ~CheckShouldResume(iq, ingress_bytes'[iq], xoffUsed'[iq], totalUsed',
                        xoffTotalUsed', totalIngressReservedUsed')]

-----------------------------------------------------------------------------
(* SwitchNode's use of the MMU *)

(* SendToDev, packet admitted: charge it, pause the peer if need be. *)
Admit(p) ==
  /\ Admitted(p)
  /\ UpdateIngressAdmission(p)
  /\ UpdateEgressAdmission(p)
  /\ ChargeSharedPool(p)
  /\ CheckAndSendPfc(In(p))
  /\ buffered' = [buffered EXCEPT ![p] = @ + 1]
  /\ UNCHANGED m_admissionDropPackets

(* SendToDev, packet refused. *)
Drop(p) ==
  /\ ~Admitted(p)
  /\ m_admissionDropPackets < MaxDrops
  /\ m_admissionDropPackets' = m_admissionDropPackets + 1
  /\ UNCHANGED <<buffered, ingress_bytes, egress_bytes, xoffUsed, paused,
                 totalUsed, egressPoolUsed, xoffTotalUsed,
                 totalIngressReservedUsed, sharedPoolUsed>>

(* SwitchNotifyDequeue, as the packet leaves its egress queue. *)
SwitchNotifyDequeue(p) ==
  /\ buffered[p] > 0
  /\ buffered' = [buffered EXCEPT ![p] = @ - 1]
  /\ RemoveFromIngressAdmission(p)
  /\ RemoveFromEgressAdmission(p)
  /\ ReleaseSharedPool(p)
  /\ CheckAndSendResume(In(p))
  /\ UNCHANGED m_admissionDropPackets

Init ==
  /\ buffered = [p \in Packet |-> 0]
  /\ ingress_bytes = [iq \in PQ |-> 0]
  /\ egress_bytes = [oq \in PQ |-> 0]
  /\ xoffUsed = [iq \in PQ |-> 0]
  /\ paused = [iq \in PQ |-> FALSE]
  /\ totalUsed = 0
  /\ egressPoolUsed = [c \in Class |-> 0]
  /\ xoffTotalUsed = 0
  /\ totalIngressReservedUsed = 0
  /\ sharedPoolUsed = 0
  /\ m_admissionDropPackets = 0

Next == \E p \in Packet : Admit(p) \/ Drop(p) \/ SwitchNotifyDequeue(p)

Spec == Init /\ [][Next]_vars

-----------------------------------------------------------------------------
(* Properties *)

(* Every counter has the shape the code declares for it. *)
TypeOK ==
  /\ buffered \in [Packet -> Nat]
  /\ ingress_bytes \in [PQ -> Nat]
  /\ egress_bytes \in [PQ -> Nat]
  /\ xoffUsed \in [PQ -> Nat]
  /\ paused \in [PQ -> BOOLEAN]
  /\ egressPoolUsed \in [Class -> Nat]
  /\ totalUsed \in Nat
  /\ xoffTotalUsed \in Nat
  /\ totalIngressReservedUsed \in Nat
  /\ sharedPoolUsed \in Nat
  /\ m_admissionDropPackets \in 0..MaxDrops

(* Bytes that a bag b of packets holds in P; those the buffer holds. *)
Weight(b, P) == Total(P, [p \in Packet |-> b[p] * p.size])
Bytes(P) == Weight(buffered, P)

FromQueue(k) == {p \in Packet : In(p) = k}
ToQueue(k) == {p \in Packet : Out(p) = k}
OfClass(c) == {p \in Packet : p.class = c}
LosslessFrom(k) == {p \in Packet : In(p) = k /\ p.class = LOSSLESS}

(* Each queue counter is exactly the bytes of the buffered packets of that *)
(* queue.  The Remove operations clip at zero ("to avoid magic scenarios   *)
(* (if a packet vanishes in the buffer)"), so a slip anywhere would lose   *)
(* bytes silently instead of failing.                                      *)
QueueCountersExact ==
  \A k \in PQ :
    /\ ingress_bytes[k] = Bytes(FromQueue(k))
    /\ egress_bytes[k] = Bytes(ToQueue(k))

(* The switch-wide counters are the bytes in the buffer, in total and per  *)
(* class: totalUsed is charged at the ingress only, the pools at the       *)
(* egress, and they must agree.                                            *)
PoolCountersExact ==
  /\ totalUsed = Bytes(Packet)
  /\ \A c \in Class : egressPoolUsed[c] = Bytes(OfClass(c))

(* The two totals kept by subtract-old, add-new stay the sums of their     *)
(* per-queue parts.                                                        *)
HeadroomTotalsExact ==
  /\ xoffTotalUsed = Total(PQ, xoffUsed)
  /\ totalIngressReservedUsed =
       Total(PQ, [iq \in PQ |-> ReservedUsed(iq, ingress_bytes[iq])])

(* sharedPoolUsed, which lossless packets move at the ingress and lossy    *)
(* ones at the egress, is what is buffered outside headroom; the unguarded *)
(* subtraction for a packet that straddles headroom never wraps.           *)
SharedPoolExact == sharedPoolUsed + xoffTotalUsed = totalUsed

(* Every byte the redundant counters hold is a byte in the buffer, and     *)
(* every byte in the buffer is in all that should count it.                *)
CountersExact ==
  QueueCountersExact /\ PoolCountersExact /\ HeadroomTotalsExact /\ SharedPoolExact

(* Headroom never counts more than the lossless bytes its queue holds:     *)
(* otherwise the queue could drain and still look as if it used headroom,  *)
(* and the peer would never be resumed.                                    *)
HeadroomBacked ==
  \A iq \in PQ : xoffUsed[iq] <= Bytes(LosslessFrom(iq))

(* No pool is overcommitted.  The ingress pool bound is not checked for a  *)
(* lossless packet; it follows from DT, from headroom being used first-in  *)
(* and from its being released first.                                      *)
PoolsRespected ==
  /\ totalUsed <= bufferPool
  /\ totalUsed <= ingressPool + xoffTotalUsed
  /\ \A c \in Class : egressPoolUsed[c] <= egressPool[c]

(* A queue that uses headroom has asked its peer to pause. *)
HeadroomPauses == \A iq \in PQ : xoffUsed[iq] > 0 => paused[iq]

(* Resume is only considered when a packet of the queue leaves, so a       *)
(* paused queue must hold a packet: an empty paused queue would keep its   *)
(* peer paused for good.  Needs a positive xon, as the default 1248 is.    *)
PausedHoldsBytes ==
  \A iq \in PQ : paused[iq] /\ xon[iq] > 0 => ingress_bytes[iq] > 0

(* Headroom and PFC keep in step: what headroom counts is in the queue, a  *)
(* queue in headroom has paused its peer, and a departure will reconsider  *)
(* every pause.                                                            *)
PfcInStep == HeadroomBacked /\ HeadroomPauses /\ PausedHoldsBytes

(* Headroom limits cover the largest packet and the reserve. *)
HeadroomConfig ==
  /\ \A p \in Packet : p.class = LOSSLESS => p.size <= xoff[In(p)]
  /\ \A iq \in PQ : reserveIngress[iq] <= xoff[iq]

(* No queue overruns its headroom limit, although the first packet that    *)
(* enters headroom is not checked against it.                              *)
HeadroomRespected == \A iq \in PQ : xoffUsed[iq] <= xoff[iq]

(* The provisioning of the long-haul experiments: the buffer holds the     *)
(* ingress pool and all the headroom, the lossless egress pool is as big   *)
(* and alpha at the egress is "sky high".                                  *)
Provisioned ==
  /\ HeadroomConfig
  /\ bufferPool >= ingressPool + xoffTotal
  /\ egressPool[LOSSLESS] >= ingressPool + xoffTotal
  /\ \A oq \in PQ : \A r \in 1..egressPool[LOSSLESS] :
       (alphaEgress[oq].num * r) \div alphaEgress[oq].den >= egressPool[LOSSLESS]

(* The promise behind PFC: so long as an ingress queue has not paused its  *)
(* peer, no lossless packet arriving on it is dropped, however full the    *)
(* rest of the switch is.                                                  *)
LosslessUntilPaused ==
  \A p \in Packet : p.class = LOSSLESS /\ ~paused[In(p)] => Admitted(p)
=============================================================================
