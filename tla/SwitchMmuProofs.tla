-------------------------- MODULE SwitchMmuProofs --------------------------
(***************************************************************************)
(* The MMU's counters are exact, its pools hold and PFC starts in time,    *)
(* for every switch: any ports, queues, packets, pool sizes and alphas     *)
(* that satisfy MmuConfig and ReserveFits.                                 *)
(***************************************************************************)
EXTENDS SwitchMmu, FiniteSetTheorems, SequenceTheorems, TLAPS

-----------------------------------------------------------------------------
(* Sums (ByteSum): a sum is a natural number, and one summand can be split *)
(* off.                                                                    *)

(* One summand x occupies f[x] cells. *)
LEMMA ColumnCells ==
  ASSUME NEW x, NEW n \in Nat
  PROVE  /\ IsFiniteSet({x} \X (1..n))
         /\ Cardinality({x} \X (1..n)) = n
<1>1. IsFiniteSet({x}) /\ Cardinality({x}) = 1
  BY FS_Singleton
<1>2. IsFiniteSet(1..n) /\ Cardinality(1..n) = n
  BY FS_Interval
<1>3. /\ IsFiniteSet({x} \X (1..n))
      /\ Cardinality({x} \X (1..n)) = Cardinality({x}) * Cardinality(1..n)
  BY <1>1, <1>2, FS_Product
<1> QED
  BY <1>1, <1>2, <1>3

(* The cells of a finite set are finitely many. *)
LEMMA CellsFinite ==
  ASSUME NEW S, IsFiniteSet(S), NEW f, \A x \in S : f[x] \in Nat
  PROVE  IsFiniteSet(Cells(S, f))
<1> DEFINE C == {{x} \X (1..f[x]) : x \in S}
           g == [x \in S |-> {x} \X (1..f[x])]
<1>1. g \in Surjection(S, C)
  BY DEF Surjection
<1>2. IsFiniteSet(C)
  <2> HIDE DEF g, C
  <2> QED BY <1>1, FS_Surjection
<1>3. ASSUME NEW T \in C
      PROVE  IsFiniteSet(T)
  <2>1. PICK x \in S : T = {x} \X (1..f[x])
    OBVIOUS
  <2> QED
    BY <2>1, ColumnCells
<1>4. IsFiniteSet(UNION C)
  <2> HIDE DEF C
  <2> QED BY <1>2, <1>3, FS_UNION
<1> QED
  BY <1>4 DEF Cells

LEMMA SumNat ==
  ASSUME NEW S, IsFiniteSet(S), NEW f, \A x \in S : f[x] \in Nat
  PROVE  Total(S, f) \in Nat
  BY CellsFinite, FS_CardinalityType DEF Total

(* Splitting off the summand of x. *)
LEMMA SumSplit ==
  ASSUME NEW S, IsFiniteSet(S), NEW f, \A y \in S : f[y] \in Nat,
         NEW x \in S
  PROVE  Total(S, f) = Total(S \ {x}, f) + f[x]
<1> DEFINE A == Cells(S \ {x}, f)
           B == {x} \X (1..f[x])
<1>1. Cells(S, f) = A \cup B
  BY DEF Cells
<1>2. A \cap B = {}
  BY DEF Cells
<1>3. IsFiniteSet(S \ {x})
  BY FS_RemoveElement
<1>4. IsFiniteSet(A)
  BY <1>3, CellsFinite
<1>5. IsFiniteSet(B) /\ Cardinality(B) = f[x]
  BY ColumnCells
<1>6. Cardinality(A) \in Nat
  BY <1>4, FS_CardinalityType
<1>7. Cardinality(A \cup B) = Cardinality(A) + Cardinality(B) - Cardinality({})
  <2> HIDE DEF A, B
  <2> QED BY <1>2, <1>4, <1>5, FS_Union
<1> QED
  BY <1>1, <1>5, <1>6, <1>7, FS_EmptySet DEF Total

(* Only the summands in S count. *)
LEMMA SumEqual ==
  ASSUME NEW S, NEW f, NEW g, \A x \in S : f[x] = g[x]
  PROVE  Total(S, f) = Total(S, g)
<1>1. {{x} \X (1..f[x]) : x \in S} = {{x} \X (1..g[x]) : x \in S}
  OBVIOUS
<1> QED
  BY <1>1 DEF Total, Cells

(* Changing one summand changes the sum by as much. *)
LEMMA SumChange ==
  ASSUME NEW S, IsFiniteSet(S), NEW f, NEW g, NEW x \in S,
         \A y \in S : f[y] \in Nat, \A y \in S : g[y] \in Nat,
         \A y \in S \ {x} : f[y] = g[y]
  PROVE  Total(S, g) = Total(S, f) - f[x] + g[x]
<1>1. Total(S, f) = Total(S \ {x}, f) + f[x]
  BY SumSplit
<1>2. Total(S, g) = Total(S \ {x}, g) + g[x]
  BY SumSplit
<1>3. Total(S \ {x}, f) = Total(S \ {x}, g)
  BY SumEqual
<1>4. Total(S \ {x}, f) \in Nat
  BY FS_RemoveElement, SumNat
<1> QED
  BY <1>1, <1>2, <1>3, <1>4

(* A sum bounds each of its summands. *)
LEMMA SumBound ==
  ASSUME NEW S, IsFiniteSet(S), NEW f, \A y \in S : f[y] \in Nat,
         NEW x \in S
  PROVE  f[x] <= Total(S, f)
<1>1. Total(S, f) = Total(S \ {x}, f) + f[x]
  BY SumSplit
<1>2. Total(S \ {x}, f) \in Nat
  BY FS_RemoveElement, SumNat
<1> QED
  BY <1>1, <1>2

(* A sum of zeros is zero. *)
LEMMA SumZero ==
  ASSUME NEW S, NEW f, \A x \in S : f[x] = 0
  PROVE  Total(S, f) = 0
<1>1. Cells(S, f) = {}
  BY DEF Cells
<1> QED
  BY <1>1, FS_EmptySet DEF Total

(* Sums grow with their summands and with their index set. *)
LEMMA SumMonotone ==
  ASSUME NEW S, IsFiniteSet(S), NEW T \in SUBSET S, NEW f, NEW g,
         \A x \in S : f[x] \in Nat, \A x \in S : g[x] \in Nat,
         \A x \in T : f[x] <= g[x]
  PROVE  Total(T, f) <= Total(S, g)
<1>1. Cells(T, f) \subseteq Cells(S, g)
  <2> SUFFICES ASSUME NEW x \in T, NEW c \in {x} \X (1..f[x])
               PROVE  c \in {x} \X (1..g[x])
    BY DEF Cells
  <2> QED
    OBVIOUS
<1>2. IsFiniteSet(Cells(S, g))
  BY CellsFinite
<1> QED
  BY <1>1, <1>2, FS_Subset DEF Total


-----------------------------------------------------------------------------
(* Bags of packets *)

LEMMA FiniteIndices ==
  /\ IsFiniteSet(PQ)
  /\ \A P \in SUBSET Packet : IsFiniteSet(P)
<1>1. IsFiniteSet(PQ)
  BY MmuConfig, FS_Product DEF PQ
<1>2. ASSUME NEW P \in SUBSET Packet
      PROVE  IsFiniteSet(P)
  BY MmuConfig, FS_Subset
<1> QED
  BY <1>1, <1>2

LEMMA PacketType ==
  ASSUME NEW p \in Packet
  PROVE  /\ p.size \in Nat
         /\ p.size > 0
         /\ p.class \in Class
         /\ In(p) \in PQ
         /\ Out(p) \in PQ
  BY MmuConfig DEF In, Out, PQ

LEMMA WeightNat ==
  ASSUME NEW b \in [Packet -> Nat], NEW P \in SUBSET Packet
  PROVE  Weight(b, P) \in Nat
<1> DEFINE w == [p \in Packet |-> b[p] * p.size]
<1>1. \A p \in P : w[p] \in Nat
  BY PacketType
<1>2. IsFiniteSet(P)
  BY FiniteIndices
<1> HIDE DEF w
<1>3. Total(P, w) \in Nat
  BY <1>1, <1>2, SumNat
<1> QED
  BY <1>3 DEF Weight, w

(* A bag that gains one packet p gains its size where p belongs. *)
LEMMA WeightAdd ==
  ASSUME NEW b \in [Packet -> Nat], NEW p \in Packet, NEW P \in SUBSET Packet
  PROVE  Weight([b EXCEPT ![p] = @ + 1], P) =
           Weight(b, P) + (IF p \in P THEN p.size ELSE 0)
<1> DEFINE c == [b EXCEPT ![p] = @ + 1]
           v == [r \in Packet |-> b[r] * r.size]
           w == [r \in Packet |-> c[r] * r.size]
<1>1. /\ \A r \in P : v[r] \in Nat
      /\ \A r \in P : w[r] \in Nat
  BY PacketType
<1>2. \A r \in P \ {p} : v[r] = w[r]
  OBVIOUS
<1>3. p \in P => w[p] = v[p] + p.size
  <2>1. c[p] = b[p] + 1 /\ b[p] \in Nat /\ p.size \in Nat
    BY PacketType
  <2> QED
    BY <2>1
<1>4. IsFiniteSet(P)
  BY FiniteIndices
<1>5. Weight(c, P) = Total(P, w) /\ Weight(b, P) = Total(P, v)
  BY DEF Weight
<1>6. Total(P, v) \in Nat
  BY <1>5, WeightNat
<1> HIDE DEF c, v, w
<1>7. CASE p \in P
  <2>1. Total(P, w) = Total(P, v) - v[p] + w[p]
    BY <1>1, <1>2, <1>4, <1>7, SumChange
  <2> QED
    BY <1>1, <1>3, <1>5, <1>6, <1>7, <2>1, PacketType DEF c
<1>8. CASE p \notin P
  <2>1. Total(P, v) = Total(P, w)
    BY <1>2, <1>8, SumEqual
  <2> QED
    BY <1>5, <1>6, <1>8, <2>1 DEF c
<1> QED
  BY <1>7, <1>8

(* A bag that loses one packet p loses its size where p belongs. *)
LEMMA WeightRemove ==
  ASSUME NEW b \in [Packet -> Nat], NEW p \in Packet, NEW P \in SUBSET Packet,
         b[p] > 0
  PROVE  Weight(b, P) = Weight([b EXCEPT ![p] = @ - 1], P)
                          + (IF p \in P THEN p.size ELSE 0)
<1> DEFINE c == [b EXCEPT ![p] = @ - 1]
<1>1. c \in [Packet -> Nat]
  OBVIOUS
<1>2. b = [c EXCEPT ![p] = @ + 1]
  <2>1. b[p] \in Nat
    OBVIOUS
  <2>2. \A r \in Packet : b[r] = [c EXCEPT ![p] = @ + 1][r]
    BY <2>1
  <2> QED
    BY <2>2
<1> HIDE DEF c
<1>3. Weight([c EXCEPT ![p] = @ + 1], P) = Weight(c, P) + (IF p \in P THEN p.size ELSE 0)
  BY <1>1, WeightAdd
<1> QED
  BY <1>2, <1>3 DEF c

LEMMA WeightSubset ==
  ASSUME NEW b \in [Packet -> Nat], NEW P \in SUBSET Packet, NEW R \in SUBSET P
  PROVE  Weight(b, R) <= Weight(b, P)
<1> DEFINE w == [p \in Packet |-> b[p] * p.size]
<1>1. \A p \in P : w[p] \in Nat
  BY PacketType
<1>2. IsFiniteSet(P)
  BY FiniteIndices
<1>3. \A p \in R : w[p] <= w[p]
  BY <1>1
<1> HIDE DEF w
<1>4. Total(R, w) <= Total(P, w)
  BY <1>1, <1>2, <1>3, SumMonotone
<1> QED
  BY <1>4 DEF Weight, w

-----------------------------------------------------------------------------
(* The inductive invariant *)

LosslessBytes == [k \in PQ |-> Bytes(LosslessFrom(k))]

(* Two more views of the buffer's contents.  Without the first, nothing    *)
(* relates the headroom of all queues to the lossless bytes of all queues, *)
(* and a queue that releases headroom could seem to release another's.     *)
ByQueueAndClass ==
  /\ Total(PQ, LosslessBytes) = egressPoolUsed[LOSSLESS]
  /\ totalUsed = egressPoolUsed[LOSSLESS] + egressPoolUsed[LOSSY]

Exact ==
  /\ QueueCountersExact
  /\ PoolCountersExact
  /\ HeadroomTotalsExact
  /\ SharedPoolExact
  /\ HeadroomBacked
  /\ ByQueueAndClass

IInv == TypeOK /\ Exact /\ PoolsRespected /\ HeadroomPauses /\ PausedHoldsBytes

(* The bytes of any set of packets after Admit and SwitchNotifyDequeue. *)
LEMMA BytesAdmit ==
  ASSUME TypeOK, NEW p \in Packet, NEW P \in SUBSET Packet,
         buffered' = [buffered EXCEPT ![p] = @ + 1]
  PROVE  /\ Bytes(P) \in Nat
         /\ Bytes(P)' = Bytes(P) + (IF p \in P THEN p.size ELSE 0)
<1>1. buffered \in [Packet -> Nat]
  BY DEF TypeOK
<1>2. Weight([buffered EXCEPT ![p] = @ + 1], P)
        = Weight(buffered, P) + (IF p \in P THEN p.size ELSE 0)
  BY <1>1, WeightAdd
<1> QED
  BY <1>1, <1>2, WeightNat DEF Bytes

LEMMA BytesDequeue ==
  ASSUME TypeOK, NEW p \in Packet, NEW P \in SUBSET Packet,
         buffered[p] > 0, buffered' = [buffered EXCEPT ![p] = @ - 1]
  PROVE  /\ Bytes(P) \in Nat
         /\ Bytes(P)' \in Nat
         /\ Bytes(P) = Bytes(P)' + (IF p \in P THEN p.size ELSE 0)
<1>1. buffered \in [Packet -> Nat]
  BY DEF TypeOK
<1>2. Weight(buffered, P) = Weight([buffered EXCEPT ![p] = @ - 1], P)
                              + (IF p \in P THEN p.size ELSE 0)
  BY <1>1, WeightRemove
<1>3. buffered' \in [Packet -> Nat]
  BY <1>1
<1> QED
  BY <1>1, <1>2, <1>3, WeightNat DEF Bytes

LEMMA QueueSets ==
  /\ \A k \in PQ : /\ FromQueue(k) \in SUBSET Packet
                   /\ ToQueue(k) \in SUBSET Packet
                   /\ LosslessFrom(k) \in SUBSET FromQueue(k)
                   /\ LosslessFrom(k) \in SUBSET Packet
  /\ \A c \in Class : OfClass(c) \in SUBSET Packet
  BY DEF FromQueue, ToQueue, LosslessFrom, OfClass

(* What the sums say about single queues in an invariant state. *)
LEMMA Bounds ==
  ASSUME TypeOK, Exact
  PROVE  /\ \A k \in PQ : /\ LosslessBytes[k] \in Nat
                          /\ xoffUsed[k] <= LosslessBytes[k]
                          /\ LosslessBytes[k] <= ingress_bytes[k]
                          /\ xoffUsed[k] <= xoffTotalUsed
                          /\ ReservedUsed(k, ingress_bytes[k]) <= totalIngressReservedUsed
                          /\ LosslessBytes[k] - xoffUsed[k]
                               <= egressPoolUsed[LOSSLESS] - xoffTotalUsed
         /\ totalIngressReservedUsed <= totalIngressReserved
         /\ totalIngressReserved <= ingressPool
         /\ totalIngressReserved \in Nat
         /\ xoffTotal \in Nat
<1> DEFINE resv == [k \in PQ |-> ReservedUsed(k, ingress_bytes[k])]
<1>1. IsFiniteSet(PQ) /\ PQ \in SUBSET PQ
  BY FiniteIndices
<1>2. \A k \in PQ : xoffUsed[k] \in Nat /\ ingress_bytes[k] \in Nat
  BY DEF TypeOK
<1>3. \A k \in PQ : reserveIngress[k] \in Nat /\ xoff[k] \in Nat
  BY MmuConfig
<1>4. \A k \in PQ : resv[k] \in Nat /\ resv[k] <= reserveIngress[k]
  BY <1>2, <1>3 DEF ReservedUsed, Lesser
<1>5. \A k \in PQ : LosslessBytes[k] \in Nat
  BY QueueSets, WeightNat DEF TypeOK, LosslessBytes, Bytes
<1>6. \A k \in PQ : LosslessBytes[k] <= ingress_bytes[k]
  <2> TAKE k \in PQ
  <2>1. Weight(buffered, LosslessFrom(k)) <= Weight(buffered, FromQueue(k))
    BY QueueSets, WeightSubset DEF TypeOK
  <2> QED
    BY <2>1 DEF Exact, QueueCountersExact, LosslessBytes, Bytes
<1>7. \A k \in PQ : xoffUsed[k] <= LosslessBytes[k]
  BY DEF Exact, HeadroomBacked, LosslessBytes
<1>8. \A k \in PQ : xoffUsed[k] <= xoffTotalUsed
  BY <1>1, <1>2, SumBound DEF Exact, HeadroomTotalsExact
<1>9. \A k \in PQ : resv[k] <= totalIngressReservedUsed
  <2> TAKE k \in PQ
  <2> HIDE DEF resv
  <2>1. resv[k] <= Total(PQ, resv)
    BY <1>1, <1>4, SumBound
  <2> QED
    BY <2>1 DEF Exact, HeadroomTotalsExact, resv
<1>10. totalIngressReservedUsed <= totalIngressReserved
  <2> HIDE DEF resv
  <2>1. Total(PQ, resv) <= Total(PQ, reserveIngress)
    BY <1>1, <1>3, <1>4, SumMonotone
  <2> QED
    BY <2>1 DEF Exact, HeadroomTotalsExact, totalIngressReserved, resv
<1>11. totalIngressReserved \in Nat /\ xoffTotal \in Nat
  BY <1>1, <1>3, SumNat DEF totalIngressReserved, xoffTotal
<1>12. totalIngressReserved <= ingressPool
  BY ReserveFits DEF totalIngressReserved
<1>13. ASSUME NEW k \in PQ
       PROVE  LosslessBytes[k] - xoffUsed[k]
                <= egressPoolUsed[LOSSLESS] - xoffTotalUsed
  <2>1. Total(PQ, LosslessBytes) = Total(PQ \ {k}, LosslessBytes) + LosslessBytes[k]
    BY <1>1, <1>5, SumSplit
  <2>2. Total(PQ, xoffUsed) = Total(PQ \ {k}, xoffUsed) + xoffUsed[k]
    BY <1>1, <1>2, SumSplit
  <2>3. IsFiniteSet(PQ \ {k})
    BY <1>1, FS_RemoveElement
  <2>4. Total(PQ \ {k}, xoffUsed) <= Total(PQ \ {k}, LosslessBytes)
    BY <2>3, <1>2, <1>5, <1>7, SumMonotone
  <2>5. Total(PQ \ {k}, xoffUsed) \in Nat /\ Total(PQ \ {k}, LosslessBytes) \in Nat
    BY <2>3, <1>2, <1>5, SumNat
  <2> QED
    BY <2>1, <2>2, <2>4, <2>5, <1>2, <1>5
       DEF Exact, ByQueueAndClass, HeadroomTotalsExact
<1> QED
  BY <1>4, <1>5, <1>6, <1>7, <1>8, <1>9, <1>10, <1>11, <1>12, <1>13

-----------------------------------------------------------------------------
(* The initial state *)

LEMMA InitInv == Init => IInv
<1> SUFFICES ASSUME Init
             PROVE  IInv
  OBVIOUS
<1>1. TypeOK
  BY MmuConfig DEF Init, TypeOK
<1>2. ASSUME NEW P \in SUBSET Packet
      PROVE  Bytes(P) = 0
  <2> DEFINE w == [p \in Packet |-> buffered[p] * p.size]
  <2>1. \A p \in P : w[p] = 0
    BY PacketType DEF Init
  <2> HIDE DEF w
  <2>2. Total(P, w) = 0
    BY <2>1, SumZero
  <2> QED
    BY <2>2 DEF Bytes, Weight, w
<1>3. QueueCountersExact
  BY <1>2, QueueSets DEF Init, QueueCountersExact
<1>4. PoolCountersExact
  BY <1>2, QueueSets DEF Init, PoolCountersExact
<1>5. HeadroomTotalsExact
  <2> DEFINE resv == [k \in PQ |-> ReservedUsed(k, ingress_bytes[k])]
  <2>1. \A k \in PQ : xoffUsed[k] = 0 /\ resv[k] = 0
    BY MmuConfig DEF Init, ReservedUsed, Lesser
  <2> HIDE DEF resv
  <2>2. Total(PQ, xoffUsed) = 0 /\ Total(PQ, resv) = 0
    BY <2>1, SumZero
  <2> QED
    BY <2>2 DEF Init, HeadroomTotalsExact, resv
<1>6. SharedPoolExact
  BY DEF Init, SharedPoolExact
<1>7. HeadroomBacked
  BY <1>2, QueueSets DEF Init, HeadroomBacked
<1>8. ByQueueAndClass
  <2>1. \A k \in PQ : LosslessBytes[k] = 0
    BY <1>2, QueueSets DEF LosslessBytes
  <2>2. Total(PQ, LosslessBytes) = 0
    BY <2>1, SumZero
  <2> QED
    BY <2>2 DEF Init, ByQueueAndClass, Class
<1>9. PoolsRespected
  BY MmuConfig DEF Init, PoolsRespected
<1>10. HeadroomPauses /\ PausedHoldsBytes
  BY DEF Init, HeadroomPauses, PausedHoldsBytes
<1> QED
  BY <1>1, <1>3, <1>4, <1>5, <1>6, <1>7, <1>8, <1>9, <1>10 DEF IInv, Exact

-----------------------------------------------------------------------------
(* What a step does to the counters.  None of the clips and none of the    *)
(* unsigned subtractions in the updates ever takes effect.                 *)

HeadroomTaken(p) == IF TakesHeadroom(p) THEN p.size ELSE 0

HeadroomFreed(p) ==
  IF p.class = LOSSLESS THEN Lesser(xoffUsed[In(p)], p.size) ELSE 0

LEMMA AdmitEffect ==
  ASSUME IInv, NEW p \in Packet, Admit(p)
  PROVE  /\ HeadroomTaken(p) \in {0, p.size}
         /\ HeadroomTaken(p) > 0 => p.class = LOSSLESS
         /\ ingress_bytes' = [ingress_bytes EXCEPT ![In(p)] = @ + p.size]
         /\ egress_bytes' = [egress_bytes EXCEPT ![Out(p)] = @ + p.size]
         /\ xoffUsed' = [xoffUsed EXCEPT ![In(p)] = @ + HeadroomTaken(p)]
         /\ totalUsed' = totalUsed + p.size
         /\ egressPoolUsed' = [egressPoolUsed EXCEPT ![p.class] = @ + p.size]
         /\ xoffTotalUsed' = xoffTotalUsed + HeadroomTaken(p)
         /\ totalIngressReservedUsed' = totalIngressReservedUsed
              - ReservedUsed(In(p), ingress_bytes[In(p)])
              + ReservedUsed(In(p), ingress_bytes'[In(p)])
         /\ sharedPoolUsed' = sharedPoolUsed + p.size - HeadroomTaken(p)
<1> DEFINE iq == In(p)
           h == HeadroomTaken(p)
<1>1. TypeOK /\ Exact
  BY DEF IInv
<1>2. p.size \in Nat /\ p.size > 0 /\ p.class \in Class /\ iq \in PQ
  BY PacketType
<1>3. /\ ingress_bytes[iq] \in Nat
      /\ xoffUsed[iq] \in Nat
      /\ xoffTotalUsed \in Nat
      /\ xoffUsed[iq] <= xoffTotalUsed
      /\ totalIngressReservedUsed \in Nat
      /\ sharedPoolUsed \in Nat
  BY <1>1, <1>2, Bounds DEF TypeOK
<1>4. /\ ReservedUsed(iq, ingress_bytes[iq]) <= totalIngressReservedUsed
      /\ ReservedUsed(iq, ingress_bytes[iq]) \in Nat
  BY <1>1, <1>2, <1>3, Bounds, MmuConfig DEF ReservedUsed, Lesser
<1>5. h \in {0, p.size} /\ (h > 0 => p.class = LOSSLESS)
  BY DEF HeadroomTaken, TakesHeadroom
<1>6. /\ ingress_bytes' = [ingress_bytes EXCEPT ![iq] = @ + p.size]
      /\ egress_bytes' = [egress_bytes EXCEPT ![Out(p)] = @ + p.size]
      /\ totalUsed' = totalUsed + p.size
      /\ egressPoolUsed' = [egressPoolUsed EXCEPT ![p.class] = @ + p.size]
  BY DEF Admit, UpdateIngressAdmission, UpdateEgressAdmission
<1>7. xoffUsed' = [xoffUsed EXCEPT ![iq] = @ + h]
  <2>1. xoffUsed' = [xoffUsed EXCEPT ![iq] =
                       IF TakesHeadroom(p) THEN xoffUsed[iq] + p.size ELSE xoffUsed[iq]]
    BY DEF Admit, UpdateIngressAdmission
  <2>2. (IF TakesHeadroom(p) THEN xoffUsed[iq] + p.size ELSE xoffUsed[iq]) = xoffUsed[iq] + h
    BY <1>3 DEF HeadroomTaken
  <2> QED
    BY <2>1, <2>2
<1>8. xoffTotalUsed' = xoffTotalUsed + h
  <2>1. xoffTotalUsed' =
          IF p.class = LOSSLESS
          THEN (xoffTotalUsed -- xoffUsed[iq])
                 + (IF TakesHeadroom(p) THEN xoffUsed[iq] + p.size ELSE xoffUsed[iq])
          ELSE xoffTotalUsed
    BY DEF Admit, UpdateIngressAdmission
  <2> QED
    BY <2>1, <1>2, <1>3, <1>5 DEF HeadroomTaken, --
<1>9. totalIngressReservedUsed' = totalIngressReservedUsed
        - ReservedUsed(iq, ingress_bytes[iq]) + ReservedUsed(iq, ingress_bytes'[iq])
  <2>1. totalIngressReservedUsed' =
          Rereserved(iq, ingress_bytes[iq], ingress_bytes[iq] + p.size)
    BY DEF Admit, UpdateIngressAdmission
  <2>2. ingress_bytes'[iq] = ingress_bytes[iq] + p.size
    BY <1>1, <1>2, <1>6 DEF TypeOK
  <2> QED
    BY <2>1, <2>2, <1>3, <1>4 DEF Rereserved, Minus
<1>10. sharedPoolUsed' = sharedPoolUsed + p.size - h
  <2>1. sharedPoolUsed' = IF TakesHeadroom(p)
                          THEN (sharedPoolUsed + p.size) -- p.size
                          ELSE sharedPoolUsed + p.size
    BY DEF Admit, ChargeSharedPool
  <2> QED
    BY <2>1, <1>2, <1>3 DEF HeadroomTaken, --
<1> QED
  BY <1>5, <1>6, <1>7, <1>8, <1>9, <1>10

LEMMA DequeueEffect ==
  ASSUME IInv, NEW p \in Packet, SwitchNotifyDequeue(p)
  PROVE  /\ HeadroomFreed(p) \in Nat
         /\ HeadroomFreed(p) <= p.size
         /\ HeadroomFreed(p) <= xoffUsed[In(p)]
         /\ p.class = LOSSLESS => HeadroomFreed(p) = p.size \/ HeadroomFreed(p) = xoffUsed[In(p)]
         /\ p.class = LOSSY => HeadroomFreed(p) = 0
         /\ p.size <= ingress_bytes[In(p)]
         /\ p.size <= egress_bytes[Out(p)]
         /\ p.size <= totalUsed
         /\ p.size <= egressPoolUsed[p.class]
         /\ ingress_bytes' = [ingress_bytes EXCEPT ![In(p)] = @ - p.size]
         /\ egress_bytes' = [egress_bytes EXCEPT ![Out(p)] = @ - p.size]
         /\ xoffUsed' = [xoffUsed EXCEPT ![In(p)] = @ - HeadroomFreed(p)]
         /\ totalUsed' = totalUsed - p.size
         /\ egressPoolUsed' = [egressPoolUsed EXCEPT ![p.class] = @ - p.size]
         /\ xoffTotalUsed' = xoffTotalUsed - HeadroomFreed(p)
         /\ totalIngressReservedUsed' = totalIngressReservedUsed
              - ReservedUsed(In(p), ingress_bytes[In(p)])
              + ReservedUsed(In(p), ingress_bytes'[In(p)])
         /\ p.size - HeadroomFreed(p) <= sharedPoolUsed
         /\ sharedPoolUsed' = sharedPoolUsed - (p.size - HeadroomFreed(p))
<1> DEFINE iq == In(p)
           oq == Out(p)
           f == HeadroomFreed(p)
<1>1. TypeOK /\ Exact
  BY DEF IInv
<1>2. p.size \in Nat /\ p.size > 0 /\ p.class \in Class /\ iq \in PQ /\ oq \in PQ
  BY PacketType
<1>3. /\ ingress_bytes[iq] \in Nat
      /\ egress_bytes[oq] \in Nat
      /\ egressPoolUsed[p.class] \in Nat
      /\ egressPoolUsed[LOSSLESS] \in Nat
      /\ egressPoolUsed[LOSSY] \in Nat
      /\ xoffUsed[iq] \in Nat
      /\ xoffTotalUsed \in Nat
      /\ xoffUsed[iq] <= xoffTotalUsed
      /\ totalIngressReservedUsed \in Nat
      /\ sharedPoolUsed \in Nat
      /\ totalUsed \in Nat
  BY <1>1, <1>2, Bounds DEF TypeOK, Class
<1>4. /\ ReservedUsed(iq, ingress_bytes[iq]) <= totalIngressReservedUsed
      /\ ReservedUsed(iq, ingress_bytes[iq]) \in Nat
  BY <1>1, <1>2, <1>3, Bounds, MmuConfig DEF ReservedUsed, Lesser
<1>5. /\ f \in Nat /\ f <= p.size /\ f <= xoffUsed[iq]
      /\ p.class = LOSSLESS => f = p.size \/ f = xoffUsed[iq]
      /\ p.class = LOSSY => f = 0
  BY <1>2, <1>3 DEF HeadroomFreed, Lesser, LOSSLESS, LOSSY
(* The packet's bytes are in every counter it leaves. *)
<1>6. ASSUME NEW P \in SUBSET Packet, p \in P
      PROVE  p.size <= Bytes(P)
  <2>1. Bytes(P)' \in Nat /\ Bytes(P) = Bytes(P)' + p.size
    BY <1>1, <1>6, BytesDequeue DEF SwitchNotifyDequeue
  <2> QED
    BY <2>1, <1>2
<1>7. p.size <= ingress_bytes[iq]
  BY <1>1, <1>2, <1>6, QueueSets DEF Exact, QueueCountersExact, FromQueue
<1>8. p.size <= egress_bytes[oq]
  BY <1>1, <1>2, <1>6, QueueSets DEF Exact, QueueCountersExact, ToQueue
<1>9. p.size <= totalUsed
  BY <1>1, <1>2, <1>6 DEF Exact, PoolCountersExact
<1>10. p.size <= egressPoolUsed[p.class]
  BY <1>1, <1>2, <1>6, QueueSets DEF Exact, PoolCountersExact, OfClass
<1>11. p.class = LOSSLESS => p.size <= LosslessBytes[iq]
  <2> SUFFICES ASSUME p.class = LOSSLESS
               PROVE  p.size <= LosslessBytes[iq]
    OBVIOUS
  <2>1. p \in LosslessFrom(iq)
    BY DEF LosslessFrom
  <2> QED
    BY <2>1, <1>2, <1>6, QueueSets DEF LosslessBytes
(* What the headroom does not cover, the shared pool holds. *)
<1>12. p.size - f <= sharedPoolUsed
  <2>1. /\ LosslessBytes[iq] \in Nat
        /\ xoffUsed[iq] <= LosslessBytes[iq]
        /\ LosslessBytes[iq] - xoffUsed[iq] <= egressPoolUsed[LOSSLESS] - xoffTotalUsed
    BY <1>1, <1>2, Bounds
  <2>2. sharedPoolUsed = (egressPoolUsed[LOSSLESS] - xoffTotalUsed) + egressPoolUsed[LOSSY]
    BY <1>1, <1>3 DEF Exact, SharedPoolExact, ByQueueAndClass
  <2>3. CASE p.class = LOSSLESS
    BY <1>2, <1>3, <1>5, <1>11, <2>1, <2>2, <2>3
  <2>4. CASE p.class = LOSSY
    BY <1>2, <1>3, <1>5, <1>10, <2>1, <2>2, <2>4
  <2> QED
    BY <2>3, <2>4, <1>2 DEF Class
<1>13. /\ ingress_bytes' = [ingress_bytes EXCEPT ![iq] = @ - p.size]
       /\ totalUsed' = totalUsed - p.size
  BY <1>2, <1>3, <1>7, <1>9
     DEF SwitchNotifyDequeue, RemoveFromIngressAdmission, Minus
<1>14. egress_bytes' = [egress_bytes EXCEPT ![oq] = @ - p.size]
  BY <1>1, <1>2, <1>3, <1>8
     DEF SwitchNotifyDequeue, RemoveFromEgressAdmission, Minus, TypeOK
<1>15. egressPoolUsed' = [egressPoolUsed EXCEPT ![p.class] = @ - p.size]
  BY <1>1, <1>2, <1>3, <1>10
     DEF SwitchNotifyDequeue, RemoveFromEgressAdmission, Minus, TypeOK
<1>16. (IF p.class = LOSSLESS THEN Minus(xoffUsed[iq], p.size) ELSE xoffUsed[iq])
         = xoffUsed[iq] - f
  BY <1>2, <1>3 DEF HeadroomFreed, Lesser, Minus, LOSSLESS, LOSSY
<1>17. xoffUsed' = [xoffUsed EXCEPT ![iq] = @ - f]
  BY <1>16 DEF SwitchNotifyDequeue, RemoveFromIngressAdmission
<1>18. xoffTotalUsed' = xoffTotalUsed - f
  <2>1. xoffTotalUsed' =
          IF p.class = LOSSLESS
          THEN Minus(xoffTotalUsed, xoffUsed[iq])
                 + (IF p.class = LOSSLESS THEN Minus(xoffUsed[iq], p.size) ELSE xoffUsed[iq])
          ELSE xoffTotalUsed
    BY DEF SwitchNotifyDequeue, RemoveFromIngressAdmission
  <2> QED
    BY <2>1, <1>2, <1>3, <1>5, <1>16 DEF Minus, Class
<1>19. totalIngressReservedUsed' = totalIngressReservedUsed
         - ReservedUsed(iq, ingress_bytes[iq]) + ReservedUsed(iq, ingress_bytes'[iq])
  <2>1. totalIngressReservedUsed' =
          Rereserved(iq, ingress_bytes[iq], Minus(ingress_bytes[iq], p.size))
    BY DEF SwitchNotifyDequeue, RemoveFromIngressAdmission
  <2>2. ingress_bytes'[iq] = Minus(ingress_bytes[iq], p.size)
    BY <1>1, <1>2, <1>3, <1>7, <1>13 DEF TypeOK, Minus
  <2> QED
    BY <2>1, <2>2, <1>3, <1>4 DEF Rereserved, Minus
<1>20. sharedPoolUsed' = sharedPoolUsed - (p.size - f)
  <2>1. sharedPoolUsed' =
          IF p.class = LOSSY \/ xoffUsed[iq] = 0 THEN Minus(sharedPoolUsed, p.size)
          ELSE IF xoffUsed[iq] >= p.size THEN sharedPoolUsed
          ELSE sharedPoolUsed -- (p.size - xoffUsed[iq])
    BY DEF SwitchNotifyDequeue, ReleaseSharedPool
  <2> QED
    BY <2>1, <1>2, <1>3, <1>5, <1>12
       DEF HeadroomFreed, Lesser, Minus, --, Class, LOSSLESS, LOSSY
<1> QED
  BY <1>5, <1>7, <1>8, <1>9, <1>10, <1>12, <1>13, <1>14, <1>15, <1>17, <1>18, <1>19, <1>20

-----------------------------------------------------------------------------
(* The counters stay exact *)

(* One entry of a per-queue array changes. *)
LEMMA SumExcept ==
  ASSUME NEW f, NEW g, NEW k \in PQ,
         \A j \in PQ : f[j] \in Nat, \A j \in PQ : g[j] \in Nat,
         \A j \in PQ \ {k} : g[j] = f[j]
  PROVE  Total(PQ, g) = Total(PQ, f) - f[k] + g[k]
<1>1. IsFiniteSet(PQ)
  BY FiniteIndices
<1> QED
  BY <1>1, SumChange

(* The reserve total follows the one queue a step touches. *)
LEMMA ReservedTotal ==
  ASSUME TypeOK, ingress_bytes' \in [PQ -> Nat], NEW k \in PQ,
         \A j \in PQ \ {k} : ingress_bytes'[j] = ingress_bytes[j],
         totalIngressReservedUsed = Total(PQ, [j \in PQ |-> ReservedUsed(j, ingress_bytes[j])]),
         totalIngressReservedUsed' = totalIngressReservedUsed
           - ReservedUsed(k, ingress_bytes[k]) + ReservedUsed(k, ingress_bytes'[k])
  PROVE  totalIngressReservedUsed' =
           Total(PQ, [j \in PQ |-> ReservedUsed(j, ingress_bytes'[j])])
<1> DEFINE f == [j \in PQ |-> ReservedUsed(j, ingress_bytes[j])]
           g == [j \in PQ |-> ReservedUsed(j, ingress_bytes'[j])]
<1>1. \A j \in PQ : f[j] \in Nat
  BY MmuConfig DEF TypeOK, ReservedUsed, Lesser
<1>2. \A j \in PQ : g[j] \in Nat
  BY MmuConfig DEF ReservedUsed, Lesser
<1>3. \A j \in PQ \ {k} : g[j] = f[j]
  OBVIOUS
<1>4. f[k] = ReservedUsed(k, ingress_bytes[k]) /\ g[k] = ReservedUsed(k, ingress_bytes'[k])
  OBVIOUS
<1>5. totalIngressReservedUsed = Total(PQ, f)
  OBVIOUS
<1> HIDE DEF f, g
<1>6. Total(PQ, g) = Total(PQ, f) - f[k] + g[k]
  BY <1>1, <1>2, <1>3, SumExcept
<1> QED
  BY <1>4, <1>5, <1>6 DEF g

LEMMA AdmitExact ==
  ASSUME IInv, NEW p \in Packet, Admit(p)
  PROVE  TypeOK' /\ Exact'
<1> DEFINE iq == In(p)
           oq == Out(p)
           h == HeadroomTaken(p)
<1>1. TypeOK /\ Exact
  BY DEF IInv
<1>2. p.size \in Nat /\ p.size > 0 /\ p.class \in Class /\ iq \in PQ /\ oq \in PQ
  BY PacketType
<1>3. h \in Nat /\ h \in {0, p.size} /\ (h > 0 => p.class = LOSSLESS)
  BY <1>2, AdmitEffect
<1>4. /\ ingress_bytes' = [ingress_bytes EXCEPT ![iq] = @ + p.size]
      /\ egress_bytes' = [egress_bytes EXCEPT ![oq] = @ + p.size]
      /\ xoffUsed' = [xoffUsed EXCEPT ![iq] = @ + h]
      /\ totalUsed' = totalUsed + p.size
      /\ egressPoolUsed' = [egressPoolUsed EXCEPT ![p.class] = @ + p.size]
      /\ xoffTotalUsed' = xoffTotalUsed + h
      /\ sharedPoolUsed' = sharedPoolUsed + p.size - h
  BY AdmitEffect
<1>5. ASSUME NEW P \in SUBSET Packet
      PROVE  /\ Bytes(P) \in Nat
             /\ Bytes(P)' = Bytes(P) + (IF p \in P THEN p.size ELSE 0)
  BY <1>1, BytesAdmit DEF Admit
<1>6. TypeOK'
  <2>1. buffered' \in [Packet -> Nat]
    BY <1>1 DEF TypeOK, Admit
  <2>2. ingress_bytes' \in [PQ -> Nat]
    BY <1>1, <1>2, <1>4 DEF TypeOK
  <2>3. egress_bytes' \in [PQ -> Nat]
    BY <1>1, <1>2, <1>4 DEF TypeOK
  <2>4. xoffUsed' \in [PQ -> Nat]
    BY <1>1, <1>2, <1>3, <1>4 DEF TypeOK
  <2>5. egressPoolUsed' \in [Class -> Nat]
    BY <1>1, <1>2, <1>4 DEF TypeOK
  <2>6. paused' \in [PQ -> BOOLEAN]
    BY <1>1 DEF TypeOK, Admit, CheckAndSendPfc
  <2>7. totalUsed' \in Nat /\ xoffTotalUsed' \in Nat /\ sharedPoolUsed' \in Nat
    BY <1>1, <1>2, <1>3, <1>4 DEF TypeOK
  <2>8. totalIngressReservedUsed' \in Nat
    <3>1. ingress_bytes'[iq] \in Nat
      BY <2>2, <1>2
    <3>2. ReservedUsed(iq, ingress_bytes'[iq]) \in Nat
      BY <3>1, <1>2, MmuConfig DEF ReservedUsed, Lesser
    <3>3. /\ ReservedUsed(iq, ingress_bytes[iq]) \in Nat
          /\ ReservedUsed(iq, ingress_bytes[iq]) <= totalIngressReservedUsed
      BY <1>1, <1>2, Bounds, MmuConfig DEF ReservedUsed, Lesser, TypeOK
    <3> QED
      BY <3>2, <3>3, <1>1, AdmitEffect DEF TypeOK
  <2>9. m_admissionDropPackets' \in 0..MaxDrops
    BY <1>1 DEF TypeOK, Admit
  <2> QED
    BY <2>1, <2>2, <2>3, <2>4, <2>5, <2>6, <2>7, <2>8, <2>9 DEF TypeOK
<1>7. QueueCountersExact'
  <2> SUFFICES ASSUME NEW k \in PQ
               PROVE  /\ ingress_bytes'[k] = Bytes(FromQueue(k))'
                      /\ egress_bytes'[k] = Bytes(ToQueue(k))'
    BY DEF QueueCountersExact
  <2>1. ingress_bytes'[k] = ingress_bytes[k] + (IF k = iq THEN p.size ELSE 0)
    BY <1>1, <1>2, <1>4 DEF TypeOK
  <2>2. egress_bytes'[k] = egress_bytes[k] + (IF k = oq THEN p.size ELSE 0)
    BY <1>1, <1>2, <1>4 DEF TypeOK
  <2>3. Bytes(FromQueue(k))' = Bytes(FromQueue(k)) + (IF p \in FromQueue(k) THEN p.size ELSE 0)
    BY <1>5, QueueSets
  <2>4. Bytes(ToQueue(k))' = Bytes(ToQueue(k)) + (IF p \in ToQueue(k) THEN p.size ELSE 0)
    BY <1>5, QueueSets
  <2>5. (p \in FromQueue(k) <=> k = iq) /\ (p \in ToQueue(k) <=> k = oq)
    BY DEF FromQueue, ToQueue
  <2> QED
    BY <2>1, <2>2, <2>3, <2>4, <2>5, <1>1 DEF Exact, QueueCountersExact
<1>8. PoolCountersExact'
  <2>1. totalUsed' = Bytes(Packet)'
    BY <1>1, <1>4, <1>5 DEF Exact, PoolCountersExact
  <2>2. ASSUME NEW c \in Class
        PROVE  egressPoolUsed'[c] = Bytes(OfClass(c))'
    <3>1. egressPoolUsed'[c] = egressPoolUsed[c] + (IF c = p.class THEN p.size ELSE 0)
      BY <1>1, <1>2, <1>4 DEF TypeOK
    <3>2. Bytes(OfClass(c))' = Bytes(OfClass(c)) + (IF p \in OfClass(c) THEN p.size ELSE 0)
      BY <1>5, QueueSets
    <3>3. p \in OfClass(c) <=> c = p.class
      BY DEF OfClass
    <3> QED
      BY <3>1, <3>2, <3>3, <1>1 DEF Exact, PoolCountersExact
  <2> QED
    BY <2>1, <2>2 DEF PoolCountersExact
<1>9. HeadroomTotalsExact'
  <2>1. xoffTotalUsed' = Total(PQ, xoffUsed')
    <3>1. \A j \in PQ : xoffUsed[j] \in Nat /\ xoffUsed'[j] \in Nat
      BY <1>1, <1>6 DEF TypeOK
    <3>2. xoffUsed'[iq] = xoffUsed[iq] + h /\ \A j \in PQ \ {iq} : xoffUsed'[j] = xoffUsed[j]
      BY <1>1, <1>2, <1>4 DEF TypeOK
    <3>3. Total(PQ, xoffUsed') = Total(PQ, xoffUsed) - xoffUsed[iq] + xoffUsed'[iq]
      BY <1>2, <3>1, <3>2, SumExcept
    <3>4. xoffTotalUsed = Total(PQ, xoffUsed) /\ xoffTotalUsed \in Nat
      BY <1>1 DEF Exact, HeadroomTotalsExact, TypeOK
    <3> QED
      BY <3>1, <3>2, <3>3, <3>4, <1>2, <1>3, <1>4
  <2>2. totalIngressReservedUsed' =
          Total(PQ, [j \in PQ |-> ReservedUsed(j, ingress_bytes'[j])])
    <3>1. ingress_bytes' \in [PQ -> Nat]
      BY <1>6 DEF TypeOK
    <3>2. \A j \in PQ \ {iq} : ingress_bytes'[j] = ingress_bytes[j]
      BY <1>1, <1>2, <1>4 DEF TypeOK
    <3>3. totalIngressReservedUsed =
            Total(PQ, [j \in PQ |-> ReservedUsed(j, ingress_bytes[j])])
      BY <1>1 DEF Exact, HeadroomTotalsExact
    <3> QED
      BY <1>1, <1>2, <3>1, <3>2, <3>3, AdmitEffect, ReservedTotal
  <2> QED
    BY <2>1, <2>2 DEF HeadroomTotalsExact
<1>10. SharedPoolExact'
  BY <1>1, <1>2, <1>3, <1>4 DEF Exact, SharedPoolExact, TypeOK
<1>11. \A k \in PQ : LosslessBytes'[k] =
         LosslessBytes[k] + (IF k = iq /\ p.class = LOSSLESS THEN p.size ELSE 0)
  <2> TAKE k \in PQ
  <2>1. Bytes(LosslessFrom(k))' =
          Bytes(LosslessFrom(k)) + (IF p \in LosslessFrom(k) THEN p.size ELSE 0)
    BY <1>5, QueueSets
  <2>2. p \in LosslessFrom(k) <=> k = iq /\ p.class = LOSSLESS
    BY DEF LosslessFrom
  <2> QED
    BY <2>1, <2>2 DEF LosslessBytes
<1>12. HeadroomBacked'
  <2> SUFFICES ASSUME NEW k \in PQ
               PROVE  xoffUsed'[k] <= LosslessBytes'[k]
    BY DEF HeadroomBacked, LosslessBytes
  <2>1. xoffUsed'[k] = xoffUsed[k] + (IF k = iq THEN h ELSE 0) /\ xoffUsed[k] \in Nat
    BY <1>1, <1>2, <1>3, <1>4 DEF TypeOK
  <2>2. LosslessBytes[k] \in Nat /\ xoffUsed[k] <= LosslessBytes[k]
    BY <1>1, Bounds
  <2> QED
    BY <2>1, <2>2, <1>2, <1>3, <1>11
<1>13. ByQueueAndClass'
  <2>1. \A j \in PQ : LosslessBytes[j] \in Nat
    BY <1>1, Bounds
  <2>2. \A j \in PQ : LosslessBytes'[j] \in Nat
    BY <2>1, <1>2, <1>11
  <2>3. \A j \in PQ \ {iq} : LosslessBytes'[j] = LosslessBytes[j]
    BY <2>1, <1>11
  <2>4. Total(PQ, LosslessBytes') = Total(PQ, LosslessBytes) - LosslessBytes[iq] + LosslessBytes'[iq]
    BY <2>1, <2>2, <2>3, <1>2, SumExcept
  <2>5. \A c \in Class : egressPoolUsed'[c] = egressPoolUsed[c] + (IF c = p.class THEN p.size ELSE 0)
    BY <1>1, <1>2, <1>4 DEF TypeOK
  <2>6. egressPoolUsed[LOSSLESS] \in Nat /\ egressPoolUsed[LOSSY] \in Nat
    BY <1>1 DEF TypeOK, Class
  <2>7. Total(PQ, LosslessBytes') = egressPoolUsed'[LOSSLESS]
    BY <2>1, <2>4, <2>5, <2>6, <1>1, <1>2, <1>11 DEF Exact, ByQueueAndClass, Class
  <2>8. totalUsed' = egressPoolUsed'[LOSSLESS] + egressPoolUsed'[LOSSY]
    BY <2>5, <2>6, <1>1, <1>2, <1>4 DEF Exact, ByQueueAndClass, Class, LOSSLESS, LOSSY
  <2> QED
    BY <2>7, <2>8 DEF ByQueueAndClass
<1> QED
  BY <1>6, <1>7, <1>8, <1>9, <1>10, <1>12, <1>13 DEF Exact

LEMMA DequeueExact ==
  ASSUME IInv, NEW p \in Packet, SwitchNotifyDequeue(p)
  PROVE  TypeOK' /\ Exact'
<1> DEFINE iq == In(p)
           oq == Out(p)
           f == HeadroomFreed(p)
<1>1. TypeOK /\ Exact
  BY DEF IInv
<1>2. p.size \in Nat /\ p.size > 0 /\ p.class \in Class /\ iq \in PQ /\ oq \in PQ
  BY PacketType
<1>3. /\ f \in Nat /\ f <= p.size /\ f <= xoffUsed[iq]
      /\ p.class = LOSSLESS => f = p.size \/ f = xoffUsed[iq]
      /\ p.class = LOSSY => f = 0
      /\ p.size - f <= sharedPoolUsed
      /\ p.size <= ingress_bytes[iq] /\ p.size <= egress_bytes[oq]
      /\ p.size <= totalUsed /\ p.size <= egressPoolUsed[p.class]
  BY <1>2, DequeueEffect
<1>4. /\ ingress_bytes' = [ingress_bytes EXCEPT ![iq] = @ - p.size]
      /\ egress_bytes' = [egress_bytes EXCEPT ![oq] = @ - p.size]
      /\ xoffUsed' = [xoffUsed EXCEPT ![iq] = @ - f]
      /\ totalUsed' = totalUsed - p.size
      /\ egressPoolUsed' = [egressPoolUsed EXCEPT ![p.class] = @ - p.size]
      /\ xoffTotalUsed' = xoffTotalUsed - f
      /\ sharedPoolUsed' = sharedPoolUsed - (p.size - f)
  BY DequeueEffect
<1>5. ASSUME NEW P \in SUBSET Packet
      PROVE  /\ Bytes(P) \in Nat /\ Bytes(P)' \in Nat
             /\ Bytes(P)' = Bytes(P) - (IF p \in P THEN p.size ELSE 0)
  <2>1. buffered[p] > 0 /\ buffered' = [buffered EXCEPT ![p] = @ - 1]
    BY DEF SwitchNotifyDequeue
  <2>2. /\ Bytes(P) \in Nat /\ Bytes(P)' \in Nat
        /\ Bytes(P) = Bytes(P)' + (IF p \in P THEN p.size ELSE 0)
    BY <1>1, <2>1, BytesDequeue
  <2> QED
    BY <2>2, <1>2
<1>6. TypeOK'
  <2>1. buffered' \in [Packet -> Nat]
    BY <1>1 DEF TypeOK, SwitchNotifyDequeue
  <2>2. ingress_bytes' \in [PQ -> Nat]
    BY <1>1, <1>2, <1>3, <1>4 DEF TypeOK
  <2>3. egress_bytes' \in [PQ -> Nat]
    BY <1>1, <1>2, <1>3, <1>4 DEF TypeOK
  <2>4. xoffUsed' \in [PQ -> Nat]
    BY <1>1, <1>2, <1>3, <1>4 DEF TypeOK
  <2>5. egressPoolUsed' \in [Class -> Nat]
    BY <1>1, <1>2, <1>3, <1>4 DEF TypeOK
  <2>6. paused' \in [PQ -> BOOLEAN]
    BY <1>1 DEF TypeOK, SwitchNotifyDequeue, CheckAndSendResume
  <2>7. totalUsed' \in Nat /\ xoffTotalUsed' \in Nat /\ sharedPoolUsed' \in Nat
    <3>1. xoffUsed[iq] <= xoffTotalUsed /\ xoffUsed[iq] \in Nat
      BY <1>1, <1>2, Bounds DEF TypeOK
    <3> QED
      BY <3>1, <1>1, <1>2, <1>3, <1>4 DEF TypeOK
  <2>8. totalIngressReservedUsed' \in Nat
    <3>1. ingress_bytes'[iq] \in Nat
      BY <2>2, <1>2
    <3>2. ReservedUsed(iq, ingress_bytes'[iq]) \in Nat
      BY <3>1, <1>2, MmuConfig DEF ReservedUsed, Lesser
    <3>3. /\ ReservedUsed(iq, ingress_bytes[iq]) \in Nat
          /\ ReservedUsed(iq, ingress_bytes[iq]) <= totalIngressReservedUsed
      BY <1>1, <1>2, Bounds, MmuConfig DEF ReservedUsed, Lesser, TypeOK
    <3> QED
      BY <3>2, <3>3, <1>1, DequeueEffect DEF TypeOK
  <2>9. m_admissionDropPackets' \in 0..MaxDrops
    BY <1>1 DEF TypeOK, SwitchNotifyDequeue
  <2> QED
    BY <2>1, <2>2, <2>3, <2>4, <2>5, <2>6, <2>7, <2>8, <2>9 DEF TypeOK
<1>7. QueueCountersExact'
  <2> SUFFICES ASSUME NEW k \in PQ
               PROVE  /\ ingress_bytes'[k] = Bytes(FromQueue(k))'
                      /\ egress_bytes'[k] = Bytes(ToQueue(k))'
    BY DEF QueueCountersExact
  <2>1. ingress_bytes'[k] = ingress_bytes[k] - (IF k = iq THEN p.size ELSE 0)
    BY <1>1, <1>2, <1>4 DEF TypeOK
  <2>2. egress_bytes'[k] = egress_bytes[k] - (IF k = oq THEN p.size ELSE 0)
    BY <1>1, <1>2, <1>4 DEF TypeOK
  <2>3. Bytes(FromQueue(k))' = Bytes(FromQueue(k)) - (IF p \in FromQueue(k) THEN p.size ELSE 0)
    BY <1>5, QueueSets
  <2>4. Bytes(ToQueue(k))' = Bytes(ToQueue(k)) - (IF p \in ToQueue(k) THEN p.size ELSE 0)
    BY <1>5, QueueSets
  <2>5. (p \in FromQueue(k) <=> k = iq) /\ (p \in ToQueue(k) <=> k = oq)
    BY DEF FromQueue, ToQueue
  <2> QED
    BY <2>1, <2>2, <2>3, <2>4, <2>5, <1>1 DEF Exact, QueueCountersExact
<1>8. PoolCountersExact'
  <2>1. totalUsed' = Bytes(Packet)'
    BY <1>1, <1>4, <1>5 DEF Exact, PoolCountersExact
  <2>2. ASSUME NEW c \in Class
        PROVE  egressPoolUsed'[c] = Bytes(OfClass(c))'
    <3>1. egressPoolUsed'[c] = egressPoolUsed[c] - (IF c = p.class THEN p.size ELSE 0)
      BY <1>1, <1>2, <1>4 DEF TypeOK
    <3>2. Bytes(OfClass(c))' = Bytes(OfClass(c)) - (IF p \in OfClass(c) THEN p.size ELSE 0)
      BY <1>5, QueueSets
    <3>3. p \in OfClass(c) <=> c = p.class
      BY DEF OfClass
    <3> QED
      BY <3>1, <3>2, <3>3, <1>1 DEF Exact, PoolCountersExact
  <2> QED
    BY <2>1, <2>2 DEF PoolCountersExact
<1>9. HeadroomTotalsExact'
  <2>1. xoffTotalUsed' = Total(PQ, xoffUsed')
    <3>1. \A j \in PQ : xoffUsed[j] \in Nat /\ xoffUsed'[j] \in Nat
      BY <1>1, <1>6 DEF TypeOK
    <3>2. xoffUsed'[iq] = xoffUsed[iq] - f /\ \A j \in PQ \ {iq} : xoffUsed'[j] = xoffUsed[j]
      BY <1>1, <1>2, <1>4 DEF TypeOK
    <3>3. Total(PQ, xoffUsed') = Total(PQ, xoffUsed) - xoffUsed[iq] + xoffUsed'[iq]
      BY <1>2, <3>1, <3>2, SumExcept
    <3>4. xoffTotalUsed = Total(PQ, xoffUsed) /\ xoffTotalUsed \in Nat
      BY <1>1 DEF Exact, HeadroomTotalsExact, TypeOK
    <3> QED
      BY <3>1, <3>2, <3>3, <3>4, <1>2, <1>3, <1>4
  <2>2. totalIngressReservedUsed' =
          Total(PQ, [j \in PQ |-> ReservedUsed(j, ingress_bytes'[j])])
    <3>1. ingress_bytes' \in [PQ -> Nat]
      BY <1>6 DEF TypeOK
    <3>2. \A j \in PQ \ {iq} : ingress_bytes'[j] = ingress_bytes[j]
      BY <1>1, <1>2, <1>4 DEF TypeOK
    <3>3. totalIngressReservedUsed =
            Total(PQ, [j \in PQ |-> ReservedUsed(j, ingress_bytes[j])])
      BY <1>1 DEF Exact, HeadroomTotalsExact
    <3> QED
      BY <1>1, <1>2, <3>1, <3>2, <3>3, DequeueEffect, ReservedTotal
  <2> QED
    BY <2>1, <2>2 DEF HeadroomTotalsExact
<1>10. SharedPoolExact'
  BY <1>1, <1>2, <1>3, <1>4 DEF Exact, SharedPoolExact, TypeOK
<1>11. \A k \in PQ : LosslessBytes'[k] =
         LosslessBytes[k] - (IF k = iq /\ p.class = LOSSLESS THEN p.size ELSE 0)
  <2> TAKE k \in PQ
  <2>1. Bytes(LosslessFrom(k))' =
          Bytes(LosslessFrom(k)) - (IF p \in LosslessFrom(k) THEN p.size ELSE 0)
    BY <1>5, QueueSets
  <2>2. p \in LosslessFrom(k) <=> k = iq /\ p.class = LOSSLESS
    BY DEF LosslessFrom
  <2> QED
    BY <2>1, <2>2 DEF LosslessBytes
<1>12. \A k \in PQ : LosslessBytes'[k] \in Nat
  BY <1>5, QueueSets DEF LosslessBytes
<1>13. HeadroomBacked'
  <2> SUFFICES ASSUME NEW k \in PQ
               PROVE  xoffUsed'[k] <= LosslessBytes'[k]
    BY DEF HeadroomBacked, LosslessBytes
  <2>1. xoffUsed'[k] = xoffUsed[k] - (IF k = iq THEN f ELSE 0) /\ xoffUsed[k] \in Nat
    BY <1>1, <1>2, <1>3, <1>4 DEF TypeOK
  <2>2. LosslessBytes[k] \in Nat /\ xoffUsed[k] <= LosslessBytes[k]
    BY <1>1, Bounds
  <2> QED
    BY <2>1, <2>2, <1>2, <1>3, <1>11, <1>12 DEF Class
<1>14. ByQueueAndClass'
  <2>1. \A j \in PQ : LosslessBytes[j] \in Nat
    BY <1>1, Bounds
  <2>2. \A j \in PQ : LosslessBytes'[j] \in Nat
    BY <1>12
  <2>3. \A j \in PQ \ {iq} : LosslessBytes'[j] = LosslessBytes[j]
    BY <2>1, <1>11
  <2>4. Total(PQ, LosslessBytes') = Total(PQ, LosslessBytes) - LosslessBytes[iq] + LosslessBytes'[iq]
    BY <2>1, <2>2, <2>3, <1>2, SumExcept
  <2>5. \A c \in Class : egressPoolUsed'[c] = egressPoolUsed[c] - (IF c = p.class THEN p.size ELSE 0)
    BY <1>1, <1>2, <1>4 DEF TypeOK
  <2>6. egressPoolUsed[LOSSLESS] \in Nat /\ egressPoolUsed[LOSSY] \in Nat
    BY <1>1 DEF TypeOK, Class
  <2>7. Total(PQ, LosslessBytes') = egressPoolUsed'[LOSSLESS]
    BY <2>1, <2>4, <2>5, <2>6, <1>1, <1>2, <1>11 DEF Exact, ByQueueAndClass, Class
  <2>8. totalUsed' = egressPoolUsed'[LOSSLESS] + egressPoolUsed'[LOSSY]
    BY <2>5, <2>6, <1>1, <1>2, <1>4 DEF Exact, ByQueueAndClass, Class, LOSSLESS, LOSSY
  <2> QED
    BY <2>7, <2>8 DEF ByQueueAndClass
<1> QED
  BY <1>6, <1>7, <1>8, <1>9, <1>10, <1>13, <1>14 DEF Exact

-----------------------------------------------------------------------------
(* The pools hold *)

LEMMA ReserveCapped ==
  ASSUME NEW f \in [PQ -> Nat]
  PROVE  /\ Total(PQ, [j \in PQ |-> ReservedUsed(j, f[j])]) <= totalIngressReserved
         /\ totalIngressReserved \in Nat
         /\ totalIngressReserved <= ingressPool
<1> DEFINE g == [j \in PQ |-> ReservedUsed(j, f[j])]
<1>1. IsFiniteSet(PQ) /\ PQ \in SUBSET PQ
  BY FiniteIndices
<1>2. \A j \in PQ : reserveIngress[j] \in Nat
  BY MmuConfig
<1>3. \A j \in PQ : g[j] \in Nat /\ g[j] <= reserveIngress[j]
  BY <1>2 DEF ReservedUsed, Lesser
<1> HIDE DEF g
<1>4. Total(PQ, g) <= Total(PQ, reserveIngress)
  BY <1>1, <1>2, <1>3, SumMonotone
<1>5. totalIngressReserved \in Nat
  BY <1>1, <1>2, SumNat DEF totalIngressReserved
<1> QED
  BY <1>4, <1>5, ReserveFits DEF g, totalIngressReserved

(* DT admits into the shared pool only while it has room. *)
LEMMA ThresholdMeansRoom ==
  ASSUME NEW iq \in PQ, NEW total \in Nat, NEW headroom \in Nat, NEW reserved \in Nat,
         headroom <= total, reserved <= totalIngressReserved,
         totalIngressReserved \in Nat, totalIngressReserved <= ingressPool,
         IngressThreshold(iq, total, headroom, reserved) > 0
  PROVE  total <= ingressPool + headroom
<1> DEFINE used == SharedUsed(total, headroom, reserved)
           pool == ingressPool - totalIngressReserved
<1>1. pool > used
  BY DEF IngressThreshold, DynamicThreshold
<1>2. ingressPool \in Nat
  BY MmuConfig
<1>3. CASE total - headroom >= reserved
  <2>1. used = total - headroom - reserved
    BY <1>3 DEF SharedUsed, --
  <2> QED
    BY <1>1, <1>2, <2>1
<1>4. CASE total - headroom < reserved
  BY <1>2, <1>4
<1> QED
  BY <1>3, <1>4

LEMMA AdmitPools ==
  ASSUME IInv, NEW p \in Packet, Admit(p)
  PROVE  PoolsRespected'
<1> DEFINE iq == In(p)
           h == HeadroomTaken(p)
<1>1. TypeOK /\ Exact /\ PoolsRespected
  BY DEF IInv
<1>2. TypeOK' /\ Exact'
  BY AdmitExact
<1>3. p.size \in Nat /\ p.size > 0 /\ p.class \in Class /\ iq \in PQ
  BY PacketType
<1>4. /\ h \in {0, p.size}
      /\ totalUsed' = totalUsed + p.size
      /\ xoffTotalUsed' = xoffTotalUsed + h
      /\ egressPoolUsed' = [egressPoolUsed EXCEPT ![p.class] = @ + p.size]
  BY AdmitEffect
<1>5. totalUsed \in Nat /\ xoffTotalUsed \in Nat /\ xoffTotalUsed <= totalUsed
  BY <1>1 DEF TypeOK, Exact, SharedPoolExact
<1>6. bufferPool \in Nat /\ ingressPool \in Nat /\ egressPool \in [Class -> Nat]
  BY MmuConfig
<1>7. CheckEgressAdmission(p) /\ CheckIngressAdmission(p)
  BY DEF Admit, Admitted
<1>8. totalUsed' <= bufferPool
  BY <1>3, <1>4, <1>5, <1>6, <1>7 DEF CheckEgressAdmission, BufferFull
<1>9. \A c \in Class : egressPoolUsed'[c] <= egressPool[c]
  <2> TAKE c \in Class
  <2>1. egressPoolUsed'[c] = IF c = p.class THEN egressPoolUsed[c] + p.size ELSE egressPoolUsed[c]
    BY <1>1, <1>4 DEF TypeOK
  <2>2. p.size + egressPoolUsed[p.class] <= egressPool[p.class]
    BY <1>7 DEF CheckEgressAdmission
  <2>3. egressPoolUsed[c] \in Nat /\ egressPoolUsed[c] <= egressPool[c]
    BY <1>1 DEF TypeOK, PoolsRespected
  <2> QED
    BY <2>1, <2>2, <2>3, <1>3
<1>10. totalUsed' <= ingressPool + xoffTotalUsed'
  <2>1. CASE p.class = LOSSY
    <3>1. p.size + (totalUsed -- xoffTotalUsed) <= ingressPool
      <4>1. ~LossyIngressDrop(p)
        BY <1>7, <2>1 DEF CheckIngressAdmission
      <4>2. ~(p.size + (totalUsed -- xoffTotalUsed) > ingressPool)
        BY <4>1 DEF LossyIngressDrop
      <4> QED
        BY <4>2, <1>3, <1>5, <1>6 DEF --
    <3>2. h = 0
      BY <1>3, <2>1 DEF HeadroomTaken, TakesHeadroom, LOSSLESS, LOSSY
    <3> QED
      BY <3>1, <3>2, <1>3, <1>4, <1>5, <1>6 DEF --
  <2>2. CASE TakesHeadroom(p)
    BY <2>2, <1>1, <1>3, <1>4, <1>5, <1>6 DEF HeadroomTaken, PoolsRespected
  <2>3. CASE p.class = LOSSLESS /\ ~TakesHeadroom(p)
    <3> DEFINE n == ingress_bytes[iq] + p.size
               r == Rereserved(iq, ingress_bytes[iq], n)
               th == IngressThreshold(iq, totalUsed + p.size, xoffTotalUsed, r)
    <3>1. ~(n > th)
      BY <2>3 DEF TakesHeadroom
    <3>2. n \in Nat /\ n > 0
      BY <1>1, <1>3 DEF TypeOK
    <3>3. th \in Int
      <4>1. alphaIngress[iq].num \in Nat /\ alphaIngress[iq].den \in Nat /\ alphaIngress[iq].den > 0
        BY <1>3, MmuConfig DEF Fraction
      <4>2. r = totalIngressReservedUsed' /\ r \in Nat
        BY <1>2 DEF Admit, UpdateIngressAdmission, TypeOK
      <4>3. totalIngressReserved \in Nat /\ Word \in Nat
        BY <1>1, Bounds, MmuConfig
      <4>4. ((totalUsed + p.size) -- xoffTotalUsed) \in Int
        BY <1>3, <1>5, <4>3 DEF --
      <4>5. SharedUsed(totalUsed + p.size, xoffTotalUsed, r) \in Int
        BY <4>2, <4>3, <4>4 DEF SharedUsed, --
      <4> QED
        BY <4>1, <4>3, <4>5, <1>6 DEF IngressThreshold, DynamicThreshold
    <3>4. th > 0
      BY <3>1, <3>2, <3>3
    <3>5. r = totalIngressReservedUsed' /\ r \in Nat
      BY <1>2 DEF Admit, UpdateIngressAdmission, TypeOK
    <3>6. /\ r <= totalIngressReserved
          /\ totalIngressReserved \in Nat
          /\ totalIngressReserved <= ingressPool
      <4>1. r = Total(PQ, [j \in PQ |-> ReservedUsed(j, ingress_bytes'[j])])
        BY <3>5, <1>2 DEF Exact, HeadroomTotalsExact
      <4>2. ingress_bytes' \in [PQ -> Nat]
        BY <1>2 DEF TypeOK
      <4> QED
        BY <4>1, <4>2, ReserveCapped
    <3>7. totalUsed + p.size \in Nat /\ xoffTotalUsed <= totalUsed + p.size
      BY <1>3, <1>5
    <3> HIDE DEF n, r
    <3>8. totalUsed + p.size <= ingressPool + xoffTotalUsed
      BY <3>4, <3>5, <3>6, <3>7, <1>3, <1>5, ThresholdMeansRoom
    <3> QED
      BY <3>8, <2>3, <1>3, <1>4, <1>5, <1>6 DEF HeadroomTaken
  <2> QED
    BY <2>1, <2>2, <2>3, <1>3 DEF Class
<1> QED
  BY <1>8, <1>9, <1>10 DEF PoolsRespected

LEMMA DequeuePools ==
  ASSUME IInv, NEW p \in Packet, SwitchNotifyDequeue(p)
  PROVE  PoolsRespected'
<1> DEFINE f == HeadroomFreed(p)
<1>1. TypeOK /\ Exact /\ PoolsRespected
  BY DEF IInv
<1>2. p.size \in Nat /\ p.class \in Class
  BY PacketType
<1>3. /\ f \in Nat /\ f <= p.size
      /\ p.size <= totalUsed /\ p.size <= egressPoolUsed[p.class]
      /\ totalUsed' = totalUsed - p.size
      /\ xoffTotalUsed' = xoffTotalUsed - f
      /\ egressPoolUsed' = [egressPoolUsed EXCEPT ![p.class] = @ - p.size]
  BY DequeueEffect
<1>4. bufferPool \in Nat /\ ingressPool \in Nat /\ egressPool \in [Class -> Nat]
  BY MmuConfig
<1>5. totalUsed' <= bufferPool /\ totalUsed' <= ingressPool + xoffTotalUsed'
  BY <1>1, <1>2, <1>3, <1>4 DEF TypeOK, PoolsRespected
<1>6. ASSUME NEW c \in Class
      PROVE  egressPoolUsed'[c] <= egressPool[c]
  <2>1. egressPoolUsed'[c] = IF c = p.class THEN egressPoolUsed[c] - p.size ELSE egressPoolUsed[c]
    BY <1>1, <1>3 DEF TypeOK
  <2>2. egressPoolUsed[c] \in Nat /\ egressPoolUsed[c] <= egressPool[c] /\ egressPool[c] \in Nat
    BY <1>1, <1>4 DEF TypeOK, PoolsRespected
  <2> QED
    BY <1>2, <2>1, <2>2
<1> QED
  BY <1>5, <1>6 DEF PoolsRespected

-----------------------------------------------------------------------------
(* Pause and resume *)

LEMMA AdmitPause ==
  ASSUME IInv, NEW p \in Packet, Admit(p)
  PROVE  HeadroomPauses' /\ PausedHoldsBytes'
<1> DEFINE iq == In(p)
<1>1. TypeOK /\ HeadroomPauses /\ PausedHoldsBytes
  BY DEF IInv
<1>2. p.size \in Nat /\ p.size > 0 /\ iq \in PQ
  BY PacketType
<1>3. HeadroomTaken(p) \in Nat
  BY <1>2, AdmitEffect
<1>4. /\ xoffUsed' = [xoffUsed EXCEPT ![iq] = @ + HeadroomTaken(p)]
      /\ ingress_bytes' = [ingress_bytes EXCEPT ![iq] = @ + p.size]
  BY AdmitEffect
<1>5. paused' = [paused EXCEPT ![iq] = @ \/ (~@ /\ xoffUsed'[iq] > 0)]
  <2>1. paused' = [paused EXCEPT ![iq] = @ \/ CheckShouldPause(iq, xoffUsed'[iq])]
    BY DEF Admit, CheckAndSendPfc
  <2>2. CheckShouldPause(iq, xoffUsed'[iq]) = (~paused[iq] /\ xoffUsed'[iq] > 0)
    BY DEF CheckShouldPause
  <2> QED
    BY <2>1, <2>2
<1>6. HeadroomPauses'
  <2> SUFFICES ASSUME NEW k \in PQ, xoffUsed'[k] > 0
               PROVE  paused'[k]
    BY DEF HeadroomPauses
  <2>1. CASE k = iq
    BY <2>1, <1>1, <1>2, <1>5 DEF TypeOK
  <2>2. CASE k # iq
    <3>1. xoffUsed'[k] = xoffUsed[k] /\ paused'[k] = paused[k]
      BY <2>2, <1>1, <1>4, <1>5 DEF TypeOK
    <3> QED
      BY <3>1, <1>1 DEF HeadroomPauses
  <2> QED
    BY <2>1, <2>2
<1>7. PausedHoldsBytes'
  <2> SUFFICES ASSUME NEW k \in PQ, paused'[k], xon[k] > 0
               PROVE  ingress_bytes'[k] > 0
    BY DEF PausedHoldsBytes
  <2>1. CASE k = iq
    BY <2>1, <1>1, <1>2, <1>4 DEF TypeOK
  <2>2. CASE k # iq
    <3>1. ingress_bytes'[k] = ingress_bytes[k] /\ paused'[k] = paused[k]
      BY <2>2, <1>1, <1>4, <1>5 DEF TypeOK
    <3> QED
      BY <3>1, <1>1 DEF PausedHoldsBytes
  <2> QED
    BY <2>1, <2>2
<1> QED
  BY <1>6, <1>7

LEMMA DequeuePause ==
  ASSUME IInv, NEW p \in Packet, SwitchNotifyDequeue(p)
  PROVE  HeadroomPauses' /\ PausedHoldsBytes'
<1> DEFINE iq == In(p)
           resume == CheckShouldResume(iq, ingress_bytes'[iq], xoffUsed'[iq], totalUsed',
                                       xoffTotalUsed', totalIngressReservedUsed')
<1>1. TypeOK /\ HeadroomPauses /\ PausedHoldsBytes
  BY DEF IInv
<1>2. TypeOK' /\ Exact'
  BY DequeueExact
<1>3. p.size \in Nat /\ iq \in PQ
  BY PacketType
<1>4. /\ HeadroomFreed(p) \in Nat
      /\ HeadroomFreed(p) <= xoffUsed[iq]
      /\ xoffUsed' = [xoffUsed EXCEPT ![iq] = @ - HeadroomFreed(p)]
      /\ ingress_bytes' = [ingress_bytes EXCEPT ![iq] = @ - p.size]
  BY DequeueEffect
<1>5. paused' = [paused EXCEPT ![iq] = @ /\ ~resume]
  BY DEF SwitchNotifyDequeue, CheckAndSendResume
<1> HIDE DEF resume
<1>6. HeadroomPauses'
  <2> SUFFICES ASSUME NEW k \in PQ, xoffUsed'[k] > 0
               PROVE  paused'[k]
    BY DEF HeadroomPauses
  <2>1. CASE k = iq
    <3>1. xoffUsed[k] > 0
      BY <2>1, <1>1, <1>3, <1>4 DEF TypeOK
    <3>2. xoffUsed'[iq] # 0
      BY <2>1
    <3>3. ~resume
      BY <3>2 DEF resume, CheckShouldResume
    <3>4. paused[iq]
      BY <3>1, <2>1, <1>1 DEF HeadroomPauses
    <3> QED
      BY <3>3, <3>4, <2>1, <1>1, <1>3, <1>5 DEF TypeOK
  <2>2. CASE k # iq
    <3>1. xoffUsed'[k] = xoffUsed[k] /\ paused'[k] = paused[k]
      BY <2>2, <1>1, <1>4, <1>5 DEF TypeOK
    <3> QED
      BY <3>1, <1>1 DEF HeadroomPauses
  <2> QED
    BY <2>1, <2>2
<1>7. ASSUME NEW k \in PQ
      PROVE  xoffUsed'[k] <= ingress_bytes'[k] /\ xoffUsed'[k] \in Nat /\ ingress_bytes'[k] \in Nat
  <2>1. Weight(buffered', LosslessFrom(k)) <= Weight(buffered', FromQueue(k))
    BY <1>2, QueueSets, WeightSubset DEF TypeOK
  <2>2. /\ xoffUsed'[k] <= Weight(buffered', LosslessFrom(k))
        /\ ingress_bytes'[k] = Weight(buffered', FromQueue(k))
    BY <1>2 DEF Exact, HeadroomBacked, QueueCountersExact, Bytes
  <2>3. Weight(buffered', LosslessFrom(k)) \in Nat /\ Weight(buffered', FromQueue(k)) \in Nat
    BY <1>2, QueueSets, WeightNat DEF TypeOK
  <2> QED
    BY <2>1, <2>2, <2>3, <1>2 DEF TypeOK
<1>8. PausedHoldsBytes'
  <2> SUFFICES ASSUME NEW k \in PQ, paused'[k], xon[k] > 0
               PROVE  ingress_bytes'[k] > 0
    BY DEF PausedHoldsBytes
  <2>1. CASE k = iq
    <3>1. paused[iq] /\ ~resume
      BY <2>1, <1>1, <1>3, <1>5 DEF TypeOK
    <3>2. ~(xoffUsed'[iq] = 0 /\ ingress_bytes'[iq] < xon[iq])
      BY <3>1 DEF resume, CheckShouldResume
    <3> QED
      BY <3>2, <2>1, <1>7
  <2>2. CASE k # iq
    <3>1. ingress_bytes'[k] = ingress_bytes[k] /\ paused'[k] = paused[k]
      BY <2>2, <1>1, <1>4, <1>5 DEF TypeOK
    <3> QED
      BY <3>1, <1>1 DEF PausedHoldsBytes
  <2> QED
    BY <2>1, <2>2
<1> QED
  BY <1>6, <1>8

-----------------------------------------------------------------------------
(* The theorems *)

(* A step that leaves the state of the buffer alone: a drop, a stutter.    *)
LEMMA BufferUnchanged ==
  ASSUME IInv, m_admissionDropPackets' \in 0..MaxDrops,
         UNCHANGED <<buffered, ingress_bytes, egress_bytes, xoffUsed, paused, totalUsed,
                     egressPoolUsed, xoffTotalUsed, totalIngressReservedUsed, sharedPoolUsed>>
  PROVE  IInv'
<1>1. TypeOK'
  BY DEF IInv, TypeOK
<1>2. \A P : Bytes(P)' = Bytes(P)
  BY DEF Bytes
<1>3. LosslessBytes' = LosslessBytes
  BY <1>2 DEF LosslessBytes
<1>4. Exact'
  BY <1>2, <1>3 DEF IInv, Exact, QueueCountersExact, PoolCountersExact,
                    HeadroomTotalsExact, SharedPoolExact, HeadroomBacked, ByQueueAndClass
<1>5. PoolsRespected' /\ HeadroomPauses' /\ PausedHoldsBytes'
  BY DEF IInv, PoolsRespected, HeadroomPauses, PausedHoldsBytes
<1> QED
  BY <1>1, <1>4, <1>5 DEF IInv

LEMMA StepInv == IInv /\ [Next]_vars => IInv'
<1> SUFFICES ASSUME IInv, [Next]_vars
             PROVE  IInv'
  OBVIOUS
<1>1. ASSUME NEW p \in Packet, Admit(p)
      PROVE  IInv'
  BY <1>1, AdmitExact, AdmitPools, AdmitPause DEF IInv
<1>2. ASSUME NEW p \in Packet, Drop(p)
      PROVE  IInv'
  <2>1. m_admissionDropPackets' \in 0..MaxDrops
    BY <1>2, MmuConfig DEF Drop, IInv, TypeOK
  <2> QED
    BY <1>2, <2>1, BufferUnchanged DEF Drop
<1>3. ASSUME NEW p \in Packet, SwitchNotifyDequeue(p)
      PROVE  IInv'
  BY <1>3, DequeueExact, DequeuePools, DequeuePause DEF IInv
<1>4. CASE UNCHANGED vars
  <2>1. m_admissionDropPackets' \in 0..MaxDrops
    BY <1>4 DEF vars, IInv, TypeOK
  <2> QED
    BY <1>4, <2>1, BufferUnchanged DEF vars
<1> QED
  BY <1>1, <1>2, <1>3, <1>4 DEF Next

LEMMA AlwaysIInv == Spec => []IInv
  BY InitInv, StepInv, PTL DEF Spec

(* No counter of the MMU ever goes negative or wraps. *)
THEOREM TypeCorrect == Spec => []TypeOK
<1>1. IInv => TypeOK
  BY DEF IInv
<1> QED
  BY <1>1, AlwaysIInv, PTL

(* The per-queue counters are the buffered bytes of each queue. *)
THEOREM QueueCountersAlwaysExact == Spec => []QueueCountersExact
<1>1. IInv => QueueCountersExact
  BY DEF IInv, Exact
<1> QED
  BY <1>1, AlwaysIInv, PTL

(* The switch-wide counters are the buffered bytes, in total and by class. *)
THEOREM PoolCountersAlwaysExact == Spec => []PoolCountersExact
<1>1. IInv => PoolCountersExact
  BY DEF IInv, Exact
<1> QED
  BY <1>1, AlwaysIInv, PTL

(* The headroom and reserve totals are the sums over the queues. *)
THEOREM HeadroomTotalsAlwaysExact == Spec => []HeadroomTotalsExact
<1>1. IInv => HeadroomTotalsExact
  BY DEF IInv, Exact
<1> QED
  BY <1>1, AlwaysIInv, PTL

(* sharedPoolUsed is what is buffered outside headroom. *)
THEOREM SharedPoolAlwaysExact == Spec => []SharedPoolExact
<1>1. IInv => SharedPoolExact
  BY DEF IInv, Exact
<1> QED
  BY <1>1, AlwaysIInv, PTL

(* All the redundant counters are exact at once. *)
THEOREM CountersAlwaysExact == Spec => []CountersExact
<1>1. IInv => CountersExact
  BY DEF IInv, Exact, CountersExact
<1> QED
  BY <1>1, AlwaysIInv, PTL

(* Headroom in use is backed by lossless bytes of the same queue. *)
THEOREM HeadroomAlwaysBacked == Spec => []HeadroomBacked
<1>1. IInv => HeadroomBacked
  BY DEF IInv, Exact
<1> QED
  BY <1>1, AlwaysIInv, PTL

(* The pools are never overcommitted, the ingress pool included. *)
THEOREM PoolsAlwaysRespected == Spec => []PoolsRespected
<1>1. IInv => PoolsRespected
  BY DEF IInv
<1> QED
  BY <1>1, AlwaysIInv, PTL

(* Headroom in use means that the peer has been told to pause. *)
THEOREM HeadroomAlwaysPauses == Spec => []HeadroomPauses
<1>1. IInv => HeadroomPauses
  BY DEF IInv
<1> QED
  BY <1>1, AlwaysIInv, PTL

(* A paused queue holds a packet whose departure will reconsider it. *)
THEOREM PausedAlwaysHoldsBytes == Spec => []PausedHoldsBytes
<1>1. IInv => PausedHoldsBytes
  BY DEF IInv
<1> QED
  BY <1>1, AlwaysIInv, PTL

(* Headroom, pauses and the bytes that end them keep in step. *)
THEOREM PfcAlwaysInStep == Spec => []PfcInStep
<1>1. IInv => PfcInStep
  BY DEF IInv, Exact, PfcInStep
<1> QED
  BY <1>1, AlwaysIInv, PTL

-----------------------------------------------------------------------------
(* Configured switches *)

LEMMA HeadroomStep ==
  ASSUME HeadroomConfig, IInv, HeadroomRespected, [Next]_vars
  PROVE  HeadroomRespected'
<1>1. TypeOK /\ Exact
  BY DEF IInv
<1>2. ASSUME NEW p \in Packet, Admit(p)
      PROVE  HeadroomRespected'
  <2> DEFINE iq == In(p)
             h == HeadroomTaken(p)
  <2> SUFFICES ASSUME NEW k \in PQ
               PROVE  xoffUsed'[k] <= xoff[k]
    BY DEF HeadroomRespected
  <2>1. p.size \in Nat /\ p.size > 0 /\ iq \in PQ
    BY PacketType
  <2>2. h \in {0, p.size} /\ (h > 0 => p.class = LOSSLESS)
    BY <1>2, AdmitEffect
  <2>3. xoffUsed' = [xoffUsed EXCEPT ![iq] = @ + h]
    BY <1>2, AdmitEffect
  <2>4. xoffUsed'[k] = IF k = iq THEN xoffUsed[k] + h ELSE xoffUsed[k]
    BY <1>1, <2>3 DEF TypeOK
  <2>5. xoffUsed[k] \in Nat /\ xoffUsed[k] <= xoff[k] /\ xoff[k] \in Nat
    BY <1>1, MmuConfig DEF TypeOK, HeadroomRespected
  <2>6. CASE k # iq \/ h = 0
    BY <2>4, <2>5, <2>6
  <2>7. CASE k = iq /\ h > 0
    <3>1. h = p.size /\ p.class = LOSSLESS
      BY <2>1, <2>2, <2>7
    <3>2. p.size <= xoff[iq] /\ reserveIngress[iq] <= xoff[iq]
      BY <2>1, <3>1 DEF HeadroomConfig
    <3>3. CASE xoffUsed[iq] = 0
      BY <2>1, <2>4, <2>7, <3>1, <3>2, <3>3
    <3>4. CASE xoffUsed[iq] > 0
      <4>1. ~LosslessIngressDrop(p)
        BY <1>2, <3>1 DEF Admit, Admitted, CheckIngressAdmission, LOSSLESS, LOSSY
      <4>2. ~(/\ p.size + ingress_bytes[iq] > reserveIngress[iq]
              /\ p.size + xoffUsed[iq] > xoff[iq])
        BY <4>1, <3>4 DEF LosslessIngressDrop
      <4>3. /\ xoffUsed[iq] <= LosslessBytes[iq]
            /\ LosslessBytes[iq] <= ingress_bytes[iq]
            /\ LosslessBytes[iq] \in Nat
        BY <1>1, <2>1, Bounds
      <4>4. ingress_bytes[iq] \in Nat /\ reserveIngress[iq] \in Nat /\ xoff[iq] \in Nat
        BY <1>1, <2>1, MmuConfig DEF TypeOK
      <4> QED
        BY <2>1, <2>4, <2>5, <2>7, <3>1, <3>2, <4>2, <4>3, <4>4
    <3> QED
      BY <2>5, <2>7, <3>3, <3>4
  <2> QED
    BY <2>1, <2>2, <2>6, <2>7
<1>3. ASSUME NEW p \in Packet, SwitchNotifyDequeue(p)
      PROVE  HeadroomRespected'
  <2> SUFFICES ASSUME NEW k \in PQ
               PROVE  xoffUsed'[k] <= xoff[k]
    BY DEF HeadroomRespected
  <2>1. HeadroomFreed(p) \in Nat
        /\ xoffUsed' = [xoffUsed EXCEPT ![In(p)] = @ - HeadroomFreed(p)]
    BY <1>3, DequeueEffect
  <2>2. xoffUsed'[k] = IF k = In(p) THEN xoffUsed[k] - HeadroomFreed(p) ELSE xoffUsed[k]
    BY <1>1, <2>1 DEF TypeOK
  <2>3. xoffUsed[k] \in Nat /\ xoffUsed[k] <= xoff[k] /\ xoff[k] \in Nat
    BY <1>1, MmuConfig DEF TypeOK, HeadroomRespected
  <2> QED
    BY <2>1, <2>2, <2>3
<1>4. CASE UNCHANGED xoffUsed
  BY <1>4 DEF HeadroomRespected
<1> QED
  BY <1>2, <1>3, <1>4 DEF Next, Drop, vars

(* With headroom limits that cover a packet and the reserve, no queue uses *)
(* more headroom than its limit.                                           *)
THEOREM HeadroomAlwaysRespected ==
  ASSUME HeadroomConfig
  PROVE  Spec => []HeadroomRespected
<1>1. Init => HeadroomRespected
  BY MmuConfig DEF Init, HeadroomRespected
<1>2. IInv /\ HeadroomRespected /\ [Next]_vars => HeadroomRespected'
  BY HeadroomStep
<1> QED
  BY <1>1, <1>2, AlwaysIInv, PTL DEF Spec

LEMMA RoomUntilPaused ==
  ASSUME Provisioned, IInv, HeadroomRespected,
         NEW p \in Packet, p.class = LOSSLESS, ~paused[In(p)]
  PROVE  /\ xoffUsed[In(p)] = 0
         /\ p.size + totalUsed <= ingressPool + xoffTotal
<1> DEFINE iq == In(p)
<1>1. TypeOK /\ Exact /\ PoolsRespected /\ HeadroomPauses
  BY DEF IInv
<1>2. p.size \in Nat /\ iq \in PQ /\ p.size <= xoff[iq]
  BY PacketType DEF Provisioned, HeadroomConfig
<1>3. xoffUsed[iq] = 0
  BY <1>1, <1>2 DEF TypeOK, HeadroomPauses
<1>4. \A k \in PQ : xoffUsed[k] \in Nat /\ xoff[k] \in Nat /\ xoffUsed[k] <= xoff[k]
  BY <1>1, MmuConfig DEF TypeOK, HeadroomRespected
<1>5. IsFiniteSet(PQ) /\ IsFiniteSet(PQ \ {iq})
  BY FiniteIndices, FS_RemoveElement
<1>6. Total(PQ, xoffUsed) = Total(PQ \ {iq}, xoffUsed) + xoffUsed[iq]
  BY <1>2, <1>4, <1>5, SumSplit
<1>7. Total(PQ, xoff) = Total(PQ \ {iq}, xoff) + xoff[iq]
  BY <1>2, <1>4, <1>5, SumSplit
<1>8. Total(PQ \ {iq}, xoffUsed) <= Total(PQ \ {iq}, xoff)
  BY <1>4, <1>5, SumMonotone
<1>9. Total(PQ \ {iq}, xoffUsed) \in Nat /\ Total(PQ \ {iq}, xoff) \in Nat
  BY <1>4, <1>5, SumNat
<1>10. xoffTotalUsed + p.size <= xoffTotal
  BY <1>1, <1>2, <1>3, <1>4, <1>6, <1>7, <1>8, <1>9
     DEF Exact, HeadroomTotalsExact, xoffTotal
<1>11. totalUsed <= ingressPool + xoffTotalUsed
  BY <1>1 DEF PoolsRespected
<1> QED
  BY <1>1, <1>2, <1>3, <1>10, <1>11, Bounds, MmuConfig DEF TypeOK

(* On a switch provisioned as the long-haul experiments do it, a lossless  *)
(* packet from a peer that has not been paused is always admitted.         *)
THEOREM AlwaysLosslessUntilPaused ==
  ASSUME Provisioned
  PROVE  Spec => []LosslessUntilPaused
<1>1. HeadroomConfig
  BY DEF Provisioned
<1>2. ASSUME IInv, HeadroomRespected
      PROVE  LosslessUntilPaused
  <2> SUFFICES ASSUME NEW p \in Packet, p.class = LOSSLESS, ~paused[In(p)]
               PROVE  Admitted(p)
    BY DEF LosslessUntilPaused
  <2> DEFINE used == egressPoolUsed[LOSSLESS]
             pool == egressPool[LOSSLESS]
             r == pool - used
  <2>1. xoffUsed[In(p)] = 0 /\ p.size + totalUsed <= ingressPool + xoffTotal
    BY <1>2, RoomUntilPaused
  <2>2. TypeOK /\ Exact
    BY <1>2 DEF IInv
  <2>3. /\ p.size \in Nat /\ p.size > 0 /\ Out(p) \in PQ
        /\ totalUsed \in Nat /\ used \in Nat /\ egress_bytes[Out(p)] \in Nat
        /\ egressPoolUsed[LOSSY] \in Nat
        /\ ingressPool \in Nat /\ pool \in Nat /\ bufferPool \in Nat /\ xoffTotal \in Nat
    BY <2>2, PacketType, Bounds, MmuConfig DEF TypeOK, Class
  <2>4. ~BufferFull(p)
    BY <2>1, <2>3 DEF BufferFull, Provisioned
  <2>5. CheckIngressAdmission(p)
    BY <2>1, <2>3, <2>4
       DEF CheckIngressAdmission, LosslessIngressDrop, LOSSLESS, LOSSY
  <2>6. used <= totalUsed
    BY <2>2, <2>3 DEF Exact, ByQueueAndClass
  <2>7. egress_bytes[Out(p)] <= totalUsed
    <3>1. Weight(buffered, ToQueue(Out(p))) <= Weight(buffered, Packet)
      BY <2>2, QueueSets, <2>3, WeightSubset DEF TypeOK
    <3> QED
      BY <3>1, <2>2, <2>3 DEF Exact, QueueCountersExact, PoolCountersExact, Bytes
  <2>8. pool >= ingressPool + xoffTotal
    BY DEF Provisioned
  <2>9. p.size + used <= pool /\ r \in 1..pool
    BY <2>1, <2>3, <2>6, <2>8
  <2>10. EgressThreshold(p) >= pool
    <3>1. (alphaEgress[Out(p)].num * r) \div alphaEgress[Out(p)].den >= pool
      BY <2>3, <2>9 DEF Provisioned
    <3> QED
      BY <3>1, <2>3, <2>9 DEF EgressThreshold, DynamicThreshold
  <2>11. EgressThreshold(p) \in Int
    <3>1. /\ alphaEgress[Out(p)].num \in Nat
          /\ alphaEgress[Out(p)].den \in Nat
          /\ alphaEgress[Out(p)].den > 0
      BY <2>3, MmuConfig DEF Fraction
    <3> QED
      BY <3>1, <2>3 DEF EgressThreshold, DynamicThreshold
  <2>12. CheckEgressAdmission(p)
    BY <2>1, <2>3, <2>4, <2>7, <2>8, <2>9, <2>10, <2>11 DEF CheckEgressAdmission
  <2> QED
    BY <2>5, <2>12 DEF Admitted
<1>3. IInv /\ HeadroomRespected => LosslessUntilPaused
  BY <1>2
<1>4. Spec => []HeadroomRespected
  BY <1>1, HeadroomAlwaysRespected
<1> QED
  BY <1>3, <1>4, AlwaysIInv, PTL
=============================================================================
