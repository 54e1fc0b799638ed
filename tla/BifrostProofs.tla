--------------------------- MODULE BifrostProofs ---------------------------
(***************************************************************************)
(* Bifrost bounds its queue and loses no throughput beyond what its        *)
(* pauses round off, for every link, slot, buffer, leak period and packet. *)
(***************************************************************************)
EXTENDS Bifrost, FiniteSetTheorems, SequenceTheorems, TLAPS

-----------------------------------------------------------------------------
(* Sums (ByteSum): a sum is a natural number, and one summand can be split *)
(* off.                                                                    *)

(* One summand x occupies f[x] cells. *)
LEMMA ColumnCells ==
  ASSUME NEW x, NEW n \in Nat
  PROVE  /\ IsFiniteSet({x} \X (1..n))
         /\ Cardinality({x} \X (1..n)) = n
<1>1. IsFiniteSet({x}) /\ Cardinality({x}) = 1
  BY FS_Singleton
<1>2. IsFiniteSet(1..n) /\ Cardinality(1..n) = n
  BY FS_Interval
<1>3. /\ IsFiniteSet({x} \X (1..n))
      /\ Cardinality({x} \X (1..n)) = Cardinality({x}) * Cardinality(1..n)
  BY <1>1, <1>2, FS_Product
<1> QED
  BY <1>1, <1>2, <1>3

(* The cells of a finite set are finitely many. *)
LEMMA CellsFinite ==
  ASSUME NEW S, IsFiniteSet(S), NEW f, \A x \in S : f[x] \in Nat
  PROVE  IsFiniteSet(Cells(S, f))
<1> DEFINE C == {{x} \X (1..f[x]) : x \in S}
           g == [x \in S |-> {x} \X (1..f[x])]
<1>1. g \in Surjection(S, C)
  BY DEF Surjection
<1>2. IsFiniteSet(C)
  <2> HIDE DEF g, C
  <2> QED BY <1>1, FS_Surjection
<1>3. ASSUME NEW T \in C
      PROVE  IsFiniteSet(T)
  <2>1. PICK x \in S : T = {x} \X (1..f[x])
    OBVIOUS
  <2> QED
    BY <2>1, ColumnCells
<1>4. IsFiniteSet(UNION C)
  <2> HIDE DEF C
  <2> QED BY <1>2, <1>3, FS_UNION
<1> QED
  BY <1>4 DEF Cells

LEMMA SumNat ==
  ASSUME NEW S, IsFiniteSet(S), NEW f, \A x \in S : f[x] \in Nat
  PROVE  Total(S, f) \in Nat
  BY CellsFinite, FS_CardinalityType DEF Total

(* Splitting off the summand of x. *)
LEMMA SumSplit ==
  ASSUME NEW S, IsFiniteSet(S), NEW f, \A y \in S : f[y] \in Nat,
         NEW x \in S
  PROVE  Total(S, f) = Total(S \ {x}, f) + f[x]
<1> DEFINE A == Cells(S \ {x}, f)
           B == {x} \X (1..f[x])
<1>1. Cells(S, f) = A \cup B
  BY DEF Cells
<1>2. A \cap B = {}
  BY DEF Cells
<1>3. IsFiniteSet(S \ {x})
  BY FS_RemoveElement
<1>4. IsFiniteSet(A)
  BY <1>3, CellsFinite
<1>5. IsFiniteSet(B) /\ Cardinality(B) = f[x]
  BY ColumnCells
<1>6. Cardinality(A) \in Nat
  BY <1>4, FS_CardinalityType
<1>7. Cardinality(A \cup B) = Cardinality(A) + Cardinality(B) - Cardinality({})
  <2> HIDE DEF A, B
  <2> QED BY <1>2, <1>4, <1>5, FS_Union
<1> QED
  BY <1>1, <1>5, <1>6, <1>7, FS_EmptySet DEF Total

(* Only the summands in S count. *)
LEMMA SumEqual ==
  ASSUME NEW S, NEW f, NEW g, \A x \in S : f[x] = g[x]
  PROVE  Total(S, f) = Total(S, g)
<1>1. {{x} \X (1..f[x]) : x \in S} = {{x} \X (1..g[x]) : x \in S}
  OBVIOUS
<1> QED
  BY <1>1 DEF Total, Cells

(* Changing one summand changes the sum by as much. *)
LEMMA SumChange ==
  ASSUME NEW S, IsFiniteSet(S), NEW f, NEW g, NEW x \in S,
         \A y \in S : f[y] \in Nat, \A y \in S : g[y] \in Nat,
         \A y \in S \ {x} : f[y] = g[y]
  PROVE  Total(S, g) = Total(S, f) - f[x] + g[x]
<1>1. Total(S, f) = Total(S \ {x}, f) + f[x]
  BY SumSplit
<1>2. Total(S, g) = Total(S \ {x}, g) + g[x]
  BY SumSplit
<1>3. Total(S \ {x}, f) = Total(S \ {x}, g)
  BY SumEqual
<1>4. Total(S \ {x}, f) \in Nat
  BY FS_RemoveElement, SumNat
<1> QED
  BY <1>1, <1>2, <1>3, <1>4

(* A sum bounds each of its summands. *)
LEMMA SumBound ==
  ASSUME NEW S, IsFiniteSet(S), NEW f, \A y \in S : f[y] \in Nat,
         NEW x \in S
  PROVE  f[x] <= Total(S, f)
<1>1. Total(S, f) = Total(S \ {x}, f) + f[x]
  BY SumSplit
<1>2. Total(S \ {x}, f) \in Nat
  BY FS_RemoveElement, SumNat
<1> QED
  BY <1>1, <1>2

(* Sums grow with their summands and with their index set. *)
LEMMA SumMonotone ==
  ASSUME NEW S, IsFiniteSet(S), NEW T \in SUBSET S, NEW f, NEW g,
         \A x \in S : f[x] \in Nat, \A x \in S : g[x] \in Nat,
         \A x \in T : f[x] <= g[x]
  PROVE  Total(T, f) <= Total(S, g)
<1>1. Cells(T, f) \subseteq Cells(S, g)
  <2> SUFFICES ASSUME NEW x \in T, NEW c \in {x} \X (1..f[x])
               PROVE  c \in {x} \X (1..g[x])
    BY DEF Cells
  <2> QED
    OBVIOUS
<1>2. IsFiniteSet(Cells(S, g))
  BY CellsFinite
<1> QED
  BY <1>1, <1>2, FS_Subset DEF Total

-----------------------------------------------------------------------------


(* What the virtual bytes are worth: they count nothing that is neither    *)
(* granted, nor arrived in this slot, nor forgone; and with the queue at   *)
(* the end of the last slot they make up a round trip and a slot.          *)
VirtualBacked == m_bifrostVirtual <= InFlight + received + forgone

VirtualEnough ==
  queued - received + drained + m_bifrostVirtual >= m_bifrostBound

IInv ==
  /\ TypeOK
  /\ received + granted[now] <= slotBytes
  /\ QueueBounded
  /\ VirtualBacked
  /\ VirtualEnough

-----------------------------------------------------------------------------
(* The constants *)

LEMMA Constants ==
  /\ slotBytes \in Nat \ {0}
  /\ m_bifrostBound \in Nat
  /\ m_bifrostBuffer >= m_bifrostBound + slotBytes
  /\ Flight \in Nat \ {0}
  /\ Flight * slotBytes \in Nat
  /\ Flight * slotBytes >= m_bifrostBound
<1>1. slotBytes \in Nat \ {0}
  BY BifrostConfig DEF slotBytes
<1>2. \A k \in Nat : k * slotBytes \in Nat
  BY <1>1
<1>3. (Rtt + 2) * slotBytes = (Rtt + 1) * slotBytes + slotBytes
  BY <1>1, BifrostConfig
<1>4. Flight * slotBytes = (Rtt + 1) * slotBytes + ReceiveDelays * slotBytes
  BY <1>1, BifrostConfig DEF Flight
<1>5. Flight \in Nat \ {0} /\ Rtt + 1 \in Nat /\ ReceiveDelays \in Nat
  BY BifrostConfig DEF Flight
<1> QED
  BY <1>1, <1>2, <1>3, <1>4, <1>5, BifrostConfig DEF m_bifrostBound

(* A flight of full slots *)
LEMMA FullFlight ==
  Total(1..Flight, [i \in 1..Flight |-> slotBytes]) = Flight * slotBytes
<1> DEFINE f == [i \in 1..Flight |-> slotBytes]
<1>1. Flight \in Nat /\ slotBytes \in Nat
  BY Constants
<1>2. Cells(1..Flight, f) = (1..Flight) \X (1..slotBytes)
  BY DEF Cells
<1>3. /\ IsFiniteSet(1..Flight) /\ Cardinality(1..Flight) = Flight
      /\ IsFiniteSet(1..slotBytes) /\ Cardinality(1..slotBytes) = slotBytes
  BY <1>1, FS_Interval
<1>4. Cardinality((1..Flight) \X (1..slotBytes)) = Flight * slotBytes
  <2>1. Cardinality((1..Flight) \X (1..slotBytes))
          = Cardinality(1..Flight) * Cardinality(1..slotBytes)
    BY <1>3, FS_Product, Zenon
  <2> QED
    BY <1>3, <2>1
<1> QED
  BY <1>2, <1>4 DEF Total

(* Rounding loses part of a microsecond. *)
LEMMA Rounded ==
  ASSUME NEW x \in Nat
  PROVE  /\ Sendable(x) \in 0..x
         /\ x % m_rate \in Nat
         /\ Sendable(x) + (x % m_rate) = x
<1>1. m_rate \in Nat /\ m_rate > 0
  BY BifrostConfig
<1> DEFINE q == x \div m_rate
<1>2. q \in Nat /\ x = m_rate * q + (x % m_rate) /\ x % m_rate \in 0..(m_rate - 1)
  BY <1>1
<1>3. m_rate * q \in Nat
  BY <1>1, <1>2
<1> QED
  BY <1>1, <1>2, <1>3 DEF Sendable

-----------------------------------------------------------------------------
(* What may still arrive *)

LEMMA InFlightNat ==
  ASSUME TypeOK
  PROVE  InFlight \in Nat
<1>1. Flight \in Nat
  BY Constants
<1>2. IsFiniteSet(1..Flight)
  BY <1>1, FS_Interval
<1>3. \A i \in 1..Flight : granted[i] \in Nat
  BY Constants DEF TypeOK
<1> QED
  BY <1>2, <1>3, SumNat DEF InFlight

(* It is at most a flight of full slots. *)
LEMMA InFlightBound ==
  ASSUME TypeOK'
  PROVE  InFlight' <= Flight * slotBytes
<1> DEFINE f == [i \in 1..Flight |-> slotBytes]
<1>1. IsFiniteSet(1..Flight)
  BY Constants, FS_Interval
<1>2. \A i \in 1..Flight : granted'[i] \in Nat /\ f[i] \in Nat /\ granted'[i] <= f[i]
  <2>1. slotBytes \in Nat /\ granted' \in [1..Flight -> 0..slotBytes]
    BY Constants DEF TypeOK
  <2>2. \A i \in 1..Flight : granted'[i] \in 0..slotBytes /\ f[i] = slotBytes
    BY <2>1
  <2> QED
    BY <2>1, <2>2
<1>3. Total(1..Flight, granted') <= Total(1..Flight, f)
  <2> HIDE DEF f
  <2> QED
    BY <1>1, <1>2, SumMonotone
<1> QED
  BY <1>3, FullFlight DEF InFlight

LEMMA InFlightChange ==
  ASSUME TypeOK, NEW n \in 0..slotBytes,
         granted' = [granted EXCEPT ![now] = n]
  PROVE  InFlight' = InFlight - granted[now] + n
<1>1. IsFiniteSet(1..Flight)
  BY Constants, FS_Interval
<1>2. now \in 1..Flight /\ granted \in [1..Flight -> 0..slotBytes] /\ slotBytes \in Nat
  BY Constants DEF TypeOK
<1>3. /\ \A i \in 1..Flight : granted[i] \in Nat
      /\ \A i \in 1..Flight : granted'[i] \in Nat
      /\ \A i \in (1..Flight) \ {now} : granted[i] = granted'[i]
      /\ granted'[now] = n
  BY <1>2
<1>4. Total(1..Flight, granted') = Total(1..Flight, granted) - granted[now] + granted'[now]
  <2> DEFINE S == 1..Flight
             f == granted
             g == granted'
  <2>1. /\ IsFiniteSet(S) /\ now \in S
        /\ \A i \in S : f[i] \in Nat
        /\ \A i \in S : g[i] \in Nat
        /\ \A i \in S \ {now} : f[i] = g[i]
    BY <1>1, <1>2, <1>3
  <2> HIDE DEF S, f, g
  <2>2. Total(S, g) = Total(S, f) - f[now] + g[now]
    BY <2>1, SumChange
  <2> QED
    BY <2>2 DEF S, f, g
<1> QED
  BY <1>3, <1>4 DEF InFlight

LEMMA NowBound ==
  ASSUME TypeOK
  PROVE  granted[now] \in Nat /\ granted[now] <= InFlight
<1>1. IsFiniteSet(1..Flight)
  BY Constants, FS_Interval
<1>2. now \in 1..Flight /\ \A i \in 1..Flight : granted[i] \in Nat
  BY Constants DEF TypeOK
<1> QED
  BY <1>1, <1>2, SumBound DEF InFlight

-----------------------------------------------------------------------------
(* CalculateBifrostPauseTime: the grant that is sent is never less than    *)
(* the one the virtual bytes count, and is zero when the buffer is full.   *)
LEMMA GrantBounds ==
  ASSUME TypeOK
  PROVE  /\ grant \in Int /\ grant <= slotBytes
         /\ corrected \in 0..slotBytes
         /\ grant <= corrected
         /\ corrected > 0 => queued < m_bifrostBuffer
<1>1. /\ slotBytes \in Nat /\ m_bifrostBuffer \in Nat
      /\ queued \in Nat /\ m_bifrostVirtual \in Nat
  BY Constants, BifrostConfig DEF TypeOK, m_bifrostBound
<1>2. grant \in Int /\ grant <= slotBytes /\ grant <= m_bifrostBuffer - queued - m_bifrostVirtual
  BY <1>1 DEF grant, Least
<1>3. CASE (m_bifrostSlot + 1) % m_bifrostLeakSlots = 0
  <2>1. corrected = Clip(grant - (queued + m_bifrostVirtual - m_bifrostBuffer), slotBytes)
    BY <1>3 DEF corrected
  <2> QED
    BY <1>1, <1>2, <2>1 DEF Clip, Least
<1>4. CASE (m_bifrostSlot + 1) % m_bifrostLeakSlots # 0
  <2>1. corrected = Clip(grant, slotBytes)
    BY <1>4 DEF corrected
  <2> QED
    BY <1>1, <1>2, <2>1 DEF Clip, Least
<1> QED
  BY <1>3, <1>4

LEMMA InitInv == Init => IInv
<1> SUFFICES ASSUME Init PROVE IInv
  OBVIOUS
<1>1. /\ slotBytes \in Nat \ {0} /\ m_bifrostBound \in Nat
      /\ m_bifrostBuffer >= m_bifrostBound + slotBytes
      /\ Flight \in Nat \ {0}
      /\ Flight * slotBytes \in Nat /\ Flight * slotBytes >= m_bifrostBound
      /\ m_bifrostBuffer \in Nat /\ m_bifrostLeakSlots \in Nat \ {0} /\ MaxLeak \in Nat
  BY Constants, BifrostConfig
<1>2. InFlight = Flight * slotBytes
  BY FullFlight DEF Init, InFlight
<1>3. TypeOK
  BY <1>1 DEF Init, TypeOK, m_bifrostBound
<1>4. received + granted[now] <= slotBytes
  BY <1>1 DEF Init
<1>5. QueueBounded
  BY <1>1, <1>2 DEF Init, QueueBounded
<1>6. VirtualBacked
  BY <1>1, <1>2 DEF Init, VirtualBacked
<1>7. VirtualEnough
  BY <1>1 DEF Init, VirtualEnough
<1> QED
  BY <1>3, <1>4, <1>5, <1>6, <1>7 DEF IInv

(* The sum of what may still arrive and the queue is unchanged. *)
LEMMA ArrivalInv ==
  ASSUME IInv, SendToDev
  PROVE  IInv'
<1>1. TypeOK /\ slotBytes \in Nat /\ m_bifrostBound \in Nat /\ Flight * slotBytes \in Nat
  BY Constants DEF IInv
<1> DEFINE n == granted[now] - 1
<1>2. granted[now] \in 1..slotBytes /\ InFlight \in Nat /\ now \in 1..Flight
  BY <1>1, NowBound, InFlightNat DEF SendToDev, TypeOK
<1>3. n \in 0..slotBytes /\ granted' = [granted EXCEPT ![now] = n]
  BY <1>1, <1>2 DEF SendToDev
<1>4. InFlight' = InFlight - 1
  <2>1. InFlight' = InFlight - granted[now] + n
    <3> HIDE DEF n
    <3> QED
      BY <1>1, <1>3, InFlightChange
  <2> QED
    BY <1>2, <2>1
<1>5. received + 1 + n <= slotBytes /\ received + 1 \in 0..slotBytes
  BY <1>1, <1>2 DEF IInv, TypeOK
<1>6. granted' \in [1..Flight -> 0..slotBytes] /\ granted'[now] = n
  <2> HIDE DEF n
  <2> QED
    BY <1>1, <1>2, <1>3 DEF TypeOK
<1>7. TypeOK'
  BY <1>1, <1>5, <1>6 DEF TypeOK, SendToDev
<1>8. (received + granted[now] <= slotBytes)'
  BY <1>5, <1>6 DEF SendToDev
<1>9. QueueBounded'
  BY <1>1, <1>2, <1>4, BifrostConfig DEF IInv, QueueBounded, TypeOK, SendToDev
<1>10. VirtualBacked'
  BY <1>1, <1>2, <1>4, Constants DEF IInv, VirtualBacked, TypeOK, SendToDev, m_bifrostBound
<1>11. VirtualEnough'
  BY <1>1, Constants DEF IInv, VirtualEnough, TypeOK, SendToDev, m_bifrostBound
<1> QED
  BY <1>7, <1>8, <1>9, <1>10, <1>11 DEF IInv

LEMMA DepartureInv ==
  ASSUME IInv, SwitchNotifyDequeue
  PROVE  IInv'
<1>1. /\ TypeOK /\ slotBytes \in Nat /\ m_bifrostBound \in Nat /\ Flight * slotBytes \in Nat
      /\ InFlight \in Nat
  BY Constants, InFlightNat DEF IInv
<1>2. InFlight' = InFlight
  BY DEF SwitchNotifyDequeue, InFlight
<1>3. TypeOK'
  BY <1>1 DEF TypeOK, SwitchNotifyDequeue
<1>4. (received + granted[now] <= slotBytes)'
  BY DEF SwitchNotifyDequeue, IInv
<1>5. QueueBounded'
  BY <1>1, <1>2, BifrostConfig DEF IInv, QueueBounded, TypeOK, SwitchNotifyDequeue
<1>6. VirtualBacked'
  BY <1>2 DEF IInv, VirtualBacked, SwitchNotifyDequeue
<1>7. VirtualEnough'
  BY <1>1, Constants DEF IInv, VirtualEnough, TypeOK, SwitchNotifyDequeue, m_bifrostBound
<1> QED
  BY <1>3, <1>4, <1>5, <1>6, <1>7 DEF IInv

(* A slot ends.  A grant is positive only if the queue is below H, and     *)
(* then a full flight bounds what may arrive; otherwise only a late PAUSE  *)
(* adds to it.  The virtual bytes gain at most what is granted, and lose   *)
(* no more than the queue's room allows.                                   *)
LEMMA SlotInv ==
  ASSUME IInv, SendBifrostPfcWithCustomTime
  PROVE  IInv'
<1>1. /\ TypeOK /\ slotBytes \in Nat \ {0} /\ m_bifrostBound \in Nat
      /\ m_bifrostBuffer >= m_bifrostBound + slotBytes
      /\ Flight \in Nat \ {0} /\ Flight * slotBytes \in Nat
      /\ m_bifrostBuffer \in Nat /\ m_bifrostLeakSlots \in Nat \ {0} /\ MaxLeak \in Nat
      /\ Packet \in Nat
  BY Constants, BifrostConfig DEF IInv
<1>2. /\ InFlight \in Nat /\ granted[now] \in Nat /\ granted[now] <= InFlight
      /\ queued \in Nat /\ received \in 0..slotBytes /\ drained \in 0..slotBytes
      /\ m_bifrostVirtual \in 0..m_bifrostBound
      /\ leaked \in 0..MaxLeak /\ forgone \in Nat /\ now \in 1..Flight
  BY <1>1, InFlightNat, NowBound DEF TypeOK, m_bifrostBound
<1>3. PICK late \in Late(Sendable(corrected)) :
        /\ granted' = [granted EXCEPT ![now] = Sendable(corrected) + late]
        /\ leaked' = leaked + late
  BY DEF SendBifrostPfcWithCustomTime
<1>4. /\ grant \in Int /\ grant <= slotBytes /\ corrected \in 0..slotBytes
      /\ grant <= corrected
      /\ corrected > 0 => queued < m_bifrostBuffer
  BY <1>1, GrantBounds
<1>5. /\ Sendable(corrected) \in 0..corrected
      /\ corrected % m_rate \in Nat
      /\ Sendable(corrected) + (corrected % m_rate) = corrected
  BY <1>1, <1>4, Rounded
<1>6. /\ late \in Nat
      /\ Sendable(corrected) + late \in 0..slotBytes
      /\ leaked + late \in 0..MaxLeak
  BY <1>1, <1>2, <1>3, <1>4, <1>5 DEF Late, Least
<1> DEFINE n == Sendable(corrected) + late
<1>7. InFlight' = InFlight - granted[now] + n
  <2>1. n \in 0..slotBytes /\ granted' = [granted EXCEPT ![now] = n]
    BY <1>3, <1>6
  <2> HIDE DEF n
  <2> QED
    BY <1>1, <2>1, InFlightChange
<1>8. /\ queued' = queued /\ received' = 0 /\ drained' = 0
      /\ m_bifrostVirtual' = NextVirtual
      /\ forgone' = Least(forgone + granted[now] + (corrected % m_rate), m_bifrostBound)
  BY DEF SendBifrostPfcWithCustomTime
<1>9. NextVirtual = Clip(m_bifrostVirtual - received + grant, m_bifrostBound)
  BY DEF NextVirtual, Arrived
<1>10. NextVirtual \in 0..m_bifrostBound
  BY <1>1, <1>2, <1>4, <1>9 DEF Clip, Least
<1>11. TypeOK'
  <2>1. granted' \in [1..Flight -> 0..slotBytes]
    BY <1>1, <1>2, <1>3, <1>6 DEF TypeOK
  <2>2. now' \in 1..Flight /\ m_bifrostSlot' \in 0..(m_bifrostLeakSlots - 1)
    BY <1>1, <1>2 DEF SendBifrostPfcWithCustomTime, TypeOK
  <2>3. forgone' \in Nat
    BY <1>1, <1>2, <1>5, <1>8 DEF Least
  <2>4. m_bifrostVirtual' \in 0..((Rtt + 1) * slotBytes)
    BY <1>8, <1>10 DEF m_bifrostBound
  <2>5. queued' \in Nat /\ received' \in 0..slotBytes /\ drained' \in 0..slotBytes
    BY <1>1, <1>2, <1>8
  <2>6. leaked' \in 0..MaxLeak
    BY <1>3, <1>6
  <2> QED
    BY <2>1, <2>2, <2>3, <2>4, <2>5, <2>6 DEF TypeOK
<1>12. (received + granted[now] <= slotBytes)'
  BY <1>1, <1>8, <1>11 DEF TypeOK
<1>13. QueueBounded'
  <2>1. InFlight' <= Flight * slotBytes
    BY <1>11, InFlightBound
  <2>2. CASE corrected > 0
    BY <1>1, <1>2, <1>3, <1>4, <1>6, <1>8, <2>1, <2>2, <1>7 DEF QueueBounded
  <2>3. CASE corrected = 0
    <3>1. n = late
      BY <1>5, <1>6, <2>3
    <3> QED
      BY <1>1, <1>2, <1>3, <1>6, <1>7, <1>8, <3>1 DEF QueueBounded, IInv
  <2> QED
    BY <1>4, <2>2, <2>3
<1>14. VirtualBacked'
  <2>1. m_bifrostVirtual - received + grant <= InFlight + forgone + grant
    BY <1>1, <1>2, <1>4 DEF IInv, VirtualBacked
  <2>2. InFlight + grant <= InFlight' + granted[now] + (corrected % m_rate)
    BY <1>2, <1>4, <1>5, <1>6, <1>7
  <2>3. InFlight' \in Nat
    BY <1>2, <1>5, <1>6, <1>7
  <2> QED
    BY <1>1, <1>2, <1>4, <1>5, <1>8, <1>9, <1>10, <2>1, <2>2, <2>3
    DEF VirtualBacked, Clip, Least
<1>15. VirtualEnough'
  <2>1. queued + m_bifrostVirtual - received + drained >= m_bifrostBound
    BY <1>1, <1>2 DEF IInv, VirtualEnough
  <2>2. grant = slotBytes \/ grant = m_bifrostBuffer - queued - m_bifrostVirtual
    BY DEF grant, Least
  <2>3. queued + (m_bifrostVirtual - received + grant) >= m_bifrostBound
    BY <1>1, <1>2, <1>4, <2>1, <2>2
  <2>4. queued + NextVirtual >= m_bifrostBound
    BY <1>1, <1>2, <1>4, <1>9, <2>3 DEF Clip, Least
  <2> QED
    BY <1>1, <1>2, <1>8, <1>10, <2>4, Constants DEF VirtualEnough, m_bifrostBound
<1> QED
  BY <1>11, <1>12, <1>13, <1>14, <1>15 DEF IInv

LEMMA NextInv == IInv /\ [Next]_vars => IInv'
<1> SUFFICES ASSUME IInv, [Next]_vars PROVE IInv'
  OBVIOUS
<1>1. CASE SendToDev
  BY <1>1, ArrivalInv
<1>2. CASE SwitchNotifyDequeue
  BY <1>2, DepartureInv
<1>3. CASE SendBifrostPfcWithCustomTime
  BY <1>3, SlotInv
<1>4. CASE UNCHANGED vars
  BY <1>4 DEF vars, IInv, TypeOK, QueueBounded, VirtualBacked, VirtualEnough, InFlight
<1> QED
  BY <1>1, <1>2, <1>3, <1>4 DEF Next

LEMMA Invariance == Spec => []IInv
  BY InitInv, NextInv, PTL DEF Spec

-----------------------------------------------------------------------------
(* The counters of the slot PFC stay within their ranges: the virtual      *)
(* bytes between zero and the round trip and a slot, each grant within a   *)
(* slot (ConfigureBifrost, CalculateBifrostPauseTime).                     *)
THEOREM TypeCorrect == Spec => []TypeOK
<1>1. IInv => TypeOK
  BY DEF IInv
<1> QED
  BY <1>1, Invariance, PTL

(* The queue and what may still arrive stay below H and a full flight, and *)
(* what late PAUSEs let pass (CalculateBifrostPauseTime).                  *)
THEOREM QueueAlwaysBounded == Spec => []QueueBounded
<1>1. IInv => QueueBounded
  BY DEF IInv
<1> QED
  BY <1>1, Invariance, PTL

(* A microsecond's rounding is all that a grant falls short of. *)
LEMMA GrantInSlot ==
  ASSUME TypeOK, SendBifrostPfcWithCustomTime
  PROVE  queued + granted'[now] > slotBytes - m_rate
<1>1. /\ slotBytes \in Nat /\ m_bifrostBound \in Nat /\ m_bifrostBuffer \in Nat /\ m_rate \in Nat
      /\ m_bifrostBuffer >= m_bifrostBound + slotBytes
      /\ queued \in Nat /\ m_bifrostVirtual \in 0..m_bifrostBound
      /\ MaxLeak \in Nat /\ leaked \in 0..MaxLeak /\ Packet \in Nat
  BY Constants, BifrostConfig DEF TypeOK, m_bifrostBound
<1>2. PICK late \in Late(Sendable(corrected)) :
        granted' = [granted EXCEPT ![now] = Sendable(corrected) + late]
  BY DEF SendBifrostPfcWithCustomTime
<1>3. granted'[now] = Sendable(corrected) + late
  BY <1>2 DEF TypeOK
<1>4. /\ grant \in Int /\ corrected \in 0..slotBytes /\ grant <= corrected
      /\ queued + grant >= slotBytes
  <2>1. grant = slotBytes \/ grant = m_bifrostBuffer - queued - m_bifrostVirtual
    BY DEF grant, Least
  <2> QED
    BY <1>1, <2>1, GrantBounds
<1>5. /\ Sendable(corrected) \in 0..corrected
      /\ corrected % m_rate \in 0..(m_rate - 1)
      /\ Sendable(corrected) + (corrected % m_rate) = corrected
  <2>1. corrected \in Nat
    BY <1>1, <1>4
  <2>2. \A n \in Nat : n % m_rate \in 0..(m_rate - 1)
    BY BifrostConfig
  <2> QED
    BY <2>1, <2>2, Rounded
<1>6. late \in Nat
  BY <1>1, <1>2, <1>4, <1>5 DEF Late, Least
<1> QED
  BY <1>1, <1>3, <1>4, <1>5, <1>6

(* No slot's grant leaves the outputs short of a slot's bytes by more than *)
(* a microsecond's rounding (CalculateBifrostPauseTime).                   *)
THEOREM GrantAlwaysKeepsUp == Spec => GrantKeepsUp
<1>1. IInv /\ [Next]_vars =>
        [SendBifrostPfcWithCustomTime => queued + granted'[now] > slotBytes - m_rate]_vars
  BY GrantInSlot DEF IInv
<1> QED
  BY <1>1, Invariance, PTL DEF Spec, GrantKeepsUp

(* The queue and what may still arrive are enough for a round trip and a   *)
(* slot, but for what the sender left unused and what was rounded off.     *)
THEOREM NeverLosesThroughput == Spec => []NoThroughputLoss
<1>1. ASSUME IInv PROVE NoThroughputLoss
  <2>1. TypeOK /\ InFlight \in Nat /\ m_bifrostBound \in Nat /\ slotBytes \in Nat
    BY <1>1, InFlightNat, Constants DEF IInv
  <2>2. /\ m_bifrostVirtual <= InFlight + received + forgone
        /\ queued - received + drained + m_bifrostVirtual >= m_bifrostBound
    BY <1>1 DEF IInv, VirtualBacked, VirtualEnough
  <2>3. /\ queued \in Nat /\ received \in Nat /\ drained \in Nat /\ forgone \in Nat
        /\ m_bifrostVirtual \in 0..m_bifrostBound
    BY <2>1 DEF TypeOK, m_bifrostBound
  <2>4. queued + drained + InFlight + forgone >= m_bifrostBound
    BY <2>1, <2>2, <2>3
  <2> QED
    BY <2>4 DEF NoThroughputLoss, m_bifrostBound
<1> QED
  BY <1>1, Invariance, PTL
=============================================================================
