----------------------- MODULE RdmaTransportProofs -----------------------
(***************************************************************************)
(* Go-back-N is safe and implements ReliableStream, for every flow size,   *)
(* MTU, window, chunk and number of losses, with and without back-to-zero. *)
(***************************************************************************)
EXTENDS RdmaTransport, SequenceTheorems, TLAPS

(* Packets cut from the flow, and acknowledgements worth at most e.        *)
DataSent == {d \in [seq : 0..m_size, size : 1..m_size] : d.seq + d.size <= m_size}

AcksUpTo(e) == {a \in [kind : {ACK, NACK}, seq : 0..m_size] : AckSeq(a.seq) <= e}

Aligned(n) == m_backto0 => \E k \in Nat : n = k * m_chunk

Scalars ==
  /\ snd_nxt \in 0..m_size
  /\ snd_una \in 0..m_size
  /\ ReceiverNextExpectedSeq \in 0..m_size
  /\ m_lastNACK \in 0..m_size
  /\ registered \in BOOLEAN
  /\ receiving \in BOOLEAN
  /\ nackHeld \in BOOLEAN
  /\ nacks \in 0..2
  /\ losses \in 0..MaxLoss

(* The bytes taken in order are the flow up to some point, never before    *)
(* the one that is expected.                                               *)
PrefixDelivered ==
  \E h \in 0..m_size :
    ReceiverNextExpectedSeq <= h /\ delivered = 0..(h - 1)

(* Every acknowledgement on its way is worth no more than the receiver     *)
(* expects, even after back-to-zero takes it back; completion is the       *)
(* moment the last byte is acknowledged.                                   *)
IInv ==
  /\ Scalars
  /\ data \in Seq(DataSent)
  /\ acks \in Seq(AcksUpTo(ReceiverNextExpectedSeq))
  /\ NeverExpectsAcked
  /\ PrefixDelivered
  /\ Aligned(snd_una)
  /\ registered <=> snd_una < m_size
  /\ registered <=> receiving

-----------------------------------------------------------------------------
(* Rounding down to a chunk *)

LEMMA ChunkBound ==
  ASSUME NEW n \in Nat
  PROVE  /\ ChunkStart(n) \in Nat
         /\ ChunkStart(n) <= n
         /\ n \div m_chunk \in Nat
         /\ n < (n \div m_chunk + 1) * m_chunk
<1>1. m_chunk \in Nat /\ m_chunk > 0
  BY TransportConfig
<1> DEFINE q == n \div m_chunk
<1>2. q \in Nat /\ q * m_chunk <= n /\ n < (q + 1) * m_chunk
  BY <1>1
<1>3. q * m_chunk \in Nat
  BY <1>1, <1>2
<1> QED
  BY <1>2, <1>3 DEF ChunkStart

(* A whole number of chunks below e is below the chunk e is in. *)
LEMMA ChunksBelow ==
  ASSUME NEW k \in Nat, NEW e \in Nat, k * m_chunk <= e
  PROVE  k * m_chunk <= ChunkStart(e)
<1> DEFINE q == e \div m_chunk
<1>1. m_chunk \in Nat /\ m_chunk > 0
  BY TransportConfig
<1>2. q \in Nat /\ e < (q + 1) * m_chunk
  BY ChunkBound
<1>3. k <= q
  <2> SUFFICES ASSUME k >= q + 1
               PROVE  FALSE
    BY <1>2
  <2>1. k * m_chunk >= (q + 1) * m_chunk
    BY <1>1, <1>2
  <2> QED
    BY <1>1, <1>2, <2>1
<1>4. k * m_chunk <= q * m_chunk
  BY <1>1, <1>2, <1>3
<1> QED
  BY <1>4 DEF ChunkStart

LEMMA AckValueBound ==
  ASSUME NEW n \in Nat
  PROVE  /\ AckSeq(n) \in Nat
         /\ AckSeq(n) <= n
         /\ Aligned(AckSeq(n))
  BY ChunkBound DEF AckSeq, Aligned, ChunkStart

(* What is worth at most e is worth at most e's chunk when it is rounded. *)
LEMMA AlignedBelow ==
  ASSUME NEW n \in Nat, NEW e \in Nat, Aligned(n), n <= e, m_backto0
  PROVE  n <= ChunkStart(e)
  BY ChunksBelow DEF Aligned

LEMMA PrefixWithin ==
  ASSUME NEW i \in Nat, NEW j \in Nat, i <= j
  PROVE  0..(i - 1) \subseteq 0..(j - 1)
  OBVIOUS

-----------------------------------------------------------------------------
(* Sequences *)

LEMMA SeqMonotone ==
  ASSUME NEW S, NEW T, S \subseteq T, NEW s \in Seq(S)
  PROVE  s \in Seq(T)
<1>1. Len(s) \in Nat /\ \A i \in 1..Len(s) : s[i] \in T
  BY ElementOfSeq, LenProperties
<1>2. s = [i \in 1..Len(s) |-> s[i]]
  BY LenProperties
<1> QED
  BY <1>1, <1>2, SeqDef

LEMMA WithoutInSeq ==
  ASSUME NEW S, NEW s \in Seq(S), NEW i \in 1..Len(s)
  PROVE  Without(s, i) \in Seq(S)
<1>1. Len(s) \in Nat /\ Len(s) >= 1 /\ Len(s) - 1 \in Nat
  BY LenProperties
<1>2. \A j \in 1..Len(s) : s[j] \in S
  BY ElementOfSeq
<1>3. Without(s, i) \in [1..(Len(s) - 1) -> S]
  BY <1>1, <1>2 DEF Without
<1> QED
  BY <1>1, <1>3, SeqDef

LEMMA TailInSeq ==
  ASSUME NEW S, NEW s \in Seq(S), s # <<>>
  PROVE  Head(s) \in S /\ Tail(s) \in Seq(S)
  BY HeadTailProperties

-----------------------------------------------------------------------------
(* The invariant is inductive *)

LEMMA InitInv == Init => IInv
<1> SUFFICES ASSUME Init
             PROVE  IInv
  OBVIOUS
<1>1. data \in Seq(DataSent) /\ acks \in Seq(AcksUpTo(ReceiverNextExpectedSeq))
  BY EmptySeq DEF Init
<1>2. Aligned(snd_una)
  BY TransportConfig DEF Init, Aligned
<1>3. Scalars
  <2>1. /\ snd_nxt \in 0..m_size /\ snd_una \in 0..m_size
        /\ ReceiverNextExpectedSeq \in 0..m_size /\ m_lastNACK \in 0..m_size
        /\ nacks \in 0..2 /\ losses \in 0..MaxLoss
    BY TransportConfig DEF Init
  <2>2. registered \in BOOLEAN /\ receiving \in BOOLEAN /\ nackHeld \in BOOLEAN
    BY Zenon DEF Init
  <2> QED
    BY <2>1, <2>2 DEF Scalars
<1>4. NeverExpectsAcked /\ snd_una < m_size
  BY TransportConfig DEF Init, NeverExpectsAcked
<1>5. PrefixDelivered
  <2>1. 0..(0 - 1) = {}
    OBVIOUS
  <2>2. 0 \in 0..m_size
    BY TransportConfig
  <2> QED
    BY <2>1, <2>2 DEF Init, PrefixDelivered
<1> QED
  BY <1>1, <1>2, <1>3, <1>4, <1>5 DEF Init, IInv

LEMMA SendInv ==
  ASSUME IInv, Send
  PROVE  IInv'
<1>1. /\ snd_nxt \in 0..m_size
      /\ m_size \in Nat /\ m_mtu \in Nat /\ m_mtu > 0
  BY TransportConfig DEF IInv, Scalars
<1> DEFINE payload == PayloadSize
<1>2. payload \in 1..m_size /\ snd_nxt + payload <= m_size
  BY <1>1 DEF Send, MaySend, GetBytesLeft, PayloadSize, Lesser
<1>3. [seq |-> snd_nxt, size |-> payload] \in DataSent
  BY <1>1, <1>2 DEF DataSent
<1>4. data' \in Seq(DataSent)
  <2>1. data' = Append(data, [seq |-> snd_nxt, size |-> payload])
    BY DEF Send
  <2> HIDE DEF payload
  <2> QED
    BY <2>1, <1>3, AppendProperties DEF IInv
<1>5. snd_nxt' \in 0..m_size
  BY <1>1, <1>2 DEF Send
<1> QED
  BY <1>4, <1>5 DEF Send, IInv, Scalars, receiver, NeverExpectsAcked, PrefixDelivered, Aligned

LEMMA ReceiveAckInv ==
  ASSUME IInv, ReceiveAck
  PROVE  /\ IInv'
         /\ snd_una' >= snd_una
         /\ registered' = (snd_una' < m_size)
<1> DEFINE a == Head(acks)
           ack_seq == AckSeq(a.seq)
           una == IF m_ack_interval = 0 THEN snd_una ELSE Acknowledge(ack_seq)
           complete == m_ack_interval # 0 /\ IsFinished(una)
<1>1. /\ snd_nxt \in 0..m_size /\ snd_una \in 0..m_size
      /\ ReceiverNextExpectedSeq \in 0..m_size
      /\ snd_una <= ReceiverNextExpectedSeq
      /\ m_size \in Nat
  BY TransportConfig DEF IInv, Scalars, NeverExpectsAcked
<1>2. a \in AcksUpTo(ReceiverNextExpectedSeq)
      /\ acks' \in Seq(AcksUpTo(ReceiverNextExpectedSeq))
  BY TailInSeq DEF IInv, ReceiveAck
<1>3. a.seq \in Nat /\ ack_seq <= ReceiverNextExpectedSeq
  BY <1>2 DEF AcksUpTo, AckSeq
<1>4. ack_seq \in Nat /\ Aligned(ack_seq)
  BY <1>3, AckValueBound DEF AckSeq
<1>5. /\ una \in 0..m_size
      /\ una <= ReceiverNextExpectedSeq
      /\ una >= snd_una
      /\ Aligned(una)
  <2> HIDE DEF ack_seq
  <2> QED
    BY <1>1, <1>3, <1>4 DEF Acknowledge, IInv
<1>6. /\ snd_una' = una
      /\ snd_nxt' = RecoverQueue(a.kind, una)
      /\ registered' = ~complete
      /\ receiving' = (receiving /\ ~complete)
      /\ ReceiverNextExpectedSeq' = ReceiverNextExpectedSeq
      /\ UNCHANGED <<m_lastNACK, nackHeld, nacks, delivered, data, losses>>
      /\ registered
  BY DEF ReceiveAck, receiver
<1>7. registered' = (snd_una' < m_size)
  <2>1. snd_una < m_size
    BY <1>6 DEF IInv
  <2>2. complete <=> una >= m_size
    <3>1. CASE m_ack_interval = 0
      BY <3>1, <2>1, <1>1
    <3>2. CASE m_ack_interval # 0
      BY <3>2 DEF IsFinished
    <3> QED
      BY <3>1, <3>2
  <2> HIDE DEF una, complete
  <2> QED
    BY <2>2, <1>1, <1>5, <1>6
<1> HIDE DEF una, complete, a
<1>8. snd_nxt' \in 0..m_size
  BY <1>1, <1>5, <1>6 DEF RecoverQueue
<1>9. Scalars'
  BY <1>5, <1>6, <1>8 DEF IInv, Scalars
<1>10. acks' \in Seq(AcksUpTo(ReceiverNextExpectedSeq'))
  BY <1>2, <1>6
<1>11. NeverExpectsAcked'
  BY <1>5, <1>6 DEF NeverExpectsAcked
<1>12. Aligned(snd_una)'
  BY <1>5, <1>6 DEF Aligned
<1>13. (registered <=> receiving)'
  BY <1>6 DEF IInv
<1>14. (data \in Seq(DataSent))' /\ PrefixDelivered'
  BY <1>6 DEF IInv, DataSent, PrefixDelivered
<1> QED
  BY <1>5, <1>6, <1>7, <1>9, <1>10, <1>11, <1>12, <1>13, <1>14 DEF IInv, AcksUpTo, AckSeq

LEMMA ReceiveExpectedInv ==
  ASSUME IInv, ReceiveExpected
  PROVE  /\ IInv'
         /\ \/ delivered' = delivered
            \/ \E n \in 1..m_size :
                 delivered \subseteq 0..(n - 1) /\ delivered' = 0..(n - 1)
<1> DEFINE d == Head(data)
           next == d.seq + d.size
           e == ReceiverNextExpectedSeq
<1>1. /\ e \in 0..m_size /\ snd_una \in 0..m_size /\ snd_una <= e /\ m_size \in Nat
  BY TransportConfig DEF IInv, Scalars, NeverExpectsAcked
<1>2. d \in DataSent /\ data' \in Seq(DataSent)
  BY TailInSeq DEF IInv, ReceiveExpected
<1>3. d.seq = e /\ ReceiverNextExpectedSeq' = next
  BY DEF ReceiveExpected, InOrder
<1>4. next \in (e + 1)..m_size
  BY <1>1, <1>2, <1>3 DEF DataSent
<1>5. /\ UNCHANGED <<snd_nxt, snd_una, registered, m_lastNACK, nackHeld, nacks, receiving, losses>>
      /\ acks' = Append(acks, [kind |-> ACK, seq |-> next]) \/ acks' = acks
      /\ delivered' = delivered \union e..(next - 1)
  BY <1>3 DEF ReceiveExpected, sender, Reply
<1> HIDE DEF d, next
<1>6. acks \in Seq(AcksUpTo(next))
  <2>1. AcksUpTo(e) \subseteq AcksUpTo(next)
    <3> SUFFICES ASSUME NEW a \in AcksUpTo(e)
                 PROVE  AckSeq(a.seq) <= next
      BY DEF AcksUpTo
    <3>1. AckSeq(a.seq) \in Nat /\ AckSeq(a.seq) <= e
      BY AckValueBound DEF AcksUpTo
    <3> QED
      BY <3>1, <1>1, <1>4
  <2> QED
    BY <2>1, SeqMonotone DEF IInv
<1>7. [kind |-> ACK, seq |-> next] \in AcksUpTo(next)
  BY <1>1, <1>4, AckValueBound DEF AcksUpTo
<1>8. acks' \in Seq(AcksUpTo(next))
  BY <1>5, <1>6, <1>7, AppendProperties
<1>9. Scalars' /\ NeverExpectsAcked' /\ Aligned(snd_una)'
  BY <1>1, <1>3, <1>4, <1>5 DEF IInv, Scalars, NeverExpectsAcked, Aligned
<1>10. (registered <=> snd_una < m_size)' /\ (registered <=> receiving)'
  BY <1>5 DEF IInv
<1>11. PICK h \in 0..m_size : e <= h /\ delivered = 0..(h - 1)
  BY DEF IInv, PrefixDelivered
<1>12. delivered' = 0..((IF h >= next THEN h ELSE next) - 1)
  BY <1>1, <1>4, <1>5, <1>11
<1>13. PrefixDelivered'
  BY <1>1, <1>3, <1>4, <1>11, <1>12 DEF PrefixDelivered
<1>14. \/ delivered' = delivered
       \/ \E n \in 1..m_size :
            delivered \subseteq 0..(n - 1) /\ delivered' = 0..(n - 1)
  <2>1. CASE h >= next
    BY <2>1, <1>11, <1>12
  <2>2. CASE h < next
    <3>1. next \in 1..m_size /\ delivered' = 0..(next - 1)
      BY <2>2, <1>1, <1>4, <1>11, <1>12
    <3>2. delivered \subseteq 0..(next - 1)
      BY <2>2, <1>1, <1>4, <1>11
    <3> QED
      BY <3>1, <3>2
  <2> QED
    BY <2>1, <2>2, <1>1, <1>4, <1>11
<1> QED
  BY <1>2, <1>3, <1>4, <1>8, <1>9, <1>10, <1>13, <1>14 DEF IInv, AcksUpTo, AckSeq, DataSent

LEMMA ReceiveGapInv ==
  ASSUME IInv, ReceiveGap
  PROVE  /\ IInv'
         /\ delivered' = delivered
<1> DEFINE e == ReceiverNextExpectedSeq
           next == AckSeq(e)
<1>1. /\ e \in 0..m_size /\ snd_una \in 0..m_size /\ snd_una <= e /\ m_size \in Nat
  BY TransportConfig DEF IInv, Scalars, NeverExpectsAcked
<1>2. data' \in Seq(DataSent)
  BY TailInSeq DEF IInv, ReceiveGap
<1>3. /\ UNCHANGED <<snd_nxt, snd_una, registered, receiving, delivered, losses>>
      /\ m_lastNACK' = e /\ nackHeld' = TRUE
      /\ ReceiverNextExpectedSeq' = next
      /\ acks' = Append(acks, [kind |-> NACK, seq |-> next])
  BY DEF ReceiveGap, sender, Reply
<1>4. next \in Nat /\ next <= e
  BY <1>1, AckValueBound
<1>5. snd_una <= next
  BY <1>1, AlignedBelow DEF IInv, AckSeq
<1>6. AcksUpTo(e) \subseteq AcksUpTo(next)
  <2> SUFFICES ASSUME NEW a \in AcksUpTo(e)
               PROVE  AckSeq(a.seq) <= next
    BY DEF AcksUpTo
  <2>1. /\ AckSeq(a.seq) \in Nat
        /\ AckSeq(a.seq) <= e
        /\ Aligned(AckSeq(a.seq))
    BY AckValueBound DEF AcksUpTo
  <2> QED
    BY <2>1, <1>1, AlignedBelow DEF AckSeq
<1>7. [kind |-> NACK, seq |-> next] \in AcksUpTo(next)
  <2> HIDE DEF next
  <2> QED
    BY <1>1, <1>4, AckValueBound DEF AcksUpTo
<1>8. acks' \in Seq(AcksUpTo(next))
  <2>1. acks \in Seq(AcksUpTo(next))
    BY <1>6, SeqMonotone DEF IInv
  <2> HIDE DEF next
  <2> QED
    BY <2>1, <1>3, <1>7, AppendProperties
<1>9. PrefixDelivered'
  <2>1. PICK h \in 0..m_size : e <= h /\ delivered = 0..(h - 1)
    BY DEF IInv, PrefixDelivered
  <2>2. ReceiverNextExpectedSeq' <= h /\ delivered' = 0..(h - 1)
    <3> HIDE DEF next
    <3> QED
      BY <1>1, <1>3, <1>4, <2>1
  <2> QED
    BY <2>2 DEF PrefixDelivered
<1> HIDE DEF next
<1>12. nacks' \in 0..2
  BY DEF IInv, Scalars, ReceiveGap
<1>10. Scalars' /\ NeverExpectsAcked' /\ Aligned(snd_una)'
  BY <1>1, <1>3, <1>4, <1>5, <1>12 DEF IInv, Scalars, NeverExpectsAcked, Aligned
<1>11. (registered <=> snd_una < m_size)' /\ (registered <=> receiving)'
  BY <1>3 DEF IInv
<1> QED
  BY <1>2, <1>3, <1>8, <1>9, <1>10, <1>11 DEF IInv, AcksUpTo, AckSeq, DataSent

(* The steps that only take a packet off the path, or only move a timer.   *)
LEMMA OtherInv ==
  ASSUME IInv,
         ReceiveSilently \/ NackTimer \/ LoseData \/ LoseAck \/ UNCHANGED vars
  PROVE  /\ IInv'
         /\ UNCHANGED <<snd_nxt, snd_una, registered, ReceiverNextExpectedSeq, delivered>>
<1>1. UNCHANGED <<snd_nxt, snd_una, registered, ReceiverNextExpectedSeq, receiving, m_lastNACK,
                 nacks, delivered>>
  BY DEF ReceiveSilently, NackTimer, LoseData, LoseAck, vars, sender, receiver
<1>2. data' \in Seq(DataSent)
  <2>1. CASE ReceiveSilently
    BY <2>1, TailInSeq DEF ReceiveSilently, IInv
  <2>2. CASE LoseData
    BY <2>2, WithoutInSeq DEF LoseData, IInv
  <2>3. CASE ~ReceiveSilently /\ ~LoseData
    BY <2>3 DEF NackTimer, LoseAck, vars, IInv
  <2> QED
    BY <2>1, <2>2, <2>3
<1>3. acks' \in Seq(AcksUpTo(ReceiverNextExpectedSeq))
  <2>1. CASE LoseAck
    BY <2>1, WithoutInSeq DEF LoseAck, IInv
  <2>2. CASE ~LoseAck
    BY <2>2 DEF ReceiveSilently, NackTimer, LoseData, vars, IInv
  <2> QED
    BY <2>1, <2>2
<1>4. nackHeld' \in BOOLEAN /\ losses' \in 0..MaxLoss
  <2>1. nackHeld \in BOOLEAN /\ losses \in 0..MaxLoss /\ MaxLoss \in Nat
    BY TransportConfig DEF IInv, Scalars
  <2>2. CASE NackTimer
    <3>1. nackHeld' \in BOOLEAN
      BY <2>2, Zenon DEF NackTimer
    <3>2. losses' = losses
      BY <2>2 DEF NackTimer
    <3> QED
      BY <2>1, <3>1, <3>2
  <2>3. CASE LoseData \/ LoseAck
    <3>1. nackHeld' = nackHeld
      BY <2>3 DEF LoseData, LoseAck, receiver
    <3>2. losses < MaxLoss /\ losses' = losses + 1
      BY <2>3 DEF LoseData, LoseAck
    <3> QED
      BY <2>1, <3>1, <3>2
  <2>4. CASE ReceiveSilently \/ UNCHANGED vars
    <3>1. nackHeld' = nackHeld /\ losses' = losses
      BY <2>4 DEF ReceiveSilently, vars, receiver
    <3> QED
      BY <2>1, <3>1
  <2> QED
    BY <2>2, <2>3, <2>4
<1>5. Scalars' /\ NeverExpectsAcked' /\ PrefixDelivered' /\ Aligned(snd_una)'
  BY <1>1, <1>4 DEF IInv, Scalars, NeverExpectsAcked, PrefixDelivered, Aligned
<1>6. (registered <=> snd_una < m_size)' /\ (registered <=> receiving)'
  BY <1>1 DEF IInv
<1> QED
  BY <1>1, <1>2, <1>3, <1>5, <1>6 DEF IInv, AcksUpTo, AckSeq, DataSent

LEMMA StepInv == IInv /\ [Next]_vars => IInv'
<1> SUFFICES ASSUME IInv, [Next]_vars
             PROVE  IInv'
  OBVIOUS
<1>1. CASE Send
  BY <1>1, SendInv
<1>2. CASE ReceiveAck
  BY <1>2, ReceiveAckInv
<1>3. CASE ReceiveExpected
  BY <1>3, ReceiveExpectedInv
<1>4. CASE ReceiveGap
  BY <1>4, ReceiveGapInv
<1>5. CASE ReceiveSilently \/ NackTimer \/ LoseData \/ LoseAck \/ UNCHANGED vars
  BY <1>5, OtherInv
<1> QED
  BY <1>1, <1>2, <1>3, <1>4, <1>5 DEF Next, Sender, Receiver

LEMMA AlwaysIInv == Spec => []IInv
  BY InitInv, StepInv, PTL DEF Spec

-----------------------------------------------------------------------------
(* The last acknowledgement *)

(* Only the last acknowledgement on its way can be worth the whole flow:   *)
(* the receiver sends none once it expects nothing more.                   *)
FinalIsLast == \A i \in 1..Len(acks) : i < Len(acks) => AckSeq(acks[i].seq) < m_size

(* Before the receiver replies, it expects more: no acknowledgement on its *)
(* way is worth the whole flow.                                            *)
LEMMA ReplyKeepsLast ==
  ASSUME IInv, NEW kind, NEW seq,
         ReceiverNextExpectedSeq < m_size,
         Reply(kind, seq)
  PROVE  FinalIsLast'
<1>1. /\ acks \in Seq(AcksUpTo(ReceiverNextExpectedSeq))
      /\ ReceiverNextExpectedSeq \in Nat
      /\ m_size \in Nat
  BY TransportConfig DEF IInv, Scalars
<1>2. /\ Len(acks') = Len(acks) + 1
      /\ \A i \in 1..Len(acks) : acks'[i] = acks[i]
  BY <1>1 DEF Reply
<1>3. \A i \in 1..Len(acks) : AckSeq(acks[i].seq) <= ReceiverNextExpectedSeq
  <2>1. \A i \in 1..Len(acks) : acks[i] \in AcksUpTo(ReceiverNextExpectedSeq)
    BY <1>1
  <2> QED
    BY <2>1 DEF AcksUpTo
<1>4. \A n \in 0..m_size : AckSeq(n) \in Int
  BY TransportConfig DEF AckSeq, ChunkStart
<1>5. \A i \in 1..Len(acks) : acks[i].seq \in 0..m_size
  BY <1>1 DEF AcksUpTo
<1>6. \A i \in 1..Len(acks) : AckSeq(acks[i].seq) < m_size
  BY <1>1, <1>3, <1>4, <1>5
<1>7. \A i \in 1..Len(acks') : i < Len(acks') => AckSeq(acks'[i].seq) < m_size
  BY <1>1, <1>2, <1>6
<1> QED
  BY <1>7 DEF FinalIsLast, AckSeq, ChunkStart

LEMMA LastStep ==
  ASSUME IInv, FinalIsLast, AckFindsQp, [Next]_vars
  PROVE  FinalIsLast' /\ AckFindsQp'
<1>1. /\ acks \in Seq(AcksUpTo(ReceiverNextExpectedSeq))
      /\ data \in Seq(DataSent)
      /\ ReceiverNextExpectedSeq \in 0..m_size
      /\ snd_una \in 0..m_size
      /\ m_size \in Nat
      /\ registered <=> snd_una < m_size
      /\ registered <=> receiving
  BY TransportConfig DEF IInv, Scalars
<1>2. CASE ReceiveAck
  <2>1. /\ acks # <<>>
        /\ acks' = Tail(acks)
        /\ registered
    BY <1>2 DEF ReceiveAck
  <2>2. /\ Len(acks') = Len(acks) - 1
        /\ \A i \in 1..Len(acks') : acks'[i] = acks[i + 1]
    BY <1>1, <2>1
  <2>3. FinalIsLast'
    BY <1>1, <2>1, <2>2 DEF FinalIsLast, AckSeq, ChunkStart
  <2>4. ASSUME acks' # <<>>
        PROVE  registered'
    <3>1. 1 < Len(acks)
      BY <1>1, <2>1, <2>2, <2>4
    <3>2. AckSeq(acks[1].seq) < m_size
      BY <1>1, <3>1 DEF FinalIsLast
    <3>3. acks[1] = Head(acks)
      BY <1>1, <2>1
    <3>4. snd_una < m_size
      BY <1>1, <2>1
    <3>5. ~IsFinished(Acknowledge(AckSeq(Head(acks).seq)))
      <4>1. Head(acks).seq \in 0..m_size
        BY <1>1, <2>1 DEF AcksUpTo
      <4>2. AckSeq(Head(acks).seq) \in Int
        BY <4>1, TransportConfig DEF AckSeq, ChunkStart
      <4> HIDE DEF AckSeq
      <4> QED
        BY <1>1, <3>2, <3>3, <3>4, <4>2 DEF IsFinished, Acknowledge
    <3> QED
      BY <1>2, <3>5 DEF ReceiveAck
  <2> QED
    BY <2>3, <2>4 DEF AckFindsQp
<1>3. CASE ReceiveExpected \/ ReceiveGap
  <2>1. /\ data # <<>>
        /\ receiving
        /\ Head(data).seq >= ReceiverNextExpectedSeq
    <3>1. CASE ReceiveExpected
      BY <1>1, <3>1 DEF ReceiveExpected, InOrder
    <3>2. CASE ReceiveGap
      BY <1>1, <3>2, HeadTailProperties DEF ReceiveGap, DataSent
    <3> QED
      BY <1>3, <3>1, <3>2
  <2>2. ReceiverNextExpectedSeq < m_size
    <3>1. Head(data) \in DataSent
      BY <1>1, <2>1
    <3> QED
      BY <1>1, <2>1, <3>1 DEF DataSent
  <2>3. UNCHANGED acks \/ \E kind, seq : Reply(kind, seq)
    BY <1>3, Zenon DEF ReceiveExpected, ReceiveGap
  <2>4. FinalIsLast'
    <3>1. CASE UNCHANGED acks
      BY <3>1 DEF FinalIsLast, AckSeq, ChunkStart
    <3> QED
      BY <2>2, <2>3, <3>1, ReplyKeepsLast
  <2>5. registered'
    BY <1>1, <1>3, <2>1 DEF ReceiveExpected, ReceiveGap, sender
  <2> QED
    BY <2>4, <2>5 DEF AckFindsQp
<1>4. CASE LoseAck
  <2>1. PICK k \in 1..Len(acks) : acks' = Without(acks, k)
    BY <1>4 DEF LoseAck
  <2>2. /\ Len(acks') = Len(acks) - 1
        /\ \A i \in 1..Len(acks') : acks'[i] = acks[i] \/ acks'[i] = acks[i + 1]
    BY <1>1, <2>1 DEF Without
  <2>3. FinalIsLast'
    <3> SUFFICES ASSUME NEW i \in 1..Len(acks'), i < Len(acks')
                 PROVE  AckSeq(acks'[i].seq) < m_size
      BY DEF FinalIsLast, AckSeq, ChunkStart
    <3>1. /\ i \in 1..Len(acks) /\ i < Len(acks)
          /\ i + 1 \in 1..Len(acks) /\ i + 1 < Len(acks)
      BY <1>1, <2>2
    <3> QED
      BY <1>1, <2>2, <3>1 DEF FinalIsLast
  <2>4. acks # <<>> /\ UNCHANGED registered
    BY <1>1, <1>4, <2>1 DEF LoseAck, sender
  <2> QED
    BY <2>3, <2>4 DEF AckFindsQp
<1>5. CASE Send \/ ReceiveSilently \/ NackTimer \/ LoseData \/ UNCHANGED vars
  <2>1. UNCHANGED <<acks, registered>>
    BY <1>5 DEF Send, ReceiveSilently, NackTimer, LoseData, vars, sender
  <2> QED
    BY <2>1 DEF FinalIsLast, AckFindsQp, AckSeq, ChunkStart
<1> QED
  BY <1>2, <1>3, <1>4, <1>5 DEF Next, Sender, Receiver

-----------------------------------------------------------------------------
(* The theorems *)

(* Sequence numbers stay within the flow; packets and acknowledgements are *)
(* well formed.                                                            *)
THEOREM TypeCorrect == Spec => []TypeOK
<1>1. IInv => TypeOK
  <2> SUFFICES ASSUME IInv
               PROVE  TypeOK
    OBVIOUS
  <2>1. data \in Seq([seq : 0..m_size, size : 1..m_size])
    <3>1. DataSent \subseteq [seq : 0..m_size, size : 1..m_size]
      BY DEF DataSent
    <3>2. data \in Seq(DataSent)
      BY DEF IInv
    <3> HIDE DEF DataSent
    <3> QED
      BY <3>1, <3>2, SeqMonotone
  <2>2. acks \in Seq([kind : {ACK, NACK}, seq : 0..m_size])
    <3> DEFINE A == AcksUpTo(ReceiverNextExpectedSeq)
    <3>1. A \subseteq [kind : {ACK, NACK}, seq : 0..m_size]
      BY DEF AcksUpTo
    <3>2. acks \in Seq(A)
      BY DEF IInv
    <3> HIDE DEF A
    <3> QED
      BY <3>1, <3>2, SeqMonotone
  <2>3. delivered \subseteq 0..(m_size - 1)
    BY TransportConfig DEF IInv, PrefixDelivered
  <2> QED
    BY <2>1, <2>2, <2>3 DEF IInv, Scalars, TypeOK
<1> QED
  BY <1>1, AlwaysIInv, PTL

(* What the sender takes as acknowledged is what the receiver took in      *)
(* order.                                                                  *)
THEOREM AckedAlwaysReceived == Spec => []AckedIsReceived
<1>1. IInv => AckedIsReceived
  <2> SUFFICES ASSUME IInv
               PROVE  AckedIsReceived
    OBVIOUS
  <2>1. PICK h \in 0..m_size : ReceiverNextExpectedSeq <= h /\ delivered = 0..(h - 1)
    BY DEF IInv, PrefixDelivered
  <2>2. /\ m_size \in Nat /\ snd_una \in 0..m_size /\ ReceiverNextExpectedSeq \in 0..m_size
        /\ snd_una <= ReceiverNextExpectedSeq
    BY TransportConfig DEF IInv, Scalars, NeverExpectsAcked
  <2> QED
    BY <2>1, <2>2 DEF AckedIsReceived
<1> QED
  BY <1>1, AlwaysIInv, PTL

(* Back-to-zero never makes the receiver expect what the sender has        *)
(* discarded.                                                              *)
THEOREM NeverExpectsAckedBytes == Spec => []NeverExpectsAcked
<1>1. IInv => NeverExpectsAcked
  BY DEF IInv
<1> QED
  BY <1>1, AlwaysIInv, PTL

(* A completed flow has arrived in full. *)
THEOREM CompletedAlwaysReceived == Spec => []CompletedMeansReceived
<1>1. IInv => CompletedMeansReceived
  <2> SUFFICES ASSUME IInv, ~registered
               PROVE  delivered = 0..(m_size - 1)
    BY DEF CompletedMeansReceived
  <2>1. PICK h \in 0..m_size : ReceiverNextExpectedSeq <= h /\ delivered = 0..(h - 1)
    BY DEF IInv, PrefixDelivered
  <2>2. /\ m_size \in Nat /\ snd_una \in 0..m_size /\ ReceiverNextExpectedSeq \in 0..m_size
        /\ snd_una <= ReceiverNextExpectedSeq
        /\ ~(snd_una < m_size)
    BY TransportConfig DEF IInv, Scalars, NeverExpectsAcked
  <2>3. h = m_size
    BY <2>1, <2>2
  <2> QED
    BY <2>1, <2>3
<1> QED
  BY <1>1, AlwaysIInv, PTL

(* The acknowledgement that completes a flow is the last one: none ever    *)
(* reaches a sender whose queue pair QpComplete has deleted.               *)
THEOREM AcksAlwaysFindQp == Spec => []AckFindsQp
<1>1. Init => FinalIsLast /\ AckFindsQp
  BY DEF Init, FinalIsLast, AckFindsQp
<1>2. IInv /\ FinalIsLast /\ AckFindsQp /\ [Next]_vars => FinalIsLast' /\ AckFindsQp'
  BY LastStep
<1> QED
  BY <1>1, <1>2, AlwaysIInv, PTL DEF Spec

(* Go-back-N implements the reliable stream. *)
THEOREM ImplementsStream == Spec => StreamSpec
<1> DEFINE abstract == <<delivered, snd_una, ~registered>>
<1>1. Init => Stream!Init
  BY DEF Init, Stream!Init
<1>2. IInv /\ [Next]_vars => [Stream!Next]_abstract
  <2> SUFFICES ASSUME IInv, [Next]_vars
               PROVE  [Stream!Next]_abstract
    OBVIOUS
  <2>1. CASE Send
    BY <2>1 DEF Send, receiver
  <2>2. CASE ReceiveAck
    <3>1. /\ IInv'
          /\ snd_una' >= snd_una
          /\ registered' = (snd_una' < m_size)
      BY <2>2, ReceiveAckInv
    <3>2. registered /\ delivered' = delivered
      BY <2>2 DEF ReceiveAck
    <3>3. /\ snd_una \in 0..m_size /\ snd_una' \in 0..m_size
          /\ m_size \in Nat
          /\ snd_una < m_size
      BY <3>1, <3>2, TransportConfig DEF IInv, Scalars
    <3>6. 0..(snd_una' - 1) \subseteq delivered
      <4>1. PICK h \in 0..m_size : ReceiverNextExpectedSeq' <= h /\ delivered' = 0..(h - 1)
        BY <3>1 DEF IInv, PrefixDelivered
      <4>2. ReceiverNextExpectedSeq' \in 0..m_size /\ snd_una' <= ReceiverNextExpectedSeq'
        BY <3>1 DEF IInv, Scalars, NeverExpectsAcked
      <4>3. snd_una' <= h /\ delivered = 0..(h - 1)
        BY <4>1, <4>2, <3>2, <3>3
      <4>4. h \in Nat /\ snd_una' \in Nat
        BY <4>1, <3>3
      <4> QED
        BY <4>3, <4>4, PrefixWithin
    <3>4. CASE snd_una' = snd_una
      BY <3>1, <3>2, <3>3, <3>4
    <3>5. CASE snd_una' # snd_una
      <4>1. snd_una' \in (snd_una + 1)..m_size
        BY <3>1, <3>3, <3>5
      <4>2. (~registered') = (snd_una' = m_size)
        <5>1. CASE snd_una' = m_size
          <6>1. ~(snd_una' < m_size)
            BY <3>3, <5>1
          <6> QED
            BY <3>1, <5>1, <6>1, Zenon
        <5>2. CASE snd_una' # m_size
          <6>1. snd_una' < m_size
            BY <3>3, <5>2
          <6> QED
            BY <3>1, <5>2, <6>1, Zenon
        <5> QED
          BY <5>1, <5>2
      <4> QED
        BY <4>1, <4>2, <3>2, <3>6 DEF Stream!Next, Stream!Learn, Stream!Prefix
    <3> QED
      BY <3>4, <3>5
  <2>3. CASE ReceiveExpected
    <3>1. UNCHANGED <<snd_una, registered>>
      BY <2>3 DEF ReceiveExpected, sender
    <3> QED
      BY <3>1, <2>3, ReceiveExpectedInv DEF Stream!Next, Stream!Arrive, Stream!Prefix
  <2>4. CASE ReceiveGap
    <3>1. delivered' = delivered
      BY <2>4, ReceiveGapInv
    <3> QED
      BY <3>1, <2>4 DEF ReceiveGap, sender
  <2>5. CASE ReceiveSilently \/ NackTimer \/ LoseData \/ LoseAck \/ UNCHANGED vars
    BY <2>5, OtherInv
  <2> QED
    BY <2>1, <2>2, <2>3, <2>4, <2>5 DEF Next, Sender, Receiver
<1> QED
  BY <1>1, <1>2, AlwaysIInv, PTL DEF Spec, StreamSpec, Stream!Spec

-----------------------------------------------------------------------------
(* One repair at a time.  As long as no sequence number is reported        *)
(* missing twice, the sender goes back at most once for each gap.          *)

(* The first k packets on the way were sent before the sender last went    *)
(* back, and none of them is the one the receiver waits for; the others    *)
(* were sent since, in order.                                              *)
WentBackAfter(k) ==
  /\ \A i \in 1..k : data[i].seq > ReceiverNextExpectedSeq
  /\ \A i \in (k + 1)..Len(data) :
       /\ data[i].seq >= ReceiverNextExpectedSeq
       /\ data[i].seq + data[i].size <= snd_nxt
  /\ \A i, j \in (k + 1)..Len(data) : i < j => data[i].seq + data[i].size <= data[j].seq
  /\ k > 0 => nacks > 0 /\ AckSeq(m_lastNACK) = ReceiverNextExpectedSeq

(* What the receiver waits for was reported, and is not on the way. *)
Reported ==
  /\ nacks > 0 /\ AckSeq(m_lastNACK) = ReceiverNextExpectedSeq
  /\ \A i \in 1..Len(data) : data[i].seq > ReceiverNextExpectedSeq
  /\ snd_nxt > ReceiverNextExpectedSeq

NackIsLast ==
  \A n \in 1..Len(acks) : acks[n].kind = NACK =>
    n = Len(acks) /\ acks[n].seq = ReceiverNextExpectedSeq /\ Reported

OneRepair ==
  /\ \E k \in 0..Len(data) : WentBackAfter(k)
  /\ NackIsLast
  /\ ReceiverNextExpectedSeq <= snd_nxt

WithinWindow ==
  snd_una <= snd_nxt /\ (m_win # 0 => snd_nxt - snd_una < m_win + m_mtu)

(* With m_ack_interval = 0 the sender never learns of anything, and goes   *)
(* back to the start.                                                      *)
InStep == nacks < 2 => WithinWindow /\ (m_ack_interval # 0 => OneRepair)

(* The packets and acknowledgements of an invariant state *)
LEMMA OnTheWay ==
  ASSUME IInv
  PROVE  /\ Len(data) \in Nat /\ DOMAIN data = 1..Len(data) /\ (data = <<>> <=> Len(data) = 0)
         /\ \A i \in 1..Len(data) : /\ data[i].seq \in Nat /\ data[i].size \in Nat \ {0}
                                   /\ data[i].seq + data[i].size <= m_size
         /\ Len(acks) \in Nat /\ DOMAIN acks = 1..Len(acks) /\ (acks = <<>> <=> Len(acks) = 0)
<1>1. data \in Seq(DataSent) /\ m_size \in Nat
  BY TransportConfig DEF IInv
<1>2. \A d \in DataSent : /\ d.seq \in Nat /\ d.size \in Nat \ {0}
                          /\ d.seq + d.size <= m_size
  BY <1>1 DEF DataSent
<1>3. acks \in Seq(AcksUpTo(ReceiverNextExpectedSeq))
  BY DEF IInv
<1> HIDE DEF DataSent, AcksUpTo
<1> QED
  BY <1>1, <1>2, <1>3

LEMMA Numbers ==
  ASSUME IInv
  PROVE  /\ snd_nxt \in Nat /\ snd_una \in Nat /\ ReceiverNextExpectedSeq \in Nat
         /\ m_lastNACK \in Nat /\ nacks \in 0..2
         /\ snd_una <= ReceiverNextExpectedSeq
         /\ m_size \in Nat /\ m_mtu \in Nat \ {0} /\ m_win \in Nat
  BY TransportConfig DEF IInv, Scalars, NeverExpectsAcked

(* Rounding twice is rounding once. *)
LEMMA RoundedOnce ==
  ASSUME NEW n \in Nat
  PROVE  AckSeq(AckSeq(n)) = AckSeq(n)
<1> DEFINE c == AckSeq(n)
<1>1. c \in Nat /\ Aligned(c)
  BY AckValueBound
<1> HIDE DEF c
<1>2. CASE m_backto0
  <2>1. c <= ChunkStart(c)
    BY <1>1, <1>2, AlignedBelow
  <2>2. ChunkStart(c) \in Nat /\ ChunkStart(c) <= c
    BY <1>1, ChunkBound
  <2> QED
    BY <1>1, <1>2, <2>1, <2>2 DEF AckSeq, c
<1>3. CASE ~m_backto0
  BY <1>3 DEF AckSeq, c
<1> QED
  BY <1>2, <1>3

LEMMA RemovedAt ==
  ASSUME NEW S, NEW s \in Seq(S), NEW i \in 1..Len(s)
  PROVE  /\ Len(Without(s, i)) = Len(s) - 1
         /\ \A j \in 1..(Len(s) - 1) :
              Without(s, i)[j] = IF j < i THEN s[j] ELSE s[j + 1]
<1>1. Len(s) \in Nat /\ Len(s) - 1 \in Nat
  BY LenProperties
<1>2. Without(s, i) = [j \in 1..(Len(s) - 1) |-> IF j < i THEN s[j] ELSE s[j + 1]]
  BY DEF Without
<1>3. Without(s, i) \in Seq(S)
  BY WithoutInSeq
<1>4. DOMAIN Without(s, i) = 1..(Len(s) - 1) /\ DOMAIN Without(s, i) = 1..Len(Without(s, i))
      /\ Len(Without(s, i)) \in Nat
  BY <1>2, <1>3, LenProperties
<1> QED
  BY <1>1, <1>2, <1>4

(* A packet leaves the path. *)
LEMMA PacketOff ==
  ASSUME IInv, OneRepair, NEW i \in 1..Len(data),
         Len(data') = Len(data) - 1,
         \A j \in 1..(Len(data) - 1) : data'[j] = IF j < i THEN data[j] ELSE data[j + 1],
         UNCHANGED <<acks, snd_nxt, ReceiverNextExpectedSeq, m_lastNACK, nacks>>
  PROVE  OneRepair'
<1> DEFINE n == Len(data)
<1>1. n \in Nat /\ Len(data') = n - 1 /\ n >= 1
  BY OnTheWay
<1>2. \A j \in 1..(n - 1) : /\ j < i => data'[j] = data[j]
                            /\ j >= i => data'[j] = data[j + 1]
  BY <1>1
<1>3. PICK k \in 0..n : WentBackAfter(k)
  BY DEF OneRepair
<1> DEFINE l == IF i <= k THEN k - 1 ELSE k
<1> HIDE DEF n
<1>4. l \in 0..(n - 1)
  BY <1>1, <1>3 DEF n
<1>5. \A j \in 1..l : data'[j].seq > ReceiverNextExpectedSeq
  <2> SUFFICES ASSUME NEW j \in 1..l PROVE data'[j].seq > ReceiverNextExpectedSeq
    OBVIOUS
  <2>1. j \in 1..(n - 1) /\ (j < i => j \in 1..k) /\ (j >= i => j + 1 \in 1..k)
    BY <1>1, <1>3, <1>4
  <2> QED
    BY <2>1, <1>2, <1>3 DEF WentBackAfter
<1>6. ASSUME NEW j \in (l + 1)..(n - 1)
      PROVE  \E m \in (k + 1)..n : data'[j] = data[m] /\ m = IF j < i THEN j ELSE j + 1
  <2>1. j \in 1..(n - 1) /\ (j < i => j \in (k + 1)..n) /\ (j >= i => j + 1 \in (k + 1)..n)
    BY <1>1, <1>3, <1>4
  <2> QED
    BY <2>1, <1>2
<1>7. \A j \in (l + 1)..(n - 1) : /\ data'[j].seq >= ReceiverNextExpectedSeq
                                  /\ data'[j].seq + data'[j].size <= snd_nxt
  BY <1>3, <1>6 DEF WentBackAfter, n
<1>8. ASSUME NEW j \in (l + 1)..(n - 1), NEW m \in (l + 1)..(n - 1), j < m
      PROVE  data'[j].seq + data'[j].size <= data'[m].seq
  <2>1. PICK a \in (k + 1)..n : data'[j] = data[a] /\ a = IF j < i THEN j ELSE j + 1
    BY <1>6
  <2>2. PICK b \in (k + 1)..n : data'[m] = data[b] /\ b = IF m < i THEN m ELSE m + 1
    BY <1>6
  <2>3. a < b
    BY <2>1, <2>2, <1>8
  <2> QED
    BY <2>1, <2>2, <2>3, <1>3 DEF WentBackAfter, n
<1>9. l > 0 => nacks > 0 /\ AckSeq(m_lastNACK) = ReceiverNextExpectedSeq
  BY <1>1, <1>3 DEF WentBackAfter
<1> HIDE DEF l
<1>10. WentBackAfter(l)'
  BY <1>1, <1>5, <1>7, <1>8, <1>9 DEF WentBackAfter, AckSeq, ChunkStart
<1>11. Reported => Reported'
  <2> SUFFICES ASSUME Reported, NEW j \in 1..(n - 1)
               PROVE  data'[j].seq > ReceiverNextExpectedSeq
    BY <1>1 DEF Reported, AckSeq, ChunkStart
  <2>1. (j < i => j \in 1..n) /\ (j >= i => j + 1 \in 1..n)
    BY <1>1
  <2> QED
    BY <2>1, <1>2 DEF Reported, n
<1>12. NackIsLast'
  BY <1>11 DEF NackIsLast, OneRepair
<1> QED
  BY <1>1, <1>4, <1>10, <1>12 DEF OneRepair

(* A reply leaves the path. *)
LEMMA ReplyOff ==
  ASSUME IInv, OneRepair, NEW i \in 1..Len(acks),
         Len(acks') = Len(acks) - 1,
         \A j \in 1..(Len(acks) - 1) : acks'[j] = IF j < i THEN acks[j] ELSE acks[j + 1],
         UNCHANGED <<data, snd_nxt, ReceiverNextExpectedSeq, m_lastNACK, nacks>>
  PROVE  OneRepair'
<1>1. Len(acks) \in Nat
  BY OnTheWay
<1>2. Reported' = Reported
  BY DEF Reported, AckSeq, ChunkStart
<1>3. NackIsLast'
  <2> SUFFICES ASSUME NEW n \in 1..(Len(acks) - 1), acks'[n].kind = NACK
               PROVE  n = Len(acks) - 1 /\ acks'[n].seq = ReceiverNextExpectedSeq /\ Reported
    BY <1>2 DEF NackIsLast
  <2>1. PICK m \in 1..Len(acks) : acks'[n] = acks[m] /\ m = IF n < i THEN n ELSE n + 1
    <3>1. (n < i => n \in 1..Len(acks)) /\ (n >= i => n + 1 \in 1..Len(acks))
      BY <1>1
    <3> QED
      BY <3>1, <1>1
  <2>2. m = Len(acks) /\ acks[m].seq = ReceiverNextExpectedSeq /\ Reported
    BY <2>1 DEF OneRepair, NackIsLast
  <2> QED
    BY <1>1, <2>1, <2>2
<1>4. \A k : WentBackAfter(k)' = WentBackAfter(k)
  BY DEF WentBackAfter, AckSeq, ChunkStart
<1> QED
  BY <1>3, <1>4 DEF OneRepair

LEMMA StaysUnder ==
  ASSUME NEW n \in Nat, NEW u \in Nat, NEW v \in Nat, NEW b \in Nat, v >= u, n - u < b
  PROVE  n - v < b
  OBVIOUS

LEMMA SendInStep ==
  ASSUME IInv, InStep, Send, nacks < 2
  PROVE  InStep'
<1> DEFINE p == [seq |-> snd_nxt, size |-> PayloadSize]
           n == Len(data)
<1>1. /\ snd_nxt \in Nat /\ snd_una \in Nat /\ ReceiverNextExpectedSeq \in Nat
      /\ m_mtu \in Nat \ {0} /\ m_win \in Nat /\ m_size \in Nat
  BY Numbers
<1>2. PayloadSize \in Nat \ {0} /\ PayloadSize <= m_mtu
  BY <1>1 DEF Send, MaySend, PayloadSize, GetBytesLeft, Lesser
<1>3. n \in Nat /\ \A i \in 1..n : data[i].seq \in Nat /\ data[i].size \in Nat
  BY OnTheWay
<1>4. Len(data') = n + 1 /\ (\A i \in 1..n : data'[i] = data[i]) /\ data'[n + 1] = p
  <2>1. data \in Seq(DataSent) /\ data' = Append(data, p)
    BY DEF IInv, Send
  <2> HIDE DEF p
  <2> QED
    BY <2>1, <1>3
<1>5. data'[n + 1].seq = snd_nxt /\ data'[n + 1].size = PayloadSize
  BY <1>4
<1>6. UNCHANGED <<ReceiverNextExpectedSeq, m_lastNACK, nacks, snd_una, acks>>
      /\ snd_nxt' = snd_nxt + PayloadSize
  BY DEF Send, receiver
<1>7. WithinWindow'
  <2>1. WithinWindow
    BY DEF InStep
  <2>2. m_win # 0 => snd_nxt - snd_una < m_win
    BY <1>1, <2>1 DEF Send, MaySend, IsWinBound, GetOnTheFly, WithinWindow
  <2> HIDE DEF p
  <2> QED
    BY <1>1, <1>2, <1>6, <2>1, <2>2 DEF WithinWindow
<1> HIDE DEF p, n
<1>8. ASSUME m_ack_interval # 0
      PROVE  OneRepair'
  <2>1. OneRepair
    BY <1>8 DEF InStep
  <2>2. PICK k \in 0..n : WentBackAfter(k)
    BY <2>1 DEF OneRepair, n
  <2>3. \A i \in 1..k : data'[i].seq > ReceiverNextExpectedSeq
    BY <1>3, <1>4, <2>2 DEF WentBackAfter
  <2>4. ASSUME NEW i \in (k + 1)..(n + 1)
        PROVE  /\ data'[i].seq >= ReceiverNextExpectedSeq
               /\ data'[i].seq + data'[i].size <= snd_nxt + PayloadSize
    <3>1. CASE i = n + 1
      BY <1>1, <1>2, <1>5, <2>1, <3>1 DEF OneRepair
    <3>2. CASE i # n + 1
      <4>1. i \in (k + 1)..n /\ i \in 1..n
        BY <1>3, <2>2, <3>2
      <4>2. /\ data[i].seq >= ReceiverNextExpectedSeq
            /\ data[i].seq + data[i].size <= snd_nxt
        BY <2>2, <4>1 DEF WentBackAfter, n
      <4> QED
        BY <1>1, <1>2, <1>3, <1>4, <4>1, <4>2
    <3> QED
      BY <3>1, <3>2
  <2>5. ASSUME NEW i \in (k + 1)..(n + 1), NEW j \in (k + 1)..(n + 1), i < j
        PROVE  data'[i].seq + data'[i].size <= data'[j].seq
    <3>1. i \in (k + 1)..n /\ i \in 1..n
      BY <1>3, <2>2, <2>5
    <3>2. CASE j = n + 1
      BY <1>4, <1>5, <2>2, <3>1, <3>2 DEF WentBackAfter, n
    <3>3. CASE j # n + 1
      <4>1. j \in (k + 1)..n /\ j \in 1..n
        BY <1>3, <2>2, <3>3
      <4> QED
        BY <1>4, <2>2, <2>5, <3>1, <4>1 DEF WentBackAfter, n
    <3> QED
      BY <3>2, <3>3
  <2>6. WentBackAfter(k)'
    BY <1>4, <1>6, <2>2, <2>3, <2>4, <2>5 DEF WentBackAfter, AckSeq, ChunkStart
  <2>7. Reported => Reported'
    <3> SUFFICES ASSUME Reported PROVE Reported'
      OBVIOUS
    <3>1. \A i \in 1..(n + 1) : data'[i].seq > ReceiverNextExpectedSeq
      <4> SUFFICES ASSUME NEW i \in 1..(n + 1)
                   PROVE  data'[i].seq > ReceiverNextExpectedSeq
        OBVIOUS
      <4>1. CASE i = n + 1
        BY <1>5, <4>1 DEF Reported
      <4>2. CASE i \in 1..n
        BY <1>4, <4>2 DEF Reported, n
      <4> QED
        BY <1>3, <4>1, <4>2
    <3> QED
      BY <1>1, <1>2, <1>4, <1>6, <3>1 DEF Reported, AckSeq, ChunkStart
  <2>8. NackIsLast'
    BY <1>6, <2>1, <2>7 DEF NackIsLast, OneRepair
  <2>9. ReceiverNextExpectedSeq' <= snd_nxt' /\ k \in 0..Len(data')
    BY <1>1, <1>2, <1>3, <1>4, <1>6, <2>1, <2>2 DEF OneRepair
  <2> QED
    BY <2>6, <2>8, <2>9 DEF OneRepair
<1> QED
  BY <1>7, <1>8 DEF InStep

(* An acknowledgement is worth no more than the receiver expects; a NACK   *)
(* is the last reply, and takes the sender to what the receiver waits for. *)
LEMMA AckInStep ==
  ASSUME IInv, IInv', InStep, ReceiveAck, nacks < 2
  PROVE  InStep'
<1> DEFINE a == Head(acks)
           una == IF m_ack_interval = 0 THEN snd_una ELSE Acknowledge(AckSeq(a.seq))
<1>1. /\ snd_nxt \in Nat /\ snd_una \in Nat /\ snd_una' \in Nat /\ ReceiverNextExpectedSeq \in Nat
      /\ snd_una <= ReceiverNextExpectedSeq /\ m_lastNACK \in Nat
      /\ m_mtu \in Nat \ {0} /\ m_win \in Nat /\ m_win + m_mtu \in Nat
  <2>1. snd_una' \in Nat
    BY TransportConfig DEF IInv, Scalars
  <2> QED
    BY <2>1, Numbers
<1>2. /\ snd_una' = una /\ snd_nxt' = RecoverQueue(a.kind, una)
      /\ UNCHANGED <<data, ReceiverNextExpectedSeq, m_lastNACK, nacks>>
  BY DEF ReceiveAck, receiver
<1>3. /\ a = acks[1] /\ Len(acks) >= 1 /\ Len(acks) \in Nat
      /\ Len(acks') = Len(acks) - 1
      /\ \A j \in 1..(Len(acks) - 1) : acks'[j] = acks[j + 1]
      /\ a \in AcksUpTo(ReceiverNextExpectedSeq)
  <2>1. acks \in Seq(AcksUpTo(ReceiverNextExpectedSeq)) /\ acks # <<>> /\ acks' = Tail(acks)
    BY DEF IInv, ReceiveAck
  <2> DEFINE A == AcksUpTo(ReceiverNextExpectedSeq)
  <2> HIDE DEF A
  <2> QED
    BY <2>1, OnTheWay DEF A
<1>4. AckSeq(a.seq) \in Nat /\ AckSeq(a.seq) <= ReceiverNextExpectedSeq /\ a.kind \in {ACK, NACK}
  BY <1>3, AckValueBound DEF AcksUpTo
<1>5. una >= snd_una /\ una <= ReceiverNextExpectedSeq /\ una \in Nat
  BY <1>1, <1>4 DEF Acknowledge
<1> HIDE DEF a
<1>6. CASE a.kind = NACK
  <2>1. snd_nxt' = una
    BY <1>2, <1>6 DEF RecoverQueue
  <2>2. WithinWindow'
    <3> HIDE DEF una
    <3> QED
      BY <1>1, <1>2, <1>5, <2>1 DEF WithinWindow
  <2>3. ASSUME m_ack_interval # 0
        PROVE  OneRepair'
    <3>1. OneRepair
      BY <2>3 DEF InStep
    <3>2. Len(acks) = 1 /\ a.seq = ReceiverNextExpectedSeq /\ Reported
      BY <1>3, <1>6, <3>1 DEF OneRepair, NackIsLast
    <3>3. AckSeq(ReceiverNextExpectedSeq) = ReceiverNextExpectedSeq
      BY <1>1, <3>2, RoundedOnce DEF Reported
    <3>4. una = ReceiverNextExpectedSeq
      BY <1>1, <2>3, <3>2, <3>3 DEF Acknowledge
    <3>5. Len(data) \in Nat /\ Len(data') = Len(data)
      BY <1>2, OnTheWay
    <3>6. WentBackAfter(Len(data))'
      BY <1>2, <3>2, <3>5 DEF WentBackAfter, Reported, AckSeq, ChunkStart
    <3>7. NackIsLast'
      BY <1>3, <3>2 DEF NackIsLast
    <3>8. ReceiverNextExpectedSeq' <= snd_nxt'
      BY <1>1, <1>2, <2>1, <3>4
    <3>9. Len(data) \in 0..Len(data')
      BY <3>5
    <3> QED
      BY <3>6, <3>7, <3>8, <3>9, <3>5 DEF OneRepair
  <2> QED
    BY <2>2, <2>3 DEF InStep
<1>7. CASE a.kind # NACK
  <2>1. snd_nxt' = snd_nxt
    BY <1>2, <1>7 DEF RecoverQueue
  <2>2. m_ack_interval # 0 => OneRepair'
    <3> SUFFICES ASSUME m_ack_interval # 0 PROVE OneRepair'
      OBVIOUS
    <3>1. OneRepair
      BY DEF InStep
    <3>2. 1 \in 1..Len(acks) /\ \A j \in 1..(Len(acks) - 1) :
            acks'[j] = IF j < 1 THEN acks[j] ELSE acks[j + 1]
      BY <1>3
    <3> QED
      BY <1>2, <1>3, <2>1, <3>1, <3>2, ReplyOff
  <2>3. snd_una' <= snd_nxt
    <3>1. CASE m_ack_interval = 0
      BY <1>2, <3>1 DEF InStep, WithinWindow
    <3>2. CASE m_ack_interval # 0
      <4>1. ReceiverNextExpectedSeq <= snd_nxt
        BY <3>2 DEF InStep, OneRepair
      <4> HIDE DEF una
      <4> QED
        BY <1>1, <1>2, <1>5, <4>1
    <3> QED
      BY <3>1, <3>2
  <2>4. m_win # 0 => snd_nxt - snd_una' < m_win + m_mtu
    <3>1. m_win # 0 => snd_nxt - snd_una < m_win + m_mtu
      BY DEF InStep, WithinWindow
    <3> HIDE DEF una
    <3> QED
      BY <1>1, <1>2, <1>5, <3>1, StaysUnder
  <2> QED
    BY <2>1, <2>2, <2>3, <2>4 DEF InStep, WithinWindow
<1> QED
  BY <1>6, <1>7

(* The first packet, taken off the path *)
LEMMA FirstOff ==
  ASSUME IInv, data # <<>>, data' = Tail(data)
  PROVE  /\ Head(data) = data[1] /\ 1 \in 1..Len(data)
         /\ Len(data') = Len(data) - 1
         /\ \A j \in 1..(Len(data) - 1) : data'[j] = data[j + 1]
<1>1. data \in Seq(DataSent)
  BY DEF IInv
<1> QED
  BY <1>1, OnTheWay

(* The packet the receiver waits for comes from after the sender went back *)
(* for it, and so does all that follows it.                                *)
LEMMA ExpectedInStep ==
  ASSUME IInv, InStep, ReceiveExpected, nacks < 2
  PROVE  InStep'
<1> DEFINE n == Len(data)
           next == data[1].seq + data[1].size
<1>1. /\ data[1] = Head(data) /\ 1 \in 1..n /\ Len(data') = n - 1
      /\ \A j \in 1..(n - 1) : data'[j] = data[j + 1]
  BY FirstOff DEF ReceiveExpected
<1>2. n \in Nat /\ \A i \in 1..n : data[i].seq \in Nat /\ data[i].size \in Nat \ {0}
  BY OnTheWay
<1>3. /\ ReceiverNextExpectedSeq' = next /\ data[1].seq = ReceiverNextExpectedSeq
      /\ UNCHANGED <<snd_nxt, snd_una, m_lastNACK, nacks>>
  BY <1>1 DEF ReceiveExpected, InOrder, sender
<1>4. WithinWindow'
  BY <1>3 DEF InStep, WithinWindow
<1> HIDE DEF n
<1>5. ASSUME m_ack_interval # 0
      PROVE  OneRepair'
  <2>1. OneRepair
    BY <1>5 DEF InStep
  <2>2. PICK k \in 0..n : WentBackAfter(k)
    BY <2>1 DEF OneRepair, n
  <2>3. k = 0
    <3> SUFFICES ASSUME k # 0 PROVE FALSE
      OBVIOUS
    <3>1. 1 \in 1..k
      BY <1>2, <2>2
    <3>2. data[1].seq > ReceiverNextExpectedSeq
      BY <2>2, <3>1 DEF WentBackAfter
    <3> QED
      BY <1>1, <1>2, <1>3, <3>2
  <2>4. /\ \A i \in 1..n : data[i].seq + data[i].size <= snd_nxt
        /\ \A i, j \in 1..n : i < j => data[i].seq + data[i].size <= data[j].seq
    BY <2>2, <2>3 DEF WentBackAfter, n
  <2>5. \A j \in 1..(n - 1) : /\ data'[j].seq >= next
                              /\ data'[j].seq + data'[j].size <= snd_nxt
    <3> SUFFICES ASSUME NEW j \in 1..(n - 1)
                 PROVE  data'[j].seq >= next /\ data'[j].seq + data'[j].size <= snd_nxt
      OBVIOUS
    <3>1. j + 1 \in 1..n /\ 1 < j + 1
      BY <1>2
    <3>2. data[1].seq + data[1].size <= data[j + 1].seq
      BY <1>1, <2>4, <3>1
    <3> QED
      BY <1>1, <1>2, <2>4, <3>1, <3>2
  <2>6. ASSUME NEW i \in 1..(n - 1), NEW j \in 1..(n - 1), i < j
        PROVE  data'[i].seq + data'[i].size <= data'[j].seq
    <3>1. i + 1 \in 1..n /\ j + 1 \in 1..n /\ i + 1 < j + 1
      BY <1>2, <2>6
    <3> QED
      BY <1>1, <2>4, <3>1
  <2>7. WentBackAfter(0)'
    BY <1>1, <1>3, <2>5, <2>6 DEF WentBackAfter
  <2>8. \A m \in 1..Len(acks) : acks[m].kind # NACK
    <3>1. ~Reported
      BY <1>1, <1>2, <1>3 DEF Reported, n
    <3> QED
      BY <2>1, <3>1 DEF OneRepair, NackIsLast
  <2>9. NackIsLast'
    <3>1. CASE acks' = acks
      BY <2>8, <3>1 DEF NackIsLast
    <3>2. CASE acks' # acks
      <4>1. acks' = Append(acks, [kind |-> ACK, seq |-> Head(data).seq + Head(data).size])
        BY <3>2 DEF ReceiveExpected, Reply
      <4> DEFINE r == [kind |-> ACK, seq |-> Head(data).seq + Head(data).size]
      <4>2. r.kind # NACK
        BY DEF ACK, NACK
      <4> HIDE DEF r
      <4>3. acks \in Seq(AcksUpTo(ReceiverNextExpectedSeq)) /\ acks' = Append(acks, r)
        BY <4>1 DEF IInv, r
      <4> DEFINE A == AcksUpTo(ReceiverNextExpectedSeq)
      <4> HIDE DEF A
      <4>4. /\ Len(acks) \in Nat /\ Len(acks') = Len(acks) + 1 /\ acks'[Len(acks) + 1] = r
            /\ \A m \in 1..Len(acks) : acks'[m] = acks[m]
        BY <4>3, OnTheWay DEF A
      <4>5. ASSUME NEW m \in 1..Len(acks') PROVE acks'[m].kind # NACK
        <5>1. m \in 1..Len(acks) \/ m = Len(acks) + 1
          BY <4>4
        <5> QED
          BY <5>1, <4>2, <4>4, <2>8
      <4> QED
        BY <4>5 DEF NackIsLast
    <3> QED
      BY <3>1, <3>2
  <2>10. ReceiverNextExpectedSeq' <= snd_nxt'
    BY <1>1, <1>3, <2>4
  <2>11. 0 \in 0..Len(data')
    BY <1>1, <1>2
  <2> QED
    BY <2>7, <2>9, <2>10, <2>11 DEF OneRepair
<1> QED
  BY <1>4, <1>5 DEF InStep

(* A gap that is reported for the first time: everything on the way was    *)
(* sent since the sender last went back, and is beyond the gap.            *)
LEMMA GapInStep ==
  ASSUME IInv, InStep, ReceiveGap, nacks' < 2
  PROVE  InStep'
<1> DEFINE n == Len(data)
           e == ReceiverNextExpectedSeq
           next == AckSeq(e)
<1>1. /\ data[1] = Head(data) /\ 1 \in 1..n /\ Len(data') = n - 1
      /\ \A j \in 1..(n - 1) : data'[j] = data[j + 1]
  BY FirstOff DEF ReceiveGap
<1>2. n \in Nat /\ \A i \in 1..n : data[i].seq \in Nat /\ data[i].size \in Nat \ {0}
  BY OnTheWay
<1>3. /\ e \in Nat /\ m_lastNACK \in Nat /\ nacks \in 0..2 /\ snd_nxt \in Nat
      /\ next \in Nat /\ next <= e
  BY Numbers, AckValueBound
<1>4. /\ ReceiverNextExpectedSeq' = next /\ m_lastNACK' = e /\ data[1].seq > e
      /\ UNCHANGED <<snd_nxt, snd_una>>
      /\ acks' = Append(acks, [kind |-> NACK, seq |-> next])
  BY <1>1 DEF ReceiveGap, sender, Reply
<1>5. nacks < 2 /\ nacks' > 0 /\ ~(nacks > 0 /\ AckSeq(m_lastNACK) = next)
  <2>1. nacks' = IF nacks > 0 /\ AckSeq(m_lastNACK) = next THEN 2
                 ELSE IF nacks = 0 THEN 1 ELSE nacks
    BY DEF ReceiveGap
  <2> HIDE DEF next
  <2> QED
    BY <1>3, <2>1
<1>6. WithinWindow'
  BY <1>4, <1>5 DEF InStep, WithinWindow
<1>7. ~(nacks > 0 /\ AckSeq(m_lastNACK) = e)
  BY <1>3, <1>5, RoundedOnce
<1> HIDE DEF n, next
<1>8. ASSUME m_ack_interval # 0
      PROVE  OneRepair'
  <2>1. OneRepair
    BY <1>5, <1>8 DEF InStep
  <2>2. PICK k \in 0..n : WentBackAfter(k)
    BY <2>1 DEF OneRepair, n
  <2>3. k = 0
    BY <1>7, <2>2 DEF WentBackAfter
  <2>4. /\ \A i \in 1..n : data[i].seq + data[i].size <= snd_nxt
        /\ \A i, j \in 1..n : i < j => data[i].seq + data[i].size <= data[j].seq
    BY <2>2, <2>3 DEF WentBackAfter, n
  <2>5. \A j \in 1..(n - 1) : /\ data'[j].seq > e
                              /\ data'[j].seq + data'[j].size <= snd_nxt
    <3> SUFFICES ASSUME NEW j \in 1..(n - 1)
                 PROVE  data'[j].seq > e /\ data'[j].seq + data'[j].size <= snd_nxt
      OBVIOUS
    <3>1. j + 1 \in 1..n /\ 1 < j + 1
      BY <1>2
    <3>2. data[1].seq + data[1].size <= data[j + 1].seq
      BY <1>1, <2>4, <3>1
    <3>3. data[1].seq \in Nat /\ data[1].size \in Nat /\ data[j + 1].seq \in Nat
      BY <1>1, <1>2, <3>1
    <3>4. data[1].seq > e /\ e \in Nat
      BY <1>3, <1>4
    <3>5. data[j + 1].seq > e
      <4> HIDE DEF e
      <4> QED
        BY <3>2, <3>3, <3>4
    <3>6. data'[j] = data[j + 1] /\ data[j + 1].seq + data[j + 1].size <= snd_nxt
      BY <1>1, <2>4, <3>1
    <3> QED
      BY <3>5, <3>6
  <2>6. ASSUME NEW i \in 1..(n - 1), NEW j \in 1..(n - 1), i < j
        PROVE  data'[i].seq + data'[i].size <= data'[j].seq
    <3>1. i + 1 \in 1..n /\ j + 1 \in 1..n /\ i + 1 < j + 1
      BY <1>2, <2>6
    <3> QED
      BY <1>1, <2>4, <3>1
  <2>7. \A j \in 1..(n - 1) : data'[j].seq > next
    <3> SUFFICES ASSUME NEW j \in 1..(n - 1) PROVE data'[j].seq > next
      OBVIOUS
    <3>1. data'[j].seq \in Nat /\ data'[j].seq > e
      BY <1>1, <1>2, <2>5
    <3> QED
      BY <1>3, <3>1
  <2>8. WentBackAfter(0)'
    <3>1. \A j \in 1..(n - 1) : data'[j].seq >= next
      <4> SUFFICES ASSUME NEW j \in 1..(n - 1) PROVE data'[j].seq >= next
        OBVIOUS
      <4>1. data'[j].seq \in Nat /\ data'[j].seq > next
        BY <1>1, <1>2, <2>7
      <4> QED
        BY <1>3, <4>1
    <3>2. \A j \in 1..(n - 1) : data'[j].seq + data'[j].size <= snd_nxt
      BY <2>5
    <3>3. /\ Len(data') = n - 1 /\ 0 + 1 = 1
          /\ ReceiverNextExpectedSeq' = next /\ snd_nxt' = snd_nxt
      BY <1>1, <1>4
    <3> QED
      BY <2>6, <3>1, <3>2, <3>3 DEF WentBackAfter
  <2>9. snd_nxt > e
    BY <1>1, <1>2, <1>3, <1>4, <2>4
  <2>10. Reported'
    <3>1. (AckSeq(m_lastNACK))' = next
      BY <1>4 DEF next, AckSeq, ChunkStart
    <3>2. snd_nxt' > next
      BY <1>3, <1>4, <2>9
    <3> QED
      BY <1>1, <1>4, <1>5, <2>7, <3>1, <3>2 DEF Reported
  <2>11. \A m \in 1..Len(acks) : acks[m].kind # NACK
    BY <1>7, <2>1 DEF OneRepair, NackIsLast, Reported
  <2>12. NackIsLast'
    <3> DEFINE r == [kind |-> NACK, seq |-> next]
               A == AcksUpTo(ReceiverNextExpectedSeq)
    <3>1. r.seq = next
      OBVIOUS
    <3>2. acks \in Seq(A) /\ acks' = Append(acks, r)
      BY <1>4 DEF IInv
    <3> HIDE DEF r, A
    <3>3. /\ Len(acks) \in Nat /\ Len(acks') = Len(acks) + 1 /\ acks'[Len(acks) + 1] = r
          /\ \A m \in 1..Len(acks) : acks'[m] = acks[m]
      BY <3>2, OnTheWay
    <3>4. ASSUME NEW m \in 1..Len(acks'), acks'[m].kind = NACK
          PROVE  m = Len(acks') /\ acks'[m].seq = next
      <4>1. m \in 1..Len(acks) \/ m = Len(acks) + 1
        BY <3>3
      <4> QED
        BY <4>1, <2>11, <3>1, <3>3, <3>4
    <3> QED
      BY <1>4, <2>10, <3>4 DEF NackIsLast
  <2>13. ReceiverNextExpectedSeq' <= snd_nxt' /\ 0 \in 0..Len(data')
    BY <1>1, <1>2, <1>3, <1>4, <2>9
  <2> QED
    BY <2>8, <2>12, <2>13 DEF OneRepair
<1> QED
  BY <1>6, <1>8 DEF InStep

(* What is dropped or overlooked leaves one repair at a time. *)
LEMMA OtherInStep ==
  ASSUME IInv, InStep, nacks < 2,
         ReceiveSilently \/ NackTimer \/ LoseData \/ LoseAck \/ UNCHANGED vars
  PROVE  InStep'
<1>1. UNCHANGED <<snd_nxt, snd_una, ReceiverNextExpectedSeq, m_lastNACK, nacks>>
  BY DEF ReceiveSilently, NackTimer, LoseData, LoseAck, vars, sender, receiver
<1>2. WithinWindow'
  BY <1>1 DEF InStep, WithinWindow
<1>3. ASSUME m_ack_interval # 0
      PROVE  OneRepair'
  <2>1. OneRepair
    BY <1>3 DEF InStep
  <2>2. CASE ReceiveSilently
    <3>1. /\ 1 \in 1..Len(data) /\ Len(data') = Len(data) - 1
          /\ \A j \in 1..(Len(data) - 1) : data'[j] = data[j + 1]
      BY <2>2, FirstOff DEF ReceiveSilently
    <3>2. \A j \in 1..(Len(data) - 1) : data'[j] = IF j < 1 THEN data[j] ELSE data[j + 1]
      BY <3>1, OnTheWay
    <3>3. acks' = acks
      BY <2>2 DEF ReceiveSilently
    <3> QED
      BY <1>1, <2>1, <3>1, <3>2, <3>3, PacketOff
  <2>3. CASE LoseData
    <3>1. PICK i \in 1..Len(data) : data' = Without(data, i)
      BY <2>3 DEF LoseData
    <3>2. acks' = acks /\ data \in Seq(DataSent)
      BY <2>3 DEF LoseData, IInv
    <3>3. /\ Len(data') = Len(data) - 1
          /\ \A j \in 1..(Len(data) - 1) : data'[j] = IF j < i THEN data[j] ELSE data[j + 1]
      BY <3>1, <3>2, RemovedAt
    <3> QED
      BY <1>1, <2>1, <3>2, <3>3, PacketOff
  <2>4. CASE LoseAck
    <3>1. PICK i \in 1..Len(acks) : acks' = Without(acks, i)
      BY <2>4 DEF LoseAck
    <3>2. data' = data /\ acks \in Seq(AcksUpTo(ReceiverNextExpectedSeq))
      BY <2>4 DEF LoseAck, IInv
    <3>3. /\ Len(acks') = Len(acks) - 1
          /\ \A j \in 1..(Len(acks) - 1) : acks'[j] = IF j < i THEN acks[j] ELSE acks[j + 1]
      BY <3>1, <3>2, RemovedAt
    <3> QED
      BY <1>1, <2>1, <3>2, <3>3, ReplyOff
  <2>5. CASE NackTimer \/ UNCHANGED vars
    <3>1. data' = data /\ acks' = acks
      BY <2>5 DEF NackTimer, vars
    <3>2. Reported' = Reported /\ \A k : WentBackAfter(k)' = WentBackAfter(k)
      BY <1>1, <3>1 DEF Reported, WentBackAfter, AckSeq, ChunkStart
    <3> QED
      BY <1>1, <2>1, <3>1, <3>2 DEF OneRepair, NackIsLast
  <2> QED
    BY <2>2, <2>3, <2>4, <2>5
<1> QED
  BY <1>2, <1>3 DEF InStep

LEMMA InStepInv == IInv /\ IInv' /\ InStep /\ [Next]_vars => InStep'
<1> SUFFICES ASSUME IInv, IInv', InStep, [Next]_vars, nacks' < 2 PROVE InStep'
  BY DEF InStep
<1>1. CASE ReceiveGap
  BY <1>1, GapInStep
<1>2. CASE ~ReceiveGap
  <2>1. nacks' = nacks
    BY <1>2 DEF Next, Sender, Receiver, Send, ReceiveAck, ReceiveExpected, ReceiveSilently,
                NackTimer, LoseData, LoseAck, vars, receiver
  <2> QED
    BY <1>2, <2>1, SendInStep, AckInStep, ExpectedInStep, OtherInStep DEF Next, Sender, Receiver
<1> QED
  BY <1>1, <1>2

LEMMA InStepInit == Init => InStep
<1> SUFFICES ASSUME Init PROVE InStep
  OBVIOUS
<1>1. Len(data) = 0 /\ Len(acks) = 0 /\ ReceiverNextExpectedSeq = 0 /\ snd_nxt = 0 /\ snd_una = 0
  BY DEF Init
<1>2. WithinWindow
  BY <1>1, TransportConfig DEF WithinWindow
<1>3. WentBackAfter(0) /\ NackIsLast /\ 0 \in 0..Len(data)
  BY <1>1 DEF WentBackAfter, NackIsLast
<1> QED
  BY <1>1, <1>2, <1>3 DEF InStep, OneRepair

(* Whatever is lost, a sender with a window has at most the window and the *)
(* rest of one packet out until the receiver repeats a NACK (m_win,        *)
(* IsWinBound, RecoverQueue).                                              *)
THEOREM WindowAlwaysBounds == Spec => []WindowBoundsUntilRepeat
<1>1. IInv /\ InStep => WindowBoundsUntilRepeat
  <2> SUFFICES ASSUME IInv, WithinWindow, m_win # 0 PROVE GetOnTheFly < m_win + m_mtu
    BY DEF InStep, WindowBoundsUntilRepeat, WindowBoundsFlight
  <2> QED
    BY Numbers DEF GetOnTheFly, WithinWindow
<1> QED
  BY <1>1, InStepInit, InStepInv, AlwaysIInv, PTL DEF Spec
=============================================================================
