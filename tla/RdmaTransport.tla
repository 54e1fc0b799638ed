--------------------------- MODULE RdmaTransport ---------------------------
(***************************************************************************)
(* One RDMA flow between two hosts: the go-back-N sender (RdmaQueuePair    *)
(* with RdmaHw::GetNxtPacket and ReceiveAck) and the receiver              *)
(* (RdmaRxQueuePair with ReceiveUdp and ReceiverCheckSeq), over the two    *)
(* FIFO directions of the path.  A packet or an acknowledgement can be     *)
(* dropped on the way, at most MaxLoss times; no path duplicates or        *)
(* reorders.                                                               *)
(*                                                                         *)
(* The two queue pairs are connected by QPN when the model starts, and the *)
(* flow has no stop time.  Rates, pacing and pauses only decide when a     *)
(* packet leaves, which is left open.                                      *)
(***************************************************************************)
EXTENDS Integers, Sequences

CONSTANTS
  m_size,          \* bytes of the flow
  m_mtu,           \* largest payload
  m_win,           \* window in bytes, 0 for none
  m_chunk,         \* L2ChunkSize
  m_ack_interval,  \* L2AckInterval
  m_backto0,       \* L2BackToZero
  Word,            \* 2^64, the width of snd_nxt and snd_una
  MaxLoss          \* bound on packets lost, in both directions together

(* Sequence numbers travel in 32 bits; flows are shorter than that. *)
ASSUME TransportConfig ==
  /\ m_size \in Nat \ {0}
  /\ m_mtu \in Nat \ {0}
  /\ m_win \in Nat
  /\ m_chunk \in Nat \ {0}
  /\ m_ack_interval \in Nat
  /\ m_backto0 \in BOOLEAN
  /\ Word \in Nat /\ Word > m_size
  /\ MaxLoss \in Nat

VARIABLES
  snd_nxt, snd_una,           \* RdmaQueuePair
  registered,                 \* the sender's queue pair is in m_txQpn
  ReceiverNextExpectedSeq,    \* RdmaRxQueuePair
  m_lastNACK,
  nackHeld,                   \* Now() < m_nackTimer
  receiving,                  \* the receiver's queue pair is in m_rxQpn
  nacks,                      \* history: 0 no NACK sent, 1 none repeated, 2 some repeated
  delivered,                  \* history: the bytes the receiver took in order
  data, acks,                 \* the two directions of the path
  losses

sender == <<snd_nxt, snd_una, registered>>
receiver == <<ReceiverNextExpectedSeq, m_lastNACK, nackHeld, nacks>>
vars == <<sender, receiver, receiving, delivered, data, acks, losses>>

ACK == "ack"
NACK == "nack"

Lesser(a, b) == IF a <= b THEN a ELSE b
ChunkStart(n) == (n \div m_chunk) * m_chunk

-----------------------------------------------------------------------------
(* Sender *)

GetBytesLeft == IF m_size >= snd_nxt THEN m_size - snd_nxt ELSE 0

GetOnTheFly == IF snd_nxt >= snd_una THEN snd_nxt - snd_una
                                     ELSE snd_nxt - snd_una + Word

(* GetWin of a fixed window; with VAR_WIN, off by default, it follows the  *)
(* rate.                                                                   *)
IsWinBound == m_win # 0 /\ GetOnTheFly >= m_win

(* Mutation: completion is taken from what has been sent. *)
FinishedWhenSent(una) == snd_nxt >= m_size

IsFinished(una) == una >= m_size

(* Mutation: the short last packet is not cut. *)
WholeMtu == m_mtu

PayloadSize == Lesser(m_mtu, GetBytesLeft)

(* GetNextQindex picks the queue pair.  It stays in the NIC's group after  *)
(* QpComplete until it has nothing to send, so registered is no guard.     *)
MaySend == GetBytesLeft > 0 /\ ~IsWinBound

(* GetNxtPacket cuts a packet. *)
Send ==
  /\ MaySend
  /\ data' = Append(data, [seq |-> snd_nxt, size |-> PayloadSize])
  /\ snd_nxt' = snd_nxt + PayloadSize
  /\ UNCHANGED <<snd_una, registered, receiver, receiving, delivered, acks, losses>>

(* Mutation: a NACK also rewinds what is acknowledged. *)
RecoverToZero(kind, una) == IF kind = NACK THEN 0 ELSE snd_nxt

(* Mutation: RecoverQueue comes before Acknowledge. *)
RecoverFirst(kind, una) == IF kind = NACK THEN snd_una ELSE snd_nxt

(* RecoverQueue, for a NACK; una is what the same packet acknowledged.     *)
RecoverQueue(kind, una) == IF kind = NACK THEN una ELSE snd_nxt

Acknowledge(ack) == IF ack > snd_una THEN ack ELSE snd_una

AckSeq(seq) == IF m_backto0 THEN ChunkStart(seq) ELSE seq

(* ReceiveAck.  With m_ack_interval = 0 the acknowledged sequence number   *)
(* is ignored.  QpComplete takes both queue pairs out of their tables.  An *)
(* acknowledgement that finds no queue pair is only reported as an error;  *)
(* AckFindsQp says that there is none.                                     *)
ReceiveAck ==
  LET a == Head(acks)
      una == IF m_ack_interval = 0 THEN snd_una ELSE Acknowledge(AckSeq(a.seq))
      complete == m_ack_interval # 0 /\ IsFinished(una) IN
  /\ acks # <<>>
  /\ registered
  /\ acks' = Tail(acks)
  /\ snd_una' = una
  /\ snd_nxt' = RecoverQueue(a.kind, una)
  /\ registered' = ~complete
  /\ receiving' = (receiving /\ ~complete)
  /\ UNCHANGED <<receiver, delivered, data, losses>>

-----------------------------------------------------------------------------
(* Receiver *)

Reply(kind, seq) == acks' = Append(acks, [kind |-> kind, seq |-> seq])

(* Mutation: only whole chunks are acknowledged. *)
AckWholeChunks(next) == next % m_chunk = 0

(* ReceiveUdp sets m_milestone_rx to m_ack_interval before every check.    *)
AckDue(next) == next >= m_ack_interval \/ next % m_chunk = 0

(* Mutation: a packet taken before is taken again. *)
AcceptEarlier(d) == d.seq <= ReceiverNextExpectedSeq

(* Mutation: a later packet is taken for the expected one. *)
AcceptLater(d) == d.seq >= ReceiverNextExpectedSeq

InOrder(d) == d.seq = ReceiverNextExpectedSeq

(* ReceiverCheckSeq returns 1 or 5 *)
ReceiveExpected ==
  LET d == Head(data)
      next == d.seq + d.size IN
  /\ data # <<>>
  /\ receiving
  /\ InOrder(d)
  /\ data' = Tail(data)
  /\ ReceiverNextExpectedSeq' = next
  /\ delivered' = delivered \union d.seq..(next - 1)
  /\ IF AckDue(next) THEN Reply(ACK, next) ELSE UNCHANGED acks
  /\ UNCHANGED <<sender, m_lastNACK, nackHeld, nacks, receiving, losses>>

NackAllowed == ~nackHeld \/ m_lastNACK # ReceiverNextExpectedSeq

(* ... 2: a gap is reported. *)
ReceiveGap ==
  LET expected == ReceiverNextExpectedSeq
      next == AckSeq(expected) IN
  /\ data # <<>>
  /\ receiving
  /\ ~InOrder(Head(data))
  /\ Head(data).seq > expected
  /\ NackAllowed
  /\ data' = Tail(data)
  /\ m_lastNACK' = expected
  /\ nackHeld' = TRUE
  /\ ReceiverNextExpectedSeq' = next
  /\ nacks' = IF nacks > 0 /\ AckSeq(m_lastNACK) = next THEN 2
              ELSE IF nacks = 0 THEN 1 ELSE nacks
  /\ Reply(NACK, next)
  /\ UNCHANGED <<sender, receiving, delivered, losses>>

(* ... 3 or 4, or no queue pair of that number: no reply. *)
ReceiveSilently ==
  LET d == Head(data) IN
  /\ data # <<>>
  /\ \/ ~receiving
     \/ /\ ~InOrder(d)
        /\ d.seq < ReceiverNextExpectedSeq \/ ~NackAllowed
  /\ data' = Tail(data)
  /\ UNCHANGED <<sender, receiver, receiving, delivered, acks, losses>>

(* m_nack_interval has passed since the last NACK. *)
NackTimer ==
  /\ nackHeld
  /\ nackHeld' = FALSE
  /\ UNCHANGED <<sender, ReceiverNextExpectedSeq, m_lastNACK, nacks, receiving,
                 delivered, data, acks, losses>>

-----------------------------------------------------------------------------
(* The path *)

Without(s, i) == [j \in 1..(Len(s) - 1) |-> IF j < i THEN s[j] ELSE s[j + 1]]

LoseData ==
  /\ losses < MaxLoss
  /\ \E i \in 1..Len(data) : data' = Without(data, i)
  /\ losses' = losses + 1
  /\ UNCHANGED <<sender, receiver, receiving, delivered, acks>>

LoseAck ==
  /\ losses < MaxLoss
  /\ \E i \in 1..Len(acks) : acks' = Without(acks, i)
  /\ losses' = losses + 1
  /\ UNCHANGED <<sender, receiver, receiving, delivered, data>>

Init ==
  /\ snd_nxt = 0 /\ snd_una = 0 /\ registered = TRUE
  /\ ReceiverNextExpectedSeq = 0 /\ m_lastNACK = 0 /\ nackHeld = FALSE /\ nacks = 0
  /\ receiving = TRUE
  /\ delivered = {}
  /\ data = <<>> /\ acks = <<>>
  /\ losses = 0

Sender == Send \/ ReceiveAck
Receiver == ReceiveExpected \/ ReceiveGap \/ ReceiveSilently
Next == Sender \/ Receiver \/ NackTimer \/ LoseData \/ LoseAck

Spec == Init /\ [][Next]_vars

(* The simulator runs every scheduled event: a queue pair that may send is *)
(* woken by TriggerTransmit or its pacing timer, a packet on a link is     *)
(* delivered, a timer expires.                                             *)
Fairness ==
  /\ WF_vars(Send)
  /\ WF_vars(ReceiveAck)
  /\ WF_vars(Receiver)
  /\ WF_vars(NackTimer)

FairSpec == Spec /\ Fairness

-----------------------------------------------------------------------------
(* Properties *)

TypeOK ==
  /\ snd_nxt \in 0..m_size
  /\ snd_una \in 0..m_size
  /\ ReceiverNextExpectedSeq \in 0..m_size
  /\ m_lastNACK \in 0..m_size
  /\ registered \in BOOLEAN
  /\ receiving \in BOOLEAN
  /\ nackHeld \in BOOLEAN /\ nacks \in 0..2
  /\ delivered \subseteq 0..(m_size - 1)
  /\ data \in Seq([seq : 0..m_size, size : 1..m_size])
  /\ acks \in Seq([kind : {ACK, NACK}, seq : 0..m_size])
  /\ losses \in 0..MaxLoss

(* The sender never takes as acknowledged a byte the receiver did not take *)
(* in order, whatever is lost, and however often either end goes back.     *)
AckedIsReceived == 0..(snd_una - 1) \subseteq delivered

(* The receiver never expects a byte the sender takes as acknowledged and  *)
(* would not send again, also when back-to-zero takes it to the start of a *)
(* chunk.                                                                  *)
NeverExpectsAcked == snd_una <= ReceiverNextExpectedSeq

(* QpComplete runs only when the receiver has the whole flow: it deletes   *)
(* the receiver's state, and nothing could complete the flow afterwards.   *)
CompletedMeansReceived == ~registered => delivered = 0..(m_size - 1)

(* The acknowledgement of the last byte is the last the receiver sends,    *)
(* although the sender may go back and send everything again: none finds   *)
(* its queue pair gone ("ERROR: ... NIC cannot find the flow").            *)
AckFindsQp == acks # <<>> => registered

(* Go-back-N implements the stream it promises: what is delivered has no   *)
(* holes and is never undone, also when back-to-zero makes the receiver    *)
(* expect bytes again.                                                     *)
Stream == INSTANCE ReliableStream WITH
  Size <- m_size, received <- delivered, acked <- snd_una, done <- ~registered

StreamSpec == Stream!Spec

(* "m_win; // bound of on-the-fly packets" (rdma-queue-pair.h): a sender   *)
(* with a window has at most the window and the rest of one packet out.    *)
WindowBoundsFlight == m_win # 0 => GetOnTheFly < m_win + m_mtu

(* A gap the receiver sees is repaired, with one packet lost at most. *)
GapRepaired ==
  \A e \in 0..(m_size - 1) :
    (receiving /\ ReceiverNextExpectedSeq = e /\ \E i \in DOMAIN data : data[i].seq > e)
      ~> ReceiverNextExpectedSeq # e

(* ... which holds, whatever is lost, as long as no sequence number is     *)
(* reported missing twice: the difference wraps only after the NACK that   *)
(* the receiver repeats when its timer has run out (ReceiverCheckSeq).     *)
WindowBoundsUntilRepeat == nacks < 2 => WindowBoundsFlight

(* Without losses (PFC did its work) every flow completes, although only   *)
(* some packets are acknowledged and the window may close meanwhile.       *)
FinishesUnlessLoss == <>(losses > 0 \/ ~registered)
=============================================================================
