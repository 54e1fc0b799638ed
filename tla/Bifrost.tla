------------------------------ MODULE Bifrost ------------------------------
(***************************************************************************)
(* Slot PFC of a gateway (ccMode 12).  At the end of every slot the        *)
(* downstream port grants its peer a number of bytes, as a PAUSE for the   *)
(* rest of a slot; the bytes arrive a round trip later.  What may still    *)
(* arrive is estimated by the virtual bytes, which are corrected by what   *)
(* did.  Ordinary PFC is off for the port's priority.                      *)
(*                                                                         *)
(* Time is counted in slots, bytes in some unit of which the link carries  *)
(* m_rate in a microsecond; a PAUSE lasts whole microseconds.              *)
(***************************************************************************)
EXTENDS Integers, ByteSum

CONSTANTS
  m_bifrostPfcPeriodUs,  \* the slot
  m_rate,                \* bytes per microsecond
  Rtt,                   \* of the link, in slots
  ReceiveDelays,         \* of both ends, in slots
  m_bifrostBuffer,       \* H
  m_bifrostLeakSlots,    \* k
  Packet,                \* what a late PAUSE lets pass
  MaxLeak                \* bound: what late PAUSEs let pass altogether

slotBytes == m_rate * m_bifrostPfcPeriodUs

(* Slots whose bytes are granted and have not all arrived: those of the    *)
(* round trip and the present one.                                         *)
Flight == Rtt + ReceiveDelays + 1

ASSUME BifrostConfig ==
  /\ m_bifrostPfcPeriodUs \in Nat \ {0} /\ m_rate \in Nat \ {0}
  /\ Rtt \in Nat /\ ReceiveDelays \in Nat
  /\ m_bifrostBuffer \in Nat /\ m_bifrostLeakSlots \in Nat \ {0}
  /\ Packet \in Nat /\ MaxLeak \in Nat
  /\ m_bifrostBuffer >= (Rtt + 2) * slotBytes

VARIABLES
  queued,            \* m_bytes of the port and priority, over all outputs
  received,          \* m_bifrostReceived - m_bifrostLastReceived
  m_bifrostVirtual,
  m_bifrostSlot,     \* modulo m_bifrostLeakSlots
  granted,           \* [1..Flight -> bytes that may still arrive in a slot]
  now,               \* the present slot's place in granted
  drained,           \* bytes that left in this slot
  leaked,            \* history: bytes that late PAUSEs let pass
  forgone            \* history: granted bytes that will never come

vars == <<queued, received, m_bifrostVirtual, m_bifrostSlot, granted, now,
          drained, leaked, forgone>>

Least(x, y) == IF x < y THEN x ELSE y
Clip(x, max) == IF x < 0 THEN 0 ELSE Least(x, max)

m_bifrostBound == (Rtt + 1) * slotBytes

-----------------------------------------------------------------------------
(* CalculateBifrostPauseTime *)

(* Mutation: what is already queued is left out. *)
VirtualOnly == Least(slotBytes, m_bifrostBuffer - m_bifrostVirtual)

grant == Least(slotBytes, m_bifrostBuffer - queued - m_bifrostVirtual)

(* "Preserve signed grant in virtual-state correction; physical pause is   *)
(* bounded."                                                               *)
corrected ==
  Clip(IF (m_bifrostSlot + 1) % m_bifrostLeakSlots = 0
         THEN grant - (queued + m_bifrostVirtual - m_bifrostBuffer) ELSE grant,
       slotBytes)

(* What a PAUSE for the rest of the slot leaves: it is rounded up. *)
Sendable(bytes) == bytes - (bytes % m_rate)

Arrived == received

(* Mutation: the virtual bytes are not kept from going below zero. *)
VirtualSigned == Least(m_bifrostBound, m_bifrostVirtual - Arrived + grant)

(* Mutation: the virtual bytes are not kept to the round trip and a slot.  *)
VirtualUnbounded ==
  LET v == m_bifrostVirtual - Arrived + grant IN IF v < 0 THEN 0 ELSE v

NextVirtual == Clip(m_bifrostVirtual - Arrived + grant, m_bifrostBound)

-----------------------------------------------------------------------------
(* SwitchNode::SendToDev: a byte that was granted arrives. *)
SendToDev ==
  /\ granted[now] > 0
  /\ queued' = queued + 1
  /\ received' = received + 1
  /\ granted' = [granted EXCEPT ![now] = @ - 1]
  /\ UNCHANGED <<m_bifrostVirtual, m_bifrostSlot, now, drained, leaked, forgone>>

(* A byte leaves; the outputs together are no faster than the link. *)
SwitchNotifyDequeue ==
  /\ queued > 0 /\ drained < slotBytes
  /\ queued' = queued - 1
  /\ drained' = drained + 1
  /\ UNCHANGED <<received, m_bifrostVirtual, m_bifrostSlot, granted, now, leaked, forgone>>

(* A PAUSE that waits behind a packet arrives late, when its predecessor   *)
(* has expired.                                                            *)
Late(bytes) ==
  IF bytes = slotBytes THEN {0}
  ELSE 0..Least(Least(Packet, slotBytes - bytes), MaxLeak - leaked)

(* The end of a slot.  The bytes granted now arrive after a round trip; of *)
(* those of the slot that ends, what has not arrived will not.             *)
SendBifrostPfcWithCustomTime ==
  \E late \in Late(Sendable(corrected)) :
    /\ granted' = [granted EXCEPT ![now] = Sendable(corrected) + late]
    /\ now' = (now % Flight) + 1
    /\ m_bifrostSlot' = (m_bifrostSlot + 1) % m_bifrostLeakSlots
    /\ m_bifrostVirtual' = NextVirtual
    /\ received' = 0
    /\ drained' = 0
    /\ leaked' = leaked + late
    /\ forgone' = Least(forgone + granted[now] + (corrected % m_rate), m_bifrostBound)
    /\ UNCHANGED queued

Init ==
  /\ queued = 0 /\ received = 0 /\ drained = 0 /\ leaked = 0 /\ forgone = 0
  /\ m_bifrostVirtual = m_bifrostBound
  /\ m_bifrostSlot = 0
  /\ granted = [i \in 1..Flight |-> slotBytes]
  /\ now = 1

Next == SendToDev \/ SwitchNotifyDequeue \/ SendBifrostPfcWithCustomTime

Spec == Init /\ [][Next]_vars

-----------------------------------------------------------------------------
(* Properties *)

InFlight == Total(1..Flight, granted)

TypeOK ==
  /\ queued \in Nat
  /\ received \in 0..slotBytes /\ drained \in 0..slotBytes
  /\ m_bifrostVirtual \in 0..((Rtt + 1) * slotBytes)
  /\ m_bifrostSlot \in 0..(m_bifrostLeakSlots - 1)
  /\ granted \in [1..Flight -> 0..slotBytes] /\ now \in 1..Flight
  /\ leaked \in 0..MaxLeak /\ forgone \in Nat

(* Whatever the sender's bursts and the outputs' pauses, the queue and     *)
(* what may still arrive stay below H, plus a full slot for each slot in   *)
(* flight, plus what late PAUSEs let pass.                                 *)
QueueBounded ==
  queued + InFlight < m_bifrostBuffer + Flight * slotBytes + leaked

(* "Bifrost has no throughput-loss" (docs, Bifrost analysis): the queue    *)
(* and what may still arrive keep the outputs busy for a round trip and a  *)
(* slot, except for grants the sender did not use and what is rounded off. *)
NoThroughputLoss ==
  queued + drained + InFlight + forgone >= (Rtt + 1) * slotBytes

(* ... of which, however far the virtual bytes have drifted meanwhile, no  *)
(* slot loses a microsecond's bytes: a queue that would not keep the       *)
(* outputs busy for a slot is granted the rest of it.                      *)
GrantKeepsUp ==
  [][SendBifrostPfcWithCustomTime => queued + granted'[now] > slotBytes - m_rate]_vars
=============================================================================
