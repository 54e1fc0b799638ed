------------------------------ MODULE PfcLink ------------------------------
(***************************************************************************)
(* Priority flow control over one link, in real time: a sending device     *)
(* (QbbNetDevice, the side that is paused) and the switch port behind      *)
(* which one ingress queue of the MMU fills and drains (SwitchNode's       *)
(* CheckAndSendPfc, RefreshPfc and CheckAndSendResume).  SwitchMmu counts  *)
(* the bytes; here it is time that matters: PAUSE takes effect a delay     *)
(* after headroom comes into use, expires at the sender, and is renewed.   *)
(*                                                                         *)
(* A tick is the transmission time of one data packet, and the buffer is   *)
(* counted in packets.  The dynamic threshold moves with the rest of the   *)
(* switch, so a packet may find the queue above its threshold at any       *)
(* filling; so may the resume test, unless the queue is empty.             *)
(***************************************************************************)
EXTENDS Integers, Sequences

CONSTANTS
  Prop,        \* propagation delay of the link
  NicDelay,    \* receive delay of both devices
  Wait,        \* longest a PFC frame waits for and holds the transmitter
  PauseTime,   \* how long a PAUSE lasts at the sender
  MaxShared    \* bound on the queue's threshold

(* RefreshPfc aborts without a positive PauseTime. *)
ASSUME LinkConfig ==
  /\ {Prop, NicDelay, Wait, MaxShared} \subseteq Nat
  /\ PauseTime \in Nat \ {0}

VARIABLES
  m_paused,      \* sender: this priority is paused
  m_pauseExpiry, \* sender: ticks to the expiry of the pause
  busy,          \* sender: ticks to the end of the packet in transmission
  data,          \* packets on the wire: ticks to their arrival
  shared, hdrm,  \* switch: packets of the queue outside and in headroom
  paused,        \* switch: MMU's paused
  m_pfcRefresh,  \* switch: ticks to the next renewal
  pfc,           \* PFC frames on the way: [time, left]
  dropped        \* history: a packet found its headroom full

senderVars == <<m_paused, m_pauseExpiry, busy>>
switchVars == <<shared, hdrm, paused, m_pfcRefresh, dropped>>
vars == <<senderVars, data, switchVars, pfc>>

Off == -1   \* a timer that is not scheduled

(* Mutation: one propagation delay each way, and nothing for the rest.     *)
HeadroomBothWays == 2 * Prop + 2 * NicDelay

(* ConfiguredHeadroomBytes *)
Headroom == 3 * Prop + 2 * NicDelay

-----------------------------------------------------------------------------
(* The sender *)

(* DequeueAndTransmit: a packet of the priority leaves. *)
Send ==
  /\ ~m_paused /\ busy = 0
  /\ busy' = 1
  /\ data' = Append(data, 1 + Prop + NicDelay)
  /\ UNCHANGED <<m_paused, m_pauseExpiry, switchVars, pfc>>

(* Mutation: microseconds are taken for nanoseconds. *)
ExpiryInNs == 1000 * PauseTime

(* The pause of the frame replaces what was left of an earlier one. *)
NewExpiry == PauseTime

(* DoReceive of a PFC frame *)
ReceivePfc ==
  /\ pfc # <<>> /\ Head(pfc).left = 0
  /\ pfc' = Tail(pfc)
  /\ IF Head(pfc).time > 0
       THEN m_paused' = TRUE /\ m_pauseExpiry' = NewExpiry
       ELSE m_paused' = FALSE /\ m_pauseExpiry' = Off
  /\ UNCHANGED <<busy, data, switchVars>>

(* The expiry runs Resume. *)
Expire ==
  /\ m_pauseExpiry = 0
  /\ m_paused' = FALSE
  /\ m_pauseExpiry' = Off
  /\ UNCHANGED <<busy, data, switchVars, pfc>>

-----------------------------------------------------------------------------
(* The switch *)

(* SendPfc: the frame leaves after the packet in transmission, behind the  *)
(* PFC frames before it.                                                   *)
SendPfc(time) ==
  \E w \in 0..Wait :
    /\ \A i \in DOMAIN pfc : pfc[i].left <= w + Prop + NicDelay
    /\ pfc' = Append(pfc, [time |-> time, left |-> w + Prop + NicDelay])

(* Mutation: a renewal a whole PauseTime later. *)
RefreshAtExpiry == PauseTime

RefreshPeriod == PauseTime \div 2

(* CheckAndSendPfc, once the packet is charged. *)
CheckAndSendPfc ==
  IF hdrm' > 0 /\ ~paused
    THEN /\ paused' = TRUE
         /\ SendPfc(PauseTime)
         /\ m_pfcRefresh' = RefreshPeriod
    ELSE UNCHANGED <<paused, pfc, m_pfcRefresh>>

(* SendToDev: a packet is charged to headroom when headroom is in use or   *)
(* the queue is above its threshold, and refused when headroom is full.    *)
Admit ==
  /\ data # <<>> /\ Head(data) = 0
  /\ data' = Tail(data)
  /\ \/ /\ hdrm = 0 /\ shared < MaxShared
        /\ shared' = shared + 1
        /\ UNCHANGED hdrm
     \/ /\ hdrm < Headroom
        /\ hdrm' = hdrm + 1
        /\ UNCHANGED shared
  /\ CheckAndSendPfc
  /\ UNCHANGED <<senderVars, dropped>>

Refuse ==
  /\ data # <<>> /\ Head(data) = 0
  /\ hdrm >= Headroom
  /\ data' = Tail(data)
  /\ dropped' = TRUE
  /\ UNCHANGED <<senderVars, shared, hdrm, paused, m_pfcRefresh, pfc>>

(* RefreshPfc *)
RefreshPfc ==
  /\ m_pfcRefresh = 0
  /\ SendPfc(PauseTime)
  /\ m_pfcRefresh' = RefreshPeriod
  /\ UNCHANGED <<senderVars, data, shared, hdrm, paused, dropped>>

(* Mutation: the renewal stays scheduled. *)
RefreshStays == m_pfcRefresh

RefreshAfterResume == Off

(* CheckShouldResume: out of headroom, a queue below xon must resume; xon  *)
(* is positive, so an empty one is.  For a fuller one it is open.          *)
MayResume == paused /\ hdrm' = 0

(* Mutation: with a level of zero nothing is below it. *)
BelowZero == MayResume /\ shared' < 0

MustResume == MayResume /\ shared' = 0

CheckAndSendResume ==
  \/ /\ MayResume
     /\ paused' = FALSE
     /\ m_pfcRefresh' = RefreshAfterResume
     /\ SendPfc(0)
  \/ /\ ~MustResume
     /\ UNCHANGED <<paused, m_pfcRefresh, pfc>>

(* SwitchNotifyDequeue: headroom is emptied first. *)
Drain ==
  /\ shared + hdrm > 0
  /\ IF hdrm > 0 THEN hdrm' = hdrm - 1 /\ UNCHANGED shared
                 ELSE shared' = shared - 1 /\ UNCHANGED hdrm
  /\ CheckAndSendResume
  /\ UNCHANGED <<senderVars, data, dropped>>

-----------------------------------------------------------------------------
(* Time *)

Down(t) == IF t > 0 THEN t - 1 ELSE t

(* No event is due. *)
NothingDue ==
  /\ m_pauseExpiry # 0 /\ m_pfcRefresh # 0
  /\ data # <<>> => Head(data) > 0
  /\ pfc # <<>> => Head(pfc).left > 0

Tick ==
  /\ NothingDue
  /\ busy' = Down(busy)
  /\ m_pauseExpiry' = Down(m_pauseExpiry)
  /\ m_pfcRefresh' = Down(m_pfcRefresh)
  /\ data' = [i \in DOMAIN data |-> Down(data[i])]
  /\ pfc' = [i \in DOMAIN pfc |-> [pfc[i] EXCEPT !.left = Down(@)]]
  /\ UNCHANGED <<m_paused, shared, hdrm, paused, dropped>>

Init ==
  /\ m_paused = FALSE /\ m_pauseExpiry = Off /\ busy = 0
  /\ data = <<>> /\ pfc = <<>>
  /\ shared = 0 /\ hdrm = 0 /\ paused = FALSE /\ m_pfcRefresh = Off
  /\ dropped = FALSE

Due == ReceivePfc \/ Expire \/ Admit \/ Refuse \/ RefreshPfc
Next == Send \/ Due \/ Drain \/ Tick

Spec == Init /\ [][Next]_vars

(* Time goes on, scheduled events happen, and the egress behind the queue  *)
(* is not itself paused for ever.                                          *)
Fairness == WF_vars(Tick) /\ WF_vars(Due) /\ WF_vars(Drain)

FairSpec == Spec /\ Fairness

-----------------------------------------------------------------------------
(* Properties *)

TypeOK ==
  /\ m_paused \in BOOLEAN /\ m_pauseExpiry \in Off..PauseTime
  /\ busy \in 0..1
  /\ data \in Seq(0..(1 + Prop + NicDelay))
  /\ shared \in 0..MaxShared /\ hdrm \in 0..Headroom
  /\ paused \in BOOLEAN /\ m_pfcRefresh \in Off..RefreshPeriod
  /\ pfc \in Seq([time : {0, PauseTime}, left : 0..(Wait + Prop + NicDelay)])
  /\ dropped \in BOOLEAN

(* No packet finds its headroom full: "the existing three-propagation-     *)
(* delay allowance" of ConfiguredHeadroomBytes covers the PAUSE's wait for *)
(* the transmitter, both ways and what the sender has begun.               *)
NoLoss == ~dropped

(* "The peer expires each pause. Renew while the MMU still requests it":   *)
(* a pause never runs out at the sender, although renewals are delayed by  *)
(* different waits (each below half the pause time), unless a RESUME is on *)
(* its way anyway.                                                         *)
PauseRenewed == m_pauseExpiry = 0 => \E i \in DOMAIN pfc : pfc[i].time = 0

(* A sender is never left paused, or paused again, by a renewal that       *)
(* crosses a resume: a pause always has a PAUSE or a RESUME to come.       *)
PauseIsAsked ==
  m_paused => \/ paused
              \/ \E i \in DOMAIN pfc : pfc[i].time = 0

(* Whatever drains behind the queue, a paused sender sends again. *)
PauseEnds == m_paused ~> ~m_paused
=============================================================================
