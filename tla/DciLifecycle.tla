---------------------------- MODULE DciLifecycle ----------------------------
(***************************************************************************)
(* The life of one flow key at the two gateways of the long-haul link      *)
(* (DciGatewayNode): gateway A, next to the source, and gateway B each     *)
(* create a record at the flow's first packet; the source host             *)
(* (longhaul-r5.h) registers the flow with A and reports its completion;   *)
(* B reports its counters; and the records are reclaimed once A knows that *)
(* everything it sent has left B (COMPLETE, RETIRE, RETIRE_ACK).           *)
(*                                                                         *)
(* Data is counted in packets.  From A to B data and control share the     *)
(* wire and stay in order; from the source to A control overtakes data.    *)
(* Control is dropped by the token budget or rejected for its age; that is *)
(* LoseControl.  Sessions, addresses and the other fields that never       *)
(* differ within a run are left out.                                       *)
(***************************************************************************)
EXTENDS Integers, Sequences, FiniteSets, SequencesExt

CONSTANTS
  Needed,       \* packets the destination must get for the flow to complete
  maxRetries,   \* Config::maxRetries
  MaxExtra,     \* bound on packets sent again before the flow completes
  MaxLate,      \* ... after it completed
  MaxDrop,      \* bound on data packets dropped
  MaxLoss,      \* bound on control packets lost
  MaxCopies     \* bound on reports, and on retire requests, unanswered

ASSUME LifecycleConfig ==
  /\ Needed \in Nat \ {0} /\ maxRetries \in Nat \ {0}
  /\ MaxCopies \in Nat \ {0}
  /\ {MaxExtra, MaxLate, MaxDrop, MaxLoss} \subseteq Nat

VARIABLES
  tx_wire, finished,   \* the source's queue pair
  pending,             \* Proposed::registrations at the source
  flowA, nextA,        \* A: the record of the key, m_nextFlow
  registration,        \* A: m_registrations of the key
  flowB, nextB,        \* B: the record of the key, m_nextFlow
  toA,                 \* data packets between the source and A
  S2A, A2S,            \* control between the source and A
  A2B, B2A,            \* the long-haul link
  delivered,           \* packets that left B
  retiredA, retiredB,  \* history: generations erased, with the peer's
  drops, losses        \* spent of MaxDrop and MaxLoss

source == <<tx_wire, finished, pending>>
gatewayA == <<flowA, nextA, registration, retiredA>>
gatewayB == <<flowB, nextB, delivered, retiredB>>
faults == <<drops, losses>>
vars == <<source, gatewayA, gatewayB, toA, S2A, A2S, A2B, B2A, faults>>

(* Generation 0: the key has no record (generations start at 1). *)
NoFlowA == [gen |-> 0, in |-> 0, tx |-> 0, completed |-> FALSE, final |-> 0,
            have |-> FALSE, remote |-> 0, arrived |-> 0, departed |-> 0,
            settled |-> FALSE, retireSent |-> FALSE, retireAck |-> FALSE]
NoFlowB == [gen |-> 0, in |-> 0, tx |-> 0, owners |-> {}]
NoRegistration == [query |-> 0, confirmed |-> FALSE]

Live(f) == f.gen # 0
Queue(f) == f.in - f.tx
Count(channel, type) == Cardinality({i \in DOMAIN channel : channel[i].type = type})

-----------------------------------------------------------------------------
(* The source host *)

(* A packet leaves the source: the first transmissions, a go-back-N        *)
(* retransmission, or a duplicate after completion (the queue pair stays   *)
(* in the NIC's group while it has bytes left).                            *)
SendData ==
  /\ tx_wire < Needed + MaxExtra + (IF finished THEN MaxLate ELSE 0)
  /\ finished => MaxLate > 0
  /\ tx_wire' = tx_wire + 1
  /\ toA' = toA + 1
  /\ UNCHANGED <<finished, pending, gatewayA, gatewayB, S2A, A2S, A2B, B2A, faults>>

Idle == [type |-> "NONE", attempts |-> 0, query |-> 0]
FirstAttempt(type) == [type |-> type, attempts |-> 1, query |-> 1]

(* QpComplete calls Completed, which starts a notification of its own in   *)
(* place of a registration still pending.                                  *)
Finish ==
  /\ ~finished
  /\ delivered >= Needed
  /\ finished' = TRUE
  /\ pending' = FirstAttempt("COMPLETE")
  /\ S2A' = Append(S2A, [type |-> "COMPLETE", query |-> 1, arrived |-> tx_wire])
  /\ UNCHANGED <<tx_wire, gatewayA, gatewayB, toA, A2S, A2B, B2A, faults>>

(* Mutation: one attempt more than maxRetries. *)
ExhaustedLate == pending.attempts > maxRetries

Exhausted == pending.attempts >= maxRetries

(* The retry timer calls Register again. *)
Retry ==
  /\ pending.type # "NONE"
  /\ IF Exhausted
       THEN pending' = Idle /\ UNCHANGED S2A
       ELSE /\ pending' = [pending EXCEPT !.attempts = @ + 1, !.query = @ + 1]
            /\ S2A' = Append(S2A, [type |-> pending.type, query |-> pending.query + 1,
                                   arrived |-> tx_wire])
  /\ UNCHANGED <<tx_wire, finished, gatewayA, gatewayB, toA, A2S, A2B, B2A, faults>>

(* ReceiveRegistration, a reply to the latest query: a registration is     *)
(* confirmed, a completion must name the bytes sent by now.                *)
AcceptReply ==
  LET m == Head(A2S) IN
  /\ A2S # <<>>
  /\ m.query = pending.query
  /\ \/ /\ pending.type = "REGISTER" /\ m.type = "REGISTER_ACK"
        /\ S2A' = Append(S2A, [type |-> "REGISTER_CONFIRM", query |-> m.query,
                               arrived |-> m.arrived])
     \/ /\ pending.type = "COMPLETE" /\ m.type = "COMPLETE_ACK"
        /\ m.arrived = tx_wire
        /\ UNCHANGED S2A
  /\ pending' = Idle
  /\ A2S' = Tail(A2S)
  /\ UNCHANGED <<tx_wire, finished, gatewayA, gatewayB, toA, A2B, B2A, faults>>

IgnoreReply ==
  LET m == Head(A2S) IN
  /\ A2S # <<>>
  /\ \/ m.query # pending.query
     \/ pending.type = "NONE"
     \/ pending.type = "REGISTER" /\ m.type # "REGISTER_ACK"
     \/ pending.type = "COMPLETE" /\ (m.type # "COMPLETE_ACK" \/ m.arrived # tx_wire)
  /\ A2S' = Tail(A2S)
  /\ UNCHANGED <<source, gatewayA, gatewayB, toA, S2A, A2B, B2A, faults>>

-----------------------------------------------------------------------------
(* Gateway A *)

(* PrepareDataAdmission of the first packet of a key. *)
NewFlowA == [NoFlowA EXCEPT !.gen = nextA]

(* PrepareDataAdmission and Admitted *)
ArriveAtA ==
  LET f == IF Live(flowA) THEN flowA ELSE NewFlowA IN
  /\ toA > 0
  /\ toA' = toA - 1
  /\ flowA' = [f EXCEPT !.in = @ + 1]
  /\ nextA' = IF Live(flowA) THEN nextA ELSE nextA + 1
  /\ UNCHANGED <<registration, retiredA, source, gatewayB, S2A, A2S, A2B, B2A, faults>>

(* Refused for a full table before there is a record, or by the switch's   *)
(* MMU, whose admission comes after PrepareDataAdmission made one.         *)
DropAtA ==
  /\ toA > 0
  /\ drops < MaxDrop
  /\ toA' = toA - 1
  /\ drops' = drops + 1
  /\ \/ UNCHANGED <<flowA, nextA>>
     \/ ~Live(flowA) /\ flowA' = NewFlowA /\ nextA' = nextA + 1
  /\ UNCHANGED <<registration, retiredA, source, gatewayB, S2A, A2S, A2B, B2A, losses>>

(* Dequeue and Transmitted on the long-haul port.  The next Tick maps the  *)
(* packet to an arrival time no resource sample of B is past yet.          *)
Forward ==
  /\ Queue(flowA) > 0
  /\ flowA' = [flowA EXCEPT !.tx = @ + 1, !.settled = FALSE]
  /\ A2B' = Append(A2B, [type |-> "DATA", gen |-> flowA.gen])
  /\ UNCHANGED <<nextA, registration, retiredA, source, gatewayB, toA, S2A, A2S, B2A, faults>>

Reply(m, type) == A2S' = Append(A2S, [m EXCEPT !.type = type])

(* ReceiveControl, REGISTER; a query older than the registered one is      *)
(* rejected.                                                               *)
ReceiveRegister ==
  LET m == Head(S2A) IN
  /\ S2A # <<>> /\ m.type = "REGISTER"
  /\ S2A' = Tail(S2A)
  /\ IF m.query < registration.query
       THEN UNCHANGED <<registration, A2S>>
       ELSE /\ registration' = [registration EXCEPT !.query = m.query]
            /\ Reply(m, "REGISTER_ACK")
  /\ UNCHANGED <<flowA, nextA, retiredA, source, gatewayB, toA, A2B, B2A, faults>>

(* ReceiveControl, REGISTER_CONFIRM *)
ReceiveConfirm ==
  LET m == Head(S2A) IN
  /\ S2A # <<>> /\ m.type = "REGISTER_CONFIRM"
  /\ S2A' = Tail(S2A)
  /\ registration' =
       IF registration.query # 0 /\ registration.query = m.query
         THEN [registration EXCEPT !.confirmed = TRUE] ELSE registration
  /\ UNCHANGED <<flowA, nextA, retiredA, source, gatewayB, toA, A2S, A2B, B2A, faults>>

(* ReceiveControl, COMPLETE: acknowledged unless it contradicts a live     *)
(* record; an unknown key creates none.                                    *)
ReceiveComplete ==
  LET m == Head(S2A)
      contradicts == \/ m.arrived < flowA.in
                     \/ flowA.completed /\ flowA.final # m.arrived IN
  /\ S2A # <<>> /\ m.type = "COMPLETE"
  /\ S2A' = Tail(S2A)
  /\ IF Live(flowA) /\ contradicts
       THEN UNCHANGED <<flowA, A2S>>
       ELSE /\ flowA' = IF Live(flowA)
                          THEN [flowA EXCEPT !.completed = TRUE, !.final = m.arrived]
                          ELSE flowA
            /\ Reply(m, "COMPLETE_ACK")
  /\ UNCHANGED <<nextA, registration, retiredA, source, gatewayB, toA, A2B, B2A, faults>>

(* Mutation: what A sent is taken for what B got. *)
SentIsDelivered(f) ==
  /\ Live(f) /\ f.completed /\ f.have
  /\ f.in = f.final /\ f.tx = f.in
  /\ f.settled

(* CanRetire; Tick takes the snapshot of tx just before.  settled stands   *)
(* for a resource sample and the frozen forecasts all later than the last  *)
(* packet's mapped arrival.  A transmission never fails here (f.failures): *)
(* one that did would leave tx behind in.                                  *)
CanRetire(f) ==
  /\ Live(f) /\ f.completed /\ f.have
  /\ f.in = f.final /\ f.tx = f.in
  /\ f.arrived = f.tx /\ f.departed = f.tx
  /\ f.settled

(* ReceiveControl, RESOURCE_STATE of the flow's resource, sampled late     *)
(* enough, and the forecasts it validates.                                 *)
ReceiveResourceState ==
  /\ Live(flowA) /\ flowA.have /\ ~flowA.settled
  /\ flowA' = [flowA EXCEPT !.settled = TRUE]
  /\ UNCHANGED <<nextA, registration, retiredA, source, gatewayB, toA, S2A, A2S, A2B, B2A, faults>>

(* ReclaimFlows, first or again after queryRetry. *)
SendRetire ==
  /\ CanRetire(flowA) /\ ~flowA.retireAck
  /\ Count(A2B, "RETIRE") + Count(B2A, "RETIRE_ACK") < MaxCopies
  /\ flowA' = [flowA EXCEPT !.retireSent = TRUE]
  /\ A2B' = Append(A2B, [type |-> "RETIRE", gen |-> flowA.remote, peer |-> flowA.gen,
                         arrived |-> flowA.tx])
  /\ UNCHANGED <<nextA, registration, retiredA, source, gatewayB, toA, S2A, A2S, B2A, faults>>

(* Mutation: erased with the request, not with its acknowledgement. *)
ReclaimsUnanswered == CanRetire(flowA) /\ flowA.retireSent

(* Mutation: erased on the acknowledgement, whatever came since. *)
ReclaimsUnchecked == flowA.retireAck

(* CanRetire is asked again when the acknowledgement is there. *)
Reclaims == CanRetire(flowA) /\ flowA.retireAck

(* Mutation: the key's registration stays. *)
ErasedButRegistered == registration

RegistrationAfterErase == NoRegistration

(* ReclaimFlows and EraseFlow *)
EraseFlow ==
  /\ Reclaims
  /\ flowA' = NoFlowA
  /\ registration' = RegistrationAfterErase
  /\ retiredA' = retiredA \union {[gen |-> flowA.gen, peer |-> flowA.remote]}
  /\ UNCHANGED <<nextA, source, gatewayB, toA, S2A, A2S, A2B, B2A, faults>>

(* An observation sampled before A made its record, of another generation  *)
(* of B's record or going backwards is rejected.                           *)
Acceptable(m) ==
  /\ m.sampledIn = flowA.gen
  /\ flowA.have => /\ m.gen = flowA.remote
                   /\ m.arrived >= flowA.arrived /\ m.departed >= flowA.departed

(* ReceiveControl, FLOW_STATE *)
ReceiveFlowState ==
  LET m == Head(B2A) IN
  /\ B2A # <<>> /\ m.type = "FLOW_STATE"
  /\ B2A' = Tail(B2A)
  /\ flowA' = IF Live(flowA) /\ Acceptable(m)
                THEN [flowA EXCEPT !.have = TRUE, !.remote = m.gen,
                                   !.arrived = m.arrived, !.departed = m.departed]
                ELSE flowA
  /\ UNCHANGED <<nextA, registration, retiredA, source, gatewayB, toA, S2A, A2S, A2B, faults>>

(* ReceiveControl, RETIRE_ACK *)
ReceiveRetireAck ==
  LET m == Head(B2A)
      matches == /\ Live(flowA) /\ flowA.completed /\ flowA.retireSent
                 /\ flowA.gen = m.peer /\ flowA.remote = m.gen /\ flowA.tx = m.arrived IN
  /\ B2A # <<>> /\ m.type = "RETIRE_ACK"
  /\ B2A' = Tail(B2A)
  /\ flowA' = IF matches THEN [flowA EXCEPT !.retireAck = TRUE] ELSE flowA
  /\ UNCHANGED <<nextA, registration, retiredA, source, gatewayB, toA, S2A, A2S, A2B, faults>>

-----------------------------------------------------------------------------
(* Gateway B *)

(* Mutation: the counters of the key resume. *)
ResumedFlowB == [NoFlowB EXCEPT !.gen = nextB, !.in = delivered, !.tx = delivered]

NewFlowB == [NoFlowB EXCEPT !.gen = nextB]

(* PrepareDataAdmission and Admitted *)
ArriveAtB ==
  LET m == Head(A2B)
      f == IF Live(flowB) THEN flowB ELSE NewFlowB IN
  /\ A2B # <<>> /\ m.type = "DATA"
  /\ A2B' = Tail(A2B)
  /\ flowB' = [f EXCEPT !.in = @ + 1, !.owners = @ \union {m.gen}]
  /\ nextB' = IF Live(flowB) THEN nextB ELSE nextB + 1
  /\ UNCHANGED <<delivered, retiredB, source, gatewayA, toA, S2A, A2S, B2A, faults>>

DropAtB ==
  /\ A2B # <<>> /\ Head(A2B).type = "DATA"
  /\ drops < MaxDrop
  /\ A2B' = Tail(A2B)
  /\ drops' = drops + 1
  /\ \/ UNCHANGED <<flowB, nextB>>
     \/ /\ ~Live(flowB)
        /\ flowB' = [NewFlowB EXCEPT !.owners = {Head(A2B).gen}]
        /\ nextB' = nextB + 1
  /\ UNCHANGED <<delivered, retiredB, source, gatewayA, toA, S2A, A2S, B2A, losses>>

(* Dequeue and Transmitted towards the destination. *)
Deliver ==
  /\ Queue(flowB) > 0
  /\ flowB' = [flowB EXCEPT !.tx = @ + 1]
  /\ delivered' = delivered + 1
  /\ UNCHANGED <<nextB, retiredB, source, gatewayA, toA, S2A, A2S, A2B, B2A, faults>>

(* SampleReceiver.  sampledIn stands for the SAMPLE time: A compares it    *)
(* with the time it created its record.                                    *)
Report ==
  /\ Live(flowB)
  /\ Count(B2A, "FLOW_STATE") < MaxCopies
  /\ B2A' = Append(B2A, [type |-> "FLOW_STATE", gen |-> flowB.gen, sampledIn |-> flowA.gen,
                         arrived |-> flowB.in, departed |-> flowB.tx])
  /\ UNCHANGED <<gatewayB, source, gatewayA, toA, S2A, A2S, A2B, faults>>

Settled(f, m) == f.gen = m.gen /\ f.in = m.arrived /\ f.tx = f.in

(* Mutation: only a record that is there is acknowledged. *)
AckErasedOnly(m) == Live(flowB) /\ Settled(flowB, m)

(* A repeated request finds no record and is acknowledged all the same. *)
Acknowledges(m) == Live(flowB) => Settled(flowB, m)

(* ReceiveControl, RETIRE, with EraseFlow *)
ReceiveRetire ==
  LET m == Head(A2B) IN
  /\ A2B # <<>> /\ m.type = "RETIRE"
  /\ A2B' = Tail(A2B)
  /\ IF Acknowledges(m)
       THEN /\ B2A' = Append(B2A, [m EXCEPT !.type = "RETIRE_ACK"])
            /\ flowB' = NoFlowB
            /\ retiredB' = IF Live(flowB)
                             THEN retiredB \union {[gen |-> flowB.gen, peer |-> m.peer]}
                             ELSE retiredB
       ELSE UNCHANGED <<B2A, flowB, retiredB>>
  /\ UNCHANGED <<nextB, delivered, source, gatewayA, toA, S2A, A2S, faults>>

-----------------------------------------------------------------------------
(* Send over its control budget, or a message rejected for its age. *)
LoseControl ==
  /\ losses < MaxLoss
  /\ losses' = losses + 1
  /\ \/ \E i \in DOMAIN S2A : S2A' = RemoveAt(S2A, i) /\ UNCHANGED <<A2S, A2B, B2A>>
     \/ \E i \in DOMAIN A2S : A2S' = RemoveAt(A2S, i) /\ UNCHANGED <<S2A, A2B, B2A>>
     \/ \E i \in DOMAIN A2B : /\ A2B[i].type # "DATA"
                              /\ A2B' = RemoveAt(A2B, i) /\ UNCHANGED <<S2A, A2S, B2A>>
     \/ \E i \in DOMAIN B2A : B2A' = RemoveAt(B2A, i) /\ UNCHANGED <<S2A, A2S, A2B>>
  /\ UNCHANGED <<source, gatewayA, gatewayB, toA, drops>>

(* The connection is up: Connected has sent the first REGISTER. *)
Init ==
  /\ tx_wire = 0 /\ finished = FALSE
  /\ pending = FirstAttempt("REGISTER")
  /\ flowA = NoFlowA /\ nextA = 1 /\ registration = NoRegistration
  /\ flowB = NoFlowB /\ nextB = 1
  /\ toA = 0
  /\ S2A = <<[type |-> "REGISTER", query |-> 1, arrived |-> 0]>>
  /\ A2S = <<>> /\ A2B = <<>> /\ B2A = <<>>
  /\ delivered = 0 /\ retiredA = {} /\ retiredB = {}
  /\ drops = 0 /\ losses = 0

HostReceives == AcceptReply \/ IgnoreReply
AReceivesHost == ReceiveRegister \/ ReceiveConfirm \/ ReceiveComplete
AReceivesPeer == ReceiveFlowState \/ ReceiveRetireAck
BReceives == ArriveAtB \/ ReceiveRetire

Next ==
  \/ SendData \/ Finish \/ Retry \/ HostReceives
  \/ ArriveAtA \/ DropAtA \/ Forward \/ ReceiveResourceState
  \/ AReceivesHost \/ AReceivesPeer \/ SendRetire \/ EraseFlow
  \/ BReceives \/ DropAtB \/ Deliver \/ Report
  \/ LoseControl

Spec == Init /\ [][Next]_vars

(* The simulator runs every scheduled event and delivers every packet on a *)
(* link; Tick and PeriodicReport run for ever.  The source sends what it   *)
(* must, and each timer expires.                                           *)
Fairness ==
  /\ WF_vars(tx_wire < Needed /\ SendData)
  /\ WF_vars(Finish) /\ WF_vars(Retry) /\ WF_vars(HostReceives)
  /\ WF_vars(ArriveAtA) /\ WF_vars(Forward) /\ WF_vars(ReceiveResourceState)
  /\ WF_vars(AReceivesHost) /\ WF_vars(AReceivesPeer)
  /\ WF_vars(SendRetire) /\ WF_vars(EraseFlow)
  /\ WF_vars(BReceives) /\ WF_vars(Deliver) /\ WF_vars(Report)

FairSpec == Spec /\ Fairness

-----------------------------------------------------------------------------
(* Properties *)

SentBound == Needed + MaxExtra + MaxLate

TypeOK ==
  /\ tx_wire \in 0..SentBound /\ finished \in BOOLEAN
  /\ pending.type \in {"NONE", "REGISTER", "COMPLETE"}
  /\ pending.attempts \in 0..maxRetries
  /\ flowA.gen < nextA /\ flowA.in \in 0..SentBound /\ flowA.tx \in 0..flowA.in
  /\ flowB.gen < nextB /\ flowB.in \in 0..SentBound /\ flowB.tx \in 0..flowB.in
  /\ registration.query \in 0..maxRetries

(* Every packet on the long-haul link and every packet B counts belongs to *)
(* the record A has now: A never reclaims a flow that still has something  *)
(* beyond it, even when the source goes on sending after completion.       *)
ReceiverNeedsSource ==
  /\ Live(flowB) => Live(flowA) /\ flowB.owners = {flowA.gen}
  /\ \A i \in DOMAIN A2B : A2B[i].type = "DATA" => A2B[i].gen = flowA.gen

(* The two gateways reclaim a flow in pairs, B first: what A erased is     *)
(* what B erased on A's request, generation by generation.                 *)
RetiredInPairs ==
  \A r \in retiredA : [gen |-> r.peer, peer |-> r.gen] \in retiredB

(* A's view of B's counters never runs ahead of what A sent, whichever     *)
(* generations the reports are of.                                         *)
ViewNeverAhead ==
  flowA.have => flowA.departed <= flowA.arrived /\ flowA.arrived <= flowA.tx

(* "No timeout is evidence of delivery. Require actual B counters" (code): *)
(* when A may retire a flow, none of its packets is on the link or at B.   *)
RetirableIsDelivered ==
  CanRetire(flowA) =>
    /\ Count(A2B, "DATA") = 0
    /\ Live(flowB) => flowB.in = flowB.tx

(* Nothing registers a key again once its flow is reclaimed: a retried     *)
(* registration never comes after the completion that ended it.            *)
RegistrationRetired == retiredA # {} /\ ~Live(flowA) => registration = NoRegistration

Reclaimed == ~Live(flowA) /\ ~Live(flowB) /\ registration = NoRegistration

(* The source has given up: each of its attempts was lost, and A never     *)
(* learns that the flow is over.                                           *)
NeverNotified ==
  /\ pending.type = "NONE" /\ losses >= maxRetries
  /\ Live(flowA) /\ ~flowA.completed /\ Count(S2A, "COMPLETE") = 0

(* A completed flow all of whose packets get through is reclaimed at both  *)
(* gateways, whichever control messages are lost: only a source none of    *)
(* whose maxRetries notifications arrives leaves the records behind.       *)
Retires == finished ~> (Reclaimed \/ NeverNotified)
=============================================================================
