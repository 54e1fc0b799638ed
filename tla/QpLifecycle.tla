---------------------------- MODULE QpLifecycle ----------------------------
(***************************************************************************)
(* The life of queue pairs between two RNICs: QPN allocation from a        *)
(* bounded pool, the connection exchange with its retries, completion,     *)
(* which deletes the state at both ends, and the events a sender schedules *)
(* for a queue pair on the way (connection retry, rate sampling, and the   *)
(* three timers of DCQCN).                                                 *)
(*                                                                         *)
(* Data are packets that arrive in order and are acknowledged one by one;  *)
(* their loss and repair is RdmaTransport's subject.  Delays are           *)
(* arbitrary: any number of the eight attempts may be made before the      *)
(* first reply arrives.  A generation is its sender's QPN in the code, so  *)
(* requests carry the QPN only.  Rates are left out: an alpha update and a *)
(* rate increase only schedule themselves again, which shows no change.    *)
(***************************************************************************)
EXTENDS Integers, FiniteSets, SequencesExt

CONSTANTS
  Flow,
  m_size,        \* packets of a flow
  MaxAttempts,   \* 8 in Connect
  m_maxQps,      \* pool of the sender's RNIC
  m_maxQpsRx,    \* pool of the receiver's
  MaxQpn,        \* 0xffffff
  MaxLoss        \* bound: connection messages lost

ASSUME LifecycleConfig ==
  /\ IsFiniteSet(Flow)
  /\ {m_size, MaxAttempts, m_maxQps, m_maxQpsRx, MaxQpn} \subseteq Nat \ {0}
  /\ MaxLoss \in Nat

VARIABLES
  tx,               \* [Flow -> the sender's queue pair]
  m_rxQpn,          \* the receiver's queue pairs
  nextTx, nextRx,   \* m_nextQpn of both RNICs
  S2R, R2S,         \* messages on their way
  losses

vars == <<tx, m_rxQpn, nextTx, nextRx, S2R, R2S, losses>>

Registered(f) == tx[f].state = "added"   \* is in m_txQpn
Control == {"request", "accept", "reject"}

(* Control packets overtake data and acknowledgements, nothing else does.  *)
Deliverable(s) ==
  {i \in DOMAIN s : \A j \in 1..(i - 1) : s[i].type \in Control /\ s[j].type \notin Control}

-----------------------------------------------------------------------------
(* QPNs *)

(* Mutation: the pool is not asked. *)
AllocateUnbounded(next, used, pool) == IF next > MaxQpn THEN 0 ELSE next

(* 0 when none is left; the caller advances m_nextQpn otherwise.           *)
AllocateQpn(next, used, pool) == IF next > MaxQpn \/ used >= pool THEN 0 ELSE next

-----------------------------------------------------------------------------
(* Events.  A counter holds how many of a kind are pending for the queue   *)
(* pair; its EventId can cancel the last.                                  *)

Cancel(pending) == IF pending > 0 THEN pending - 1 ELSE 0

(* Mutation: every CNP starts the timers.                                  *)
EveryCnpStarts(q) ==
  [q EXCEPT !.first_cnp = FALSE, !.decrease_cnp = TRUE,
            !.alpha = @ + 1, !.decrease = @ + 1]

cnp_received_mlx(q) ==
  [q EXCEPT !.first_cnp = FALSE, !.decrease_cnp = TRUE,
            !.alpha = IF q.first_cnp THEN @ + 1 ELSE @,
            !.decrease = IF q.first_cnp THEN @ + 1 ELSE @]

(* Mutation: the recovery timer is left running. *)
KeepsRecovery(q) ==
  [q EXCEPT !.state = "complete", !.connectEvent = 0, !.sample = Cancel(@),
            !.alpha = Cancel(@), !.decrease = Cancel(@)]

(* DeleteQueuePair included; the receiver's half is the callback's.        *)
QpComplete(q) ==
  [q EXCEPT !.state = "complete", !.connectEvent = 0, !.sample = Cancel(@),
            !.alpha = Cancel(@), !.decrease = Cancel(@), !.rp = Cancel(@)]

-----------------------------------------------------------------------------
(* The connection exchange *)

Request(f) == [type |-> "request", source |-> tx[f].localQpn]

(* Mutation: an attempt is not followed by another. *)
ConnectOnce(q) ==
  IF q.connectAttempts >= MaxAttempts
    THEN [q EXCEPT !.connectAttempts = @ + 1, !.connectEvent = 0, !.rejected = TRUE]
    ELSE [q EXCEPT !.connectAttempts = @ + 1, !.connectEvent = 0]

(* What Connect does to a queue pair that is neither connected nor deleted. *)
Connect(q) ==
  IF q.connectAttempts >= MaxAttempts
    THEN [q EXCEPT !.connectAttempts = @ + 1, !.connectEvent = 0, !.rejected = TRUE]
    ELSE [q EXCEPT !.connectAttempts = @ + 1, !.connectEvent = 1]

(* The pool must have room: the program aborts otherwise.                  *)
AddQueuePair(f) ==
  LET qpn == AllocateQpn(nextTx, Cardinality({g \in Flow : Registered(g)}), m_maxQps) IN
  /\ tx[f].state = "new" /\ qpn # 0
  /\ nextTx' = nextTx + 1
  /\ tx' = [tx EXCEPT ![f] = [Connect([@ EXCEPT !.state = "added", !.localQpn = qpn])
                                EXCEPT !.sample = 1]]
  /\ S2R' = Append(S2R, [type |-> "request", source |-> qpn])
  /\ UNCHANGED <<m_rxQpn, nextRx, R2S, losses>>

ConnectTimer(f) ==
  /\ tx[f].connectEvent > 0
  /\ IF tx[f].connected \/ ~Registered(f)
       THEN tx' = [tx EXCEPT ![f].connectEvent = 0] /\ S2R' = S2R
       ELSE /\ tx' = [tx EXCEPT ![f] = Connect(@)]
            /\ S2R' = IF tx[f].connectAttempts >= MaxAttempts THEN S2R
                      ELSE Append(S2R, Request(f))
  /\ UNCHANGED <<m_rxQpn, nextRx, nextTx, R2S, losses>>

(* ReceiveConnection, type 1: a repeated request finds the queue pair the  *)
(* first one made.                                                         *)
ReceiveRequest(m) ==
  LET known == {r \in m_rxQpn : r.peerQpn = m.source}
      qpn == AllocateQpn(nextRx, Cardinality(m_rxQpn), m_maxQpsRx)
      Reply(t, dest) == [type |-> t, source |-> m.source, dest |-> dest] IN
  /\ \/ /\ \E r \in known : R2S' = Append(R2S, Reply("accept", r.localQpn))
        /\ UNCHANGED <<m_rxQpn, nextRx>>
     \/ /\ known = {} /\ qpn = 0
        /\ R2S' = Append(R2S, Reply("reject", 0))
        /\ UNCHANGED <<m_rxQpn, nextRx>>
     \/ /\ known = {} /\ qpn # 0
        /\ R2S' = Append(R2S, Reply("accept", qpn))
        /\ m_rxQpn' = m_rxQpn \cup {[localQpn |-> qpn, peerQpn |-> m.source]}
        /\ nextRx' = nextRx + 1
  /\ UNCHANGED <<tx, nextTx>>

(* ReceiveConnection, types 2 and 3: a rejection ends the retries, but an  *)
(* acceptance that still comes connects.                                   *)
ReceiveReply(m) ==
  /\ tx' = [f \in Flow |->
       IF Registered(f) /\ tx[f].localQpn = m.source /\ ~tx[f].connected
         THEN IF m.type = "reject"
                THEN [tx[f] EXCEPT !.connectEvent = 0, !.rejected = TRUE]
                ELSE [tx[f] EXCEPT !.connectEvent = 0, !.connected = TRUE,
                                   !.destQpn = m.dest]
         ELSE tx[f]]
  /\ UNCHANGED <<m_rxQpn, nextTx, nextRx, S2R>>

-----------------------------------------------------------------------------
(* Data, acknowledgements and DCQCN *)

(* GetNxtPacket; the packet may be marked on its way.                      *)
Send(f) ==
  /\ Registered(f) /\ tx[f].connected /\ tx[f].sent < m_size
  /\ \E marked \in BOOLEAN :
       S2R' = Append(S2R, [type |-> "data", dest |-> tx[f].destQpn,
                           seq |-> tx[f].sent + 1, ce |-> marked])
  /\ tx' = [tx EXCEPT ![f].sent = @ + 1]
  /\ UNCHANGED <<m_rxQpn, nextTx, nextRx, R2S, losses>>

ReceiveUdp(m) ==
  /\ R2S' = R2S \o SetToSeq({[type |-> "ack", dest |-> r.peerQpn, seq |-> m.seq, cnp |-> m.ce] :
                               r \in {r \in m_rxQpn : r.localQpn = m.dest}})
  /\ UNCHANGED <<tx, m_rxQpn, nextTx, nextRx>>

(* The queue pair after an acknowledgement: completed first, then the CNP  *)
(* it carries is handled.                                                  *)
Acknowledged(q, m) ==
  LET a == [q EXCEPT !.acked = IF m.seq > @ THEN m.seq ELSE @]
      b == IF a.acked >= m_size
             THEN [QpComplete(a) EXCEPT !.firstCnpLast = m.cnp /\ q.first_cnp] ELSE a IN
  IF m.cnp THEN cnp_received_mlx(b) ELSE b

(* Mutation: completion leaves the receiver's queue pair behind. *)
NobodyReceives(m) == {}

(* The receiver's queue pairs that qp_finish deletes for a completed one.  *)
Finished(m) ==
  {r \in m_rxQpn : \E f \in Flow : Registered(f) /\ tx[f].localQpn = m.dest
                     /\ m.seq >= m_size /\ r.localQpn = tx[f].destQpn}

ReceiveAck(m) ==
  /\ tx' = [f \in Flow |-> IF Registered(f) /\ tx[f].localQpn = m.dest
                             THEN Acknowledged(tx[f], m) ELSE tx[f]]
  /\ m_rxQpn' = m_rxQpn \ Finished(m)
  /\ UNCHANGED <<nextTx, nextRx, S2R>>

(* ReceiveCnp and ReceiveFastCnp: feedback from the network or a gateway.  *)
ReceiveCnp(f) ==
  /\ Registered(f) /\ tx[f].connected /\ tx[f].sent > 0
  /\ tx' = [tx EXCEPT ![f] = cnp_received_mlx(@)]
  /\ UNCHANGED <<m_rxQpn, nextTx, nextRx, S2R, R2S, losses>>

(* Mutation: the running recovery timer is forgotten instead of cancelled. *)
RecoveryAgain(q) == [q EXCEPT !.decrease_cnp = FALSE, !.rp = @ + 1]

(* A decrease starts the recovery over. *)
Decrease(q) == [q EXCEPT !.decrease_cnp = FALSE, !.rp = Cancel(@) + 1]

(* Schedules itself again whatever it finds.                               *)
CheckRateDecreaseMlx(f) ==
  /\ tx[f].decrease > 0 /\ tx[f].decrease_cnp
  /\ tx' = [tx EXCEPT ![f] = Decrease(@)]
  /\ UNCHANGED <<m_rxQpn, nextTx, nextRx, S2R, R2S, losses>>

-----------------------------------------------------------------------------
AtReceiver ==
  \E i \in Deliverable(S2R) :
    LET m == S2R[i] IN
    /\ CASE m.type = "request" -> ReceiveRequest(m)
         [] m.type = "data" -> ReceiveUdp(m)
    /\ S2R' = RemoveAt(S2R, i)
    /\ UNCHANGED losses

AtSender ==
  \E i \in Deliverable(R2S) :
    LET m == R2S[i] IN
    /\ IF m.type = "ack" THEN ReceiveAck(m) ELSE ReceiveReply(m)
    /\ R2S' = RemoveAt(R2S, i)
    /\ UNCHANGED losses

(* A connection message is lost. *)
Lose ==
  /\ losses < MaxLoss /\ losses' = losses + 1
  /\ \/ \E i \in DOMAIN S2R : S2R[i].type \in Control /\ S2R' = RemoveAt(S2R, i) /\ R2S' = R2S
     \/ \E i \in DOMAIN R2S : R2S[i].type \in Control /\ R2S' = RemoveAt(R2S, i) /\ S2R' = S2R
  /\ UNCHANGED <<tx, m_rxQpn, nextTx, nextRx>>

NewQueuePair ==
  [state |-> "new", localQpn |-> 0, destQpn |-> 0, connected |-> FALSE,
   connectAttempts |-> 0, connectEvent |-> 0, rejected |-> FALSE,
   sent |-> 0, acked |-> 0, sample |-> 0,
   first_cnp |-> TRUE, decrease_cnp |-> FALSE, alpha |-> 0, decrease |-> 0, rp |-> 0,
   firstCnpLast |-> FALSE]

Init ==
  /\ tx = [f \in Flow |-> NewQueuePair]
  /\ m_rxQpn = {} /\ nextTx = 1 /\ nextRx = 1
  /\ S2R = <<>> /\ R2S = <<>> /\ losses = 0

Next ==
  \/ \E f \in Flow : \/ AddQueuePair(f) \/ ConnectTimer(f) \/ Send(f)
                     \/ ReceiveCnp(f) \/ CheckRateDecreaseMlx(f)
  \/ AtReceiver \/ AtSender \/ Lose

Spec == Init /\ [][Next]_vars

(* Scheduled events run, packets that can be sent are, and what is sent    *)
(* arrives.                                                                *)
Fairness ==
  /\ \A f \in Flow : WF_vars(ConnectTimer(f)) /\ WF_vars(Send(f))
  /\ WF_vars(AtReceiver) /\ WF_vars(AtSender)

FairSpec == Spec /\ Fairness

-----------------------------------------------------------------------------
(* Properties *)

Timer == {"sample", "alpha", "decrease", "rp"}
Pending(f, e) == tx[f][e]

TypeOK ==
  /\ \A f \in Flow :
       /\ tx[f].state \in {"new", "added", "complete"}
       /\ tx[f].localQpn \in 0..MaxQpn /\ tx[f].destQpn \in 0..MaxQpn
       /\ tx[f].connectAttempts \in 0..(MaxAttempts + 1) /\ tx[f].connectEvent \in 0..1
       /\ tx[f].acked \in 0..tx[f].sent /\ tx[f].sent \in 0..m_size
  /\ m_rxQpn \subseteq [localQpn : 1..MaxQpn, peerQpn : 1..MaxQpn]
  /\ Cardinality({f \in Flow : Registered(f)}) <= m_maxQps
  /\ Cardinality(m_rxQpn) <= m_maxQpsRx

(* The two ends agree, however often requests were repeated, answered late *)
(* or lost: a connected queue pair has its own peer, and the receiver      *)
(* keeps at most one queue pair per sender's, and only while the sender    *)
(* has it: no late request takes a place in the pool for a completed flow. *)
StatePaired ==
  /\ \A f \in Flow : Registered(f) /\ tx[f].connected =>
       [localQpn |-> tx[f].destQpn, peerQpn |-> tx[f].localQpn] \in m_rxQpn
  /\ \A r \in m_rxQpn :
       /\ \E f \in Flow : Registered(f) /\ tx[f].localQpn = r.peerQpn
       /\ \A s \in m_rxQpn : s.peerQpn = r.peerQpn \/ s.localQpn = r.localQpn => s = r

(* Each timer of a queue pair runs once at most, and none after it is      *)
(* complete, unless its first CNP came with its last acknowledgement.      *)
TimersRunOnce ==
  \A f \in Flow : \A e \in Timer :
    /\ Pending(f, e) <= 1
    /\ tx[f].state = "complete" /\ ~tx[f].firstCnpLast => Pending(f, e) = 0

(* "QpComplete cancels" (the call-chain notes, of each of DCQCN's timers): *)
(* a completed queue pair has no event left.                               *)
CompletedHasNoTimers ==
  \A f \in Flow : \A e \in Timer : tx[f].state = "complete" => Pending(f, e) = 0

(* A flow completes unless it was turned down: by the receiver's pool, or  *)
(* because the attempts ran out.                                           *)
CompletesUnlessRejected ==
  \A f \in Flow : Registered(f) ~> (tx[f].state = "complete" \/ tx[f].rejected)
=============================================================================
