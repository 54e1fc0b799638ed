--------------------------- MODULE HostScheduler ---------------------------
(***************************************************************************)
(* What a host's QbbNetDevice sends next: the control queue, TCP's queue,  *)
(* or one of the RDMA queue pairs of its RdmaEgressQueue, served in turn,  *)
(* each paced, windowed and pausable by priority.  DequeueAndTransmit is   *)
(* called whenever something may have become sendable; when it finds       *)
(* nothing it must leave a timer behind, or the device sleeps although it  *)
(* has work.  Finished queue pairs are removed from the group while it is  *)
(* scanned.                                                                *)
(*                                                                         *)
(* Time is discrete, a packet takes one tick, and timers hold the ticks    *)
(* that are left.  Flows are counted in packets.  The rate that paces a    *)
(* queue pair is left open: any interval up to MaxGap.  What comes back    *)
(* from the network (acknowledgements, pauses, feedback) is too.           *)
(***************************************************************************)
EXTENDS Integers, Sequences, FiniteSetsExt

CONSTANTS
  Flows,      \* the queue pairs, in the order in which they are added
  m_size,     \* [queue pair -> packets]
  m_win,      \* [queue pair -> packets], 0 for no window
  m_pg,       \* [queue pair -> priority]
  Stopping,   \* the queue pairs with a stop time
  ack_q_idx, tcpip_q_idx,     \* priorities that gate the control queue and TCP
  Pausable,                   \* priorities the switch may pause
  MaxGap, MaxControl, MaxTcp  \* bounds

Elements(s) == {s[i] : i \in DOMAIN s}
Qp == Elements(Flows)
None == "none"   \* no queue pair
Tcp == "tcp"     \* the TCP queue, as a client of the transmitter
Rdma == "rdma"   \* the queue pairs together, as another

ASSUME SchedulerConfig ==
  /\ m_size \in [Qp -> Nat \ {0}]
  /\ m_win \in [Qp -> Nat]
  /\ Stopping \subseteq Qp
  /\ MaxGap \in Nat \ {0} /\ MaxControl \in Nat /\ MaxTcp \in Nat
  /\ {None, Tcp, Rdma} \cap Qp = {}

VARIABLES
  nic,     \* QbbNetDevice and RdmaEgressQueue
  qp,      \* [Qp -> RdmaQueuePair]
  stopped, \* queue pairs whose stop time has passed
  passed, twice,  \* history: <<c, d>> when d was served once, twice, while c waited
  astray   \* history: queue pairs that were chosen when another was served

vars == <<nic, qp, stopped, passed, twice, astray>>

Off == -1   \* a timer that is not scheduled

-----------------------------------------------------------------------------
(* Queue pairs.  n is a value of nic, f one of qp.                         *)

GetBytesLeft(f, q) ==
  IF f[q].state \in {"connected", "complete"} /\ m_size[q] >= f[q].snd_nxt
    THEN m_size[q] - f[q].snd_nxt ELSE 0

(* The bytes in flight are unsigned: huge when snd_nxt is below snd_una.   *)
IsWinBound(f, q) ==
  /\ m_win[q] # 0
  /\ f[q].snd_nxt - f[q].snd_una \notin 0..(m_win[q] - 1)

IsFinished(f, q) == q \in stopped \/ f[q].snd_una >= m_size[q]

(* The condition that GetNextQindex and the search for the next timer share. *)
Sendable(n, f, q) ==
  m_pg[q] \notin n.paused /\ GetBytesLeft(f, q) > 0 /\ ~IsWinBound(f, q)

Waiting(n, f, q) ==
  q \in Elements(n.group) /\ Sendable(n, f, q) /\ f[q].avail = 0

-----------------------------------------------------------------------------
(* RdmaEgressQueue *)

(* Mutation: the scan starts with the queue pair served last. *)
ScanFromLast(n) ==
  [i \in DOMAIN n.group |-> ((i - 1 + n.rrlast) % Len(n.group)) + 1]

(* Positions in the group in the order of the scan; rrlast counts from 0.  *)
ScanOrder(n) == [i \in DOMAIN n.group |-> ((i + n.rrlast) % Len(n.group)) + 1]

(* Mutation: the queue pair after the first finished one is lost too.      *)
KeptButNext(g, f, first) ==
  {i \in DOMAIN g : i < first \/ (i > first + 1 /\ ~IsFinished(f, g[i]))}

(* "clear the finished qp": the positions that are kept, and where to.      *)
Kept(g, f, first) ==
  {i \in DOMAIN g : i < first \/ (i > first /\ ~IsFinished(f, g[i]))}

Place(i, kept) == Cardinality({k \in kept : k <= i})

Compact(g, kept) ==
  [p \in 1..Cardinality(kept) |-> g[CHOOSE i \in kept : Place(i, kept) = p]]

(* Mutation: the position chosen before the compaction is used after it.   *)
ResNotUpdated(res, kept) == res

(* "update res to the idx after removing finished qp": only when the queue *)
(* pair at res is kept.                                                    *)
UpdateRes(res, kept) == IF res \in kept THEN Place(res, kept) ELSE res

(* The turns of the scan in which it meets a queue pair it can serve now.  *)
Ready(n, f) ==
  {k \in DOMAIN n.group : Waiting(n, f, n.group[ScanOrder(n)[k]])}

(* Where the scan meets a finished queue pair, up to the last turn.        *)
Finished(n, f, last) ==
  {i \in {ScanOrder(n)[k] : k \in 1..last} :
     ~Sendable(n, f, n.group[i]) /\ IsFinished(f, n.group[i])}

(* The odd turn of GetNextQindex: the first queue pair that can be served  *)
(* now, and the group without finished ones from the first one met.        *)
Scan(n, f) ==
  LET ready == Ready(n, f)
      res == IF ready = {} THEN 0 ELSE ScanOrder(n)[Min(ready)]
      finished == Finished(n, f, IF ready = {} THEN Len(n.group) ELSE Min(ready))
      kept == IF finished = {} THEN DOMAIN n.group ELSE Kept(n.group, f, Min(finished)) IN
  [chosen |-> IF res = 0 THEN None ELSE n.group[res],
   res    |-> UpdateRes(res, kept),
   group  |-> Compact(n.group, kept)]

(* Mutation: the control queue is not asked whether it holds a packet.     *)
ControlUnasked(n) == ack_q_idx \notin n.paused

ControlFirst(n) == n.control > 0 /\ ack_q_idx \notin n.paused

(* Mutation: TCP is asked first whenever it has packets. *)
TcpAlways(n, s) == n.tcp > 0

(* hostDequeueIndex alternates between queue pairs (turn 0 is followed by  *)
(* the odd turn) and TCP; whoever has nothing leaves the other its turn.   *)
TcpChosen(n, s) == n.tcp > 0 /\ (n.turn = 1 \/ s.chosen = None)

-----------------------------------------------------------------------------
(* Histories *)

(* A paused TCP queue does not wait for its turn. *)
Waits(n, f, c) ==
  CASE c = Tcp -> n.tcp > 0 /\ tcpip_q_idx \notin n.paused
    [] c = Rdma -> \E q \in Qp : Waiting(n, f, q)
    [] OTHER -> Waiting(n, f, c)

(* Who waits while d is served: queue pairs for queue pairs, TCP for all of *)
(* them and all of them for TCP.                                           *)
Overtakes(n, f, d) ==
  IF d \in Qp THEN {<<c, d>> : c \in {q \in Qp \ {d} : Waits(n, f, q)}} \cup
                   {<<c, Rdma>> : c \in {t \in {Tcp} : Waits(n, f, t)}}
  ELSE {<<c, Tcp>> : c \in {t \in {Rdma} : d = Tcp /\ Waits(n, f, t)}}

(* d was served, None if nobody was; n and f are the state it was chosen in. *)
Remember(n, f, d) ==
  LET now == Overtakes(n, f, d)
      served == IF d \in Qp THEN {d, Rdma} ELSE {d} IN
  /\ passed' = {p \in passed \cup now : p[1] \notin served /\ Waits(nic', qp', p[1])}
  /\ twice' = twice \cup (passed \cap now)

-----------------------------------------------------------------------------
(* QbbNetDevice::DequeueAndTransmit, in the state n, f its caller left.    *)

SendControl(n, f) ==
  /\ nic' = [n EXCEPT !.control = @ - 1, !.tx = 1]
  /\ qp' = f
  /\ Remember(n, f, None)
  /\ UNCHANGED astray

(* A paused TCP queue yields no packet: the call ends, without a timer.    *)
SendTcp(n, f, group) ==
  /\ qp' = f
  /\ IF tcpip_q_idx \in n.paused
       THEN nic' = [n EXCEPT !.group = group, !.turn = 0] /\ Remember(n, f, None)
       ELSE /\ nic' = [n EXCEPT !.group = group, !.turn = 0, !.tcp = @ - 1, !.tx = 1]
            /\ Remember(n, f, Tcp)
  /\ UNCHANGED astray

(* DequeueQindex: what is at the position the scan returned.  A position   *)
(* outside the group is undefined behaviour; the model then only records   *)
(* that no queue pair was served.                                          *)
Served(s) == IF s.res \in DOMAIN s.group THEN s.group[s.res] ELSE None

(* GetNxtPacket and PktSent *)
Sent(f, q, gap) ==
  LET size == IF GetBytesLeft(f, q) > 0 THEN 1 ELSE 0 IN
  [f EXCEPT ![q].snd_nxt = @ + size, ![q].avail = gap,
            ![q].sent = IF f[q].snd_nxt + size > @ THEN @ + size ELSE @]

SendQp(n, f, s) ==
  /\ nic' = [n EXCEPT !.group = s.group, !.rrlast = s.res - 1, !.turn = 1, !.tx = 1]
  /\ astray' = IF Served(s) = s.chosen THEN astray ELSE astray \cup {s.chosen}
  /\ IF Served(s) = None THEN qp' = f
     ELSE \E gap \in 1..MaxGap : qp' = Sent(f, Served(s), gap)
  /\ Remember(n, f, Served(s))

(* Mutation: a timer that is running is left as it is. *)
TimerKept(n, t) == n.nextSend = Off

TimerMoves(n, t) == n.nextSend = Off \/ t < n.nextSend

(* Nothing to send: m_nextSend wakes the device for the first paced queue pair. *)
SetTimer(n, f, group) ==
  LET times == {f[q].avail : q \in {r \in Elements(group) : Sendable(n, f, r)}} IN
  /\ nic' = [n EXCEPT !.group = group,
               !.nextSend = IF times # {} /\ TimerMoves(n, Min(times)) THEN Min(times) ELSE @]
  /\ qp' = f
  /\ Remember(n, f, None)
  /\ UNCHANGED astray

DequeueAndTransmit(n, f) ==
  IF n.tx # Off
    THEN nic' = n /\ qp' = f /\ Remember(n, f, None) /\ UNCHANGED astray
  ELSE IF ControlFirst(n) THEN SendControl(n, f)
  ELSE LET s == Scan(n, f) IN
       IF TcpChosen(n, s) THEN SendTcp(n, f, IF n.turn = 0 THEN s.group ELSE n.group)
       ELSE IF s.chosen # None THEN SendQp(n, f, s)
       ELSE SetTimer(n, f, s.group)

-----------------------------------------------------------------------------
(* The callers of DequeueAndTransmit *)

(* RdmaHw::AddQueuePair: into the group at once, sending only the connection request. *)
AddQueuePair ==
  \E i \in DOMAIN Flows :
    LET q == Flows[i] IN
    /\ qp[q].state = "new" /\ \A j \in 1..(i - 1) : qp[Flows[j]].state # "new"
    /\ nic.control < MaxControl
    /\ DequeueAndTransmit([nic EXCEPT !.group = Append(@, q), !.control = @ + 1],
                          [qp EXCEPT ![q].state = "added"])
    /\ UNCHANGED stopped

(* RdmaHw::ReceiveConnection accepts, and QbbNetDevice::NewQp *)
NewQp(q) ==
  /\ qp[q].state = "added"
  /\ DequeueAndTransmit(nic, [qp EXCEPT ![q].state = "connected", ![q].avail = 0])
  /\ UNCHANGED stopped

(* RdmaEnqueueHighPrioQ and TriggerTransmit, for a reply or a request *)
EnqueueControl ==
  /\ nic.control < MaxControl
  /\ DequeueAndTransmit([nic EXCEPT !.control = @ + 1], qp)
  /\ UNCHANGED stopped

(* QbbNetDevice::Send, TCP's packets *)
Send ==
  /\ nic.tcp < MaxTcp
  /\ DequeueAndTransmit([nic EXCEPT !.tcp = @ + 1], qp)
  /\ UNCHANGED stopped

(* RdmaHw::ReceiveAck: an acknowledgement of anything sent; a NACK, which  *)
(* a packet beyond the next expected one provokes, goes back to it.  A     *)
(* completed queue pair is no longer found.                                *)
ReceiveAck(q) ==
  /\ qp[q].state = "connected" /\ qp[q].sent > 0
  /\ \E una \in qp[q].snd_una..qp[q].sent, nack \in BOOLEAN :
       /\ nack => una + 1 < qp[q].sent
       /\ LET f == [qp EXCEPT ![q].snd_una = una, ![q].snd_nxt = IF nack THEN una ELSE @]
              g == IF IsFinished(f, q) THEN [f EXCEPT ![q].state = "complete"] ELSE f IN
          DequeueAndTransmit(nic, g)
  /\ UNCHANGED stopped

(* A PAUSE, and the RESUME or the expiry that ends it *)
Pause(p) ==
  /\ nic' = [nic EXCEPT !.paused = @ \cup {p}]
  /\ p \notin nic.paused
  /\ qp' = qp /\ Remember(nic, qp, None)
  /\ UNCHANGED <<stopped, astray>>

Resume(p) ==
  /\ p \in nic.paused
  /\ DequeueAndTransmit([nic EXCEPT !.paused = @ \ {p}], qp)
  /\ UNCHANGED stopped

TransmitComplete ==
  /\ nic.tx = 0
  /\ DequeueAndTransmit([nic EXCEPT !.tx = Off], qp)
  /\ UNCHANGED stopped

SendTimer ==
  /\ nic.nextSend = 0
  /\ DequeueAndTransmit([nic EXCEPT !.nextSend = Off], qp)
  /\ UNCHANGED stopped

(* Feedback outside an acknowledgement: RdmaHw::ChangeRate moves nextAvail *)
(* either way, and QbbNetDevice::UpdateNextAvail a running timer forward.  *)
(* Bounded to queue pairs that may have to send again: others could only   *)
(* wake the device early.                                                  *)
ChangeRate(q) ==
  /\ qp[q].state = "connected" /\ qp[q].sent > 0
  /\ qp[q].snd_nxt < m_size[q] \/ qp[q].snd_una + 1 < qp[q].sent
  /\ \E t \in 0..MaxGap :
       /\ qp' = [qp EXCEPT ![q].avail = t]
       /\ nic' = [nic EXCEPT !.nextSend = IF @ # Off /\ t < @ THEN t ELSE @]
  /\ Remember(nic, qp, None)
  /\ UNCHANGED <<stopped, astray>>

(* Simulator::Now() exceeds stopTime. *)
StopTime(q) ==
  /\ qp[q].state # "new" /\ q \notin stopped
  /\ stopped' = stopped \cup {q}
  /\ UNCHANGED <<nic, qp, passed, twice, astray>>

Less(t) == IF t > 0 THEN t - 1 ELSE t

(* Time advances when no event is due. *)
Tick ==
  /\ nic.tx # 0 /\ nic.nextSend # 0
  /\ nic.tx > 0 \/ nic.nextSend > 0 \/ \E q \in Qp : qp[q].avail > 0
  /\ nic' = [nic EXCEPT !.tx = Less(@), !.nextSend = Less(@)]
  /\ qp' = [q \in Qp |-> [qp[q] EXCEPT !.avail = Less(@)]]
  /\ Remember(nic, qp, None)
  /\ UNCHANGED <<stopped, astray>>

NewQueuePair ==
  [state |-> "new", snd_nxt |-> 0, snd_una |-> 0, sent |-> 0, avail |-> 0]

Init ==
  /\ nic = [group |-> <<>>, rrlast |-> 0, turn |-> 0, control |-> 0, tcp |-> 0,
            paused |-> {}, tx |-> Off, nextSend |-> Off]
  /\ qp = [q \in Qp |-> NewQueuePair]
  /\ stopped = {}
  /\ passed = {} /\ twice = {} /\ astray = {}

Next ==
  \/ AddQueuePair \/ EnqueueControl \/ Send
  \/ \E q \in Qp : NewQp(q) \/ ReceiveAck(q) \/ ChangeRate(q)
  \/ \E q \in Stopping : StopTime(q)
  \/ \E p \in Pausable : Pause(p) \/ Resume(p)
  \/ TransmitComplete \/ SendTimer \/ Tick

Spec == Init /\ [][Next]_vars

-----------------------------------------------------------------------------
(* Properties *)

NicType ==
  [group : Seq(Qp), rrlast : Nat, turn : 0..1, control : 0..MaxControl, tcp : 0..MaxTcp,
   paused : SUBSET Pausable, tx : {Off, 0, 1}, nextSend : {Off} \cup 0..MaxGap]

QpType ==
  [state : {"new", "added", "connected", "complete"}, snd_nxt : Nat, snd_una : Nat,
   sent : Nat, avail : 0..MaxGap]

TypeOK ==
  /\ nic \in NicType
  /\ qp \in [Qp -> QpType]
  /\ \A q \in Qp : /\ qp[q].snd_nxt <= qp[q].sent /\ qp[q].snd_una <= qp[q].sent
                   /\ qp[q].sent <= m_size[q]
  /\ stopped \subseteq Stopping /\ astray \subseteq Qp

(* The compaction of the group removes finished queue pairs only, and      *)
(* never leaves a queue pair in it twice.                                  *)
QpsKept ==
  /\ \A i, j \in DOMAIN nic.group : nic.group[i] = nic.group[j] => i = j
  /\ \A q \in Qp : qp[q].state # "new" /\ ~IsFinished(qp, q) => q \in Elements(nic.group)

(* No wake-up is lost: when the transmitter is idle, nothing can be sent   *)
(* now that no event is due for, and a timer runs no later than the first  *)
(* paced queue pair becomes available, whatever was paused, resumed,       *)
(* acknowledged or re-paced before.  Not so while TCP has packets and its  *)
(* priority is paused: its turn then ends the call.                        *)
WorkConserving ==
  nic.tx = Off =>
    /\ ~ControlFirst(nic)
    /\ nic.tcp > 0 => tcpip_q_idx \in nic.paused
    /\ nic.tcp = 0 => \A q \in Elements(nic.group) : Sendable(nic, qp, q) =>
                       nic.nextSend # Off /\ nic.nextSend <= qp[q].avail

(* Nobody is starved: while a queue pair could be served no other is       *)
(* served twice before it, although the group changes under the scan and   *)
(* rrlast is not corrected; and while both can send, TCP and the queue     *)
(* pairs alternate.  So long as every queue pair chosen was served.        *)
EverybodyInTurn == astray = {} => twice = {}

(* The queue pair served is the one the scan chose, also when finished     *)
(* ones were removed in between ("update res to the idx after removing     *)
(* finished qp"), unless the one chosen was itself finished: past its stop *)
(* time, or completed while it was sending again.                          *)
ChosenIsServed == \A q \in astray : IsFinished(qp, q)
=============================================================================
