---------------------------- MODULE EgressShaper ----------------------------
(***************************************************************************)
(* What a switch's QbbNetDevice sends next: queue 0 first, the others in   *)
(* turn (BEgressQueue), where the logical queues of a gateway's flows are  *)
(* held back by injection groups.  A group is a token bucket that its      *)
(* queues share and that is brought up to date only when it is looked at.  *)
(* When every backlogged group lacks tokens the device has to wake itself. *)
(*                                                                         *)
(* Time is discrete, a packet takes one tick, sizes and tokens count in    *)
(* the same unit.  A control message changes every group's rate at once.   *)
(***************************************************************************)
EXTENDS Integers, SequencesExt

CONSTANTS
  Plain,      \* queues of ordinary priorities
  Logical,    \* queues of the gateway's flows
  Leaving,    \* bound: the logical queues that are detached, and may come back
  Group,
  GroupOf,    \* [Logical -> Group]
  Priority,   \* [Plain \cup Logical -> priority]
  Pausable,   \* priorities the peer may pause
  Burst,      \* of a bucket
  Capacity,   \* units per tick
  Rates, Sizes,   \* the rates and packets that are tried
  MaxPackets      \* bound: packets in a queue

Queue == Plain \cup Logical

ASSUME ShaperConfig ==
  /\ Plain \cap Logical = {} /\ IsFiniteSet(Queue) /\ Queue = 1..Cardinality(Queue)
  /\ GroupOf \in [Logical -> Group] /\ Leaving \subseteq Logical
  /\ \A q, r \in Logical : GroupOf[q] = GroupOf[r] => Priority[q] = Priority[r]
  /\ Burst \in Nat /\ Capacity \in Nat /\ MaxPackets \in Nat
  /\ Rates \subseteq Nat /\ Sizes \subseteq 1..Burst /\ Sizes # {}

VARIABLES
  m_queues,   \* [0..n -> the packets of a queue, as sizes]
  bucket,     \* [Group -> InjectionBucket]
  nic,        \* the device
  credit,     \* history: [Group -> what a bucket kept up to date would hold]
  passed,     \* history: <<c, d>> when d was served while c waited for its turn
  unfair,     \* history: d was served twice while some c waited
  detached    \* history: groups that lost a queue since the device last chose

vars == <<m_queues, bucket, nic, credit, passed, unfair, detached>>

Off == -1   \* a timer that is not scheduled
Least(x, y) == IF x < y THEN x ELSE y

-----------------------------------------------------------------------------
(* Token buckets; age is the time since a bucket was updated.              *)

UpdateInjectionTokens(b) ==
  [b EXCEPT !.tokens = Least(Burst, @ + b.rate * b.age), !.age = 0]

Tokens(b) == UpdateInjectionTokens(b).tokens

-----------------------------------------------------------------------------
(* Choosing, in a state s of the device.                                   *)

At(q, b, n) == [queues |-> q, bucket |-> b, nic |-> n]
State == At(m_queues, bucket, nic)
Become(s) == m_queues' = s.queues /\ bucket' = s.bucket /\ nic' = s.nic

Backlogged(s, q) == s.queues[q] # <<>>
Paused(s, q) == Priority[q] \in s.nic.paused

(* The queues of a group from the one whose turn it is. *)
Turns(b) ==
  [i \in DOMAIN b.queues |-> b.queues[((b.next + i - 1) % Len(b.queues)) + 1]]

(* "Nominate one backlogged queue per group"; as a set, empty if there is none. *)
Nominee(s, g) ==
  LET turns == Turns(s.bucket[g])
      ready == {i \in DOMAIN turns : Backlogged(s, turns[i]) /\ ~Paused(s, turns[i])} IN
  IF ready = {} THEN {} ELSE {turns[Min(ready)]}

(* Mutation: any tokens at all will do. *)
OnCredit(s, q) ==
  LET b == s.bucket[GroupOf[q]] IN b.rate > 0 /\ Tokens(b) > 0

Affordable(s, q) ==
  LET b == s.bucket[GroupOf[q]] IN b.rate > 0 /\ Tokens(b) >= Head(s.queues[q])

(* The queues DequeueRR may take a packet from.                            *)
Ready(s) ==
  {q \in Plain : Backlogged(s, q) /\ ~Paused(s, q)} \cup
  {q \in UNION {Nominee(s, g) : g \in Group} : Affordable(s, q)}

(* Mutation: the scan starts with the queue served last. *)
RankFromLast(s, q) == (q - s.nic.rrlast) % (Cardinality(Queue) + 1)

(* The place of a queue in the scan, which queue 0 is a part of.           *)
Rank(s, q) == (q - s.nic.rrlast - 1) % (Cardinality(Queue) + 1)

CeilDiv(x, y) == (x + y - 1) \div y

(* Ticks until a nominee can be afforded. *)
Wait(s, q) ==
  LET b == s.bucket[GroupOf[q]] IN CeilDiv(Head(s.queues[q]) - Tokens(b), b.rate)

Waits(s) ==
  {Wait(s, q) : q \in {r \in UNION {Nominee(s, g) : g \in Group} :
                         s.bucket[GroupOf[r]].rate > 0 /\ ~Affordable(s, r)}}

(* Mutation: a wake-up that is scheduled is left as it is. *)
WakeKept(s, t) == s.nic.wake = Off

WakeMoves(s, t) == s.nic.wake = Off \/ t < s.nic.wake

-----------------------------------------------------------------------------
(* <<c, d>> when c waits for its turn while d is served: c could be served *)
(* itself, or it is the turn of its group that d takes.                    *)
Members(g) == {q \in Logical : GroupOf[q] = g}
Rivals(g) == Members(g) \X Members(g)
Rivalry == {p \in UNION {Rivals(g) : g \in Group} : p[1] # p[2]}

Awaits(s) ==
  {p \in Ready(s) \X Queue : p[1] # p[2]} \cup
  {p \in Rivalry : Backlogged(s, p[1])}

Served(s, q, after) ==
  LET now == {p \in Awaits(s) : p[2] = q} IN
  /\ unfair' = (unfair \/ passed \cap now # {})
  /\ passed' = {p \in (passed \cup now) \cap Awaits(after) : p[1] # q}

NobodyServed(after) ==
  /\ unfair' = unfair
  /\ passed' = IF passed = {} THEN {} ELSE passed \cap Awaits(after)

(* Mutation: the turn stays with the queue that was served. *)
TurnStays(b, q) == b.next

(* "Another group's dequeue must not advance this group's packet round     *)
(* robin position."                                                        *)
NextTurn(b, q) ==
  (CHOOSE i \in DOMAIN b.queues : b.queues[i] = q) % Len(b.queues)

Debit(b, q, size) == [b EXCEPT !.tokens = @ - size, !.next = NextTurn(b, q)]

Debited(g, q) == q \in Logical /\ g = GroupOf[q]

(* The packet at the head of queue q has left. *)
Sent(s, q) ==
  At([s.queues EXCEPT ![q] = Tail(@)],
     [g \in Group |-> IF Debited(g, q) THEN Debit(s.bucket[g], q, Head(s.queues[q]))
                      ELSE s.bucket[g]],
     [s.nic EXCEPT !.tx = 1, !.rrlast = IF q = 0 THEN @ ELSE q])

Transmit(s, q) ==
  /\ Become(Sent(s, q))
  /\ credit' = [g \in Group |->
       IF Debited(g, q) THEN credit[g] - Head(s.queues[q]) ELSE credit[g]]
  /\ IF q = 0 THEN NobodyServed(Sent(s, q)) ELSE Served(s, q, Sent(s, q))

Nothing(s) == Become(s) /\ NobodyServed(s) /\ UNCHANGED credit

Updated(s) == At(s.queues, [g \in Group |-> UpdateInjectionTokens(s.bucket[g])], s.nic)

(* The earliest wait of a group wakes the device. *)
WakeSet(s) ==
  LET waits == Waits(s) IN
  IF waits # {} /\ WakeMoves(s, Min(waits))
    THEN At(s.queues, s.bucket, [s.nic EXCEPT !.wake = Min(waits)]) ELSE s

FirstInTurn(s) ==
  LET ready == Ready(s) IN CHOOSE q \in ready : \A r \in ready : Rank(s, q) <= Rank(s, r)

Choose(s) ==
  IF Backlogged(s, 0) THEN Transmit(s, 0)
  ELSE IF Ready(s) # {} THEN Transmit(s, FirstInTurn(s))
  ELSE Nothing(s)

(* The switch's half of DequeueAndTransmit, in the state its caller left.  *)
DequeueAndTransmit(s) ==
  IF s.nic.tx # Off THEN Nothing(s) /\ UNCHANGED detached
  ELSE Choose(WakeSet(Updated(s))) /\ detached' = {}

-----------------------------------------------------------------------------
(* The callers *)

Bound(q) == \E i \in DOMAIN bucket[GroupOf[q]].queues : bucket[GroupOf[q]].queues[i] = q

(* SwitchSend, of an admitted packet; data of a flow only once it is bound. *)
(* Sizes only matter in the queues of a bucket.                            *)
SwitchSend(q) ==
  /\ q \in Logical => Bound(q)
  /\ Len(m_queues[q]) < MaxPackets
  /\ \E size \in IF q \in Logical THEN Sizes ELSE {Min(Sizes)} :
       DequeueAndTransmit(At([m_queues EXCEPT ![q] = Append(@, size)], bucket, nic))

(* What does not ask the scheduler: nobody is served. *)
Quietly(s) == Nothing(s) /\ UNCHANGED detached

(* BindInjectionQueue and DetachInjectionQueue *)
With(b, q) == [b EXCEPT !.queues = Append(@, q)]

Bind(q) ==
  /\ ~Bound(q)
  /\ Quietly(At(m_queues, [bucket EXCEPT ![GroupOf[q]] = With(@, q)], nic))

(* A queue is in its group once.  The turn of the group starts anew, and   *)
(* the device is not woken for whose turn it is then.                      *)
Without(b, i) == [UpdateInjectionTokens(b) EXCEPT !.queues = RemoveAt(@, i), !.next = 0]

Detach(q) ==
  /\ m_queues[q] = <<>>
  /\ LET group == GroupOf[q] IN
     /\ \E i \in DOMAIN bucket[group].queues :
          LET after == At(m_queues, [bucket EXCEPT ![group] = Without(@, i)], nic) IN
          /\ bucket[group].queues[i] = q
          /\ Become(after)
          /\ passed' = (passed \ Rivals(group)) \cap Awaits(after)
     /\ detached' = detached \cup {group}
  /\ UNCHANGED <<credit, unfair>>

(* The gateway looks at a bucket, which is updated for it. *)
ReadInjectionSnapshot(g) ==
  Quietly(At(m_queues, [bucket EXCEPT ![g] = UpdateInjectionTokens(@)], nic))

(* Mutation: a new rate applies to the time before it, too. *)
RateAtOnce(b, r) == [b EXCEPT !.rate = r]

NewRate(b, r) == [UpdateInjectionTokens(b) EXCEPT !.rate = r]

(* A batch names every group, and not more than the link carries.          *)
Batches ==
  {r \in [Group -> Rates] : FoldSet(LAMBDA g, sum : sum + r[g], 0, Group) <= Capacity}

ApplyInjectionControls ==
  \E r \in Batches :
    DequeueAndTransmit(At(m_queues, [g \in Group |-> NewRate(bucket[g], r[g])],
                          [nic EXCEPT !.wake = Off]))

Pause(p) ==
  /\ p \notin nic.paused
  /\ Quietly(At(m_queues, bucket, [nic EXCEPT !.paused = @ \cup {p}]))

Resume(p) ==
  /\ p \in nic.paused
  /\ DequeueAndTransmit(At(m_queues, bucket, [nic EXCEPT !.paused = @ \ {p}]))

TransmitComplete ==
  /\ nic.tx = 0
  /\ DequeueAndTransmit(At(m_queues, bucket, [nic EXCEPT !.tx = Off]))

ShapeWake ==
  /\ nic.wake = 0
  /\ DequeueAndTransmit(At(m_queues, bucket, [nic EXCEPT !.wake = Off]))

Less(t) == IF t > 0 THEN t - 1 ELSE t

(* Ages beyond what fills a bucket are all the same.                       *)
Older(b) == [b EXCEPT !.age = Least(Burst - b.tokens, @ + 1)]

(* Time advances when no event is due.                                     *)
Tick ==
  /\ nic.tx # 0 /\ nic.wake # 0
  /\ LET after == At(m_queues, [g \in Group |-> Older(bucket[g])],
                     [nic EXCEPT !.tx = Less(@), !.wake = Less(@)]) IN
     Become(after) /\ NobodyServed(after)
  /\ credit' = [g \in Group |-> Least(Burst, credit[g] + bucket[g].rate)]
  /\ UNCHANGED detached

Init ==
  /\ m_queues = [q \in {0} \cup Queue |-> <<>>]
  /\ bucket = [g \in Group |->
       [rate |-> 0, tokens |-> Burst, age |-> 0, queues |-> <<>>, next |-> 0]]
  /\ nic = [rrlast |-> 0, tx |-> Off, wake |-> Off, paused |-> {}]
  /\ credit = [g \in Group |-> Burst]
  /\ passed = {} /\ unfair = FALSE /\ detached = {}

Next ==
  \/ \E q \in {0} \cup Queue : SwitchSend(q)
  \/ \E q \in Logical : Bind(q)
  \/ \E q \in Leaving : Detach(q)
  \/ \E g \in Group : ReadInjectionSnapshot(g)
  \/ \E p \in Pausable : Pause(p) \/ Resume(p)
  \/ ApplyInjectionControls \/ TransmitComplete \/ ShapeWake \/ Tick

Spec == Init /\ [][Next]_vars

-----------------------------------------------------------------------------
(* Properties *)

TypeOK ==
  /\ \A q \in {0} \cup Queue : m_queues[q] \in Seq(Sizes) /\ Len(m_queues[q]) <= MaxPackets
  /\ \A g \in Group :
       /\ bucket[g].rate \in {0} \cup Rates /\ bucket[g].tokens \in 0..Burst
       /\ bucket[g].age \in 0..(Burst - bucket[g].tokens)
       /\ bucket[g].queues \in Seq(Logical)
       /\ bucket[g].next \in {0} \cup 1..(Len(bucket[g].queues) - 1)
       /\ \A i, j \in DOMAIN bucket[g].queues :
            bucket[g].queues[i] = bucket[g].queues[j] => i = j
  /\ nic.rrlast \in {0} \cup Queue /\ nic.paused \subseteq Pausable
  /\ nic.tx \in {Off, 0, 1} /\ nic.wake \in Off..Burst
  /\ detached \subseteq Group

(* A bucket that is updated now and then grants exactly what one kept up   *)
(* to date would: no control message, dequeue, detachment or look at it in *)
(* between mints tokens or loses them, and none is overdrawn.              *)
BudgetExact == \A g \in Group : Tokens(bucket[g]) = credit[g]

(* "Packet arrival and transmit completion already wake the device         *)
(* scheduler" (dci-gateway-node.cc): an idle device whose wake-up is not    *)
(* due this instant has nothing it could send, and wakes no later than the *)
(* first group that has a rate can send.  Not so the groups that lost a    *)
(* queue while it was idle, whose nominee may be another one since.        *)
WorkConserving ==
  nic.tx = Off /\ nic.wake # 0 =>
    /\ m_queues[0] = <<>>
    /\ \A q \in Plain : Backlogged(State, q) => Paused(State, q)
    /\ \A g \in Group \ detached : \A q \in Nominee(State, g) : bucket[g].rate > 0 =>
         ~Affordable(State, q) /\ nic.wake # Off /\ nic.wake <= Wait(State, q)

(* Between queues and within a group everybody has a turn before anybody   *)
(* has two, whichever groups are out of tokens or paused meanwhile, as     *)
(* long as no queue of the group is detached.                              *)
RoundRobin == ~unfair
=============================================================================
