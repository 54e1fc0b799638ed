------------------------- MODULE QpLifecycleProofs -------------------------
(***************************************************************************)
(* Proofs about QpLifecycle, for any number of flows, packets, attempts,   *)
(* losses, and any pools and QPN space.                                    *)
(***************************************************************************)
EXTENDS QpLifecycle, FiniteSetTheorems, SequenceTheorems, TLAPS

-----------------------------------------------------------------------------
(* Channels, sequences of messages: what appending to one and removing     *)
(* from it do to the messages on it and to their order.                    *)

LEMMA OnAppend ==
  ASSUME NEW S, NEW s \in Seq(S), NEW x \in S
  PROVE  /\ Append(s, x) \in Seq(S)
         /\ Range(Append(s, x)) = Range(s) \cup {x}
<1>1. /\ Append(s, x) \in Seq(S) /\ Len(Append(s, x)) = Len(s) + 1 /\ Len(s) \in Nat
      /\ \A i \in 1..Len(s) : Append(s, x)[i] = s[i]
      /\ Append(s, x)[Len(s) + 1] = x
  BY AppendProperties, LenProperties
<1>2. DOMAIN s = 1..Len(s) /\ DOMAIN Append(s, x) = 1..(Len(s) + 1)
  BY <1>1, LenProperties
<1>3. 1..(Len(s) + 1) = (1..Len(s)) \cup {Len(s) + 1}
  BY <1>1
<1> QED
  BY <1>1, <1>2, <1>3 DEF Range

LEMMA AtRemoved ==
  ASSUME NEW S, NEW s \in Seq(S), NEW i \in 1..Len(s)
  PROVE  /\ RemoveAt(s, i) \in Seq(S)
         /\ Len(RemoveAt(s, i)) = Len(s) - 1
         /\ \A j \in 1..(Len(s) - 1) : RemoveAt(s, i)[j] = s[IF j < i THEN j ELSE j + 1]
<1>1. Len(s) \in Nat /\ i \in Nat
  BY LenProperties
<1> DEFINE a == SubSeq(s, 1, i - 1)
           b == SubSeq(s, i + 1, Len(s))
<1>2. /\ a \in Seq(S) /\ Len(a) = i - 1
      /\ \A j \in 1..(i - 1) : a[j] = s[j]
  BY <1>1, SubSeqProperties
<1>3. /\ b \in Seq(S) /\ Len(b) = Len(s) - i
      /\ \A j \in 1..(Len(s) - i) : b[j] = s[i + j]
  BY <1>1, SubSeqProperties
<1> HIDE DEF a, b
<1>4. /\ a \o b \in Seq(S) /\ Len(a \o b) = Len(s) - 1
      /\ \A j \in 1..(Len(s) - 1) : (a \o b)[j] = IF j < i THEN a[j] ELSE b[j - (i - 1)]
  <2>1. /\ a \o b \in Seq(S) /\ Len(a \o b) = Len(a) + Len(b)
        /\ \A j \in 1..(Len(a) + Len(b)) :
             (a \o b)[j] = IF j <= Len(a) THEN a[j] ELSE b[j - Len(a)]
    BY <1>2, <1>3, ConcatProperties
  <2>2. Len(a) + Len(b) = Len(s) - 1
    BY <1>1, <1>2, <1>3
  <2>3. \A j \in 1..(Len(s) - 1) : j <= i - 1 <=> j < i
    BY <1>1
  <2> QED
    BY <2>1, <2>2, <2>3, <1>2
<1>5. ASSUME NEW j \in 1..(Len(s) - 1)
      PROVE  (a \o b)[j] = s[IF j < i THEN j ELSE j + 1]
  <2>1. CASE j < i
    BY <2>1, <1>1, <1>2, <1>4
  <2>2. CASE ~(j < i)
    <3>1. (a \o b)[j] = b[j - (i - 1)]
      BY <2>2, <1>4
    <3>2. j - (i - 1) \in 1..(Len(s) - i) /\ i + (j - (i - 1)) = j + 1
      BY <2>2, <1>1
    <3> QED
      BY <2>2, <3>1, <3>2, <1>3
  <2> QED
    BY <2>1, <2>2
<1> QED
  BY <1>4, <1>5 DEF RemoveAt, a, b

LEMMA OnRemove ==
  ASSUME NEW S, NEW s \in Seq(S), NEW i \in 1..Len(s)
  PROVE  /\ RemoveAt(s, i) \in Seq(S)
         /\ Range(RemoveAt(s, i)) \subseteq Range(s)
<1>1. Len(s) \in Nat /\ DOMAIN s = 1..Len(s)
  BY LenProperties
<1>2. /\ RemoveAt(s, i) \in Seq(S) /\ Len(RemoveAt(s, i)) = Len(s) - 1
      /\ \A j \in 1..(Len(s) - 1) : RemoveAt(s, i)[j] = s[IF j < i THEN j ELSE j + 1]
  BY AtRemoved
<1>3. DOMAIN RemoveAt(s, i) = 1..(Len(s) - 1)
  BY <1>2, LenProperties
<1>4. ASSUME NEW j \in DOMAIN RemoveAt(s, i) PROVE RemoveAt(s, i)[j] \in Range(s)
  <2>1. (IF j < i THEN j ELSE j + 1) \in DOMAIN s
    BY <1>1, <1>3
  <2> QED
    BY <2>1, <1>2, <1>3 DEF Range
<1> QED
  BY <1>2, <1>4 DEF Range


-----------------------------------------------------------------------------
(* One queue pair *)

QueuePair ==
  [state : {"new", "added", "complete"}, localQpn : 0..MaxQpn, destQpn : 0..MaxQpn,
   connected : BOOLEAN, connectAttempts : Nat, connectEvent : Nat, rejected : BOOLEAN,
   sent : Nat, acked : Nat, sample : Nat,
   first_cnp : BOOLEAN, decrease_cnp : BOOLEAN, alpha : Nat, decrease : Nat, rp : Nat,
   firstCnpLast : BOOLEAN]

(* No event is pending twice; DCQCN's are since the first CNP only.        *)
Once(q) ==
  /\ q.sample <= 1 /\ q.alpha <= 1 /\ q.decrease <= 1 /\ q.rp <= 1 /\ q.connectEvent <= 1
  /\ q.first_cnp => q.alpha = 0 /\ q.decrease = 0 /\ q.rp = 0

Stopped(q) == q.sample = 0 /\ (q.firstCnpLast \/ (q.alpha = 0 /\ q.decrease = 0 /\ q.rp = 0))

Tries(q) ==
  /\ q.connectAttempts <= MaxAttempts + 1
  /\ q.connectEvent > 0 => q.connectAttempts <= MaxAttempts

GoodEvents(q) ==
  /\ Once(q) /\ Tries(q)
  /\ q.state = "new" => q.sample = 0 /\ q.first_cnp /\ q.connectAttempts = 0
  /\ q.state = "complete" => Stopped(q)

(* What the tables and messages depend on. *)
Same(p, q) ==
  /\ p.state = q.state /\ p.localQpn = q.localQpn /\ p.destQpn = q.destQpn
  /\ p.connected = q.connected /\ p.sent = q.sent /\ p.acked = q.acked

LEMMA Constants ==
  /\ m_size \in Nat /\ m_size > 0 /\ MaxAttempts \in Nat /\ MaxAttempts > 0
  /\ m_maxQps \in Nat /\ m_maxQpsRx \in Nat /\ MaxQpn \in Nat /\ MaxQpn > 0
  /\ m_maxQps > 0 /\ m_maxQpsRx > 0
  BY LifecycleConfig

LEMMA Cancelled ==
  ASSUME NEW n \in Nat
  PROVE  /\ Cancel(n) \in Nat /\ Cancel(n) <= n
         /\ n <= 1 => Cancel(n) = 0
  BY DEF Cancel

(* The fields an update leaves alone, for the updates with known values. *)
LEMMA DecreaseFields ==
  ASSUME NEW q \in QueuePair, NEW n \in Nat
  PROVE  LET p == [q EXCEPT !.decrease_cnp = FALSE, !.rp = n] IN
         /\ p \in QueuePair /\ p.rp = n
         /\ \A x \in DOMAIN q \ {"decrease_cnp", "rp"} : p[x] = q[x]
  BY DEF QueuePair

LEMMA CompleteFields ==
  ASSUME NEW q \in QueuePair, NEW p,
         p = [q EXCEPT !.state = "complete", !.connectEvent = 0, !.sample = 0,
                       !.alpha = 0, !.decrease = 0, !.rp = 0]
  PROVE  /\ p \in QueuePair /\ p.state = "complete" /\ p.connectEvent = 0 /\ p.sample = 0
         /\ p.alpha = 0 /\ p.decrease = 0 /\ p.rp = 0
         /\ \A x \in DOMAIN q \ {"state", "connectEvent", "sample", "alpha", "decrease", "rp"} :
              p[x] = q[x]
  BY DEF QueuePair

LEMMA ReplyFields ==
  ASSUME NEW q \in QueuePair, NEW d \in 0..MaxQpn
  PROVE  LET r == [q EXCEPT !.connectEvent = 0, !.rejected = TRUE]
             p == [q EXCEPT !.connectEvent = 0, !.connected = TRUE, !.destQpn = d] IN
         /\ r \in QueuePair /\ r.connectEvent = 0
         /\ \A x \in DOMAIN q \ {"connectEvent", "rejected"} : r[x] = q[x]
         /\ p \in QueuePair /\ p.connectEvent = 0 /\ p.connected /\ p.destQpn = d
         /\ \A x \in DOMAIN q \ {"connectEvent", "connected", "destQpn"} : p[x] = q[x]
  BY DEF QueuePair

LEMMA Fields ==
  ASSUME NEW q \in QueuePair
  PROVE  {"state", "localQpn", "destQpn", "connected", "connectAttempts", "connectEvent", "rejected",
          "sent", "acked", "sample", "first_cnp", "decrease_cnp", "alpha", "decrease", "rp",
          "firstCnpLast"} = DOMAIN q
  BY DEF QueuePair

LEMMA ConnectQp ==
  ASSUME NEW q \in QueuePair, Once(q), q.connectAttempts <= MaxAttempts
  PROVE  /\ Connect(q) \in QueuePair /\ Same(Connect(q), q)
         /\ Once(Connect(q)) /\ Tries(Connect(q))
         /\ Connect(q).sample = q.sample /\ Connect(q).first_cnp = q.first_cnp
<1>1. /\ q.connectAttempts \in Nat /\ q.connectAttempts + 1 \in Nat
      /\ q.connectAttempts + 1 <= MaxAttempts + 1
  BY Constants DEF QueuePair
<1>n. PICK n \in Nat : n = q.connectAttempts + 1
  BY <1>1
<1>e. PICK e \in Nat : e = (IF q.connectAttempts >= MaxAttempts THEN 0 ELSE 1)
  OBVIOUS
<1>p. PICK p : p = Connect(q)
  OBVIOUS
<1>2. /\ p \in QueuePair /\ p.connectAttempts = n /\ p.connectEvent = e
      /\ \A x \in DOMAIN q \ {"connectAttempts", "connectEvent", "rejected"} : p[x] = q[x]
  <2>1. \/ p = [q EXCEPT !.connectAttempts = n, !.connectEvent = e]
        \/ p = [q EXCEPT !.connectAttempts = n, !.connectEvent = e, !.rejected = TRUE]
    BY <1>n, <1>e, <1>p DEF Connect
  <2> QED
    BY <2>1 DEF QueuePair
<1>3. Same(p, q) /\ p.sample = q.sample /\ p.first_cnp = q.first_cnp
  BY <1>2, Fields DEF Same
<1>4. Once(p)
  BY <1>2, <1>e, Fields DEF Once
<1>5. Tries(p)
  BY <1>1, <1>2, <1>n, <1>e, Constants DEF Tries
<1> QED
  BY <1>2, <1>3, <1>4, <1>5, <1>p

LEMMA CnpQp ==
  ASSUME NEW q \in QueuePair, Once(q), Tries(q)
  PROVE  LET p == cnp_received_mlx(q) IN
         /\ p \in QueuePair /\ Same(p, q) /\ Once(p) /\ Tries(p)
         /\ p.sample = q.sample /\ p.firstCnpLast = q.firstCnpLast
         /\ ~q.first_cnp => p.alpha = q.alpha /\ p.decrease = q.decrease /\ p.rp = q.rp
<1> DEFINE Next1(n) == IF q.first_cnp THEN n + 1 ELSE n
<1>a. PICK a \in Nat : a = Next1(q.alpha)
  BY DEF QueuePair
<1>d. PICK d \in Nat : d = Next1(q.decrease)
  BY DEF QueuePair
<1>p. PICK p : p = cnp_received_mlx(q)
  OBVIOUS
<1>1. /\ a <= 1 /\ d <= 1 /\ q.first_cnp \in BOOLEAN
      /\ ~q.first_cnp => a = q.alpha /\ d = q.decrease
  BY <1>a, <1>d DEF QueuePair, Once
<1>2. p = [q EXCEPT !.first_cnp = FALSE, !.decrease_cnp = TRUE, !.alpha = a, !.decrease = d]
  BY <1>a, <1>d, <1>p DEF cnp_received_mlx
<1>3. /\ p \in QueuePair /\ p.first_cnp = FALSE /\ p.alpha = a /\ p.decrease = d
      /\ \A x \in DOMAIN q \ {"first_cnp", "decrease_cnp", "alpha", "decrease"} : p[x] = q[x]
  BY <1>2 DEF QueuePair
<1>4. Same(p, q) /\ Tries(p) /\ p.sample = q.sample /\ p.firstCnpLast = q.firstCnpLast /\ p.rp = q.rp
  BY <1>3, Fields DEF Same, Tries
<1>5. Once(p)
  BY <1>1, <1>3, Fields DEF Once
<1> QED
  BY <1>1, <1>3, <1>4, <1>5, <1>p

LEMMA DecreaseQp ==
  ASSUME NEW q \in QueuePair, GoodEvents(q), q.decrease > 0
  PROVE  Decrease(q) \in QueuePair /\ Same(Decrease(q), q) /\ GoodEvents(Decrease(q))
<1>1. /\ Cancel(q.rp) + 1 = 1 /\ q.decrease # 0
  BY Cancelled DEF QueuePair, GoodEvents, Once
<1>2. ~q.first_cnp /\ q.state # "new" /\ (q.state = "complete" => q.sample = 0 /\ q.firstCnpLast)
  BY <1>1 DEF GoodEvents, Once, Stopped
<1> DEFINE p == Decrease(q)
<1>3. p = [q EXCEPT !.decrease_cnp = FALSE, !.rp = 1]
  BY <1>1 DEF Decrease
<1> HIDE DEF p
<1>4. /\ p \in QueuePair /\ p.rp = 1
      /\ \A x \in DOMAIN q \ {"decrease_cnp", "rp"} : p[x] = q[x]
  BY <1>3, DecreaseFields
<1>5. Same(p, q) /\ Tries(p) /\ p.sample = q.sample /\ p.firstCnpLast = q.firstCnpLast
  BY <1>4, Fields DEF Same, Tries, GoodEvents
<1>6. Once(p)
  BY <1>2, <1>4, Fields DEF Once, GoodEvents
<1>7. GoodEvents(p)
  BY <1>2, <1>5, <1>6 DEF GoodEvents, Stopped, Same
<1> QED
  BY <1>4, <1>5, <1>7 DEF p

LEMMA CompleteQp ==
  ASSUME NEW q \in QueuePair, Once(q), Tries(q), NEW b \in BOOLEAN
  PROVE  LET p == [QpComplete(q) EXCEPT !.firstCnpLast = b] IN
         /\ p \in QueuePair /\ Once(p) /\ Tries(p) /\ Stopped(p)
         /\ p.alpha = 0 /\ p.decrease = 0 /\ p.rp = 0
         /\ p.state = "complete" /\ p.localQpn = q.localQpn /\ p.destQpn = q.destQpn
         /\ p.connected = q.connected /\ p.sent = q.sent /\ p.acked = q.acked
         /\ p.firstCnpLast = b /\ p.first_cnp = q.first_cnp
<1>1. Cancel(q.sample) = 0 /\ Cancel(q.alpha) = 0 /\ Cancel(q.decrease) = 0 /\ Cancel(q.rp) = 0
  BY Cancelled DEF QueuePair, Once
<1> DEFINE c == QpComplete(q)
<1>2. /\ c \in QueuePair
      /\ c.alpha = 0 /\ c.decrease = 0 /\ c.rp = 0 /\ c.sample = 0 /\ c.connectEvent = 0
      /\ c.state = "complete" /\ c.localQpn = q.localQpn /\ c.destQpn = q.destQpn
      /\ c.connected = q.connected /\ c.sent = q.sent /\ c.acked = q.acked
      /\ c.first_cnp = q.first_cnp /\ c.connectAttempts = q.connectAttempts
  <2>1. c = [q EXCEPT !.state = "complete", !.connectEvent = 0, !.sample = 0,
                      !.alpha = 0, !.decrease = 0, !.rp = 0]
    BY <1>1 DEF QpComplete
  <2> HIDE DEF c
  <2>2. /\ c \in QueuePair /\ c.state = "complete" /\ c.connectEvent = 0 /\ c.sample = 0
        /\ c.alpha = 0 /\ c.decrease = 0 /\ c.rp = 0
        /\ \A x \in DOMAIN q \ {"state", "connectEvent", "sample", "alpha", "decrease", "rp"} :
             c[x] = q[x]
    BY <2>1, CompleteFields
  <2> QED
    BY <2>2, Fields
<1> HIDE DEF c
<1>3. /\ Once(c) /\ Tries(c)
  BY <1>2 DEF Once, Tries
<1> DEFINE p == [c EXCEPT !.firstCnpLast = b]
<1>4. /\ p \in QueuePair /\ Once(p) /\ Tries(p) /\ p.sample = 0
      /\ p.alpha = 0 /\ p.decrease = 0 /\ p.rp = 0
      /\ p.state = "complete" /\ p.localQpn = q.localQpn /\ p.destQpn = q.destQpn
      /\ p.connected = q.connected /\ p.sent = q.sent /\ p.acked = q.acked
      /\ p.firstCnpLast = b /\ p.first_cnp = q.first_cnp
  BY <1>2, <1>3 DEF QueuePair, Once, Tries
<1> HIDE DEF p
<1>5. Stopped(p)
  BY <1>4 DEF Stopped
<1> QED
  BY <1>4, <1>5 DEF p, c

(* A registered queue pair after an acknowledgement. *)
LEMMA AcknowledgedQp ==
  ASSUME NEW q \in QueuePair, GoodEvents(q), q.state = "added",
         NEW m, m.seq \in Nat, m.cnp \in BOOLEAN, q.acked < m_size
  PROVE  LET p == Acknowledged(q, m) IN
         /\ p \in QueuePair /\ GoodEvents(p)
         /\ p.localQpn = q.localQpn /\ p.destQpn = q.destQpn
         /\ p.connected = q.connected /\ p.sent = q.sent
         /\ p.acked = (IF m.seq > q.acked THEN m.seq ELSE q.acked)
         /\ p.state = (IF m.seq >= m_size THEN "complete" ELSE "added")
<1> DEFINE n == IF m.seq > q.acked THEN m.seq ELSE q.acked
           a == [q EXCEPT !.acked = n]
           c == [QpComplete(a) EXCEPT !.firstCnpLast = m.cnp /\ q.first_cnp]
           b == IF a.acked >= m_size THEN c ELSE a
<1>1. n \in Nat /\ q.acked \in Nat /\ (n >= m_size <=> m.seq >= m_size)
  BY Constants DEF QueuePair
<1> HIDE DEF n
<1>2. /\ a \in QueuePair /\ Once(a) /\ Tries(a) /\ a.acked = n /\ a.state = "added"
      /\ a.localQpn = q.localQpn /\ a.destQpn = q.destQpn
      /\ a.connected = q.connected /\ a.sent = q.sent /\ a.first_cnp = q.first_cnp
  BY <1>1 DEF QueuePair, GoodEvents, Once, Tries
<1> HIDE DEF a
<1>3. (m.cnp /\ q.first_cnp) \in BOOLEAN /\ q.first_cnp \in BOOLEAN
  BY DEF QueuePair
<1>4. /\ c \in QueuePair /\ Once(c) /\ Tries(c) /\ Stopped(c) /\ c.state = "complete"
      /\ c.localQpn = q.localQpn /\ c.destQpn = q.destQpn /\ c.acked = n
      /\ c.connected = q.connected /\ c.sent = q.sent /\ c.first_cnp = q.first_cnp
      /\ c.firstCnpLast = (m.cnp /\ q.first_cnp)
      /\ c.alpha = 0 /\ c.decrease = 0 /\ c.rp = 0
  BY <1>2, <1>3, CompleteQp
<1> HIDE DEF c
<1> DEFINE p == IF m.cnp THEN cnp_received_mlx(b) ELSE b
<1>5. Acknowledged(q, m) = p
  BY DEF Acknowledged, p, b, c, a, n
<1>6. /\ b \in QueuePair /\ Once(b) /\ Tries(b) /\ b.acked = n
      /\ b.localQpn = q.localQpn /\ b.destQpn = q.destQpn
      /\ b.connected = q.connected /\ b.sent = q.sent
      /\ b.state = (IF m.seq >= m_size THEN "complete" ELSE "added")
      /\ b.state = "complete" => b = c
  BY <1>1, <1>2, <1>4
<1> HIDE DEF b
<1>7. /\ p \in QueuePair /\ Once(p) /\ Tries(p) /\ p.acked = n
      /\ p.localQpn = q.localQpn /\ p.destQpn = q.destQpn
      /\ p.connected = q.connected /\ p.sent = q.sent
      /\ p.state = (IF m.seq >= m_size THEN "complete" ELSE "added")
  BY <1>6, CnpQp DEF Same
<1>8. p.state = "complete" => Stopped(p)
  <2> SUFFICES ASSUME p.state = "complete" PROVE Stopped(p)
    OBVIOUS
  <2>1. b = c
    BY <1>6, <1>7
  <2>2. CASE ~m.cnp
    BY <2>1, <2>2, <1>4
  <2>3. CASE m.cnp /\ ~q.first_cnp
    BY <2>1, <2>3, <1>4, CnpQp DEF Stopped
  <2>4. CASE m.cnp /\ q.first_cnp
    <3>1. p.firstCnpLast /\ p.sample = c.sample
      BY <2>1, <2>4, <1>4, CnpQp
    <3> QED
      BY <3>1, <1>4 DEF Stopped
  <2> QED
    BY <2>2, <2>3, <2>4, <1>3
<1> HIDE DEF p
<1>9. p.state # "new" /\ GoodEvents(p)
  BY <1>7, <1>8 DEF GoodEvents
<1> QED
  BY <1>5, <1>7, <1>9 DEF n

LEMMA ConnectedQp ==
  ASSUME NEW q \in QueuePair, GoodEvents(q), q.state = "added", NEW d \in 0..MaxQpn
  PROVE  LET r == [q EXCEPT !.connectEvent = 0, !.rejected = TRUE]
             p == [q EXCEPT !.connectEvent = 0, !.connected = TRUE, !.destQpn = d] IN
         /\ r \in QueuePair /\ Same(r, q) /\ GoodEvents(r)
         /\ p \in QueuePair /\ GoodEvents(p) /\ p.state = "added" /\ p.localQpn = q.localQpn
         /\ p.connected /\ p.destQpn = d /\ p.sent = q.sent /\ p.acked = q.acked
<1> DEFINE r == [q EXCEPT !.connectEvent = 0, !.rejected = TRUE]
           p == [q EXCEPT !.connectEvent = 0, !.connected = TRUE, !.destQpn = d]
<1>1. /\ r \in QueuePair /\ r.connectEvent = 0
      /\ \A x \in DOMAIN q \ {"connectEvent", "rejected"} : r[x] = q[x]
      /\ p \in QueuePair /\ p.connectEvent = 0 /\ p.connected /\ p.destQpn = d
      /\ \A x \in DOMAIN q \ {"connectEvent", "connected", "destQpn"} : p[x] = q[x]
  BY ReplyFields
<1> HIDE DEF r, p
<1>2. /\ Same(r, q) /\ p.state = q.state /\ p.localQpn = q.localQpn
      /\ p.sent = q.sent /\ p.acked = q.acked
  BY <1>1, Fields DEF Same
<1>3. Once(r) /\ Once(p) /\ Tries(r) /\ Tries(p)
  BY <1>1, Fields DEF Once, Tries, GoodEvents
<1>4. GoodEvents(r) /\ GoodEvents(p)
  BY <1>2, <1>3 DEF GoodEvents, Same
<1> QED
  BY <1>1, <1>2, <1>4 DEF r, p

-----------------------------------------------------------------------------
(* The invariant *)

ToReceiver ==
  [type : {"request"}, source : 1..MaxQpn]
    \cup [type : {"data"}, dest : 0..MaxQpn, seq : Nat, ce : BOOLEAN]
ToSender ==
  [type : {"accept", "reject"}, source : 1..MaxQpn, dest : 0..MaxQpn]
    \cup [type : {"ack"}, dest : 1..MaxQpn, seq : Nat, cnp : BOOLEAN]

RxQpn == [localQpn : 1..MaxQpn, peerQpn : 1..MaxQpn]

Types ==
  /\ tx \in [Flow -> QueuePair]
  /\ nextTx \in 1..(MaxQpn + 1) /\ nextRx \in 1..(MaxQpn + 1)
  /\ m_rxQpn \in SUBSET RxQpn
  /\ S2R \in Seq(ToReceiver) /\ R2S \in Seq(ToSender)

Pools ==
  /\ Cardinality({f \in Flow : Registered(f)}) <= m_maxQps
  /\ IsFiniteSet(m_rxQpn) /\ Cardinality(m_rxQpn) <= m_maxQpsRx

Added(q) == q.state = "added"
Live(q) == q.state # "new"

(* A queue pair, given the next QPNs of both ends. *)
Queued(q, nT, nR) ==
  /\ q.acked <= q.sent /\ q.sent <= m_size
  /\ q.state = "new" => ~q.connected /\ q.sent = 0
  /\ Live(q) => q.localQpn \in 1..(nT - 1)
  /\ q.connected => q.destQpn \in 1..(nR - 1)
  /\ q.state = "complete" => q.connected
  /\ Added(q) => q.acked < m_size

Qps(t, nT, nR) == \A f \in Flow : GoodEvents(t[f]) /\ Queued(t[f], nT, nR)

(* r is the receiver's queue pair of q. *)
Linked(r, q) == r.localQpn = q.destQpn /\ r.peerQpn = q.localQpn

(* The tables of the two ends. *)
Tables(t, rx, nR) ==
  /\ \A f, g \in Flow : Live(t[f]) /\ Live(t[g]) /\ t[f].localQpn = t[g].localQpn => f = g
  /\ \A r \in rx : r.localQpn < nR /\ \E f \in Flow : Added(t[f]) /\ t[f].localQpn = r.peerQpn
  /\ \A r, s \in rx : r.localQpn = s.localQpn \/ r.peerQpn = s.peerQpn => r = s
  /\ \A f \in Flow : Added(t[f]) /\ t[f].connected => \E r \in rx : Linked(r, t[f])
  /\ \A f \in Flow : t[f].state = "complete" => \A r \in rx : r.localQpn # t[f].destQpn

(* No request of a completed flow is on its way: none was sent once it was *)
(* connected, and earlier ones were ahead of its data (Data).              *)
Requests(t, s) ==
  \A m \in Range(s) : m.type = "request" => \E f \in Flow : Added(t[f]) /\ t[f].localQpn = m.source

(* An acceptance names a queue pair the receiver still has. *)
Replies(t, rx, nT, s) ==
  \A m \in Range(s) :
    m.type \in {"accept", "reject"} =>
      /\ m.source < nT
      /\ m.type = "accept" => \A f \in Flow : Added(t[f]) /\ t[f].localQpn = m.source =>
                                \E r \in rx : r.localQpn = m.dest /\ r.peerQpn = m.source

Silent(q, k) == k.type = "request" => k.source # q.localQpn
DataOf(q, m) == q.connected /\ q.destQpn = m.dest /\ m.seq <= q.sent
AckOf(q, m) == q.connected /\ q.localQpn = m.dest /\ m.seq <= q.sent

(* Data are of a connected flow, and none of its requests is behind them. *)
Data(t, s) ==
  \A i \in DOMAIN s :
    s[i].type = "data" =>
      \E f \in Flow : DataOf(t[f], s[i]) /\ \A j \in DOMAIN s : j > i => Silent(t[f], s[j])

(* An acknowledgement is of a flow that has no request on its way. *)
Acks(t, s, back) ==
  \A m \in Range(back) :
    m.type = "ack" => \E f \in Flow : AckOf(t[f], m) /\ \A k \in Range(s) : Silent(t[f], k)

IInv ==
  /\ Types /\ Pools
  /\ Qps(tx, nextTx, nextRx) /\ Tables(tx, m_rxQpn, nextRx)
  /\ Requests(tx, S2R) /\ Replies(tx, m_rxQpn, nextTx, R2S)
  /\ Data(tx, S2R) /\ Acks(tx, S2R, R2S)

LEMMA InitInv == Init => IInv
<1> SUFFICES ASSUME Init PROVE IInv
  OBVIOUS
<1>1. /\ tx = [f \in Flow |-> NewQueuePair] /\ NewQueuePair \in QueuePair
      /\ \A f \in Flow : tx[f].state = "new"
  BY Constants DEF Init, NewQueuePair, QueuePair
<1>2. GoodEvents(NewQueuePair) /\ \A n, r : Queued(NewQueuePair, n, r)
  BY Constants DEF NewQueuePair, GoodEvents, Once, Tries, Queued, Live, Added
<1>3. /\ m_rxQpn = {} /\ nextTx = 1 /\ nextRx = 1 /\ S2R = <<>> /\ R2S = <<>>
      /\ DOMAIN S2R = {} /\ Range(S2R) = {} /\ Range(R2S) = {}
  BY DEF Init, Range
<1>4. Types
  BY <1>1, <1>3, Constants DEF Types
<1>5. Pools
  <2>1. {f \in Flow : Registered(f)} = {}
    BY <1>1 DEF Registered
  <2> QED
    BY <2>1, <1>3, FS_EmptySet, Constants DEF Pools
<1>6. Qps(tx, nextTx, nextRx)
  BY <1>1, <1>2 DEF Qps
<1>7. Tables(tx, m_rxQpn, nextRx)
  BY <1>1, <1>3 DEF Tables, Live, Added
<1> QED
  BY <1>3, <1>4, <1>5, <1>6, <1>7 DEF IInv, Requests, Replies, Data, Acks

-----------------------------------------------------------------------------
(* Channels in order *)

(* u is s without some of its messages. *)
Within(u, s) ==
  \A j \in DOMAIN u : \E i \in DOMAIN s :
    u[j] = s[i] /\ \A k \in DOMAIN u : k > j => \E h \in DOMAIN s : h > i /\ u[k] = s[h]

LEMMA SelfWithin == \A s : Within(s, s)
  BY DEF Within

LEMMA RemoveWithin ==
  ASSUME NEW S, NEW s \in Seq(S), NEW i \in 1..Len(s)
  PROVE  Within(RemoveAt(s, i), s)
<1> DEFINE u == RemoveAt(s, i)
           Old(j) == IF j < i THEN j ELSE j + 1
<1>1. /\ Len(s) \in Nat /\ DOMAIN s = 1..Len(s) /\ DOMAIN u = 1..(Len(s) - 1)
      /\ \A j \in 1..(Len(s) - 1) : u[j] = s[Old(j)]
  BY AtRemoved, LenProperties
<1>2. \A j \in 1..(Len(s) - 1) : Old(j) \in DOMAIN s
  BY <1>1
<1>3. \A j, k \in 1..(Len(s) - 1) : k > j => Old(k) > Old(j)
  BY <1>1
<1> HIDE DEF u, Old
<1>4. ASSUME NEW j \in 1..(Len(s) - 1)
      PROVE  \E h \in DOMAIN s :
               u[j] = s[h] /\ \A k \in DOMAIN u : k > j => \E g \in DOMAIN s : g > h /\ u[k] = s[g]
  <2>1. \A k \in DOMAIN u : k > j => \E g \in DOMAIN s : g > Old(j) /\ u[k] = s[g]
    <3> SUFFICES ASSUME NEW k \in DOMAIN u, k > j
                 PROVE  \E g \in DOMAIN s : g > Old(j) /\ u[k] = s[g]
      OBVIOUS
    <3>1. Old(k) \in DOMAIN s
      BY <1>1, <1>2
    <3> WITNESS Old(k) \in DOMAIN s
    <3> QED
      BY <1>1, <1>3
  <2>2. Old(j) \in DOMAIN s
    BY <1>2
  <2> WITNESS Old(j) \in DOMAIN s
  <2> QED
    BY <1>1, <2>1
<1>5. Within(u, s)
  BY <1>1, <1>4 DEF Within
<1> QED
  BY <1>5 DEF u

LEMMA WithinRange ==
  ASSUME NEW u, NEW s, Within(u, s)
  PROVE  Range(u) \subseteq Range(s)
  BY DEF Within, Range

(* Data are delivered only from the front, as are acknowledgements. *)
LEMMA FirstDelivered ==
  ASSUME NEW S, NEW s \in Seq(S), NEW i \in Deliverable(s)
  PROVE  i \in 1..Len(s) /\ s[i] \in Range(s) /\ s[i] \in S /\ (s[i].type \notin Control => i = 1)
<1>1. i \in DOMAIN s /\ DOMAIN s = 1..Len(s) /\ Len(s) \in Nat
  BY LenProperties DEF Deliverable
<1>2. s[i].type \notin Control => \A j \in 1..(i - 1) : FALSE
  BY DEF Deliverable
<1>3. i # 1 => 1 \in 1..(i - 1)
  BY <1>1
<1>4. s[i] \in Range(s) /\ s[i] \in S
  BY <1>1, ElementOfSeq DEF Range
<1> QED
  BY <1>1, <1>2, <1>3, <1>4

LEMMA SetAsSeq ==
  ASSUME NEW T, IsFiniteSet(T)
  PROVE  SetToSeq(T) \in Seq(T)
<1> DEFINE n == Cardinality(T)
<1>1. n \in Nat /\ ExistsBijection(1..n, T)
  BY FS_CardinalityType
<1>2. \E f \in [1..n -> T] : IsInjective(f)
  BY <1>1 DEF ExistsBijection, Bijection, Injection, IsInjective
<1>3. SetToSeq(T) \in [1..n -> T]
  BY <1>2 DEF SetToSeq
<1> QED
  BY <1>1, <1>3, SeqDef

-----------------------------------------------------------------------------
(* What keeps each part of the invariant *)

(* A connected queue pair stays what it is, and sends no less. *)
Keeps(u, t) ==
  \A f \in Flow : t[f].connected =>
    /\ u[f].connected /\ u[f].localQpn = t[f].localQpn /\ u[f].destQpn = t[f].destQpn
    /\ u[f].sent \in Int /\ t[f].sent \in Int /\ t[f].sent <= u[f].sent

SameIds(p, q) ==
  /\ p.state = q.state /\ p.localQpn = q.localQpn
  /\ p.destQpn = q.destQpn /\ p.connected = q.connected

LEMMA DataKept ==
  ASSUME NEW t, NEW u, NEW s, NEW S, s \in Seq(S), \A m \in S : m.type = "data" => m.seq \in Nat,
         NEW v, Data(t, s), Keeps(u, t), Within(v, s)
  PROVE  Data(u, v)
<1> SUFFICES ASSUME NEW j \in DOMAIN v, v[j].type = "data"
             PROVE  \E f \in Flow : /\ DataOf(u[f], v[j])
                                    /\ \A k \in DOMAIN v : k > j => Silent(u[f], v[k])
  BY DEF Data
<1>1. PICK i \in DOMAIN s :
        v[j] = s[i] /\ \A k \in DOMAIN v : k > j => \E h \in DOMAIN s : h > i /\ v[k] = s[h]
  BY DEF Within
<1>2. PICK f \in Flow :
        DataOf(t[f], s[i]) /\ \A k \in DOMAIN s : k > i => Silent(t[f], s[k])
  BY <1>1 DEF Data
<1>3. s[i].seq \in Nat
  BY <1>1, ElementOfSeq, LenProperties
<1>4. DataOf(u[f], v[j])
  BY <1>1, <1>2, <1>3 DEF DataOf, Keeps
<1>5. \A k \in DOMAIN v : k > j => Silent(u[f], v[k])
  BY <1>1, <1>2 DEF DataOf, Keeps, Silent
<1> QED
  BY <1>4, <1>5

LEMMA AcksKept ==
  ASSUME NEW t, NEW u, NEW s, NEW v, NEW b, NEW c, NEW S, b \in Seq(S),
         \A m \in S : m.type = "ack" => m.seq \in Nat,
         Acks(t, s, b), Keeps(u, t), Range(v) \subseteq Range(s), Range(c) \subseteq Range(b)
  PROVE  Acks(u, v, c)
<1> SUFFICES ASSUME NEW m \in Range(c), m.type = "ack"
             PROVE  \E f \in Flow : AckOf(u[f], m) /\ \A k \in Range(v) : Silent(u[f], k)
  BY DEF Acks
<1>1. PICK f \in Flow : AckOf(t[f], m) /\ \A k \in Range(s) : Silent(t[f], k)
  BY DEF Acks
<1>2. m.seq \in Nat
  BY LenProperties, ElementOfSeq DEF Range
<1> QED
  BY <1>1, <1>2 DEF AckOf, Keeps, Silent

LEMMA TablesKept ==
  ASSUME NEW t, NEW u, NEW rx, NEW n, Tables(t, rx, n), \A f \in Flow : SameIds(u[f], t[f])
  PROVE  Tables(u, rx, n)
<1>1. \A f \in Flow : /\ Live(u[f]) <=> Live(t[f])
                      /\ Added(u[f]) <=> Added(t[f])
                      /\ u[f].localQpn = t[f].localQpn /\ u[f].destQpn = t[f].destQpn
                      /\ u[f].connected = t[f].connected
                      /\ u[f].state = t[f].state
  BY DEF SameIds, Live, Added
<1>2. \A f \in Flow, r \in rx : Linked(r, u[f]) <=> Linked(r, t[f])
  BY <1>1 DEF Linked
<1> QED
  BY <1>1, <1>2 DEF Tables

(* Flows that are registered stay so, with their QPN. *)
LEMMA RequestsKept ==
  ASSUME NEW t, NEW u, NEW s, NEW v, Requests(t, s), Range(v) \subseteq Range(s),
         \A f \in Flow : Added(t[f]) => Added(u[f]) /\ u[f].localQpn = t[f].localQpn
  PROVE  Requests(u, v)
  BY DEF Requests

LEMMA RepliesKept ==
  ASSUME NEW t, NEW u, NEW rx, NEW ry, NEW n, NEW s, NEW v,
         Replies(t, rx, n, s), Range(v) \subseteq Range(s), rx \subseteq ry,
         \A f \in Flow : Added(u[f]) => Added(t[f]) /\ u[f].localQpn = t[f].localQpn
  PROVE  Replies(u, ry, n, v)
  BY DEF Replies

LEMMA PoolsKept ==
  ASSUME Pools, IsFiniteSet(Flow), m_rxQpn' \subseteq m_rxQpn,
         \A f \in Flow : Registered(f)' => Registered(f)
  PROVE  Pools'
<1> DEFINE A == {f \in Flow : Registered(f)}
<1>1. IsFiniteSet(A) /\ A' \subseteq A
  BY FS_Subset
<1>2. Cardinality(A') <= Cardinality(A) /\ Cardinality(A') \in Nat /\ Cardinality(A) \in Nat
  BY <1>1, FS_Subset, FS_CardinalityType
<1>3. /\ IsFiniteSet(m_rxQpn') /\ Cardinality(m_rxQpn') <= Cardinality(m_rxQpn)
      /\ Cardinality(m_rxQpn') \in Nat /\ Cardinality(m_rxQpn) \in Nat
  BY FS_Subset, FS_CardinalityType DEF Pools
<1>4. Cardinality(A) <= m_maxQps /\ Cardinality(m_rxQpn) <= m_maxQpsRx
  BY DEF Pools
<1> HIDE DEF A
<1>5. Cardinality(A') <= m_maxQps /\ Cardinality(m_rxQpn') <= m_maxQpsRx
  BY <1>2, <1>3, <1>4, Constants
<1> QED
  BY <1>3, <1>5 DEF Pools, A

LEMMA Messages ==
  /\ \A m \in ToReceiver : m.type = "data" => m.seq \in Nat
  /\ \A m \in ToSender : m.type = "ack" => m.seq \in Nat
  BY DEF ToReceiver, ToSender

(* Steps that change only events, or drop messages. *)
LEMMA Unmoved ==
  ASSUME IInv, tx' \in [Flow -> QueuePair],
         \A f \in Flow : Same(tx'[f], tx[f]) /\ GoodEvents(tx'[f]),
         UNCHANGED <<m_rxQpn, nextTx, nextRx>>,
         S2R' \in Seq(ToReceiver), R2S' \in Seq(ToSender),
         Within(S2R', S2R), Range(R2S') \subseteq Range(R2S)
  PROVE  IInv'
<1>1. /\ \A f \in Flow : tx[f] \in QueuePair
      /\ \A f \in Flow : SameIds(tx'[f], tx[f]) /\ tx'[f].sent = tx[f].sent /\ tx'[f].acked = tx[f].acked
  BY DEF Same, SameIds, IInv, Types
<1>2. Range(S2R') \subseteq Range(S2R)
  BY WithinRange
<1>3. Keeps(tx', tx)
  BY <1>1 DEF Keeps, SameIds, QueuePair
<1>4. \A f \in Flow : (Added(tx'[f]) <=> Added(tx[f])) /\ tx'[f].localQpn = tx[f].localQpn
  BY <1>1 DEF SameIds, Added
<1>5. Types'
  BY DEF IInv, Types
<1>6. Pools'
  BY <1>4, PoolsKept, LifecycleConfig DEF IInv, Registered, Added
<1>7. Qps(tx', nextTx', nextRx')
  BY <1>1, <1>4 DEF IInv, Qps, Queued, SameIds, Live, Added
<1>8. Tables(tx', m_rxQpn', nextRx')
  BY <1>1, TablesKept DEF IInv
<1>9. Requests(tx', S2R')
  BY <1>2, <1>4, RequestsKept DEF IInv
<1>10. Replies(tx', m_rxQpn', nextTx', R2S')
  BY <1>4, RepliesKept DEF IInv
<1>11. Data(tx', S2R')
  BY <1>3, DataKept, Messages DEF IInv, Types
<1>12. Acks(tx', S2R', R2S')
  BY <1>2, <1>3, AcksKept, Messages DEF IInv, Types
<1> QED
  BY <1>5, <1>6, <1>7, <1>8, <1>9, <1>10, <1>11, <1>12 DEF IInv

-----------------------------------------------------------------------------
(* The sender's steps *)

(* One queue pair changes. *)
LEMMA OneQp ==
  ASSUME NEW t \in [Flow -> QueuePair], NEW f \in Flow, NEW q \in QueuePair
  PROVE  /\ [t EXCEPT ![f] = q] \in [Flow -> QueuePair]
         /\ \A g \in Flow : [t EXCEPT ![f] = q][g] = IF g = f THEN q ELSE t[g]
  OBVIOUS

LEMMA ReceiveCnpInv == ASSUME IInv, NEW f \in Flow, ReceiveCnp(f) PROVE IInv'
<1>1. /\ tx \in [Flow -> QueuePair] /\ tx[f] \in QueuePair /\ GoodEvents(tx[f])
      /\ \A g \in Flow : GoodEvents(tx[g])
      /\ S2R \in Seq(ToReceiver) /\ R2S \in Seq(ToSender)
  BY DEF IInv, Types, Qps
<1>2. tx[f].state = "added" /\ tx' = [tx EXCEPT ![f] = cnp_received_mlx(tx[f])]
      /\ UNCHANGED <<m_rxQpn, nextTx, nextRx, S2R, R2S>>
  BY DEF ReceiveCnp, Registered
<1> DEFINE p == cnp_received_mlx(tx[f])
<1>3. p \in QueuePair /\ Same(p, tx[f]) /\ Once(p) /\ Tries(p)
  BY <1>1, CnpQp DEF GoodEvents
<1>4. GoodEvents(p)
  BY <1>2, <1>3 DEF GoodEvents, Same
<1> HIDE DEF p
<1>5. tx' \in [Flow -> QueuePair] /\ \A g \in Flow : tx'[g] = IF g = f THEN p ELSE tx[g]
  BY <1>1, <1>2, <1>3, OneQp DEF p
<1>6. \A g \in Flow : Same(tx'[g], tx[g]) /\ GoodEvents(tx'[g])
  BY <1>1, <1>3, <1>4, <1>5 DEF Same
<1> QED
  BY <1>1, <1>2, <1>5, <1>6, SelfWithin, Unmoved

LEMMA DecreaseInv == ASSUME IInv, NEW f \in Flow, CheckRateDecreaseMlx(f) PROVE IInv'
<1>1. /\ tx \in [Flow -> QueuePair] /\ tx[f] \in QueuePair /\ GoodEvents(tx[f])
      /\ \A g \in Flow : GoodEvents(tx[g])
      /\ S2R \in Seq(ToReceiver) /\ R2S \in Seq(ToSender)
  BY DEF IInv, Types, Qps
<1>2. tx[f].decrease > 0 /\ tx' = [tx EXCEPT ![f] = Decrease(tx[f])]
      /\ UNCHANGED <<m_rxQpn, nextTx, nextRx, S2R, R2S>>
  BY DEF CheckRateDecreaseMlx
<1> DEFINE p == Decrease(tx[f])
<1>3. p \in QueuePair /\ Same(p, tx[f]) /\ GoodEvents(p)
  BY <1>1, <1>2, DecreaseQp
<1> HIDE DEF p
<1>5. tx' \in [Flow -> QueuePair] /\ \A g \in Flow : tx'[g] = IF g = f THEN p ELSE tx[g]
  BY <1>1, <1>2, <1>3, OneQp DEF p
<1>6. \A g \in Flow : Same(tx'[g], tx[g]) /\ GoodEvents(tx'[g])
  BY <1>1, <1>3, <1>5 DEF Same
<1> QED
  BY <1>1, <1>2, <1>5, <1>6, SelfWithin, Unmoved

LEMMA LoseInv == ASSUME IInv, Lose PROVE IInv'
<1>1. /\ tx \in [Flow -> QueuePair] /\ \A g \in Flow : GoodEvents(tx[g])
      /\ S2R \in Seq(ToReceiver) /\ R2S \in Seq(ToSender)
      /\ UNCHANGED <<tx, m_rxQpn, nextTx, nextRx>>
  BY DEF IInv, Types, Qps, Lose
<1>2. \A g \in Flow : Same(tx'[g], tx[g]) /\ GoodEvents(tx'[g])
  BY <1>1 DEF Same
<1>3. ASSUME NEW i \in DOMAIN S2R, S2R' = RemoveAt(S2R, i), R2S' = R2S PROVE IInv'
  <2>1. i \in 1..Len(S2R)
    BY <1>1, LenProperties
  <2>2. S2R' \in Seq(ToReceiver) /\ Within(S2R', S2R)
    BY <1>1, <1>3, <2>1, OnRemove, RemoveWithin
  <2> QED
    BY <1>1, <1>2, <1>3, <2>2, Unmoved
<1>4. ASSUME NEW i \in DOMAIN R2S, R2S' = RemoveAt(R2S, i), S2R' = S2R PROVE IInv'
  <2>1. i \in 1..Len(R2S)
    BY <1>1, LenProperties
  <2>2. R2S' \in Seq(ToSender) /\ Range(R2S') \subseteq Range(R2S)
    BY <1>1, <1>4, <2>1, OnRemove
  <2> QED
    BY <1>1, <1>2, <1>4, <2>2, SelfWithin, Unmoved
<1> QED
  BY <1>3, <1>4 DEF Lose

(* A message behind those on the channel. *)
LEMMA DataAppend ==
  ASSUME NEW S, NEW s \in Seq(S), NEW x \in S, NEW t, Data(t, s),
         \A f \in Flow : t[f].connected => Silent(t[f], x),
         x.type = "data" => \E f \in Flow : DataOf(t[f], x)
  PROVE  Data(t, Append(s, x))
<1> DEFINE v == Append(s, x)
<1>1. /\ Len(s) \in Nat /\ DOMAIN s = 1..Len(s) /\ DOMAIN v = 1..(Len(s) + 1)
      /\ \A i \in 1..Len(s) : v[i] = s[i]
      /\ v[Len(s) + 1] = x
  <2>1. v \in Seq(S) /\ Len(v) = Len(s) + 1
    BY AppendProperties
  <2> QED
    BY <2>1, AppendProperties, LenProperties
<1>2. 1..(Len(s) + 1) = (1..Len(s)) \cup {Len(s) + 1}
  BY <1>1
<1> SUFFICES ASSUME NEW i \in DOMAIN v, v[i].type = "data"
             PROVE  \E f \in Flow : /\ DataOf(t[f], v[i])
                                    /\ \A j \in DOMAIN v : j > i => Silent(t[f], v[j])
  BY DEF Data
<1> HIDE DEF v
<1>3. CASE i \in 1..Len(s)
  <2>1. PICK f \in Flow :
          DataOf(t[f], s[i]) /\ \A j \in DOMAIN s : j > i => Silent(t[f], s[j])
    BY <1>1, <1>3 DEF Data
  <2>2. ASSUME NEW j \in DOMAIN v, j > i PROVE Silent(t[f], v[j])
    BY <1>1, <1>2, <2>1, <2>2 DEF DataOf
  <2> QED
    BY <1>1, <1>3, <2>1, <2>2
<1>4. CASE i = Len(s) + 1
  <2>1. \A j \in DOMAIN v : ~(j > i)
    BY <1>1, <1>4
  <2> QED
    BY <1>1, <1>4, <2>1
<1> QED
  BY <1>1, <1>2, <1>3, <1>4

LEMMA AcksAppend ==
  ASSUME NEW S, NEW s \in Seq(S), NEW x \in S, NEW t, NEW b, Acks(t, s, b),
         \A f \in Flow : t[f].connected => Silent(t[f], x)
  PROVE  Acks(t, Append(s, x), b)
<1>1. Range(Append(s, x)) = Range(s) \cup {x}
  BY OnAppend
<1> QED
  BY <1>1 DEF Acks, AckOf

(* A request of a flow that is not connected. *)
LEMMA RequestSilent ==
  ASSUME NEW t, NEW rx, NEW n, Tables(t, rx, n), NEW f \in Flow, Added(t[f]), ~t[f].connected,
         \A g \in Flow : t[g].connected => Live(t[g])
  PROVE  \A g \in Flow : t[g].connected => Silent(t[g], [type |-> "request", source |-> t[f].localQpn])
BY DEF Tables, Live, Added, Silent

LEMMA ConnectedLive ==
  ASSUME NEW t, NEW n, NEW r, Qps(t, n, r), NEW g \in Flow, t[g].connected
  PROVE  Live(t[g])
  BY DEF Qps, Queued, Live

LEMMA ConnectTimerInv == ASSUME IInv, NEW f \in Flow, ConnectTimer(f) PROVE IInv'
<1>1. /\ tx \in [Flow -> QueuePair] /\ tx[f] \in QueuePair /\ GoodEvents(tx[f])
      /\ \A g \in Flow : tx[g] \in QueuePair /\ GoodEvents(tx[g])
      /\ S2R \in Seq(ToReceiver) /\ R2S \in Seq(ToSender)
      /\ UNCHANGED <<m_rxQpn, nextTx, nextRx, R2S>> /\ tx[f].connectEvent > 0
  BY DEF IInv, Types, Qps, ConnectTimer
<1>2. CASE tx[f].connected \/ ~Registered(f)
  <2>1. PICK p : p = [tx[f] EXCEPT !.connectEvent = 0]
    OBVIOUS
  <2>2. /\ p \in QueuePair /\ p.connectEvent = 0
        /\ \A x \in DOMAIN tx[f] \ {"connectEvent"} : p[x] = tx[f][x]
    BY <1>1, <2>1 DEF QueuePair
  <2>3. Same(p, tx[f]) /\ GoodEvents(p)
    BY <1>1, <2>2, Fields DEF Same, GoodEvents, Once, Tries, Stopped
  <2>4. tx' = [tx EXCEPT ![f] = p] /\ S2R' = S2R
    BY <1>2, <2>1 DEF ConnectTimer
  <2>5. tx' \in [Flow -> QueuePair] /\ \A g \in Flow : tx'[g] = IF g = f THEN p ELSE tx[g]
    BY <1>1, <2>2, <2>4, OneQp
  <2>6. \A g \in Flow : Same(tx'[g], tx[g]) /\ GoodEvents(tx'[g])
    BY <1>1, <2>3, <2>5 DEF Same
  <2> QED
    BY <1>1, <2>4, <2>5, <2>6, SelfWithin, Unmoved
<1>3. CASE ~tx[f].connected /\ Registered(f)
  <2>1. PICK p : p = Connect(tx[f])
    OBVIOUS
  <2>2. p \in QueuePair /\ Same(p, tx[f]) /\ Once(p) /\ Tries(p)
    BY <1>1, <2>1, ConnectQp DEF GoodEvents, Tries
  <2>3. GoodEvents(p)
    BY <1>3, <2>2 DEF GoodEvents, Same, Registered
  <2>4. /\ tx' = [tx EXCEPT ![f] = p]
        /\ S2R' = S2R \/ S2R' = Append(S2R, Request(f))
    BY <1>3, <2>1 DEF ConnectTimer
  <2>5. tx' \in [Flow -> QueuePair] /\ \A g \in Flow : tx'[g] = IF g = f THEN p ELSE tx[g]
    BY <1>1, <2>2, <2>4, OneQp
  <2>6. \A g \in Flow : Same(tx'[g], tx[g]) /\ GoodEvents(tx'[g])
    BY <1>1, <2>2, <2>3, <2>5 DEF Same
  <2>7. CASE S2R' = S2R
    BY <1>1, <2>5, <2>6, <2>7, SelfWithin, Unmoved
  <2>8. CASE S2R' = Append(S2R, Request(f))
    <3>1. \A g \in Flow : SameIds(tx'[g], tx[g]) /\ tx'[g].sent = tx[g].sent /\ tx'[g].acked = tx[g].acked
      BY <2>6 DEF Same, SameIds
    <3>2. Keeps(tx', tx)
      <4>1. \A g \in Flow : tx[g].sent \in Int
        BY <1>1 DEF QueuePair
      <4> QED
        BY <4>1, <3>1 DEF Keeps, SameIds
    <3>3. \A g \in Flow : (Added(tx'[g]) <=> Added(tx[g])) /\ tx'[g].localQpn = tx[g].localQpn
      BY <3>1 DEF SameIds, Added
    <3>4. Request(f) = [type |-> "request", source |-> tx[f].localQpn] /\ Added(tx[f])
      BY <1>3 DEF Request, Registered, Added
    <3>5. Request(f) \in ToReceiver
      <4>1. tx[f].localQpn \in 1..MaxQpn
        BY <1>1, <3>4 DEF IInv, Qps, Queued, Types, Added, Live, QueuePair
      <4> QED
        BY <4>1, <3>4 DEF ToReceiver
    <3>6. Types'
      BY <1>1, <2>5, <2>8, <3>5, OnAppend DEF IInv, Types
    <3>7. Pools'
      BY <1>1, <3>3, PoolsKept, LifecycleConfig DEF IInv, Registered, Added
    <3>8. Qps(tx', nextTx', nextRx')
      BY <1>1, <2>6, <3>1, <3>3 DEF IInv, Qps, Queued, SameIds, Live, Added
    <3>9. Tables(tx', m_rxQpn', nextRx')
      BY <1>1, <3>1, TablesKept DEF IInv
    <3>10. \A g \in Flow : tx'[g].connected => Silent(tx'[g], Request(f))
      <4>1. \A g \in Flow : tx[g].connected => Silent(tx[g], Request(f))
        BY <1>3, <3>4, RequestSilent, ConnectedLive DEF IInv
      <4> QED
        BY <4>1, <3>1 DEF SameIds, Silent
    <3>11. Requests(tx', S2R')
      <4>1. Requests(tx', S2R)
        BY <3>3, RequestsKept DEF IInv
      <4>2. Range(S2R') = Range(S2R) \cup {Request(f)}
        BY <1>1, <2>8, <3>5, OnAppend
      <4> QED
        BY <4>1, <4>2, <3>3, <3>4 DEF Requests
    <3>12. Replies(tx', m_rxQpn', nextTx', R2S')
      BY <1>1, <3>3, RepliesKept DEF IInv
    <3>13. Data(tx', S2R')
      <4>1. Data(tx', S2R)
        BY <3>2, DataKept, SelfWithin, Messages DEF IInv, Types
      <4> QED
        BY <1>1, <2>8, <4>1, <3>4, <3>5, <3>10, DataAppend
    <3>14. Acks(tx', S2R', R2S')
      <4>1. Acks(tx', S2R, R2S)
        BY <3>2, AcksKept, Messages DEF IInv, Types
      <4> QED
        BY <1>1, <2>8, <4>1, <3>5, <3>10, AcksAppend
    <3> QED
      BY <3>6, <3>7, <3>8, <3>9, <3>11, <3>12, <3>13, <3>14 DEF IInv
  <2> QED
    BY <2>4, <2>7, <2>8
<1> QED
  BY <1>2, <1>3, <1>1 DEF QueuePair

LEMMA SendInv == ASSUME IInv, NEW f \in Flow, Send(f) PROVE IInv'
<1>1. /\ tx \in [Flow -> QueuePair]
      /\ \A g \in Flow : tx[g] \in QueuePair /\ GoodEvents(tx[g])
      /\ S2R \in Seq(ToReceiver) /\ R2S \in Seq(ToSender)
      /\ UNCHANGED <<m_rxQpn, nextTx, nextRx, R2S>>
      /\ Added(tx[f]) /\ tx[f].connected /\ tx[f].sent < m_size
  BY DEF IInv, Types, Qps, Send, Registered, Added
<1>2. PICK marked \in BOOLEAN :
        S2R' = Append(S2R, [type |-> "data", dest |-> tx[f].destQpn,
                            seq |-> tx[f].sent + 1, ce |-> marked])
  BY DEF Send
<1>n. PICK n \in Nat : n = tx[f].sent + 1
  BY <1>1 DEF QueuePair
<1>x. PICK x : x = [type |-> "data", dest |-> tx[f].destQpn, seq |-> n, ce |-> marked]
  OBVIOUS
<1>p. PICK p : p = [tx[f] EXCEPT !.sent = n]
  OBVIOUS
<1>3. /\ x \in ToReceiver /\ x.type = "data" /\ x.dest = tx[f].destQpn /\ x.seq = n
      /\ S2R' = Append(S2R, x)
  <2>1. tx[f].destQpn \in 0..MaxQpn
    BY <1>1 DEF QueuePair
  <2> QED
    BY <1>2, <1>n, <1>x, <2>1 DEF ToReceiver
<1>4. p \in QueuePair /\ p.sent = n /\ \A y \in DOMAIN tx[f] \ {"sent"} : p[y] = tx[f][y]
  BY <1>1, <1>p DEF QueuePair
<1>5. GoodEvents(p)
  BY <1>1, <1>4, Fields DEF GoodEvents, Once, Tries, Stopped
<1>6. SameIds(p, tx[f]) /\ p.acked = tx[f].acked
  BY <1>1, <1>4, Fields DEF SameIds
<1>7. tx' \in [Flow -> QueuePair] /\ \A g \in Flow : tx'[g] = IF g = f THEN p ELSE tx[g]
  <2>1. tx' = [tx EXCEPT ![f] = p]
    BY <1>p, <1>n DEF Send
  <2> QED
    BY <1>1, <1>4, <2>1, OneQp
<1>8. /\ \A g \in Flow : SameIds(tx'[g], tx[g]) /\ tx'[g].acked = tx[g].acked /\ GoodEvents(tx'[g])
      /\ \A g \in Flow : g # f => tx'[g].sent = tx[g].sent
      /\ tx'[f].sent = n
  BY <1>1, <1>4, <1>5, <1>6, <1>7 DEF SameIds
<1>9. \A g \in Flow : /\ Added(tx'[g]) <=> Added(tx[g])
                      /\ Live(tx'[g]) <=> Live(tx[g])
                      /\ tx'[g].localQpn = tx[g].localQpn
  BY <1>8 DEF SameIds, Added, Live
<1>10. \A g \in Flow : tx[g].sent \in Nat /\ tx[g].acked \in Nat
  BY <1>1 DEF QueuePair
<1>11. Keeps(tx', tx)
  BY <1>8, <1>10, <1>n DEF Keeps, SameIds
<1>12. Types'
  BY <1>1, <1>3, <1>7, OnAppend DEF IInv, Types
<1>13. Pools'
  BY <1>1, <1>9, PoolsKept, LifecycleConfig DEF IInv, Registered, Added
<1>14. Qps(tx', nextTx', nextRx')
  <2> SUFFICES ASSUME NEW g \in Flow PROVE Queued(tx'[g], nextTx, nextRx)
    BY <1>1, <1>8 DEF Qps
  <2>1. Queued(tx[g], nextTx, nextRx)
    BY DEF IInv, Qps
  <2>2. CASE g = f
    <3>1. tx'[f].acked <= n /\ n <= m_size /\ tx'[f].state # "new"
      BY <2>1, <2>2, <1>1, <1>8, <1>10, <1>n, Constants DEF Queued, SameIds, Added
    <3> QED
      BY <2>1, <2>2, <3>1, <1>8, <1>9 DEF Queued, SameIds
  <2>3. CASE g # f
    BY <2>1, <2>3, <1>8, <1>9 DEF Queued, SameIds
  <2> QED
    BY <2>2, <2>3
<1>15. Tables(tx', m_rxQpn', nextRx')
  BY <1>1, <1>8, TablesKept DEF IInv
<1>16. Requests(tx', S2R')
  <2>1. Requests(tx', S2R)
    BY <1>9, RequestsKept DEF IInv
  <2>2. Range(S2R') = Range(S2R) \cup {x}
    BY <1>1, <1>3, OnAppend
  <2> QED
    BY <2>1, <2>2, <1>3 DEF Requests
<1>17. Replies(tx', m_rxQpn', nextTx', R2S')
  BY <1>1, <1>9, RepliesKept DEF IInv
<1>18. \A g \in Flow : Silent(tx'[g], x)
  BY <1>3 DEF Silent
<1>19. DataOf(tx'[f], x)
  BY <1>1, <1>3, <1>8 DEF DataOf, SameIds
<1>20. Data(tx', S2R')
  <2>1. Data(tx', S2R)
    BY <1>11, DataKept, SelfWithin, Messages DEF IInv, Types
  <2> QED
    BY <1>1, <1>3, <2>1, <1>18, <1>19, DataAppend
<1>21. Acks(tx', S2R', R2S')
  <2>1. Acks(tx', S2R, R2S)
    BY <1>11, AcksKept, Messages DEF IInv, Types
  <2> QED
    BY <1>1, <1>3, <2>1, <1>18, AcksAppend
<1> QED
  BY <1>12, <1>13, <1>14, <1>15, <1>16, <1>17, <1>20, <1>21 DEF IInv

LEMMA Allocated ==
  ASSUME NEW n \in Nat, NEW u, NEW p, AllocateQpn(n, u, p) # 0
  PROVE  AllocateQpn(n, u, p) = n /\ n <= MaxQpn /\ ~(u >= p)
  BY Constants DEF AllocateQpn

LEMMA AddQueuePairInv == ASSUME IInv, NEW f \in Flow, AddQueuePair(f) PROVE IInv'
<1>1. /\ tx \in [Flow -> QueuePair]
      /\ \A g \in Flow : tx[g] \in QueuePair /\ GoodEvents(tx[g]) /\ Queued(tx[g], nextTx, nextRx)
      /\ S2R \in Seq(ToReceiver) /\ R2S \in Seq(ToSender)
      /\ UNCHANGED <<m_rxQpn, nextRx, R2S>>
      /\ nextTx \in Nat /\ nextTx >= 1 /\ nextTx' = nextTx + 1
      /\ tx[f].state = "new"
  <2>1. nextTx \in 1..(MaxQpn + 1)
    BY DEF IInv, Types
  <2>2. nextTx \in Nat /\ nextTx >= 1
    BY <2>1, Constants
  <2>3. /\ UNCHANGED <<m_rxQpn, nextRx, R2S>> /\ nextTx' = nextTx + 1 /\ tx[f].state = "new"
    BY DEF AddQueuePair
  <2> QED
    BY <2>2, <2>3 DEF IInv, Types, Qps
<1> DEFINE A == {g \in Flow : Registered(g)}
<1>2. AllocateQpn(nextTx, Cardinality(A), m_maxQps) = nextTx
      /\ nextTx <= MaxQpn /\ ~(Cardinality(A) >= m_maxQps)
  BY <1>1, Allocated DEF AddQueuePair
<1>x. PICK x : x = [type |-> "request", source |-> nextTx]
  OBVIOUS
<1>b. PICK b : b = [tx[f] EXCEPT !.state = "added", !.localQpn = nextTx]
  OBVIOUS
<1>c. PICK c : c = Connect(b)
  OBVIOUS
<1>p. PICK p : p = [c EXCEPT !.sample = 1]
  OBVIOUS
<1>3. tx' = [tx EXCEPT ![f] = p] /\ S2R' = Append(S2R, x)
  BY <1>1, <1>2, <1>x, <1>b, <1>c, <1>p DEF AddQueuePair
<1>4. /\ nextTx \in 1..MaxQpn /\ x \in ToReceiver /\ x.type = "request" /\ x.source = nextTx
  BY <1>1, <1>2, <1>x, Constants DEF ToReceiver
<1>5. /\ b \in QueuePair /\ b.state = "added" /\ b.localQpn = nextTx
      /\ \A y \in DOMAIN tx[f] \ {"state", "localQpn"} : b[y] = tx[f][y]
  <2>1. tx[f] \in QueuePair
    BY <1>1
  <2>2. PICK n \in 0..MaxQpn : n = nextTx
    BY <1>4, Constants
  <2>3. b = [tx[f] EXCEPT !.state = "added", !.localQpn = n]
    BY <2>2, <1>b
  <2>4. /\ b \in QueuePair /\ b.state = "added" /\ b.localQpn = n
        /\ \A y \in DOMAIN tx[f] \ {"state", "localQpn"} : b[y] = tx[f][y]
    BY <2>1, <2>3 DEF QueuePair
  <2> QED
    BY <2>2, <2>4
<1>6. Once(b) /\ b.connectAttempts <= MaxAttempts /\ b.sample = 0
  BY <1>1, <1>5, Fields, Constants DEF GoodEvents, Once
<1>7. /\ c \in QueuePair /\ Same(c, b) /\ Once(c) /\ Tries(c) /\ c.sample = 0
  BY <1>5, <1>6, <1>c, ConnectQp
<1>8. /\ p \in QueuePair /\ p.sample = 1 /\ \A y \in DOMAIN c \ {"sample"} : p[y] = c[y]
  BY <1>7, <1>p DEF QueuePair
<1>9. Once(p) /\ Tries(p) /\ Same(p, c)
  BY <1>7, <1>8, Fields DEF Once, Tries, Same
<1>10. GoodEvents(p) /\ p.state = "added" /\ p.localQpn = nextTx /\ ~p.connected
       /\ p.sent = 0 /\ p.acked = 0
  <2>1. /\ tx[f].sent = 0 /\ tx[f].acked = 0 /\ ~tx[f].connected
    BY <1>1 DEF Queued, QueuePair
  <2>2. b.sent = 0 /\ b.acked = 0 /\ b.connected = tx[f].connected
    BY <2>1, <1>1, <1>5, Fields
  <2> QED
    BY <2>1, <2>2, <1>5, <1>7, <1>9 DEF GoodEvents, Same
<1>11. tx' \in [Flow -> QueuePair] /\ \A g \in Flow : tx'[g] = IF g = f THEN p ELSE tx[g]
  BY <1>1, <1>3, <1>8, OneQp
<1>12. /\ tx'[f] = p /\ \A g \in Flow : g # f => tx'[g] = tx[g]
       /\ ~tx[f].connected
  BY <1>1, <1>11 DEF Queued
<1>13. \A g \in Flow : /\ Added(tx[g]) => Added(tx'[g]) /\ tx'[g].localQpn = tx[g].localQpn
                       /\ tx[g].connected => Live(tx[g]) /\ tx[g].localQpn < nextTx
  <2>1. \A g \in Flow : tx[g].connected => Live(tx[g])
    BY <1>1 DEF Queued, Live
  <2>2. \A g \in Flow : Live(tx[g]) => tx[g].localQpn < nextTx
    BY <1>1 DEF Queued
  <2> QED
    BY <1>1, <1>12, <2>1, <2>2 DEF Added
<1>14. Keeps(tx', tx)
  <2>1. \A g \in Flow : tx[g].sent \in Int
    BY <1>1 DEF QueuePair
  <2> QED
    BY <1>12, <2>1 DEF Keeps
<1>15. Types'
  <2>1. nextTx' \in 1..(MaxQpn + 1)
    BY <1>1, <1>2, Constants
  <2> QED
    BY <1>1, <1>3, <1>4, <1>11, <2>1, OnAppend DEF IInv, Types
<1>16. Pools'
  <2>1. A' = A \cup {f}
    BY <1>10, <1>12 DEF Registered
  <2>2. IsFiniteSet(A) /\ Cardinality(A) \in Nat
    BY LifecycleConfig, FS_Subset, FS_CardinalityType
  <2>3. Cardinality(A') \in Nat /\ Cardinality(A') <= Cardinality(A) + 1
    <3> HIDE DEF A
    <3>1. /\ IsFiniteSet(A \cup {f})
          /\ Cardinality(A \cup {f}) = IF f \in A THEN Cardinality(A) ELSE Cardinality(A) + 1
      BY <2>2, FS_AddElement
    <3> QED
      BY <2>1, <2>2, <3>1
  <2>4. Cardinality(A) + 1 <= m_maxQps
    BY <2>2, <1>2, Constants
  <2>5. Cardinality(A') <= m_maxQps
    BY <2>2, <2>3, <2>4, Constants
  <2> QED
    BY <2>5, <1>1 DEF IInv, Pools
<1>17. Qps(tx', nextTx', nextRx')
  <2> SUFFICES ASSUME NEW g \in Flow PROVE GoodEvents(tx'[g]) /\ Queued(tx'[g], nextTx + 1, nextRx)
    BY <1>1 DEF Qps
  <2>1. CASE g = f
    <3>1. nextTx \in 1..(nextTx + 1 - 1)
      BY <1>1
    <3> QED
      BY <2>1, <3>1, <1>10, <1>12, Constants DEF Queued, Live, Added
  <2>2. CASE g # f
    <3>1. \A n : n \in 1..(nextTx - 1) => n \in 1..(nextTx + 1 - 1)
      BY <1>1
    <3> QED
      BY <2>2, <3>1, <1>1, <1>12 DEF Queued
  <2> QED
    BY <2>1, <2>2
<1>18. Tables(tx', m_rxQpn', nextRx')
  <2>1. \A g \in Flow : Live(tx[g]) => tx[g].localQpn # nextTx
    <3>1. \A g \in Flow : Live(tx[g]) => tx[g].localQpn \in 1..(nextTx - 1)
      BY <1>1 DEF Queued
    <3> QED
      BY <3>1, <1>1
  <2>2. \A g, h \in Flow : Live(tx'[g]) /\ Live(tx'[h]) /\ tx'[g].localQpn = tx'[h].localQpn => g = h
    <3>1. \A g, h \in Flow : Live(tx[g]) /\ Live(tx[h]) /\ tx[g].localQpn = tx[h].localQpn => g = h
      BY DEF IInv, Tables
    <3> QED
      BY <2>1, <3>1, <1>10, <1>12
  <2>3. \A r \in m_rxQpn : r.localQpn < nextRx /\ \E g \in Flow : Added(tx'[g]) /\ tx'[g].localQpn = r.peerQpn
    BY <1>13 DEF IInv, Tables
  <2>4. \A g \in Flow : Added(tx'[g]) /\ tx'[g].connected => \E r \in m_rxQpn : Linked(r, tx'[g])
    BY <1>10, <1>12 DEF IInv, Tables
  <2>5. \A g \in Flow : tx'[g].state = "complete" => \A r \in m_rxQpn : r.localQpn # tx'[g].destQpn
    BY <1>10, <1>12 DEF IInv, Tables
  <2> QED
    BY <2>2, <2>3, <2>4, <2>5, <1>1 DEF IInv, Tables
<1>19. Requests(tx', S2R')
  <2>1. Requests(tx', S2R)
    BY <1>13, RequestsKept DEF IInv
  <2>2. Range(S2R') = Range(S2R) \cup {x}
    BY <1>1, <1>3, <1>4, OnAppend
  <2> QED
    BY <2>1, <2>2, <1>4, <1>10, <1>12 DEF Requests, Added
<1>20. Replies(tx', m_rxQpn', nextTx', R2S')
  <2> SUFFICES ASSUME NEW m \in Range(R2S), m.type \in {"accept", "reject"}
               PROVE  /\ m.source < nextTx + 1
                      /\ m.type = "accept" => \A g \in Flow : Added(tx'[g]) /\ tx'[g].localQpn = m.source =>
                           \E r \in m_rxQpn : r.localQpn = m.dest /\ r.peerQpn = m.source
    BY <1>1 DEF Replies
  <2>1. /\ m.source < nextTx
        /\ m.type = "accept" => \A g \in Flow : Added(tx[g]) /\ tx[g].localQpn = m.source =>
                                  \E r \in m_rxQpn : r.localQpn = m.dest /\ r.peerQpn = m.source
    BY DEF IInv, Replies
  <2>2. m.source \in Int
    <3>1. m \in ToSender
      BY <1>1, LenProperties, ElementOfSeq DEF Range
    <3> QED
      BY <3>1 DEF ToSender
  <2>3. m.source < nextTx + 1 /\ m.source # nextTx
    BY <1>1, <2>1, <2>2
  <2> QED
    BY <2>1, <2>3, <1>10, <1>12
<1>21. \A g \in Flow : tx'[g].connected => Silent(tx'[g], x)
  <2>1. \A g \in Flow : tx[g].connected => tx[g].localQpn # nextTx
    <3>1. \A g \in Flow : tx[g].localQpn \in Int
      BY <1>1 DEF QueuePair
    <3> QED
      BY <3>1, <1>1, <1>13
  <2> QED
    BY <2>1, <1>4, <1>10, <1>12 DEF Silent
<1>22. Data(tx', S2R')
  <2>1. Data(tx', S2R)
    BY <1>14, DataKept, SelfWithin, Messages DEF IInv, Types
  <2> QED
    BY <1>1, <1>3, <1>4, <2>1, <1>21, DataAppend
<1>23. Acks(tx', S2R', R2S')
  <2>1. Acks(tx', S2R, R2S)
    BY <1>14, AcksKept, Messages DEF IInv, Types
  <2> QED
    BY <1>1, <1>3, <1>4, <2>1, <1>21, AcksAppend
<1> QED
  BY <1>15, <1>16, <1>17, <1>18, <1>19, <1>20, <1>22, <1>23 DEF IInv

-----------------------------------------------------------------------------
(* The receiver's steps *)

LEMMA KeepsSelf == ASSUME IInv PROVE Keeps(tx, tx)
<1>1. \A f \in Flow : tx[f].sent \in Nat
  BY DEF IInv, Types, QueuePair
<1> QED
  BY <1>1 DEF Keeps

(* A reply x to a request. *)
LEMMA ReplySent ==
  ASSUME IInv, tx' = tx, nextTx' = nextTx, S2R' \in Seq(ToReceiver), Within(S2R', S2R),
         m_rxQpn \subseteq m_rxQpn',
         NEW x \in ToSender, x.type \in {"accept", "reject"}, R2S' = Append(R2S, x),
         x.source < nextTx,
         x.type = "accept" => \E r \in m_rxQpn' : r.localQpn = x.dest /\ r.peerQpn = x.source
  PROVE  /\ R2S' \in Seq(ToSender)
         /\ Requests(tx', S2R') /\ Replies(tx', m_rxQpn', nextTx', R2S')
         /\ Data(tx', S2R') /\ Acks(tx', S2R', R2S')
<1>1. R2S \in Seq(ToSender) /\ S2R \in Seq(ToReceiver) /\ Range(S2R') \subseteq Range(S2R)
  BY WithinRange DEF IInv, Types
<1>2. R2S' \in Seq(ToSender) /\ Range(R2S') = Range(R2S) \cup {x}
  BY <1>1, OnAppend
<1>3. Requests(tx', S2R')
  BY <1>1, RequestsKept DEF IInv
<1>4. Data(tx', S2R')
  BY <1>1, KeepsSelf, DataKept, Messages DEF IInv
<1>5. Acks(tx', S2R', R2S')
  <2>1. Acks(tx', S2R', R2S)
    BY <1>1, KeepsSelf, AcksKept, Messages DEF IInv
  <2>2. x.type # "ack"
    OBVIOUS
  <2> QED
    BY <1>2, <2>1, <2>2 DEF Acks
<1>6. Replies(tx', m_rxQpn', nextTx', R2S')
  <2>1. Replies(tx', m_rxQpn', nextTx', R2S)
    BY RepliesKept DEF IInv
  <2> QED
    BY <1>2, <2>1 DEF Replies
<1> QED
  BY <1>2, <1>3, <1>4, <1>5, <1>6

LEMMA RequestInv ==
  ASSUME IInv, NEW i \in Deliverable(S2R), S2R[i].type = "request",
         ReceiveRequest(S2R[i]), S2R' = RemoveAt(S2R, i)
  PROVE  IInv'
<1> DEFINE m == S2R[i]
           known == {r \in m_rxQpn : r.peerQpn = m.source}
           qpn == AllocateQpn(nextRx, Cardinality(m_rxQpn), m_maxQpsRx)
           Reply(t, dest) == [type |-> t, source |-> m.source, dest |-> dest]
<1>1. /\ tx \in [Flow -> QueuePair] /\ m_rxQpn \in SUBSET RxQpn
      /\ nextTx \in 1..(MaxQpn + 1) /\ nextRx \in 1..(MaxQpn + 1)
      /\ S2R \in Seq(ToReceiver) /\ R2S \in Seq(ToSender)
      /\ UNCHANGED <<tx, nextTx>>
  BY DEF IInv, Types, ReceiveRequest
<1>2. /\ i \in 1..Len(S2R) /\ m \in Range(S2R) /\ m \in ToReceiver
  BY <1>1, FirstDelivered
<1>3. /\ S2R' \in Seq(ToReceiver) /\ Within(S2R', S2R)
  BY <1>1, <1>2, OnRemove, RemoveWithin
<1>4. PICK f \in Flow : Added(tx[f]) /\ tx[f].localQpn = m.source
  BY <1>2 DEF IInv, Requests
<1>5. m.source \in 1..MaxQpn /\ m.source < nextTx
  <2>1. tx[f].localQpn \in 1..(nextTx - 1)
    BY <1>4 DEF IInv, Qps, Queued, Added, Live
  <2> QED
    BY <1>1, <1>4, <2>1, Constants
<1>6. \/ /\ \E r \in known : R2S' = Append(R2S, Reply("accept", r.localQpn))
         /\ UNCHANGED <<m_rxQpn, nextRx>>
      \/ /\ known = {} /\ qpn = 0
         /\ R2S' = Append(R2S, Reply("reject", 0))
         /\ UNCHANGED <<m_rxQpn, nextRx>>
      \/ /\ known = {} /\ qpn # 0
         /\ R2S' = Append(R2S, Reply("accept", qpn))
         /\ m_rxQpn' = m_rxQpn \cup {[localQpn |-> qpn, peerQpn |-> m.source]}
         /\ nextRx' = nextRx + 1
  BY DEF ReceiveRequest
<1> HIDE DEF m
<1>7. ASSUME NEW t \in {"accept", "reject"}, NEW d \in 0..MaxQpn
      PROVE  /\ Reply(t, d) \in ToSender
             /\ Reply(t, d).type = t /\ Reply(t, d).source = m.source /\ Reply(t, d).dest = d
  BY <1>5 DEF ToSender
<1>8. ASSUME UNCHANGED <<m_rxQpn, nextRx>>, NEW x \in ToSender, x.type \in {"accept", "reject"},
             R2S' = Append(R2S, x), x.source = m.source,
             x.type = "accept" => \E r \in m_rxQpn : r.localQpn = x.dest /\ r.peerQpn = x.source
      PROVE  IInv'
  <2>1. /\ R2S' \in Seq(ToSender)
        /\ Requests(tx', S2R') /\ Replies(tx', m_rxQpn', nextTx', R2S')
        /\ Data(tx', S2R') /\ Acks(tx', S2R', R2S')
    BY <1>1, <1>3, <1>5, <1>8, ReplySent
  <2>2. Types'
    BY <1>1, <1>3, <1>8, <2>1 DEF Types
  <2>3. Pools'
    BY <1>1, <1>8, PoolsKept, LifecycleConfig DEF IInv, Registered
  <2> QED
    BY <1>1, <1>8, <2>1, <2>2, <2>3 DEF IInv
<1>9. CASE \E r \in known : R2S' = Append(R2S, Reply("accept", r.localQpn)) /\ UNCHANGED <<m_rxQpn, nextRx>>
  <2>1. PICK r \in known : R2S' = Append(R2S, Reply("accept", r.localQpn))
    BY <1>9
  <2>2. r \in m_rxQpn /\ r.peerQpn = m.source /\ r.localQpn \in 1..MaxQpn
    BY <1>1 DEF RxQpn
  <2>3. r.localQpn \in 0..MaxQpn
    BY <2>2, Constants
  <2>4. PICK x : x = Reply("accept", r.localQpn)
    OBVIOUS
  <2>5. x \in ToSender /\ x.type = "accept" /\ x.source = m.source /\ x.dest = r.localQpn
    BY <1>7, <2>3, <2>4
  <2> QED
    BY <1>8, <1>9, <2>1, <2>2, <2>4, <2>5
<1>10. CASE R2S' = Append(R2S, Reply("reject", 0)) /\ UNCHANGED <<m_rxQpn, nextRx>>
  <2>1. PICK x : x = Reply("reject", 0)
    OBVIOUS
  <2>2. x \in ToSender /\ x.type = "reject" /\ x.source = m.source
    BY <1>7, <2>1, Constants
  <2> QED
    BY <1>8, <1>10, <2>1, <2>2
<1>11. CASE /\ known = {} /\ qpn # 0
            /\ R2S' = Append(R2S, Reply("accept", qpn))
            /\ m_rxQpn' = m_rxQpn \cup {[localQpn |-> qpn, peerQpn |-> m.source]}
            /\ nextRx' = nextRx + 1
  <2>1. qpn = nextRx /\ nextRx <= MaxQpn /\ ~(Cardinality(m_rxQpn) >= m_maxQpsRx)
    <3>1. nextRx \in Nat
      BY <1>1
    <3> QED
      BY <1>11, <3>1, Allocated
  <2>2. nextRx \in 1..MaxQpn /\ nextRx \in 0..MaxQpn /\ nextRx + 1 \in 1..(MaxQpn + 1)
    BY <1>1, <2>1, Constants
  <2>r. PICK r : r = [localQpn |-> nextRx, peerQpn |-> m.source]
    OBVIOUS
  <2>x. PICK x : x = Reply("accept", nextRx)
    OBVIOUS
  <2>3. /\ r \in RxQpn /\ r.localQpn = nextRx /\ r.peerQpn = m.source
        /\ m_rxQpn' = m_rxQpn \cup {r}
    BY <1>5, <1>11, <2>1, <2>2, <2>r DEF RxQpn
  <2>4. x \in ToSender /\ x.type = "accept" /\ x.source = m.source /\ x.dest = nextRx
    BY <1>7, <2>2, <2>x
  <2>5. R2S' = Append(R2S, x)
    BY <1>11, <2>1, <2>x
  <2>6. /\ R2S' \in Seq(ToSender)
        /\ Requests(tx', S2R') /\ Replies(tx', m_rxQpn', nextTx', R2S')
        /\ Data(tx', S2R') /\ Acks(tx', S2R', R2S')
    BY <1>1, <1>3, <1>5, <2>3, <2>4, <2>5, ReplySent
  <2>7. Types'
    BY <1>1, <1>3, <1>11, <2>2, <2>3, <2>6 DEF Types
  <2>8. Pools'
    <3>1. IsFiniteSet(m_rxQpn) /\ Cardinality(m_rxQpn) \in Nat
      BY FS_CardinalityType DEF IInv, Pools
    <3>2. /\ IsFiniteSet(m_rxQpn')
          /\ Cardinality(m_rxQpn') = IF r \in m_rxQpn THEN Cardinality(m_rxQpn) ELSE Cardinality(m_rxQpn) + 1
      BY <2>3, <3>1, FS_AddElement
    <3>3. Cardinality(m_rxQpn') <= m_maxQpsRx
      BY <2>1, <3>1, <3>2, Constants
    <3>4. {g \in Flow : Registered(g)}' = {g \in Flow : Registered(g)}
      BY <1>1 DEF Registered
    <3> QED
      BY <3>2, <3>3, <3>4 DEF IInv, Pools
  <2>9. Qps(tx', nextTx', nextRx')
    <3>1. \A n : n \in 1..(nextRx - 1) => n \in 1..(nextRx + 1 - 1)
      BY <1>1
    <3> QED
      BY <1>1, <1>11, <3>1 DEF IInv, Qps, Queued
  <2>10. Tables(tx', m_rxQpn', nextRx')
    <3>1. \A s \in m_rxQpn : s.localQpn < nextRx /\ s.localQpn \in Int /\ s.peerQpn # m.source
      BY <1>1, <1>11 DEF IInv, Tables, RxQpn
    <3>2. \A s \in m_rxQpn' : s.localQpn < nextRx + 1
                              /\ \E g \in Flow : Added(tx[g]) /\ tx[g].localQpn = s.peerQpn
      <4>1. \A s \in m_rxQpn : s.localQpn < nextRx + 1
        BY <1>1, <3>1
      <4>2. r.localQpn < nextRx + 1
        BY <1>1, <2>3
      <4>3. \A s \in m_rxQpn : \E g \in Flow : Added(tx[g]) /\ tx[g].localQpn = s.peerQpn
        BY DEF IInv, Tables
      <4> QED
        BY <4>1, <4>2, <4>3, <2>3, <1>4
    <3>3. \A s, u \in m_rxQpn' : s.localQpn = u.localQpn \/ s.peerQpn = u.peerQpn => s = u
      <4>1. \A s \in m_rxQpn : s.localQpn # nextRx /\ s.peerQpn # m.source
        BY <1>1, <3>1
      <4>2. \A s, u \in m_rxQpn : s.localQpn = u.localQpn \/ s.peerQpn = u.peerQpn => s = u
        BY DEF IInv, Tables
      <4> QED
        BY <4>1, <4>2, <2>3
    <3>4. \A g \in Flow : Added(tx[g]) /\ tx[g].connected => \E s \in m_rxQpn' : Linked(s, tx[g])
      BY <2>3 DEF IInv, Tables
    <3>5. \A g \in Flow : tx[g].state = "complete" => \A s \in m_rxQpn' : s.localQpn # tx[g].destQpn
      <4>1. \A g \in Flow : tx[g].state = "complete" => tx[g].destQpn \in 1..(nextRx - 1)
        BY DEF IInv, Qps, Queued
      <4>2. \A n : n \in 1..(nextRx - 1) => n # nextRx
        BY <1>1
      <4> QED
        BY <4>1, <4>2, <2>3 DEF IInv, Tables
    <3> QED
      BY <1>1, <1>11, <3>2, <3>3, <3>4, <3>5 DEF IInv, Tables
  <2> QED
    BY <2>6, <2>7, <2>8, <2>9, <2>10 DEF IInv
<1> QED
  BY <1>6, <1>9, <1>10, <1>11

LEMMA UdpInv ==
  ASSUME IInv, NEW i \in Deliverable(S2R), S2R[i].type = "data",
         ReceiveUdp(S2R[i]), S2R' = RemoveAt(S2R, i)
  PROVE  IInv'
<1> DEFINE m == S2R[i]
           Ack(r) == [type |-> "ack", dest |-> r.peerQpn, seq |-> m.seq, cnp |-> m.ce]
           T == {Ack(r) : r \in {r \in m_rxQpn : r.localQpn = m.dest}}
<1>1. /\ tx \in [Flow -> QueuePair] /\ m_rxQpn \in SUBSET RxQpn
      /\ S2R \in Seq(ToReceiver) /\ R2S \in Seq(ToSender)
      /\ UNCHANGED <<tx, m_rxQpn, nextTx, nextRx>>
      /\ R2S' = R2S \o SetToSeq(T)
  BY DEF IInv, Types, ReceiveUdp
<1>2. /\ i = 1 /\ i \in 1..Len(S2R) /\ m \in Range(S2R) /\ m \in ToReceiver
  BY <1>1, FirstDelivered DEF Control
<1>3. /\ S2R' \in Seq(ToReceiver) /\ Within(S2R', S2R) /\ Range(S2R') \subseteq Range(S2R)
  BY <1>1, <1>2, OnRemove, RemoveWithin
<1>4. PICK f \in Flow : DataOf(tx[f], m) /\ \A j \in DOMAIN S2R : j > 1 => Silent(tx[f], S2R[j])
  BY <1>1, <1>2, LenProperties DEF IInv, Data
<1>5. \A k \in Range(S2R') : Silent(tx[f], k)
  <2>1. /\ Len(S2R) \in Nat /\ DOMAIN S2R = 1..Len(S2R) /\ DOMAIN S2R' = 1..(Len(S2R) - 1)
        /\ \A j \in 1..(Len(S2R) - 1) : S2R'[j] = S2R[IF j < 1 THEN j ELSE j + 1]
    BY <1>1, <1>2, <1>3, AtRemoved, LenProperties
  <2>2. \A j \in 1..(Len(S2R) - 1) : S2R'[j] = S2R[j + 1] /\ j + 1 \in DOMAIN S2R /\ j + 1 > 1
    BY <2>1
  <2>3. \A j \in DOMAIN S2R' : Silent(tx[f], S2R'[j])
    BY <1>4, <2>1, <2>2
  <2> QED
    BY <2>3 DEF Range
<1>6. ASSUME NEW r \in m_rxQpn, r.localQpn = m.dest
      PROVE  Linked(r, tx[f])
  <2>1. tx[f].connected /\ tx[f].destQpn = m.dest
    BY <1>4 DEF DataOf
  <2>2. tx[f].state \in {"added", "complete"}
    BY <1>1, <2>1 DEF IInv, Qps, Queued, QueuePair
  <2>3. tx[f].state # "complete"
    BY <1>6, <2>1 DEF IInv, Tables
  <2>4. PICK s \in m_rxQpn : Linked(s, tx[f])
    BY <2>1, <2>2, <2>3 DEF IInv, Tables, Added
  <2>5. s = r
    BY <1>6, <2>1, <2>4 DEF IInv, Tables, Linked
  <2> QED
    BY <2>4, <2>5
<1>7. m.seq \in Nat /\ m.ce \in BOOLEAN
  BY <1>2 DEF ToReceiver
<1>8. \A a \in T : a \in ToSender /\ a.type = "ack" /\ AckOf(tx[f], a)
  <2> SUFFICES ASSUME NEW r \in m_rxQpn, r.localQpn = m.dest
               PROVE  Ack(r) \in ToSender /\ Ack(r).type = "ack" /\ AckOf(tx[f], Ack(r))
    OBVIOUS
  <2>1. r.peerQpn \in 1..MaxQpn
    BY <1>1 DEF RxQpn
  <2> HIDE DEF m
  <2>2. /\ Ack(r) \in ToSender /\ Ack(r).type = "ack"
        /\ Ack(r).dest = r.peerQpn /\ Ack(r).seq = m.seq
    BY <1>7, <2>1 DEF ToSender
  <2>3. r.peerQpn = tx[f].localQpn
    BY <1>6 DEF Linked
  <2> QED
    BY <1>4, <2>2, <2>3 DEF DataOf, AckOf
<1>9. IsFiniteSet(T)
  <2>1. \A a, b \in T : a = b
    <3>1. \A r, s \in m_rxQpn : r.localQpn = s.localQpn => r = s
      BY DEF IInv, Tables
    <3> QED
      BY <3>1
  <2>2. T = {} \/ \E a : T = {a}
    BY <2>1
  <2> HIDE DEF T
  <2> QED
    BY <2>2, FS_EmptySet, FS_Singleton
<1> HIDE DEF T, m
<1>10. /\ R2S' \in Seq(ToSender) /\ \A b \in Range(R2S') : b \in Range(R2S) \/ b \in T
  <2>1. SetToSeq(T) \in Seq(T) /\ SetToSeq(T) \in Seq(ToSender)
    <3>1. SetToSeq(T) \in Seq(T) /\ T \subseteq ToSender
      BY <1>8, <1>9, SetAsSeq
    <3> QED
      BY <3>1, SeqMonotonic
  <2> DEFINE q == SetToSeq(T)
  <2> HIDE DEF q
  <2>2. q \in Seq(T) /\ q \in Seq(ToSender) /\ R2S' = R2S \o q
    BY <1>1, <2>1 DEF q
  <2>3. /\ R2S' \in Seq(ToSender) /\ Len(R2S') = Len(R2S) + Len(q)
        /\ \A j \in 1..(Len(R2S) + Len(q)) :
             R2S'[j] = IF j <= Len(R2S) THEN R2S[j] ELSE q[j - Len(R2S)]
    BY <1>1, <2>2, ConcatProperties
  <2>4. /\ Len(R2S) \in Nat /\ Len(q) \in Nat /\ DOMAIN R2S = 1..Len(R2S)
        /\ DOMAIN R2S' = 1..(Len(R2S) + Len(q))
    BY <1>1, <2>2, <2>3, LenProperties
  <2>5. ASSUME NEW j \in 1..(Len(R2S) + Len(q))
        PROVE  R2S'[j] \in Range(R2S) \/ R2S'[j] \in T
    <3>1. CASE j <= Len(R2S)
      BY <2>3, <2>4, <2>5, <3>1 DEF Range
    <3>2. CASE ~(j <= Len(R2S))
      <4>1. j - Len(R2S) \in 1..Len(q)
        BY <2>4, <3>2
      <4>2. q[j - Len(R2S)] \in T
        BY <2>2, <4>1, ElementOfSeq
      <4> QED
        BY <2>3, <3>2, <4>2
    <3> QED
      BY <3>1, <3>2
  <2> QED
    BY <2>3, <2>4, <2>5 DEF Range
<1>11. Types'
  BY <1>1, <1>3, <1>10 DEF IInv, Types
<1>12. Pools'
  BY <1>1, PoolsKept, LifecycleConfig DEF IInv, Registered
<1>13. Requests(tx', S2R')
  BY <1>1, <1>3, RequestsKept DEF IInv
<1>14. Replies(tx', m_rxQpn', nextTx', R2S')
  BY <1>1, <1>8, <1>10 DEF IInv, Replies
<1>15. Data(tx', S2R')
  BY <1>1, <1>3, KeepsSelf, DataKept, Messages DEF IInv
<1>16. Acks(tx', S2R', R2S')
  <2>1. Acks(tx, S2R', R2S)
    BY <1>1, <1>3, KeepsSelf, AcksKept, Messages DEF IInv
  <2> QED
    BY <1>1, <1>5, <1>8, <1>10, <2>1 DEF Acks
<1> QED
  BY <1>1, <1>11, <1>12, <1>13, <1>14, <1>15, <1>16 DEF IInv

-----------------------------------------------------------------------------
(* What the sender receives *)

LEMMA ReplyInv ==
  ASSUME IInv, NEW i \in Deliverable(R2S), R2S[i].type # "ack",
         ReceiveReply(R2S[i]), R2S' = RemoveAt(R2S, i)
  PROVE  IInv'
<1> DEFINE m == R2S[i]
           For(f) == Added(tx[f]) /\ tx[f].localQpn = m.source /\ ~tx[f].connected
           R(f) == [tx[f] EXCEPT !.connectEvent = 0, !.rejected = TRUE]
           C(f) == [tx[f] EXCEPT !.connectEvent = 0, !.connected = TRUE, !.destQpn = m.dest]
<1>1. /\ tx \in [Flow -> QueuePair]
      /\ \A f \in Flow : tx[f] \in QueuePair /\ GoodEvents(tx[f]) /\ Queued(tx[f], nextTx, nextRx)
      /\ S2R \in Seq(ToReceiver) /\ R2S \in Seq(ToSender) /\ nextRx \in Int
      /\ m_rxQpn \in SUBSET RxQpn
      /\ UNCHANGED <<m_rxQpn, nextTx, nextRx, S2R>>
  <2>1. nextRx \in 1..(MaxQpn + 1)
    BY DEF IInv, Types
  <2>2. nextRx \in Int
    BY <2>1
  <2> QED
    BY <2>2 DEF IInv, Types, Qps, ReceiveReply
<1>2. /\ i \in 1..Len(R2S) /\ m \in Range(R2S) /\ m \in ToSender
  BY <1>1, FirstDelivered
<1>3. /\ R2S' \in Seq(ToSender) /\ Range(R2S') \subseteq Range(R2S)
  BY <1>1, <1>2, OnRemove
<1>4. m.type \in {"accept", "reject"} /\ m.dest \in 0..MaxQpn
  BY <1>2 DEF ToSender
<1>5. \A f \in Flow : tx'[f] = IF For(f) THEN IF m.type = "reject" THEN R(f) ELSE C(f) ELSE tx[f]
  BY DEF ReceiveReply, Registered, Added
<1>6. DOMAIN tx' = Flow /\ tx' = [f \in Flow |-> tx'[f]]
  BY DEF ReceiveReply
<1>7. m.type = "accept" => \A f \in Flow : For(f) => \E r \in m_rxQpn : r.localQpn = m.dest /\ r.peerQpn = m.source
  BY <1>2, <1>4 DEF IInv, Replies
<1>8. \A f \in Flow : For(f) =>
         /\ R(f) \in QueuePair /\ Same(R(f), tx[f]) /\ GoodEvents(R(f))
         /\ C(f) \in QueuePair /\ GoodEvents(C(f)) /\ C(f).state = "added" /\ C(f).localQpn = tx[f].localQpn
         /\ C(f).connected /\ C(f).destQpn = m.dest /\ C(f).sent = tx[f].sent /\ C(f).acked = tx[f].acked
  BY <1>1, <1>4, ConnectedQp DEF Added
<1> HIDE DEF m, R, C
<1>9. tx' \in [Flow -> QueuePair]
  <2>1. \A f \in Flow : tx'[f] \in QueuePair
    BY <1>1, <1>5, <1>8
  <2> QED
    BY <1>6, <2>1
<1>10. CASE m.type = "reject"
  <2>1. \A f \in Flow : Same(tx'[f], tx[f]) /\ GoodEvents(tx'[f])
    BY <1>1, <1>5, <1>8, <1>10 DEF Same
  <2> QED
    BY <1>1, <1>3, <1>9, <2>1, SelfWithin, Unmoved
<1>11. CASE m.type = "accept"
  <2>1. \A f \in Flow :
          /\ GoodEvents(tx'[f])
          /\ tx'[f].state = tx[f].state /\ tx'[f].localQpn = tx[f].localQpn
          /\ tx'[f].sent = tx[f].sent /\ tx'[f].acked = tx[f].acked
          /\ For(f) => tx'[f].connected /\ tx'[f].destQpn = m.dest
          /\ ~For(f) => tx'[f] = tx[f]
    BY <1>1, <1>5, <1>8, <1>11 DEF Added
  <2>2. \A f \in Flow : /\ Added(tx'[f]) <=> Added(tx[f])
                        /\ Live(tx'[f]) <=> Live(tx[f])
    BY <2>1 DEF Added, Live
  <2>3. Keeps(tx', tx)
    <3>1. \A f \in Flow : tx[f].sent \in Int
      BY <1>1 DEF QueuePair
    <3> QED
      BY <2>1, <3>1 DEF Keeps
  <2>4. Types'
    BY <1>1, <1>3, <1>9 DEF IInv, Types
  <2>5. Pools'
    BY <1>1, <2>2, PoolsKept, LifecycleConfig DEF IInv, Registered, Added
  <2>6. Qps(tx', nextTx', nextRx')
    <3>1. \A f \in Flow : For(f) => m.dest \in 1..(nextRx - 1)
      <4>1. \A r \in m_rxQpn : r.localQpn \in 1..MaxQpn /\ r.localQpn < nextRx
        BY <1>1 DEF IInv, Tables, RxQpn
      <4>2. \A r \in m_rxQpn : r.localQpn \in 1..(nextRx - 1)
        BY <1>1, <4>1, Constants
      <4> QED
        BY <1>7, <1>11, <4>2
    <3> SUFFICES ASSUME NEW f \in Flow PROVE Queued(tx'[f], nextTx, nextRx)
      BY <1>1, <2>1 DEF Qps
    <3>2. CASE For(f)
      <4>1. Queued(tx[f], nextTx, nextRx)
        BY <1>1
      <4> QED
        BY <2>1, <2>2, <3>1, <3>2, <4>1 DEF Queued, Added
    <3>3. CASE ~For(f)
      BY <1>1, <2>1, <3>3
    <3> QED
      BY <3>2, <3>3
  <2>7. Tables(tx', m_rxQpn', nextRx')
    <3>1. \A f, g \in Flow : Live(tx'[f]) /\ Live(tx'[g]) /\ tx'[f].localQpn = tx'[g].localQpn => f = g
      BY <2>1, <2>2 DEF IInv, Tables
    <3>2. \A r \in m_rxQpn : r.localQpn < nextRx /\ \E f \in Flow : Added(tx'[f]) /\ tx'[f].localQpn = r.peerQpn
      BY <2>1, <2>2 DEF IInv, Tables
    <3>3. \A f \in Flow : Added(tx'[f]) /\ tx'[f].connected => \E r \in m_rxQpn : Linked(r, tx'[f])
      <4> SUFFICES ASSUME NEW f \in Flow, Added(tx'[f]), tx'[f].connected
                   PROVE  \E r \in m_rxQpn : Linked(r, tx'[f])
        OBVIOUS
      <4>1. CASE For(f)
        BY <1>7, <1>11, <2>1, <4>1 DEF Linked
      <4>2. CASE ~For(f)
        BY <2>1, <4>2 DEF IInv, Tables
      <4> QED
        BY <4>1, <4>2
    <3>4. \A f \in Flow : tx'[f].state = "complete" => \A r \in m_rxQpn : r.localQpn # tx'[f].destQpn
      <4>1. \A f \in Flow : tx'[f].state = "complete" => tx'[f] = tx[f]
        BY <2>1 DEF Added
      <4> QED
        BY <4>1 DEF IInv, Tables
    <3> QED
      BY <1>1, <3>1, <3>2, <3>3, <3>4 DEF IInv, Tables
  <2>8. Requests(tx', S2R')
    BY <1>1, <2>1, <2>2, RequestsKept DEF IInv
  <2>9. Replies(tx', m_rxQpn', nextTx', R2S')
    BY <1>1, <1>3, <2>1, <2>2, RepliesKept DEF IInv
  <2>10. Data(tx', S2R')
    BY <1>1, <2>3, SelfWithin, DataKept, Messages DEF IInv
  <2>11. Acks(tx', S2R', R2S')
    BY <1>1, <1>3, <2>3, AcksKept, Messages DEF IInv
  <2> QED
    BY <2>4, <2>5, <2>6, <2>7, <2>8, <2>9, <2>10, <2>11 DEF IInv
<1> QED
  BY <1>4, <1>10, <1>11

LEMMA AckInv ==
  ASSUME IInv, NEW i \in Deliverable(R2S), R2S[i].type = "ack",
         ReceiveAck(R2S[i]), R2S' = RemoveAt(R2S, i)
  PROVE  IInv'
<1> DEFINE m == R2S[i]
           A(f) == Acknowledged(tx[f], m)
<1>1. /\ tx \in [Flow -> QueuePair]
      /\ \A f \in Flow : tx[f] \in QueuePair /\ GoodEvents(tx[f]) /\ Queued(tx[f], nextTx, nextRx)
      /\ S2R \in Seq(ToReceiver) /\ R2S \in Seq(ToSender)
      /\ UNCHANGED <<nextTx, nextRx, S2R>>
      /\ m_rxQpn' = m_rxQpn \ Finished(m)
  BY DEF IInv, Types, Qps, ReceiveAck
<1>2. /\ i \in 1..Len(R2S) /\ m \in Range(R2S) /\ m \in ToSender
  BY <1>1, FirstDelivered
<1>3. /\ R2S' \in Seq(ToSender) /\ Range(R2S') \subseteq Range(R2S)
  BY <1>1, <1>2, OnRemove
<1>4. m.type = "ack" /\ m.seq \in Nat /\ m.cnp \in BOOLEAN
  BY <1>2 DEF ToSender
<1>5. \A f \in Flow : tx'[f] = IF Added(tx[f]) /\ tx[f].localQpn = m.dest THEN A(f) ELSE tx[f]
  BY DEF ReceiveAck, Registered, Added
<1>6. DOMAIN tx' = Flow /\ tx' = [f \in Flow |-> tx'[f]]
  BY DEF ReceiveAck
<1>7. PICK f \in Flow : AckOf(tx[f], m) /\ \A k \in Range(S2R) : Silent(tx[f], k)
  BY <1>2, <1>4 DEF IInv, Acks
<1>8. /\ tx[f].connected /\ tx[f].localQpn = m.dest /\ m.seq <= tx[f].sent /\ Live(tx[f])
  BY <1>1, <1>7 DEF AckOf, Queued, Live
<1>9. \A g \in Flow : Added(tx[g]) /\ tx[g].localQpn = m.dest => g = f
  BY <1>8 DEF IInv, Tables, Added, Live
<1>10. CASE ~Added(tx[f])
  <2>1. \A g \in Flow : tx'[g] = tx[g]
    BY <1>5, <1>9, <1>10
  <2>2. tx' = tx
    BY <1>1, <1>6, <2>1
  <2>3. m_rxQpn' = m_rxQpn
    <3>1. Finished(m) = {}
      BY <1>9, <1>10 DEF Finished, Registered, Added
    <3> QED
      BY <1>1, <3>1
  <2> QED
    BY <1>1, <1>3, <2>2, <2>3, SelfWithin, Unmoved DEF Same
<1>11. CASE Added(tx[f])
  <2> DEFINE p == A(f)
             last == m.seq >= m_size
  <2>1. tx[f].acked < m_size /\ tx[f].acked \in Nat /\ tx[f].sent \in Nat
        /\ tx[f].acked <= tx[f].sent /\ tx[f].sent <= m_size
    BY <1>1, <1>11 DEF Queued, QueuePair
  <2>2. /\ p \in QueuePair /\ GoodEvents(p)
        /\ p.localQpn = tx[f].localQpn /\ p.destQpn = tx[f].destQpn
        /\ p.connected = tx[f].connected /\ p.sent = tx[f].sent
        /\ p.acked = (IF m.seq > tx[f].acked THEN m.seq ELSE tx[f].acked)
        /\ p.state = (IF last THEN "complete" ELSE "added")
    BY <1>1, <1>4, <1>11, <2>1, AcknowledgedQp DEF Added
  <2> HIDE DEF m, p
  <2>3. tx'[f] = p /\ \A g \in Flow : g # f => tx'[g] = tx[g]
    BY <1>5, <1>8, <1>9, <1>11 DEF p
  <2>4. tx' \in [Flow -> QueuePair]
    <3>1. \A g \in Flow : tx'[g] \in QueuePair
      BY <1>1, <2>2, <2>3
    <3> QED
      BY <1>6, <3>1
  <2>5. p.acked <= p.sent /\ p.sent <= m_size /\ (~last => p.acked < m_size)
    BY <1>4, <1>8, <2>1, <2>2, Constants
  <2>6. \A g \in Flow : Added(tx'[g]) => Added(tx[g]) /\ tx'[g].localQpn = tx[g].localQpn
    BY <1>11, <2>2, <2>3
  <2>7. Keeps(tx', tx)
    <3>1. \A g \in Flow : tx[g].sent \in Int
      BY <1>1 DEF QueuePair
    <3> QED
      BY <2>2, <2>3, <3>1 DEF Keeps
  <2>8. Types'
    BY <1>1, <1>3, <2>4 DEF IInv, Types
  <2>9. Pools'
    BY <1>1, <2>6, PoolsKept, LifecycleConfig DEF IInv, Registered, Added
  <2>10. Qps(tx', nextTx', nextRx')
    <3> SUFFICES ASSUME NEW g \in Flow PROVE GoodEvents(tx'[g]) /\ Queued(tx'[g], nextTx, nextRx)
      BY <1>1 DEF Qps
    <3>1. CASE g # f
      BY <1>1, <2>3, <3>1
    <3>2. CASE g = f
      <4>1. tx[f].localQpn \in 1..(nextTx - 1) /\ tx[f].destQpn \in 1..(nextRx - 1)
        BY <1>1, <1>8 DEF Queued
      <4> QED
        BY <1>8, <2>2, <2>3, <2>5, <3>2, <4>1 DEF Queued, Live, Added
    <3> QED
      BY <3>1, <3>2
  <2>11. Data(tx', S2R')
    BY <1>1, <2>7, SelfWithin, DataKept, Messages DEF IInv
  <2>12. Acks(tx', S2R', R2S')
    BY <1>1, <1>3, <2>7, AcksKept, Messages DEF IInv
  <2>13. PICK r0 \in m_rxQpn : Linked(r0, tx[f])
    BY <1>8, <1>11 DEF IInv, Tables
  <2>14. \A r \in m_rxQpn : r.peerQpn = tx[f].localQpn \/ r.localQpn = tx[f].destQpn => r = r0
    BY <2>13 DEF IInv, Tables, Linked
  <2>15. Finished(m) = IF last THEN {r0} ELSE {}
    <3>1. CASE ~last
      BY <3>1 DEF Finished
    <3>2. CASE last
      <4>1. \A r \in Finished(m) : r = r0
        <5> SUFFICES ASSUME NEW r \in Finished(m) PROVE r = r0
          OBVIOUS
        <5>1. PICK g \in Flow : /\ Added(tx[g]) /\ tx[g].localQpn = m.dest
                                /\ r.localQpn = tx[g].destQpn /\ r \in m_rxQpn
          BY DEF Finished, Registered, Added
        <5> QED
          BY <5>1, <1>9, <2>14
      <4>2. r0 \in Finished(m)
        BY <1>8, <1>11, <2>13, <3>2 DEF Finished, Registered, Added, Linked
      <4> QED
        BY <3>2, <4>1, <4>2
    <3> QED
      BY <3>1, <3>2
  <2>16. /\ last => m_rxQpn' = m_rxQpn \ {r0}
         /\ ~last => m_rxQpn' = m_rxQpn
    BY <1>1, <2>15
  <2>17. CASE ~last
    <3>1. \A g \in Flow : SameIds(tx'[g], tx[g])
      BY <1>11, <2>2, <2>3, <2>17 DEF SameIds, Added
    <3>2. Tables(tx', m_rxQpn', nextRx')
      BY <1>1, <2>16, <2>17, <3>1, TablesKept DEF IInv
    <3>3. Requests(tx', S2R')
      BY <1>1, <3>1, RequestsKept DEF IInv, SameIds, Added
    <3>4. Replies(tx', m_rxQpn', nextTx', R2S')
      BY <1>1, <1>3, <2>6, <2>16, <2>17, RepliesKept DEF IInv
    <3> QED
      BY <2>8, <2>9, <2>10, <2>11, <2>12, <3>2, <3>3, <3>4 DEF IInv
  <2>18. CASE last
    <3>1. /\ m_rxQpn' = m_rxQpn \ {r0} /\ tx'[f].state = "complete" /\ ~Added(tx'[f])
          /\ tx'[f].destQpn = tx[f].destQpn
      BY <2>2, <2>3, <2>16, <2>18 DEF Added
    <3>2. \A g \in Flow : g # f /\ Added(tx[g]) => tx[g].localQpn # tx[f].localQpn
      BY <1>8 DEF IInv, Tables, Added, Live
    <3>3. Tables(tx', m_rxQpn', nextRx')
      <4>1. \A g, h \in Flow : Live(tx'[g]) /\ Live(tx'[h]) /\ tx'[g].localQpn = tx'[h].localQpn => g = h
        <5>1. \A g \in Flow : tx'[g].localQpn = tx[g].localQpn /\ (Live(tx'[g]) => Live(tx[g]))
          BY <1>8, <2>2, <2>3
        <5> QED
          BY <5>1 DEF IInv, Tables
      <4>2. \A r \in m_rxQpn' : r.localQpn < nextRx /\ \E g \in Flow : Added(tx'[g]) /\ tx'[g].localQpn = r.peerQpn
        <5> SUFFICES ASSUME NEW r \in m_rxQpn, r # r0
                     PROVE  r.localQpn < nextRx /\ \E g \in Flow : Added(tx'[g]) /\ tx'[g].localQpn = r.peerQpn
          BY <3>1
        <5>1. r.localQpn < nextRx /\ \E g \in Flow : Added(tx[g]) /\ tx[g].localQpn = r.peerQpn
          BY DEF IInv, Tables
        <5>2. PICK g \in Flow : Added(tx[g]) /\ tx[g].localQpn = r.peerQpn
          BY <5>1
        <5>3. g # f
          BY <2>14, <5>2
        <5> QED
          BY <2>3, <5>1, <5>2, <5>3
      <4>3. \A r, s \in m_rxQpn' : r.localQpn = s.localQpn \/ r.peerQpn = s.peerQpn => r = s
        BY <3>1 DEF IInv, Tables
      <4>4. \A g \in Flow : Added(tx'[g]) /\ tx'[g].connected => \E r \in m_rxQpn' : Linked(r, tx'[g])
        <5> SUFFICES ASSUME NEW g \in Flow, Added(tx'[g]), tx'[g].connected
                     PROVE  \E r \in m_rxQpn' : Linked(r, tx'[g])
          OBVIOUS
        <5>1. g # f /\ tx'[g] = tx[g]
          BY <2>3, <3>1
        <5>2. PICK r \in m_rxQpn : Linked(r, tx[g])
          BY <5>1 DEF IInv, Tables
        <5>3. r # r0
          BY <2>13, <3>2, <5>1, <5>2 DEF Linked
        <5> QED
          BY <3>1, <5>1, <5>2, <5>3
      <4>5. \A g \in Flow : tx'[g].state = "complete" => \A r \in m_rxQpn' : r.localQpn # tx'[g].destQpn
        <5>1. \A r \in m_rxQpn' : r.localQpn # tx[f].destQpn
          BY <2>14, <3>1
        <5>2. \A g \in Flow : g # f /\ tx[g].state = "complete" => \A r \in m_rxQpn : r.localQpn # tx[g].destQpn
          BY DEF IInv, Tables
        <5> QED
          BY <2>3, <3>1, <5>1, <5>2
      <4> QED
        BY <1>1, <4>1, <4>2, <4>3, <4>4, <4>5 DEF Tables
    <3>4. Requests(tx', S2R')
      <4> SUFFICES ASSUME NEW k \in Range(S2R), k.type = "request"
                   PROVE  \E g \in Flow : Added(tx'[g]) /\ tx'[g].localQpn = k.source
        BY <1>1 DEF Requests
      <4>1. PICK g \in Flow : Added(tx[g]) /\ tx[g].localQpn = k.source
        BY DEF IInv, Requests
      <4>2. g # f
        BY <1>7, <4>1 DEF Silent
      <4> QED
        BY <2>3, <4>1, <4>2
    <3>5. Replies(tx', m_rxQpn', nextTx', R2S')
      <4> SUFFICES ASSUME NEW k \in Range(R2S), k.type \in {"accept", "reject"}
                   PROVE  /\ k.source < nextTx
                          /\ k.type = "accept" => \A g \in Flow : Added(tx'[g]) /\ tx'[g].localQpn = k.source =>
                               \E r \in m_rxQpn' : r.localQpn = k.dest /\ r.peerQpn = k.source
        BY <1>1, <1>3 DEF Replies
      <4>1. /\ k.source < nextTx
            /\ k.type = "accept" => \A g \in Flow : Added(tx[g]) /\ tx[g].localQpn = k.source =>
                 \E r \in m_rxQpn : r.localQpn = k.dest /\ r.peerQpn = k.source
        BY DEF IInv, Replies
      <4>2. ASSUME k.type = "accept", NEW g \in Flow, Added(tx'[g]), tx'[g].localQpn = k.source
            PROVE  \E r \in m_rxQpn' : r.localQpn = k.dest /\ r.peerQpn = k.source
        <5>1. g # f /\ tx'[g] = tx[g]
          BY <2>3, <3>1, <4>2
        <5>2. PICK r \in m_rxQpn : r.localQpn = k.dest /\ r.peerQpn = k.source
          BY <4>1, <4>2, <5>1
        <5>3. r # r0
          BY <2>13, <3>2, <4>2, <5>1, <5>2 DEF Linked
        <5> QED
          BY <3>1, <5>2, <5>3
      <4> QED
        BY <4>1, <4>2
    <3> QED
      BY <2>8, <2>9, <2>10, <2>11, <2>12, <3>3, <3>4, <3>5 DEF IInv
  <2> QED
    BY <2>17, <2>18
<1> QED
  BY <1>10, <1>11

-----------------------------------------------------------------------------
(* The invariant, and what follows from it *)

LEMMA StepInv == IInv /\ [Next]_vars => IInv'
<1> SUFFICES ASSUME IInv, [Next]_vars PROVE IInv'
  OBVIOUS
<1>1. ASSUME NEW f \in Flow,
             \/ AddQueuePair(f) \/ ConnectTimer(f) \/ Send(f)
             \/ ReceiveCnp(f) \/ CheckRateDecreaseMlx(f)
      PROVE  IInv'
  BY <1>1, AddQueuePairInv, ConnectTimerInv, SendInv, ReceiveCnpInv, DecreaseInv
<1>2. CASE AtReceiver
  <2>1. PICK i \in Deliverable(S2R) :
          /\ CASE S2R[i].type = "request" -> ReceiveRequest(S2R[i])
               [] S2R[i].type = "data" -> ReceiveUdp(S2R[i])
          /\ S2R' = RemoveAt(S2R, i)
    BY <1>2 DEF AtReceiver
  <2>2. S2R[i] \in ToReceiver
    BY FirstDelivered DEF IInv, Types
  <2>3. S2R[i].type \in {"request", "data"}
    BY <2>2 DEF ToReceiver
  <2>4. CASE S2R[i].type = "request"
    BY <2>1, <2>4, RequestInv
  <2>5. CASE S2R[i].type = "data"
    BY <2>1, <2>5, UdpInv
  <2> QED
    BY <2>3, <2>4, <2>5
<1>3. CASE AtSender
  <2>1. PICK i \in Deliverable(R2S) :
          /\ IF R2S[i].type = "ack" THEN ReceiveAck(R2S[i]) ELSE ReceiveReply(R2S[i])
          /\ R2S' = RemoveAt(R2S, i)
    BY <1>3 DEF AtSender
  <2> QED
    BY <2>1, AckInv, ReplyInv
<1>4. CASE Lose
  BY <1>4, LoseInv
<1>5. CASE UNCHANGED vars
  BY <1>5 DEF vars, IInv, Types, Pools, Registered, Qps, Queued, Tables, Requests, Replies, Data, Acks
<1> QED
  BY <1>1, <1>2, <1>3, <1>4, <1>5 DEF Next

LEMMA AlwaysIInv == Spec => []IInv
  BY InitInv, StepInv, PTL DEF Spec

(* QPNs, attempts, sequence numbers and the pools of both RNICs keep       *)
(* within their bounds.                                                    *)
THEOREM TypeCorrect == Spec => []TypeOK
<1>1. IInv => TypeOK
  <2> SUFFICES ASSUME IInv PROVE TypeOK
    OBVIOUS
  <2>1. ASSUME NEW f \in Flow
        PROVE  /\ tx[f].state \in {"new", "added", "complete"}
               /\ tx[f].localQpn \in 0..MaxQpn /\ tx[f].destQpn \in 0..MaxQpn
               /\ tx[f].connectAttempts \in 0..(MaxAttempts + 1) /\ tx[f].connectEvent \in 0..1
               /\ tx[f].acked \in 0..tx[f].sent /\ tx[f].sent \in 0..m_size
    <3>1. tx[f] \in QueuePair
      BY DEF IInv, Types
    <3>2. /\ tx[f].connectAttempts <= MaxAttempts + 1 /\ tx[f].connectEvent <= 1
          /\ tx[f].acked <= tx[f].sent /\ tx[f].sent <= m_size
      BY DEF IInv, Qps, GoodEvents, Once, Tries, Queued
    <3> QED
      BY <3>1, <3>2, Constants DEF QueuePair
  <2> QED
    BY <2>1 DEF IInv, Types, Pools, TypeOK, RxQpn
<1> QED
  BY <1>1, AlwaysIInv, PTL

(* The tables of the two ends agree, whatever connection messages were     *)
(* repeated, answered late or lost.                                        *)
THEOREM AlwaysPaired == Spec => []StatePaired
<1>1. IInv => StatePaired
  <2> SUFFICES ASSUME IInv PROVE StatePaired
    OBVIOUS
  <2>1. ASSUME NEW f \in Flow, Registered(f), tx[f].connected
        PROVE  [localQpn |-> tx[f].destQpn, peerQpn |-> tx[f].localQpn] \in m_rxQpn
    <3>1. PICK r \in m_rxQpn : Linked(r, tx[f])
      BY <2>1 DEF IInv, Tables, Registered, Added
    <3>2. r \in RxQpn
      BY DEF IInv, Types
    <3>3. r = [localQpn |-> tx[f].destQpn, peerQpn |-> tx[f].localQpn]
      BY <3>1, <3>2 DEF RxQpn, Linked
    <3> QED
      BY <3>3
  <2>2. \A r \in m_rxQpn :
          /\ \E f \in Flow : Registered(f) /\ tx[f].localQpn = r.peerQpn
          /\ \A s \in m_rxQpn : s.peerQpn = r.peerQpn \/ s.localQpn = r.localQpn => s = r
    BY DEF IInv, Tables, Registered, Added
  <2> QED
    BY <2>1, <2>2 DEF StatePaired
<1> QED
  BY <1>1, AlwaysIInv, PTL

(* No timer of a queue pair runs twice, nor after its completion but for   *)
(* those its last acknowledgement starts.                                  *)
THEOREM TimersAlwaysOnce == Spec => []TimersRunOnce
<1>1. IInv => TimersRunOnce
  <2> SUFFICES ASSUME IInv, NEW f \in Flow, NEW e \in Timer
               PROVE  /\ Pending(f, e) <= 1
                      /\ tx[f].state = "complete" /\ ~tx[f].firstCnpLast => Pending(f, e) = 0
    BY DEF TimersRunOnce
  <2>1. GoodEvents(tx[f])
    BY DEF IInv, Qps
  <2> QED
    BY <2>1 DEF Timer, Pending, GoodEvents, Once, Stopped
<1> QED
  BY <1>1, AlwaysIInv, PTL
=============================================================================
