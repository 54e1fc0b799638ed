------------------------ MODULE HostSchedulerProofs ------------------------
(***************************************************************************)
(* Safety proofs for HostScheduler, for every number of queue pairs and    *)
(* every setting of their sizes, windows, priorities and stop times.       *)
(***************************************************************************)
EXTENDS HostScheduler, FiniteSetTheorems, FunctionTheorems, SequenceTheorems,
        WellFoundedInduction, TLAPS

-----------------------------------------------------------------------------
(* Naturals *)

(* A set of naturals that is not empty has a least element. *)
LEMMA LeastNatural ==
  ASSUME NEW S \in SUBSET Nat, S # {}
  PROVE  /\ Min(S) \in S
         /\ \A x \in S : Min(S) <= x
<1> DEFINE R == OpToRel(<, Nat)
<1>1. IsWellFoundedOn(R, Nat)
  BY NatLessThanWellFounded
<1>2. \E x \in S : \A y \in S : ~(<<y, x>> \in R)
  <2> HIDE DEF R
  <2> QED BY <1>1, WFMin
<1>3. \A x, y \in Nat : <<y, x>> \in R <=> y < x
  BY DEF OpToRel
<1>4. PICK x \in S : \A y \in S : ~(<<y, x>> \in R)
  BY <1>2
<1>5. ASSUME NEW y \in S PROVE x <= y
  <2>1. ~(y < x)
    BY <1>3, <1>4
  <2> QED
    BY <2>1
<1> QED
  BY <1>5 DEF Min

LEMMA ModOfSum ==
  ASSUME NEW n \in Nat \ {0}, NEW x \in 0..(n-1), NEW d \in Int
  PROVE  (x + n * d) % n = x
  OBVIOUS

LEMMA ModRange ==
  ASSUME NEW n \in Nat \ {0}, NEW x \in Int
  PROVE  x % n \in 0..(n-1) /\ x \div n \in Int
  OBVIOUS

LEMMA DivMod ==
  ASSUME NEW n \in Nat \ {0}, NEW x \in Int
  PROVE  x = n * (x \div n) + (x % n)
  BY ModRange

(* Whatever r, a round of n steps that starts after it meets every place. *)
LEMMA EveryPlace ==
  ASSUME NEW n \in Nat \ {0}, NEW r \in Nat, NEW p \in 1..n
  PROVE  \E k \in 1..n : ((k + r) % n) + 1 = p
<1> DEFINE k == ((p - r - 2) % n) + 1
           d == (p - r - 2) \div n
<1>1. (p - r - 2) % n \in 0..(n-1) /\ d \in Int /\ p - r - 2 = n * d + ((p - r - 2) % n)
  BY ModRange, DivMod
<1>2. k \in 1..n
  BY <1>1
<1>3. PICK m \in Int : m = n * (0 - d)
  BY <1>1
<1>4. m = 0 - n * d
  BY <1>1, <1>3
<1>5. k + r = (p - 1) + m
  BY <1>1, <1>4
<1>6. ((p - 1) + n * (0 - d)) % n = p - 1
  <2>1. p - 1 \in 0..(n-1) /\ 0 - d \in Int
    BY <1>1
  <2> HIDE DEF d, k
  <2> QED
    BY <2>1, ModOfSum
<1>7. (k + r) % n = p - 1
  BY <1>3, <1>5, <1>6
<1> HIDE DEF k
<1>8. ((k + r) % n) + 1 = p
  BY <1>7
<1> QED
  BY <1>2, <1>8

(* A place in a ring of n, k after r *)
LEMMA PlaceAfter ==
  ASSUME NEW n \in Nat \ {0}, NEW r \in 0..(n-1), NEW k \in 1..n
  PROVE  (k + r) % n = IF k + r < n THEN k + r ELSE k + r - n
  OBVIOUS

-----------------------------------------------------------------------------
(* The compaction: places of the positions that are kept *)

LEMMA PlaceOf ==
  ASSUME NEW L \in Nat, NEW kept \in SUBSET (1..L)
  PROVE  /\ Cardinality(kept) \in Nat
         /\ \A i \in kept : Place(i, kept) \in 1..Cardinality(kept)
         /\ \A i, j \in kept : i < j => Place(i, kept) < Place(j, kept)
         /\ \A p \in 1..Cardinality(kept) : \E i \in kept : Place(i, kept) = p
<1> DEFINE Upto(i) == {k \in kept : k <= i}
           N == Cardinality(kept)
<1>1. IsFiniteSet(kept) /\ N \in Nat /\ \A i \in kept : i \in Nat
  <2>1. IsFiniteSet(1..L)
    BY FS_Interval
  <2>2. IsFiniteSet(kept)
    BY <2>1, FS_Subset
  <2>3. \A i \in kept : i \in Nat
    OBVIOUS
  <2> QED
    BY <2>2, <2>3, FS_CardinalityType
<1>2. ASSUME NEW i
      PROVE  IsFiniteSet(Upto(i)) /\ Cardinality(Upto(i)) \in Nat /\ Cardinality(Upto(i)) <= N
  <2>1. Upto(i) \in SUBSET kept
    OBVIOUS
  <2> HIDE DEF Upto
  <2> QED
    BY <1>1, <2>1, FS_Subset, FS_CardinalityType
<1>3. ASSUME NEW i \in kept, NEW j \in kept, i < j
      PROVE  Place(i, kept) < Place(j, kept)
  <2>1. Upto(i) \in SUBSET Upto(j) /\ j \in Upto(j) /\ j \notin Upto(i)
    <3>1. \A k \in kept : k \in Nat /\ (k <= i => k <= j)
      BY <1>1, <1>3
    <3>2. j <= j /\ ~(j <= i)
      BY <1>1, <1>3
    <3> QED
      BY <3>1, <3>2
  <2>2. Cardinality(Upto(i)) <= Cardinality(Upto(j)) /\ Cardinality(Upto(i)) # Cardinality(Upto(j))
    <3>1. Upto(i) # Upto(j)
      BY <2>1
    <3> HIDE DEF Upto
    <3> QED
      BY <1>2, <2>1, <3>1, FS_Subset
  <2> QED
    BY <1>2, <2>2 DEF Place
<1>4. ASSUME NEW i \in kept PROVE Place(i, kept) \in 1..N
  <2>1. i \in Upto(i)
    BY <1>1
  <2>2. Cardinality(Upto(i)) # 0
    <3> HIDE DEF Upto
    <3> QED
      BY <1>2, <2>1, FS_EmptySet
  <2> QED
    BY <1>1, <1>2, <2>2 DEF Place
<1> DEFINE place == [i \in kept |-> Place(i, kept)]
<1>5. place \in Injection(kept, 1..N)
  <2>1. place \in [kept -> 1..N]
    BY <1>4
  <2>2. ASSUME NEW i \in kept, NEW j \in kept, place[i] = place[j] PROVE i = j
    BY <1>1, <1>3, <1>4, <2>2
  <2> QED
    BY <2>1, <2>2 DEF Injection, IsInjective
<1>6. IsFiniteSet(1..N) /\ Cardinality(1..N) = N
  BY <1>1, FS_Interval
<1>7. place \in Surjection(kept, 1..N)
  <2> HIDE DEF place
  <2> QED
    BY <1>1, <1>5, <1>6, FS_Injection
<1>8. \A p \in 1..N : \E i \in kept : Place(i, kept) = p
  BY <1>7 DEF Surjection
<1> QED
  BY <1>1, <1>3, <1>4, <1>8

(* g keeps the order that its elements have in h. *)
Follows(g, h) ==
  \A i, j \in DOMAIN g : \A k, l \in DOMAIN h :
    g[i] = h[k] /\ g[j] = h[l] => (i < j <=> k < l)

Distinct(g) == \A i, j \in DOMAIN g : g[i] = g[j] => i = j

LEMMA CompactOK ==
  ASSUME NEW S, NEW g \in Seq(S), Distinct(g), NEW kept \in SUBSET DOMAIN g
  PROVE  /\ Compact(g, kept) \in Seq(S)
         /\ Distinct(Compact(g, kept)) /\ Follows(Compact(g, kept), g)
         /\ Elements(Compact(g, kept)) = {g[i] : i \in kept}
         /\ \A i \in kept : /\ Place(i, kept) \in DOMAIN Compact(g, kept)
                            /\ Compact(g, kept)[Place(i, kept)] = g[i]
<1> DEFINE N == Cardinality(kept)
           c == Compact(g, kept)
<1>1. Len(g) \in Nat /\ DOMAIN g = 1..Len(g) /\ \A i \in DOMAIN g : g[i] \in S
  BY LenProperties, ElementOfSeq
<1>2. /\ N \in Nat
      /\ \A i \in kept : Place(i, kept) \in 1..N
      /\ \A i, j \in kept : i < j => Place(i, kept) < Place(j, kept)
      /\ \A p \in 1..N : \E i \in kept : Place(i, kept) = p
  BY <1>1, PlaceOf
<1>3. DOMAIN c = 1..N
  BY DEF Compact
<1>4. \A i, j \in kept : Place(i, kept) = Place(j, kept) => i = j
  BY <1>1, <1>2
<1>5. ASSUME NEW i \in kept
      PROVE  Place(i, kept) \in DOMAIN c /\ c[Place(i, kept)] = g[i]
  <2>1. Place(i, kept) \in 1..N
    BY <1>2
  <2>2. i = CHOOSE k \in kept : Place(k, kept) = Place(i, kept)
    BY <1>4
  <2>3. c[Place(i, kept)] = g[CHOOSE k \in kept : Place(k, kept) = Place(i, kept)]
    BY <2>1 DEF Compact
  <2> QED
    BY <1>3, <2>1, <2>2, <2>3
<1>6. \A p \in DOMAIN c : \E i \in kept : Place(i, kept) = p /\ c[p] = g[i]
  BY <1>2, <1>3, <1>5
<1> HIDE DEF c
<1>7. c \in Seq(S)
  BY <1>1, <1>2, <1>3, <1>6, IsASeq, Z3 DEF c, Compact
<1>8. Elements(c) = {g[i] : i \in kept}
  BY <1>5, <1>6 DEF Elements
<1>9. \A i, j \in kept : i < j <=> Place(i, kept) < Place(j, kept)
  BY <1>1, <1>2, <1>4
<1>10. Follows(c, g)
  <2> SUFFICES ASSUME NEW i \in DOMAIN c, NEW j \in DOMAIN c, NEW k \in DOMAIN g, NEW l \in DOMAIN g,
                      c[i] = g[k], c[j] = g[l]
               PROVE  i < j <=> k < l
    BY DEF Follows
  <2>1. k \in kept /\ Place(k, kept) = i
    BY <1>6 DEF Distinct
  <2>2. l \in kept /\ Place(l, kept) = j
    BY <1>6 DEF Distinct
  <2> QED
    BY <1>9, <2>1, <2>2
<1>11. Distinct(c)
  <2> SUFFICES ASSUME NEW i \in DOMAIN c, NEW j \in DOMAIN c, c[i] = c[j] PROVE i = j
    BY DEF Distinct
  <2>1. PICK k \in kept : Place(k, kept) = i /\ c[i] = g[k]
    BY <1>6
  <2>2. PICK l \in kept : Place(l, kept) = j /\ c[j] = g[l]
    BY <1>6
  <2> QED
    BY <2>1, <2>2 DEF Distinct
<1> QED
  BY <1>5, <1>7, <1>8, <1>10, <1>11 DEF c

-----------------------------------------------------------------------------
(* The scan *)

LEMMA GroupIs ==
  ASSUME NEW n \in NicType
  PROVE  /\ n.group \in Seq(Qp) /\ Len(n.group) \in Nat /\ DOMAIN n.group = 1..Len(n.group)
         /\ \A i \in DOMAIN n.group : n.group[i] \in Qp
         /\ n.rrlast \in Nat
<1>1. n.group \in Seq(Qp) /\ n.rrlast \in Nat
  BY DEF NicType
<1> QED
  BY <1>1, LenProperties, ElementOfSeq

(* Position i comes before j in a round that starts after position s. *)
Before(s, i, j) == IF i > s THEN j <= s \/ i < j ELSE j <= s /\ i < j

LEMMA ScanTurns ==
  ASSUME NEW n \in NicType
  PROVE  /\ \A k \in DOMAIN n.group : ScanOrder(n)[k] \in DOMAIN n.group
         /\ \A p \in DOMAIN n.group : \E k \in DOMAIN n.group : ScanOrder(n)[k] = p
         /\ n.rrlast < Len(n.group) =>
              \A k, l \in DOMAIN n.group :
                k < l => Before(n.rrlast + 1, ScanOrder(n)[k], ScanOrder(n)[l])
<1> DEFINE L == Len(n.group)
           r == n.rrlast
<1>1. L \in Nat /\ DOMAIN n.group = 1..L /\ r \in Nat
  BY GroupIs
<1>2. \A k \in 1..L : ScanOrder(n)[k] = ((k + r) % L) + 1
  BY <1>1 DEF ScanOrder
<1> HIDE DEF L, r
<1>3. ASSUME NEW k \in 1..L PROVE ScanOrder(n)[k] \in 1..L
  <2>1. L \in Nat \ {0} /\ k + r \in Int
    BY <1>1, <1>3
  <2>2. (k + r) % L \in 0..(L - 1)
    BY <2>1, ModRange
  <2> QED
    BY <1>2, <2>1, <2>2
<1>4. ASSUME NEW p \in 1..L PROVE \E k \in 1..L : ScanOrder(n)[k] = p
  <2>1. L \in Nat \ {0}
    BY <1>1, <1>4
  <2>2. PICK k \in 1..L : ((k + r) % L) + 1 = p
    BY <1>1, <2>1, EveryPlace
  <2> QED
    BY <1>2, <2>2
<1>5. ASSUME r < L, NEW k \in 1..L, NEW l \in 1..L, k < l
      PROVE  Before(r + 1, ScanOrder(n)[k], ScanOrder(n)[l])
  <2>1. L \in Nat \ {0} /\ r \in 0..(L - 1)
    BY <1>1, <1>5
  <2>2. /\ (k + r) % L = IF k + r < L THEN k + r ELSE k + r - L
        /\ (l + r) % L = IF l + r < L THEN l + r ELSE l + r - L
    BY <2>1, PlaceAfter
  <2>3. /\ ScanOrder(n)[k] = (IF k + r < L THEN k + r ELSE k + r - L) + 1
        /\ ScanOrder(n)[l] = (IF l + r < L THEN l + r ELSE l + r - L) + 1
    BY <1>2, <2>2
  <2> QED
    BY <1>1, <1>5, <2>3 DEF Before
<1> QED
  BY <1>1, <1>3, <1>4, <1>5 DEF L, r

(* The queue pair chosen is the first that waits, from the one after the   *)
(* one served last.                                                        *)
First(n, f, c) ==
  n.rrlast < Len(n.group) =>
    \A i, j \in DOMAIN n.group :
      n.group[j] = c /\ Waiting(n, f, n.group[i]) => i = j \/ Before(n.rrlast + 1, j, i)

(* The positions the compaction of a scan keeps. *)
KeptBy(n, f) ==
  LET ready == Ready(n, f)
      finished == Finished(n, f, IF ready = {} THEN Len(n.group) ELSE Min(ready)) IN
  IF finished = {} THEN DOMAIN n.group ELSE Kept(n.group, f, Min(finished))

ResOf(n, f) == IF Ready(n, f) = {} THEN 0 ELSE ScanOrder(n)[Min(Ready(n, f))]

LEMMA ScanIs ==
  ASSUME NEW n, NEW f
  PROVE  /\ Scan(n, f).chosen = IF ResOf(n, f) = 0 THEN None ELSE n.group[ResOf(n, f)]
         /\ Scan(n, f).res = UpdateRes(ResOf(n, f), KeptBy(n, f))
         /\ Scan(n, f).group = Compact(n.group, KeptBy(n, f))
  BY DEF Scan, ResOf, KeptBy

(* Queue pairs that are not finished are kept. *)
LEMMA KeptByOK ==
  ASSUME NEW n \in NicType, NEW f
  PROVE  /\ KeptBy(n, f) \subseteq DOMAIN n.group
         /\ \A i \in DOMAIN n.group : ~IsFinished(f, n.group[i]) => i \in KeptBy(n, f)
<1> DEFINE ready == Ready(n, f)
           last == IF ready = {} THEN Len(n.group) ELSE Min(ready)
           finished == Finished(n, f, last)
<1>1. CASE finished = {}
  BY <1>1 DEF KeptBy
<1>2. CASE finished # {}
  <2>1. Len(n.group) \in Nat /\ DOMAIN n.group = 1..Len(n.group)
    BY GroupIs
  <2>2. ready \subseteq Nat
    BY <2>1 DEF Ready
  <2>3. last \in 0..Len(n.group)
    <3>1. CASE ready = {}
      BY <2>1, <3>1
    <3>2. CASE ready # {}
      <4>1. Min(ready) \in ready
        BY <2>2, <3>2, LeastNatural
      <4> QED
        BY <2>1, <3>2, <4>1 DEF Ready
    <3> QED
      BY <3>1, <3>2
  <2>4. finished \subseteq DOMAIN n.group
    <3> SUFFICES ASSUME NEW k \in 1..last PROVE ScanOrder(n)[k] \in DOMAIN n.group
      BY DEF Finished
    <3>1. k \in DOMAIN n.group
      BY <2>1, <2>3
    <3> QED
      BY <3>1, ScanTurns
  <2>5. Min(finished) \in finished
    BY <1>2, <2>1, <2>4, LeastNatural
  <2>6. Min(finished) \in DOMAIN n.group /\ IsFinished(f, n.group[Min(finished)])
    BY <2>4, <2>5 DEF Finished
  <2>7. KeptBy(n, f) = Kept(n.group, f, Min(finished))
    BY <1>2 DEF KeptBy
  <2> HIDE DEF finished
  <2>8. ASSUME NEW i \in DOMAIN n.group, ~IsFinished(f, n.group[i])
        PROVE  i < Min(finished) \/ i > Min(finished)
    BY <2>1, <2>6, <2>8
  <2> QED
    BY <2>7, <2>8 DEF Kept
<1> QED
  BY <1>1, <1>2

LEMMA ReadyOK ==
  ASSUME NEW n \in NicType, NEW f
  PROVE  /\ Ready(n, f) = {} => \A q : ~Waiting(n, f, q)
         /\ Ready(n, f) # {} =>
              LET res == ResOf(n, f) IN
              /\ res \in DOMAIN n.group /\ Waiting(n, f, n.group[res])
              /\ Distinct(n.group) => First(n, f, n.group[res])
<1> DEFINE ready == Ready(n, f)
<1>1. Len(n.group) \in Nat /\ DOMAIN n.group = 1..Len(n.group)
  BY GroupIs
<1>2. ASSUME ready = {}, NEW q PROVE ~Waiting(n, f, q)
  <2> SUFFICES ASSUME Waiting(n, f, q) PROVE FALSE
    OBVIOUS
  <2>1. PICK p \in DOMAIN n.group : n.group[p] = q
    BY DEF Waiting, Elements
  <2>2. PICK k \in DOMAIN n.group : ScanOrder(n)[k] = p
    BY ScanTurns
  <2>3. k \in ready
    BY <2>1, <2>2 DEF Ready
  <2> QED
    BY <1>2, <2>3
<1>3. ASSUME ready # {}
      PROVE  LET res == ResOf(n, f) IN
             /\ res \in DOMAIN n.group /\ Waiting(n, f, n.group[res])
             /\ Distinct(n.group) => First(n, f, n.group[res])
  <2>1. ready \subseteq Nat
    BY <1>1 DEF Ready
  <2>2. Min(ready) \in ready /\ \A k \in ready : Min(ready) <= k
    BY <1>3, <2>1, LeastNatural
  <2>3. PICK m : m = Min(ready)
    OBVIOUS
  <2>4. m \in DOMAIN n.group /\ m \in ready /\ \A k \in ready : m <= k
    BY <2>2, <2>3 DEF Ready
  <2>5. ResOf(n, f) = ScanOrder(n)[m]
    BY <1>3, <2>3 DEF ResOf
  <2>6. ScanOrder(n)[m] \in DOMAIN n.group /\ Waiting(n, f, n.group[ScanOrder(n)[m]])
    BY <2>4, ScanTurns DEF Ready
  <2>7. ASSUME Distinct(n.group) PROVE First(n, f, n.group[ScanOrder(n)[m]])
    <3> SUFFICES ASSUME n.rrlast < Len(n.group),
                        NEW i \in DOMAIN n.group, NEW j \in DOMAIN n.group,
                        n.group[j] = n.group[ScanOrder(n)[m]], Waiting(n, f, n.group[i]),
                        i # j
                 PROVE  Before(n.rrlast + 1, j, i)
      BY DEF First
    <3>1. j = ScanOrder(n)[m]
      BY <2>6, <2>7 DEF Distinct
    <3>2. PICK k \in DOMAIN n.group : ScanOrder(n)[k] = i
      BY ScanTurns
    <3>3. k \in ready
      BY <3>2 DEF Ready
    <3>4. m < k
      BY <1>1, <2>4, <3>1, <3>2, <3>3
    <3> QED
      BY <2>4, <3>1, <3>2, <3>4, ScanTurns
  <2> QED
    BY <2>5, <2>6, <2>7
<1> QED
  BY <1>2, <1>3

-----------------------------------------------------------------------------
(* The invariant, of a state n of the device and f of the queue pairs *)

Numbers(f) ==
  \A q \in Qp : f[q].snd_nxt <= f[q].sent /\ f[q].snd_una <= f[q].sent /\ f[q].sent <= m_size[q]

(* The group holds every queue pair that may have to send, and once.       *)
Members(n, f) ==
  /\ Distinct(n.group)
  /\ \A q \in Qp : f[q].state = "new" => q \notin Elements(n.group)
  /\ \A q \in Qp : f[q].state # "new" /\ ~IsFinished(f, q) => q \in Elements(n.group)

StateOK(n, f) == n \in NicType /\ f \in [Qp -> QpType] /\ Numbers(f) /\ Members(n, f)

Conserving(n, f) ==
  n.tx = Off =>
    /\ ~ControlFirst(n)
    /\ n.tcp > 0 => tcpip_q_idx \in n.paused
    /\ n.tcp = 0 => \A q \in Elements(n.group) : Sendable(n, f, q) =>
                       n.nextSend # Off /\ n.nextSend <= f[q].avail

(* c comes before d in the next scan. *)
Ahead(n, c, d) ==
  /\ n.rrlast < Len(n.group)
  /\ \E i \in DOMAIN n.group :
       /\ n.group[i] = c
       /\ \A j \in DOMAIN n.group : n.group[j] = d => Before(n.rrlast + 1, i, j)

(* Who was passed over is the next of the two. *)
NextIs(n, f, p) ==
  \/ /\ p[1] \in Qp /\ p[2] \in Qp /\ p[1] # p[2] /\ f[p[2]].state # "new"
     /\ Ahead(n, p[1], p[2])
  \/ p = <<Tcp, Rdma>> /\ n.turn = 1
  \/ p = <<Rdma, Tcp>> /\ n.turn = 0

InTurn(n, f) == astray = {} => twice = {} /\ \A p \in passed : NextIs(n, f, p)

Strayed(f) == \A q \in astray : q \in Qp /\ IsFinished(f, q)

IInv ==
  /\ StateOK(nic, qp)
  /\ Conserving(nic, qp)
  /\ InTurn(nic, qp)
  /\ Strayed(qp)
  /\ stopped \subseteq Stopping

LEMMA Constants ==
  /\ m_size \in [Qp -> Nat \ {0}] /\ m_win \in [Qp -> Nat] /\ Stopping \subseteq Qp
  /\ MaxGap \in Nat \ {0} /\ MaxControl \in Nat /\ MaxTcp \in Nat
  /\ None \notin Qp /\ Tcp \notin Qp /\ Rdma \notin Qp
  /\ None # Tcp /\ Tcp # Rdma /\ None # Rdma
  BY SchedulerConfig DEF None, Tcp, Rdma

(* What a scan chooses, and what it makes of the group.                    *)
Compacted(n, f, g) ==
  /\ g \in Seq(Qp) /\ Distinct(g) /\ Follows(g, n.group)
  /\ Elements(g) \subseteq Elements(n.group)
  /\ \A q \in Elements(n.group) : ~IsFinished(f, q) => q \in Elements(g)

LEMMA ScanOK ==
  ASSUME NEW n, NEW f, StateOK(n, f)
  PROVE  LET s == Scan(n, f) IN
         /\ Compacted(n, f, s.group)
         /\ s.chosen = None => \A q : ~Waiting(n, f, q)
         /\ s.chosen # None =>
              /\ s.chosen \in Qp /\ s.chosen \in Elements(n.group)
              /\ Waiting(n, f, s.chosen) /\ First(n, f, s.chosen)
              /\ s.res \in Nat \ {0}
              /\ s.chosen \in Elements(s.group) =>
                   s.res \in DOMAIN s.group /\ s.group[s.res] = s.chosen
<1>1. n \in NicType /\ Distinct(n.group)
  BY DEF StateOK, Members
<1>2. /\ n.group \in Seq(Qp) /\ Len(n.group) \in Nat /\ DOMAIN n.group = 1..Len(n.group)
      /\ \A i \in DOMAIN n.group : n.group[i] \in Qp
  BY <1>1, GroupIs
<1>3. PICK kept : kept = KeptBy(n, f)
  OBVIOUS
<1>4. PICK res : res = ResOf(n, f)
  OBVIOUS
<1>5. /\ kept \in SUBSET DOMAIN n.group
      /\ \A i \in DOMAIN n.group : ~IsFinished(f, n.group[i]) => i \in kept
  BY <1>1, <1>3, KeptByOK
<1>6. PICK g : g = Compact(n.group, kept)
  OBVIOUS
<1>7. /\ g \in Seq(Qp) /\ Distinct(g) /\ Follows(g, n.group)
      /\ Elements(g) = {n.group[i] : i \in kept}
      /\ \A i \in kept : Place(i, kept) \in DOMAIN g /\ g[Place(i, kept)] = n.group[i]
  BY <1>1, <1>2, <1>5, <1>6, CompactOK
<1>8. PICK s : s = Scan(n, f)
  OBVIOUS
<1>9. /\ s.chosen = IF res = 0 THEN None ELSE n.group[res]
      /\ s.res = UpdateRes(res, kept) /\ s.group = g
  BY <1>3, <1>4, <1>6, <1>8, ScanIs
<1>10. Compacted(n, f, g)
  BY <1>5, <1>7 DEF Compacted, Elements
<1>11. CASE Ready(n, f) = {}
  <2>1. res = 0
    BY <1>4, <1>11 DEF ResOf
  <2>2. \A q : ~Waiting(n, f, q)
    BY <1>1, <1>11, ReadyOK
  <2> QED
    BY <1>8, <1>9, <1>10, <2>1, <2>2
<1>12. CASE Ready(n, f) # {}
  <2>1. res \in DOMAIN n.group /\ Waiting(n, f, n.group[res]) /\ First(n, f, n.group[res])
    BY <1>1, <1>4, <1>12, ReadyOK
  <2>2. res # 0 /\ s.chosen = n.group[res] /\ s.chosen \in Qp /\ s.chosen \in Elements(n.group)
    BY <1>2, <1>9, <2>1 DEF Elements
  <2>3. s.chosen # None
    BY <2>2, Constants
  <2>4. ASSUME s.chosen \in Elements(g) PROVE res \in kept
    BY <1>1, <1>5, <1>7, <2>1, <2>2, <2>4 DEF Distinct
  <2>5. res \in kept => s.res = Place(res, kept) /\ s.res \in DOMAIN g /\ g[s.res] = s.chosen
    BY <1>7, <1>9, <2>2 DEF UpdateRes
  <2>6. s.res \in Nat \ {0}
    <3>1. CASE res \in kept
      <4>1. DOMAIN g \subseteq Nat \ {0}
        BY <1>7, LenProperties
      <4> QED
        BY <2>5, <3>1, <4>1
    <3>2. CASE res \notin kept
      BY <1>2, <1>9, <2>1, <3>2 DEF UpdateRes
    <3> QED
      BY <3>1, <3>2
  <2> QED
    BY <1>8, <1>9, <1>10, <2>1, <2>2, <2>3, <2>4, <2>5, <2>6
<1> QED
  BY <1>11, <1>12

-----------------------------------------------------------------------------
(* DequeueAndTransmit, in the state n, f its caller left                   *)

(* The step ends in the state m, h. *)
LEMMA Landed ==
  ASSUME NEW m, NEW h, nic' = m, qp' = h, stopped' = stopped, stopped \subseteq Stopping,
         StateOK(m, h), Conserving(m, h),
         astray' = {} => twice' = {} /\ \A p \in passed' : NextIs(m, h, p),
         \A q \in astray' : q \in Qp /\ IsFinished(h, q)
  PROVE  IInv'
<1>1. \A q : IsFinished(h, q)' <=> IsFinished(h, q)
  BY DEF IsFinished
<1>2. StateOK(nic, qp)'
  <2>1. Members(nic, qp)'
    BY <1>1 DEF StateOK, Members, IsFinished
  <2> QED
    BY <2>1 DEF StateOK
<1>3. Conserving(nic, qp)'
  OBVIOUS
<1>4. InTurn(nic, qp)'
  BY DEF InTurn
<1>5. Strayed(qp)'
  BY <1>1 DEF Strayed, IsFinished
<1> QED
  BY <1>2, <1>3, <1>4, <1>5 DEF IInv

LEMMA WaitsIs ==
  ASSUME NEW n, NEW f
  PROVE  /\ Waits(n, f, Tcp) <=> n.tcp > 0 /\ tcpip_q_idx \notin n.paused
         /\ Waits(n, f, Rdma) <=> \E q \in Qp : Waiting(n, f, q)
         /\ \A q \in Qp : Waits(n, f, q) <=> Waiting(n, f, q)
  BY Constants DEF Waits

LEMMA OvertakesIs ==
  ASSUME NEW n, NEW f
  PROVE  /\ Overtakes(n, f, None) = {}
         /\ \A p \in Overtakes(n, f, Tcp) : p = <<Rdma, Tcp>> /\ Waits(n, f, Rdma)
         /\ \A d \in Qp : \A p \in Overtakes(n, f, d) :
              \/ p = <<p[1], d>> /\ p[1] \in Qp /\ p[1] # d /\ Waiting(n, f, p[1])
              \/ p = <<Tcp, Rdma>> /\ Waits(n, f, Tcp)
  BY Constants, WaitsIs DEF Overtakes

(* If nobody is served, the order has only to be kept.                     *)
LEMMA NobodyServed ==
  ASSUME NEW n, NEW f, NEW m, NEW h, nic' = m, qp' = h, Remember(n, f, None),
         astray' = astray, InTurn(n, f),
         \A p \in passed : NextIs(n, f, p) /\ Waits(m, h, p[1]) => NextIs(m, h, p)
  PROVE  astray' = {} => twice' = {} /\ \A p \in passed' : NextIs(m, h, p)
<1>1. Overtakes(n, f, None) = {}
  BY OvertakesIs
<1>2. passed' = {p \in passed : p[1] # None /\ Waits(m, h, p[1])} /\ twice' = twice
  BY <1>1, Constants DEF Remember
<1> QED
  BY <1>2 DEF InTurn

LEMMA SameTurn ==
  ASSUME NEW n, NEW m, NEW f, NEW p, NextIs(n, f, p),
         m.group = n.group, m.rrlast = n.rrlast, m.turn = n.turn
  PROVE  NextIs(m, f, p)
  BY DEF NextIs, Ahead

LEMMA WaitingBefore ==
  ASSUME NEW n, NEW m, NEW f, NEW q, m.paused = n.paused,
         Elements(m.group) \subseteq Elements(n.group), Waiting(m, f, q)
  PROVE  Waiting(n, f, q)
  BY DEF Waiting, Sendable

LEMMA CompactedMembers ==
  ASSUME NEW n, NEW m, NEW f, StateOK(n, f), Compacted(n, f, m.group), m \in NicType
  PROVE  StateOK(m, f)
<1>1. Members(m, f)
  BY DEF StateOK, Members, Compacted
<1> QED
  BY <1>1 DEF StateOK

LEMMA NotCompacted ==
  ASSUME NEW n, NEW f, StateOK(n, f)
  PROVE  Compacted(n, f, n.group)
  BY GroupIs DEF StateOK, Members, Compacted, Distinct, Follows

LEMMA BusyStep ==
  ASSUME NEW n, NEW f, StateOK(n, f), InTurn(n, f), Strayed(f),
         stopped' = stopped, stopped \subseteq Stopping,
         n.tx # Off, DequeueAndTransmit(n, f)
  PROVE  IInv'
<1>1. nic' = n /\ qp' = f /\ Remember(n, f, None) /\ astray' = astray
  BY DEF DequeueAndTransmit
<1>2. Conserving(n, f)
  BY DEF Conserving
<1>3. astray' = {} => twice' = {} /\ \A p \in passed' : NextIs(n, f, p)
  BY <1>1, NobodyServed
<1> QED
  BY <1>1, <1>2, <1>3, Landed DEF Strayed

LEMMA ControlStep ==
  ASSUME NEW n, NEW f, StateOK(n, f), InTurn(n, f), Strayed(f),
         stopped' = stopped, stopped \subseteq Stopping,
         ControlFirst(n), SendControl(n, f)
  PROVE  IInv'
<1>1. PICK m : m = [n EXCEPT !.control = @ - 1, !.tx = 1]
  OBVIOUS
<1>2. nic' = m /\ qp' = f /\ Remember(n, f, None) /\ astray' = astray
  BY <1>1 DEF SendControl
<1>3. /\ m \in NicType /\ m.group = n.group /\ m.rrlast = n.rrlast /\ m.turn = n.turn
      /\ m.tx = 1
  <2>1. n \in NicType /\ n.control - 1 \in 0..MaxControl
    BY Constants DEF StateOK, NicType, ControlFirst
  <2>2. PICK c : c = n.control - 1
    OBVIOUS
  <2>3. m = [n EXCEPT !.control = c, !.tx = 1] /\ c \in 0..MaxControl
    BY <1>1, <2>1, <2>2
  <2> QED
    BY <2>1, <2>3 DEF NicType
<1>4. StateOK(m, f)
  BY <1>3, NotCompacted, CompactedMembers
<1>5. Conserving(m, f)
  BY <1>3 DEF Conserving, Off
<1>6. astray' = {} => twice' = {} /\ \A p \in passed' : NextIs(m, f, p)
  BY <1>2, <1>3, NobodyServed, SameTurn
<1> QED
  BY <1>2, <1>4, <1>5, <1>6, Landed DEF Strayed

(* Updates of the device's record *)
LEMMA NicUpdate ==
  ASSUME NEW n \in NicType, NEW g \in Seq(Qp), NEW b \in 0..1
  PROVE  /\ [n EXCEPT !.group = g, !.turn = b] \in NicType
         /\ \A t \in 0..MaxTcp, x \in {Off, 0, 1} :
              [n EXCEPT !.group = g, !.turn = b, !.tcp = t, !.tx = x] \in NicType
         /\ \A r \in Nat, x \in {Off, 0, 1} :
              [n EXCEPT !.group = g, !.rrlast = r, !.turn = b, !.tx = x] \in NicType
         /\ \A y \in {Off} \cup 0..MaxGap :
              [n EXCEPT !.group = g, !.nextSend = y] \in NicType
<1>1. PICK G : G = Seq(Qp)
  OBVIOUS
<1>2. PICK T : T = 0..MaxTcp
  OBVIOUS
<1>3. PICK X : X = {Off, 0, 1}
  OBVIOUS
<1>4. PICK Y : Y = {Off} \cup 0..MaxGap
  OBVIOUS
<1>5. PICK C : C = 0..MaxControl
  OBVIOUS
<1>6. PICK B : B = 0..1
  OBVIOUS
<1>7. NicType = [group : G, rrlast : Nat, turn : B, control : C, tcp : T,
                 paused : SUBSET Pausable, tx : X, nextSend : Y]
  BY <1>1, <1>2, <1>3, <1>4, <1>5, <1>6 DEF NicType
<1>8. n \in NicType /\ g \in G /\ b \in B
  BY <1>1, <1>6
<1>9. [n EXCEPT !.group = g, !.turn = b] \in NicType
  BY <1>7, <1>8
<1>10. ASSUME NEW t \in T, NEW x \in X
       PROVE  [n EXCEPT !.group = g, !.turn = b, !.tcp = t, !.tx = x] \in NicType
  BY <1>7, <1>8
<1>11. ASSUME NEW r \in Nat, NEW x \in X
       PROVE  [n EXCEPT !.group = g, !.rrlast = r, !.turn = b, !.tx = x] \in NicType
  BY <1>7, <1>8
<1>12. ASSUME NEW y \in Y PROVE [n EXCEPT !.group = g, !.nextSend = y] \in NicType
  BY <1>7, <1>8
<1> QED
  BY <1>2, <1>3, <1>4, <1>9, <1>10, <1>11, <1>12

(* TCP's turn: nobody waits in the group if it is scanned. *)
LEMMA TcpStep ==
  ASSUME NEW n, NEW f, StateOK(n, f), InTurn(n, f), Strayed(f),
         stopped' = stopped, stopped \subseteq Stopping, n.tx = Off, ~ControlFirst(n),
         TcpChosen(n, Scan(n, f)),
         SendTcp(n, f, IF n.turn = 0 THEN Scan(n, f).group ELSE n.group)
  PROVE  IInv'
<1>1. PICK g : g = IF n.turn = 0 THEN Scan(n, f).group ELSE n.group
  OBVIOUS
<1>2. Compacted(n, f, g)
  BY <1>1, ScanOK, NotCompacted
<1>3. n.turn = 0 => \A q : ~Waiting(n, f, q)
  BY ScanOK DEF TcpChosen
<1>4. n.turn # 0 => g = n.group
  BY <1>1
<1>5. n \in NicType /\ g \in Seq(Qp) /\ Elements(g) \subseteq Elements(n.group) /\ n.tcp > 0
  BY <1>2 DEF StateOK, Compacted, TcpChosen
<1>6. ASSUME NEW m, m.group = g, m.rrlast = n.rrlast, m.turn = 0, m.paused = n.paused,
             NEW p \in passed, NextIs(n, f, p), p[1] # Tcp, Waits(m, f, p[1])
      PROVE  NextIs(m, f, p)
  <2>1. CASE p[1] \in Qp
    <3>1. Waiting(n, f, p[1])
      BY <1>5, <1>6, <2>1, WaitsIs, WaitingBefore
    <3>2. m.group = n.group
      BY <1>3, <1>4, <1>6, <3>1
    <3>3. Ahead(n, p[1], p[2]) /\ p[2] \in Qp /\ p[1] # p[2] /\ f[p[2]].state # "new"
      BY <1>6, <2>1, Constants DEF NextIs
    <3> QED
      BY <1>6, <2>1, <3>2, <3>3 DEF NextIs, Ahead
  <2>2. CASE p[1] \notin Qp
    <3>1. p = <<Rdma, Tcp>>
      BY <1>6, <2>2 DEF NextIs
    <3> QED
      BY <1>6, <3>1 DEF NextIs
  <2> QED
    BY <2>1, <2>2
<1>7. CASE tcpip_q_idx \in n.paused
  <2>1. PICK m : m = [n EXCEPT !.group = g, !.turn = 0]
    OBVIOUS
  <2>2. nic' = m /\ qp' = f /\ Remember(n, f, None) /\ astray' = astray
    BY <1>1, <1>7, <2>1 DEF SendTcp
  <2>3. /\ m \in NicType /\ m.group = g /\ m.rrlast = n.rrlast /\ m.turn = 0
        /\ m.paused = n.paused /\ m.tcp = n.tcp /\ m.control = n.control
    <3>1. m \in NicType
      <4>1. 0 \in 0..1
        OBVIOUS
      <4> QED
        BY <1>5, <2>1, <4>1, NicUpdate
    <3> QED
      BY <1>5, <2>1, <3>1 DEF NicType
  <2>4. StateOK(m, f)
    BY <1>2, <2>3, CompactedMembers
  <2>5. Conserving(m, f)
    BY <1>5, <1>7, <2>3 DEF Conserving, ControlFirst, NicType
  <2>6. ~Waits(m, f, Tcp)
    BY <1>7, <2>3, WaitsIs
  <2>7. astray' = {} => twice' = {} /\ \A p \in passed' : NextIs(m, f, p)
    BY <1>6, <2>2, <2>3, <2>6, NobodyServed
  <2> QED
    BY <2>2, <2>4, <2>5, <2>7, Landed DEF Strayed
<1>8. CASE tcpip_q_idx \notin n.paused
  <2>1. PICK m : m = [n EXCEPT !.group = g, !.turn = 0, !.tcp = @ - 1, !.tx = 1]
    OBVIOUS
  <2>2. nic' = m /\ qp' = f /\ Remember(n, f, Tcp) /\ astray' = astray
    BY <1>1, <1>8, <2>1 DEF SendTcp
  <2>3. /\ m \in NicType /\ m.group = g /\ m.rrlast = n.rrlast /\ m.turn = 0
        /\ m.paused = n.paused /\ m.tx = 1
    <3>1. n.tcp - 1 \in 0..MaxTcp
      BY <1>5, Constants DEF NicType
    <3>2. PICK t : t = n.tcp - 1
      OBVIOUS
    <3>3. m = [n EXCEPT !.group = g, !.turn = 0, !.tcp = t, !.tx = 1] /\ t \in 0..MaxTcp
      BY <2>1, <3>1, <3>2
    <3>4. m \in NicType
      <4>1. 0 \in 0..1 /\ 1 \in {Off, 0, 1}
        OBVIOUS
      <4> QED
        BY <1>5, <3>3, <4>1, NicUpdate
    <3> QED
      BY <1>5, <3>3, <3>4 DEF NicType
  <2>4. StateOK(m, f)
    BY <1>2, <2>3, CompactedMembers
  <2>5. Conserving(m, f)
    BY <2>3 DEF Conserving, Off
  <2>6. PICK over : over = Overtakes(n, f, Tcp)
    OBVIOUS
  <2>7. \A p \in over : p = <<Rdma, Tcp>> /\ Waits(n, f, Rdma)
    BY <2>6, OvertakesIs
  <2>8. /\ passed' = {p \in passed \cup over : p[1] \notin {Tcp} /\ Waits(m, f, p[1])}
        /\ twice' = twice \cup (passed \cap over)
    BY <2>2, <2>6, Constants DEF Remember
  <2>9. ASSUME astray' = {} PROVE twice' = {} /\ \A p \in passed' : NextIs(m, f, p)
    <3>1. twice = {} /\ \A p \in passed : NextIs(n, f, p)
      BY <2>2, <2>9 DEF InTurn
    <3>2. ASSUME NEW p \in passed, p \in over PROVE FALSE
      <4>1. p = <<Rdma, Tcp>> /\ Waits(n, f, Rdma)
        BY <2>7, <3>2
      <4>2. n.turn = 0
        BY <3>1, <4>1, Constants DEF NextIs
      <4> QED
        BY <1>3, <4>1, <4>2, WaitsIs
    <3>3. ASSUME NEW p \in passed' PROVE NextIs(m, f, p)
      <4>1. p[1] # Tcp /\ Waits(m, f, p[1]) /\ (p \in passed \/ p \in over)
        BY <2>8, <3>3
      <4>2. CASE p \in passed
        BY <1>6, <2>3, <3>1, <4>1, <4>2
      <4>3. CASE p \in over
        BY <2>3, <2>7, <4>3 DEF NextIs
      <4> QED
        BY <4>1, <4>2, <4>3
    <3> QED
      BY <2>8, <3>1, <3>2, <3>3
  <2> QED
    BY <2>2, <2>4, <2>5, <2>9, Landed DEF Strayed
<1> QED
  BY <1>7, <1>8

(* Before goes round: from r it meets k, then i, then j.                   *)
LEMMA RoundOn ==
  ASSUME NEW r \in Int, NEW k \in Int, NEW i \in Int, NEW j \in Int,
         Before(r, k, i), Before(r, i, j)
  PROVE  Before(k, i, j)
  BY DEF Before

LEMMA OneIsBefore ==
  ASSUME NEW r \in Int, NEW i \in Int, NEW j \in Int, Before(r, i, j)
  PROVE  ~Before(r, j, i)
  BY DEF Before

(* Sending from q: what is finished stays so, others are left alone. *)
LEMMA SentOK ==
  ASSUME NEW f \in [Qp -> QpType], Numbers(f), NEW q \in Qp, NEW gap \in 1..MaxGap,
         NEW h, h = Sent(f, q, gap)
  PROVE  /\ h \in [Qp -> QpType] /\ Numbers(h)
         /\ \A c \in Qp : h[c].state = f[c].state /\ h[c].snd_una = f[c].snd_una
         /\ \A c \in Qp \ {q} : h[c] = f[c]
<1>0. PICK size : size = IF GetBytesLeft(f, q) > 0 THEN 1 ELSE 0
  OBVIOUS
<1>1. f[q] \in QpType /\ size \in 0..1 /\ gap \in 0..MaxGap
  BY <1>0, Constants
<1>2. PICK r : r = f[q]
  OBVIOUS
<1>3. /\ r.snd_nxt \in Nat /\ r.snd_una \in Nat /\ r.sent \in Nat
      /\ r.snd_nxt <= r.sent /\ r.snd_una <= r.sent /\ r.sent <= m_size[q] /\ m_size[q] \in Nat
  BY <1>1, <1>2, Constants DEF QpType, Numbers
<1>4. PICK nxt : nxt = r.snd_nxt + size
  OBVIOUS
<1>5. PICK sent : sent = IF r.snd_nxt + size > r.sent THEN r.sent + size ELSE r.sent
  OBVIOUS
<1>6. nxt \in Nat /\ sent \in Nat /\ nxt <= sent /\ r.sent <= sent /\ sent <= m_size[q]
  <2>1. size = 1 => r.snd_nxt < m_size[q]
    BY <1>0, <1>1, <1>2, <1>3 DEF GetBytesLeft
  <2> QED
    BY <1>1, <1>3, <1>4, <1>5, <2>1
<1>7. PICK x : x = [r EXCEPT !.snd_nxt = nxt, !.avail = gap, !.sent = sent]
  OBVIOUS
<1>8. /\ x \in QpType /\ x.snd_nxt = nxt /\ x.sent = sent
      /\ x.state = r.state /\ x.snd_una = r.snd_una
  BY <1>1, <1>2, <1>6, <1>7 DEF QpType
<1>9. h = [f EXCEPT ![q] = x]
  BY <1>0, <1>1, <1>2, <1>4, <1>5, <1>7 DEF Sent
<1>10. h[q] = x /\ \A c \in Qp \ {q} : h[c] = f[c]
  BY <1>9
<1>11. h \in [Qp -> QpType]
  BY <1>8, <1>9
<1>12. \A c \in Qp : h[c].state = f[c].state /\ h[c].snd_una = f[c].snd_una
  BY <1>2, <1>8, <1>10
<1>13. Numbers(h)
  <2>1. x.snd_nxt <= x.sent /\ x.snd_una <= x.sent /\ x.sent <= m_size[q]
    BY <1>2, <1>3, <1>6, <1>8
  <2>2. ASSUME NEW c \in Qp
        PROVE  h[c].snd_nxt <= h[c].sent /\ h[c].snd_una <= h[c].sent /\ h[c].sent <= m_size[c]
    <3>1. CASE c = q
      BY <1>10, <2>1, <3>1
    <3>2. CASE c # q
      <4>1. h[c] = f[c]
        BY <1>10, <3>2
      <4> QED
        BY <4>1 DEF Numbers
    <3> QED
      BY <3>1, <3>2
  <2> QED
    BY <2>2 DEF Numbers
<1> QED
  BY <1>10, <1>11, <1>12, <1>13

(* A queue pair that waits is the next after the one just served. *)
LEMMA AheadOfServed ==
  ASSUME NEW m \in NicType, Distinct(m.group), NEW res \in DOMAIN m.group,
         m.rrlast = res - 1, NEW c \in Elements(m.group), c # m.group[res]
  PROVE  Ahead(m, c, m.group[res])
<1>1. Len(m.group) \in Nat /\ DOMAIN m.group = 1..Len(m.group)
  BY GroupIs
<1>2. PICK i \in DOMAIN m.group : m.group[i] = c
  BY DEF Elements
<1>3. m.rrlast + 1 = res /\ m.rrlast < Len(m.group)
  BY <1>1
<1>4. Before(res, i, res)
  BY <1>1, <1>2 DEF Before
<1>5. \A j \in DOMAIN m.group : m.group[j] = m.group[res] => j = res
  BY DEF Distinct
<1> QED
  BY <1>2, <1>3, <1>4, <1>5 DEF Ahead

(* Who was the next of two remains so when another is served. *)
LEMMA StaysAhead ==
  ASSUME NEW n \in NicType, NEW m \in NicType, NEW f, Distinct(n.group), Distinct(m.group),
         Follows(m.group, n.group), Elements(m.group) \subseteq Elements(n.group),
         NEW res \in DOMAIN m.group, m.rrlast = res - 1, First(n, f, m.group[res]),
         NEW c \in Elements(m.group), c # m.group[res], Waiting(n, f, c),
         NEW d, d # m.group[res], d # c, Ahead(n, c, d)
  PROVE  Ahead(m, c, d)
<1>1. /\ Len(m.group) \in Nat /\ DOMAIN m.group = 1..Len(m.group)
      /\ Len(n.group) \in Nat /\ DOMAIN n.group = 1..Len(n.group) /\ n.rrlast \in Nat
  BY GroupIs
<1>2. PICK i \in DOMAIN m.group : m.group[i] = c
  BY DEF Elements
<1>3. m.rrlast + 1 = res /\ m.rrlast < Len(m.group)
  BY <1>1
<1>4. ASSUME NEW j \in DOMAIN m.group, m.group[j] = d PROVE Before(res, i, j)
  <2>1. PICK k \in DOMAIN n.group : n.group[k] = m.group[res]
    BY DEF Elements
  <2>2. PICK l \in DOMAIN n.group :
          /\ n.group[l] = c
          /\ \A o \in DOMAIN n.group : n.group[o] = d => Before(n.rrlast + 1, l, o)
    BY DEF Ahead
  <2>3. PICK o \in DOMAIN n.group : n.group[o] = d
    BY <1>4 DEF Elements
  <2>4. Before(n.rrlast + 1, l, o) /\ n.rrlast < Len(n.group)
    BY <2>2, <2>3 DEF Ahead
  <2>5. k # l
    BY <2>1, <2>2
  <2>6. Before(n.rrlast + 1, k, l)
    BY <2>1, <2>2, <2>4, <2>5 DEF First
  <2>7. k \in Int /\ l \in Int /\ o \in Int /\ n.rrlast + 1 \in Int
    BY <1>1
  <2>8. Before(k, l, o)
    BY <2>4, <2>6, <2>7, RoundOn
  <2>9. /\ i < j <=> l < o
        /\ i < res <=> l < k
        /\ j < res <=> o < k
        /\ res < i <=> k < l
        /\ res < j <=> k < o
    BY <1>2, <1>4, <2>1, <2>2, <2>3 DEF Follows
  <2>10. i # res /\ j # res
    BY <1>2, <1>4
  <2> QED
    BY <1>1, <2>7, <2>8, <2>9, <2>10 DEF Before
<1> QED
  BY <1>2, <1>3, <1>4 DEF Ahead

(* The queue pair that is served was the next of all that wait.            *)
LEMMA QpTurns ==
  ASSUME NEW n, NEW f, StateOK(n, f), InTurn(n, f), NEW m \in NicType, NEW h,
         nic' = m, qp' = h, Compacted(n, f, m.group), m.paused = n.paused, m.turn = 1,
         NEW q \in Qp, NEW res \in DOMAIN m.group, m.group[res] = q, m.rrlast = res - 1,
         Waiting(n, f, q), First(n, f, q), ~(n.tcp > 0 /\ n.turn = 1),
         \A c \in Qp : h[c].state = f[c].state, \A c \in Qp \ {q} : h[c] = f[c],
         Remember(n, f, q), astray = {}
  PROVE  twice' = {} /\ \A p \in passed' : NextIs(m, h, p)
<1>1. PICK over : over = Overtakes(n, f, q)
  OBVIOUS
<1>2. \A p \in over : \/ p = <<p[1], q>> /\ p[1] \in Qp /\ p[1] # q /\ Waiting(n, f, p[1])
                      \/ p = <<Tcp, Rdma>> /\ Waits(n, f, Tcp)
  BY <1>1, OvertakesIs
<1>3. /\ passed' = {p \in passed \cup over : p[1] \notin {q, Rdma} /\ Waits(m, h, p[1])}
      /\ twice' = twice \cup (passed \cap over)
  BY <1>1, Constants DEF Remember
<1>4. twice = {} /\ \A p \in passed : NextIs(n, f, p)
  BY DEF InTurn
<1>5. /\ n \in NicType /\ Distinct(n.group) /\ Distinct(m.group)
      /\ Follows(m.group, n.group) /\ Elements(m.group) \subseteq Elements(n.group)
  BY DEF StateOK, Members, Compacted
<1>6. f[q].state # "new" /\ h[q].state # "new"
  BY DEF StateOK, Members, Waiting
<1>7. ASSUME NEW p \in passed, p \in over PROVE FALSE
  <2>1. NextIs(n, f, p)
    BY <1>4
  <2>2. CASE p = <<Tcp, Rdma>> /\ Waits(n, f, Tcp)
    <3>1. n.turn = 1
      BY <2>1, <2>2, Constants DEF NextIs
    <3>2. n.tcp > 0
      BY <2>2, WaitsIs
    <3> QED
      BY <3>1, <3>2
  <2>3. CASE p = <<p[1], q>> /\ p[1] \in Qp /\ p[1] # q /\ Waiting(n, f, p[1])
    <3>1. PICK c : c = p[1]
      OBVIOUS
    <3>2. p[2] = q
      BY <2>3
    <3>3. Ahead(n, c, q)
      BY <2>1, <2>3, <3>1, <3>2, Constants DEF NextIs
    <3>4. PICK i \in DOMAIN n.group :
            /\ n.group[i] = c
            /\ \A j \in DOMAIN n.group : n.group[j] = q => Before(n.rrlast + 1, i, j)
      BY <3>3 DEF Ahead
    <3>5. PICK j \in DOMAIN n.group : n.group[j] = q
      BY DEF Waiting, Elements
    <3>6. n.rrlast < Len(n.group) /\ Before(n.rrlast + 1, i, j)
      BY <3>3, <3>4, <3>5 DEF Ahead
    <3>7. Before(n.rrlast + 1, j, i)
      <4>1. Waiting(n, f, n.group[i]) /\ i # j
        BY <2>3, <3>1, <3>4, <3>5
      <4> QED
        BY <3>5, <3>6, <4>1 DEF First
    <3>8. i \in Int /\ j \in Int /\ n.rrlast + 1 \in Int
      BY <1>5, GroupIs
    <3> QED
      BY <3>6, <3>7, <3>8, OneIsBefore
  <2> QED
    BY <1>2, <1>7, <2>2, <2>3
<1>8. ASSUME NEW c \in Qp \ {q}, Waits(m, h, c)
      PROVE  c \in Elements(m.group) /\ Waiting(n, f, c)
  <2>1. Waiting(m, h, c) /\ h[c] = f[c]
    BY <1>8, WaitsIs
  <2>2. Waiting(m, f, c)
    BY <2>1 DEF Waiting, Sendable, GetBytesLeft, IsWinBound
  <2> QED
    BY <1>5, <2>2, WaitingBefore DEF Waiting
<1>9. ASSUME NEW p \in passed' PROVE NextIs(m, h, p)
  <2>1. /\ p[1] \notin {q, Rdma} /\ Waits(m, h, p[1])
        /\ p \in over \/ (p \in passed /\ NextIs(n, f, p))
    BY <1>3, <1>4, <1>9
  <2>2. CASE p = <<Tcp, Rdma>>
    BY <2>2 DEF NextIs
  <2>3. CASE p = <<Rdma, Tcp>>
    BY <2>1, <2>3
  <2>4. CASE p[1] \in Qp /\ p[2] = q
    <3>1. p[1] \in Elements(m.group) /\ p[1] # q
      BY <1>8, <2>1, <2>4
    <3>2. Ahead(m, p[1], q)
      BY <1>5, <3>1, AheadOfServed
    <3> QED
      BY <1>6, <2>4, <3>1, <3>2 DEF NextIs
  <2>5. CASE p[1] \in Qp /\ p[2] # q /\ p \in passed
    <3>1. p[1] \in Elements(m.group) /\ p[1] # q /\ Waiting(n, f, p[1])
      BY <1>8, <2>1, <2>5
    <3>2. p[2] \in Qp /\ p[1] # p[2] /\ f[p[2]].state # "new" /\ Ahead(n, p[1], p[2])
      BY <1>4, <2>5, Constants DEF NextIs
    <3>3. Ahead(m, p[1], p[2])
      BY <1>5, <2>5, <3>1, <3>2, StaysAhead
    <3> QED
      BY <2>5, <3>2, <3>3 DEF NextIs
  <2>6. CASE p \in passed
    <3>1. NextIs(n, f, p)
      BY <1>4, <2>6
    <3> QED
      BY <2>2, <2>3, <2>4, <2>5, <2>6, <3>1 DEF NextIs
  <2>7. CASE p \in over
    <3>1. p = <<Tcp, Rdma>> \/ (p[1] \in Qp /\ p[2] = q)
      BY <1>2, <2>7
    <3> QED
      BY <2>2, <2>4, <3>1
  <2> QED
    BY <2>1, <2>6, <2>7
<1>10. twice' = {}
  BY <1>3, <1>4, <1>7
<1> QED
  BY <1>9, <1>10

(* A queue pair's turn: the one chosen is served, or the position was      *)
(* stale, and then the one chosen had finished.                            *)
LEMMA QpStep ==
  ASSUME NEW n, NEW f, StateOK(n, f), InTurn(n, f), Strayed(f),
         stopped' = stopped, stopped \subseteq Stopping,
         NEW s, s = Scan(n, f), ~TcpChosen(n, s), s.chosen # None, SendQp(n, f, s)
  PROVE  IInv'
<1>1. /\ Compacted(n, f, s.group) /\ s.chosen \in Qp /\ s.chosen \in Elements(n.group)
      /\ Waiting(n, f, s.chosen) /\ First(n, f, s.chosen) /\ s.res \in Nat \ {0}
      /\ s.chosen \in Elements(s.group) =>
           s.res \in DOMAIN s.group /\ s.group[s.res] = s.chosen
  BY ScanOK
<1>2. PICK q : q = Served(s)
  OBVIOUS
<1>3. PICK g, r : g = s.group /\ r = s.res - 1
  OBVIOUS
<1>4. PICK m : m = [n EXCEPT !.group = g, !.rrlast = r, !.turn = 1, !.tx = 1]
  OBVIOUS
<1>5. /\ nic' = m /\ Remember(n, f, q)
      /\ astray' = IF q = s.chosen THEN astray ELSE astray \cup {s.chosen}
      /\ IF q = None THEN qp' = f ELSE \E gap \in 1..MaxGap : qp' = Sent(f, q, gap)
  BY <1>2, <1>3, <1>4 DEF SendQp
<1>6. n \in NicType /\ f \in [Qp -> QpType] /\ Numbers(f) /\ g \in Seq(Qp) /\ r \in Nat
  BY <1>1, <1>3 DEF StateOK, Compacted
<1>7. m \in NicType
  <2>1. 1 \in 0..1 /\ 1 \in {Off, 0, 1}
    OBVIOUS
  <2> QED
    BY <1>4, <1>6, <2>1, NicUpdate, Zenon
<1>8. m.group = g /\ g = s.group /\ m.rrlast = r /\ m.turn = 1 /\ m.tx = 1 /\ m.paused = n.paused
  BY <1>3, <1>4, <1>6 DEF NicType
<1>9. q \in Qp \/ q = None
  <2>1. \A i \in DOMAIN s.group : s.group[i] \in Qp
    BY <1>3, <1>6, ElementOfSeq, LenProperties
  <2> QED
    BY <1>2, <2>1 DEF Served
<1>10. PICK h : /\ qp' = h
                /\ h \in [Qp -> QpType] /\ Numbers(h)
                /\ \A c \in Qp : h[c].state = f[c].state /\ h[c].snd_una = f[c].snd_una
                /\ \A c \in Qp \ {q} : h[c] = f[c]
  <2>1. CASE q = None
    BY <1>5, <1>6, <2>1
  <2>2. CASE q # None
    <3>1. PICK gap \in 1..MaxGap : qp' = Sent(f, q, gap)
      BY <1>5, <2>2
    <3>2. PICK h : h = Sent(f, q, gap)
      OBVIOUS
    <3>3. /\ h \in [Qp -> QpType] /\ Numbers(h)
          /\ \A c \in Qp : h[c].state = f[c].state /\ h[c].snd_una = f[c].snd_una
          /\ \A c \in Qp \ {q} : h[c] = f[c]
      BY <1>6, <1>9, <2>2, <3>2, SentOK
    <3> QED
      BY <3>1, <3>2, <3>3
  <2> QED
    BY <2>1, <2>2
<1>11. \A c \in Qp : IsFinished(h, c) <=> IsFinished(f, c)
  BY <1>10 DEF IsFinished
<1>12. StateOK(m, h)
  <2>1. StateOK(m, f)
    BY <1>1, <1>7, <1>8, CompactedMembers
  <2>2. Members(m, h)
    BY <1>10, <1>11, <2>1 DEF StateOK, Members
  <2> QED
    BY <1>7, <1>10, <2>2 DEF StateOK
<1>13. Conserving(m, h)
  BY <1>8 DEF Conserving, Off
<1>14. ASSUME NEW c \in astray' PROVE c \in Qp /\ IsFinished(h, c)
  <2>1. CASE c \in astray
    BY <1>11, <2>1 DEF Strayed
  <2>2. CASE c \notin astray
    <3>1. c = s.chosen /\ q # s.chosen
      BY <1>5, <1>14, <2>2
    <3>2. c \notin Elements(s.group)
      BY <1>1, <1>2, <3>1 DEF Served
    <3>3. IsFinished(f, c)
      BY <1>1, <3>1, <3>2 DEF Compacted
    <3> QED
      BY <1>1, <1>11, <3>1, <3>3
  <2> QED
    BY <2>1, <2>2
<1>15. ASSUME astray' = {} PROVE twice' = {} /\ \A p \in passed' : NextIs(m, h, p)
  <2>1. q = s.chosen /\ astray = {}
    BY <1>5, <1>15
  <2>2. q # None /\ s.res \in DOMAIN s.group /\ s.group[s.res] = q
    BY <1>1, <1>2, <2>1, Constants DEF Served
  <2>3. ~(n.tcp > 0 /\ n.turn = 1)
    BY DEF TcpChosen
  <2>4. q \in Qp /\ Waiting(n, f, q) /\ First(n, f, q) /\ m.rrlast = s.res - 1
    BY <1>1, <1>3, <1>8, <2>1
  <2> QED
    BY <1>1, <1>5, <1>7, <1>8, <1>10, <2>1, <2>2, <2>3, <2>4, QpTurns
<1> QED
  BY <1>5, <1>10, <1>12, <1>13, <1>14, <1>15, Landed

(* Nobody's turn: a timer is left for whoever is paced. *)
LEMMA TimerStep ==
  ASSUME NEW n, NEW f, StateOK(n, f), InTurn(n, f), Strayed(f),
         stopped' = stopped, stopped \subseteq Stopping, n.tx = Off, ~ControlFirst(n),
         NEW s, s = Scan(n, f), ~TcpChosen(n, s), s.chosen = None, SetTimer(n, f, s.group)
  PROVE  IInv'
<1>1. Compacted(n, f, s.group) /\ \A q : ~Waiting(n, f, q)
  BY ScanOK
<1>2. PICK g : g = s.group
  OBVIOUS
<1>3. n \in NicType /\ f \in [Qp -> QpType] /\ g \in Seq(Qp)
  BY <1>2, <1>1 DEF StateOK, Compacted
<1>4. Elements(g) \subseteq Qp
  BY <1>3, ElementOfSeq, LenProperties DEF Elements
<1>5. PICK times : times = {f[q].avail : q \in {r \in Elements(g) : Sendable(n, f, r)}}
  OBVIOUS
<1>6. times \in SUBSET Nat /\ times \subseteq 0..MaxGap
  <2>1. \A q \in Elements(g) : f[q].avail \in 0..MaxGap
    BY <1>3, <1>4 DEF QpType
  <2>2. times \subseteq 0..MaxGap
    BY <1>5, <2>1
  <2>3. 0..MaxGap \subseteq Nat
    OBVIOUS
  <2> QED
    BY <2>2, <2>3
<1>7. PICK y : y = IF times # {} /\ TimerMoves(n, Min(times)) THEN Min(times) ELSE n.nextSend
  OBVIOUS
<1>8. n.nextSend \in {Off} \cup 0..MaxGap
  BY <1>3 DEF NicType
<1>9. PICK t : t = Min(times)
  OBVIOUS
<1>10. times # {} => t \in 0..MaxGap /\ \A x \in times : t <= x
  BY <1>6, <1>9, LeastNatural
<1>11. y \in {Off} \cup 0..MaxGap /\ \A x \in times : y # Off /\ y <= x
  BY <1>6, <1>7, <1>8, <1>9, <1>10, Constants DEF TimerMoves, Off
<1>12. PICK m : m = [n EXCEPT !.group = g, !.nextSend = y]
  OBVIOUS
<1>13. nic' = m /\ qp' = f /\ Remember(n, f, None) /\ astray' = astray
  BY <1>2, <1>5, <1>7, <1>12 DEF SetTimer
<1>14. m \in NicType
  <2>1. 0 \in 0..1
    OBVIOUS
  <2> QED
    BY <1>3, <1>11, <1>12, <2>1, NicUpdate
<1>15. /\ m.group = g /\ m.turn = n.turn /\ m.tx = n.tx /\ m.paused = n.paused
       /\ m.tcp = n.tcp /\ m.control = n.control /\ m.nextSend = y
  BY <1>3, <1>12 DEF NicType
<1>16. StateOK(m, f)
  BY <1>2, <1>1, <1>14, <1>15, CompactedMembers
<1>17. Conserving(m, f)
  <2>1. ~ControlFirst(m)
    BY <1>15 DEF ControlFirst
  <2>2. ~(m.tcp > 0)
    BY <1>15 DEF TcpChosen
  <2>3. ASSUME NEW q \in Elements(m.group), Sendable(m, f, q)
        PROVE  m.nextSend # Off /\ m.nextSend <= f[q].avail
    <3>1. Sendable(n, f, q)
      BY <1>15, <2>3 DEF Sendable
    <3>2. f[q].avail \in times
      BY <1>5, <1>15, <2>3, <3>1
    <3> QED
      BY <1>11, <1>15, <3>2
  <2> QED
    BY <2>1, <2>2, <2>3 DEF Conserving
<1>18. ASSUME NEW p \in passed, NextIs(n, f, p), Waits(m, f, p[1]) PROVE NextIs(m, f, p)
  <2>1. CASE p[1] \in Qp
    <3>1. Waiting(m, f, p[1])
      BY <1>18, <2>1, WaitsIs
    <3>2. Elements(m.group) \subseteq Elements(n.group)
      BY <1>2, <1>1, <1>15 DEF Compacted
    <3>3. Waiting(n, f, p[1])
      BY <1>15, <3>1, <3>2, WaitingBefore
    <3> QED
      BY <1>1, <3>3
  <2>2. CASE p[1] \notin Qp
    BY <1>15, <1>18, <2>2 DEF NextIs
  <2> QED
    BY <2>1, <2>2
<1>19. astray' = {} => twice' = {} /\ \A p \in passed' : NextIs(m, f, p)
  BY <1>13, <1>18, NobodyServed
<1> QED
  BY <1>13, <1>16, <1>17, <1>19, Landed DEF Strayed

(* A call of DequeueAndTransmit re-establishes the invariant: what is left *)
(* idle needs no wake-up from what was idle before.                        *)
LEMMA DequeueStep ==
  ASSUME NEW n, NEW f, StateOK(n, f), InTurn(n, f), Strayed(f),
         stopped' = stopped, stopped \subseteq Stopping, DequeueAndTransmit(n, f)
  PROVE  IInv'
<1>1. PICK s : s = Scan(n, f)
  OBVIOUS
<1>2. CASE n.tx # Off
  BY <1>2, BusyStep
<1>3. CASE n.tx = Off /\ ControlFirst(n)
  <2>1. SendControl(n, f)
    BY <1>3 DEF DequeueAndTransmit
  <2> QED
    BY <1>3, <2>1, ControlStep
<1>4. CASE n.tx = Off /\ ~ControlFirst(n) /\ TcpChosen(n, s)
  <2>1. SendTcp(n, f, IF n.turn = 0 THEN s.group ELSE n.group)
    BY <1>1, <1>4 DEF DequeueAndTransmit
  <2> QED
    BY <1>1, <1>4, <2>1, TcpStep
<1>5. CASE n.tx = Off /\ ~ControlFirst(n) /\ ~TcpChosen(n, s) /\ s.chosen # None
  <2>1. SendQp(n, f, s)
    BY <1>1, <1>5 DEF DequeueAndTransmit
  <2> QED
    BY <1>1, <1>5, <2>1, QpStep
<1>6. CASE n.tx = Off /\ ~ControlFirst(n) /\ ~TcpChosen(n, s) /\ s.chosen = None
  <2>1. SetTimer(n, f, s.group)
    BY <1>1, <1>6 DEF DequeueAndTransmit
  <2> QED
    BY <1>1, <1>6, <2>1, TimerStep
<1> QED
  BY <1>2, <1>3, <1>4, <1>5, <1>6

-----------------------------------------------------------------------------
(* The callers of DequeueAndTransmit *)

(* A queue pair that is added comes last, and was nobody's next before.    *)
LEMMA NextKept ==
  ASSUME NEW n \in NicType, NEW f, NEW m \in NicType, NEW h, NEW p, NextIs(n, f, p),
         m.rrlast = n.rrlast, m.turn = n.turn,
         m.group = n.group \/ \E q \in Qp : m.group = Append(n.group, q) /\ f[q].state = "new",
         \A c \in Qp : f[c].state # "new" => h[c].state # "new"
  PROVE  NextIs(m, h, p)
<1>1. CASE m.group = n.group
  BY <1>1 DEF NextIs, Ahead
<1>2. CASE m.group # n.group
  <2>1. PICK q \in Qp : m.group = Append(n.group, q) /\ f[q].state = "new"
    BY <1>2
  <2>2. /\ Len(n.group) \in Nat /\ DOMAIN n.group = 1..Len(n.group)
        /\ n.group \in Seq(Qp) /\ n.rrlast \in Nat
    BY GroupIs
  <2>3. /\ Len(m.group) = Len(n.group) + 1 /\ m.group[Len(n.group) + 1] = q
        /\ \A i \in 1..Len(n.group) : m.group[i] = n.group[i]
    BY <2>1, <2>2, AppendProperties
  <2>4. DOMAIN m.group = 1..(Len(n.group) + 1)
    BY <2>3, GroupIs
  <2>5. CASE p[1] \in Qp
    <3>1. /\ p[2] \in Qp /\ p[1] # p[2] /\ f[p[2]].state # "new" /\ Ahead(n, p[1], p[2])
      BY <2>5, Constants DEF NextIs
    <3>2. PICK i \in DOMAIN n.group :
            /\ n.group[i] = p[1]
            /\ \A j \in DOMAIN n.group : n.group[j] = p[2] => Before(n.rrlast + 1, i, j)
      BY <3>1 DEF Ahead
    <3>3. i \in DOMAIN m.group /\ m.group[i] = p[1]
      BY <2>2, <2>3, <2>4, <3>2
    <3>4. ASSUME NEW j \in DOMAIN m.group, m.group[j] = p[2] PROVE Before(m.rrlast + 1, i, j)
      <4>1. j # Len(n.group) + 1
        BY <2>1, <2>3, <3>1, <3>4
      <4>2. j \in DOMAIN n.group
        BY <2>2, <2>4, <4>1
      <4>3. n.group[j] = p[2]
        BY <2>2, <2>3, <3>4, <4>2
      <4> QED
        BY <3>2, <4>2, <4>3
    <3>5. m.rrlast < Len(m.group)
      BY <2>2, <2>3, <3>1 DEF Ahead
    <3>6. Ahead(m, p[1], p[2])
      BY <3>3, <3>4, <3>5 DEF Ahead
    <3> QED
      BY <2>5, <3>1, <3>6 DEF NextIs
  <2>6. CASE p[1] \notin Qp
    BY <2>6 DEF NextIs
  <2> QED
    BY <2>5, <2>6
<1> QED
  BY <1>1, <1>2

LEMMA OrderKept ==
  ASSUME NEW n \in NicType, NEW f, InTurn(n, f), NEW m \in NicType, NEW h,
         m.rrlast = n.rrlast, m.turn = n.turn,
         m.group = n.group \/ \E q \in Qp : m.group = Append(n.group, q) /\ f[q].state = "new",
         \A c \in Qp : f[c].state # "new" => h[c].state # "new"
  PROVE  InTurn(m, h)
<1>1. ASSUME NEW p \in passed, NextIs(n, f, p) PROVE NextIs(m, h, p)
  BY <1>1, NextKept
<1> QED
  BY <1>1 DEF InTurn

LEMMA NicChanges ==
  ASSUME NEW n, NEW f, StateOK(n, f), NEW m \in NicType, m.group = n.group
  PROVE  StateOK(m, f)
  BY NotCompacted, CompactedMembers

(* What is finished stays so, whatever arrives. *)
LEMMA QpsChange ==
  ASSUME NEW n, NEW f, StateOK(n, f), Strayed(f), NEW h \in [Qp -> QpType], Numbers(h),
         \A c \in Qp : h[c].state = "new" <=> f[c].state = "new",
         \A c \in Qp : f[c].snd_una <= h[c].snd_una
  PROVE  StateOK(n, h) /\ Strayed(h)
<1>1. ASSUME NEW c \in Qp, IsFinished(f, c) PROVE IsFinished(h, c)
  <2>1. f[c].snd_una \in Nat /\ h[c].snd_una \in Nat /\ m_size[c] \in Nat
    BY Constants DEF StateOK, QpType
  <2> QED
    BY <1>1, <2>1 DEF IsFinished
<1>2. Members(n, h)
  BY <1>1 DEF StateOK, Members
<1> QED
  BY <1>1, <1>2 DEF StateOK, Strayed

(* One queue pair changes. *)
LEMMA OneQpChanges ==
  ASSUME NEW f \in [Qp -> QpType], Numbers(f), NEW q \in Qp, NEW r \in QpType,
         r.snd_nxt <= r.sent, r.snd_una <= r.sent, r.sent <= m_size[q],
         r.state = "new" <=> f[q].state = "new", f[q].snd_una <= r.snd_una,
         NEW h, h = [f EXCEPT ![q] = r]
  PROVE  /\ h \in [Qp -> QpType] /\ Numbers(h)
         /\ \A c \in Qp : h[c].state = "new" <=> f[c].state = "new"
         /\ \A c \in Qp : f[c].snd_una <= h[c].snd_una
<1>1. h \in [Qp -> QpType] /\ h[q] = r /\ \A c \in Qp \ {q} : h[c] = f[c]
  OBVIOUS
<1>2. ASSUME NEW c \in Qp
      PROVE  /\ h[c].snd_nxt <= h[c].sent /\ h[c].snd_una <= h[c].sent /\ h[c].sent <= m_size[c]
             /\ h[c].state = "new" <=> f[c].state = "new"
             /\ f[c].snd_una <= h[c].snd_una
  <2>1. CASE c = q
    BY <1>1, <2>1
  <2>2. CASE c # q
    <3>1. h[c] = f[c] /\ f[c].snd_una \in Nat
      BY <1>1, <2>2 DEF QpType
    <3> QED
      BY <3>1 DEF Numbers
  <2> QED
    BY <2>1, <2>2
<1> QED
  BY <1>1, <1>2 DEF Numbers

(* A call with the device's record changed, its group aside. *)
LEMMA NicCall ==
  ASSUME IInv, NEW n \in NicType, n.group = nic.group, n.rrlast = nic.rrlast, n.turn = nic.turn,
         stopped' = stopped, DequeueAndTransmit(n, qp)
  PROVE  IInv'
<1>1. StateOK(n, qp)
  BY NicChanges DEF IInv
<1>2. InTurn(n, qp)
  BY OrderKept DEF IInv, StateOK
<1> QED
  BY <1>1, <1>2, DequeueStep DEF IInv

(* A call with a queue pair changed. *)
LEMMA QpCall ==
  ASSUME IInv, NEW q \in Qp, NEW r \in QpType,
         r.snd_nxt <= r.sent, r.snd_una <= r.sent, r.sent <= m_size[q],
         r.state = "new" <=> qp[q].state = "new", qp[q].snd_una <= r.snd_una,
         stopped' = stopped, DequeueAndTransmit(nic, [qp EXCEPT ![q] = r])
  PROVE  IInv'
<1>1. PICK h : h = [qp EXCEPT ![q] = r]
  OBVIOUS
<1>2. /\ h \in [Qp -> QpType] /\ Numbers(h)
      /\ \A c \in Qp : h[c].state = "new" <=> qp[c].state = "new"
      /\ \A c \in Qp : qp[c].snd_una <= h[c].snd_una
  BY <1>1, OneQpChanges DEF IInv, StateOK
<1>3. StateOK(nic, h) /\ Strayed(h)
  BY <1>2, QpsChange DEF IInv
<1>4. InTurn(nic, h)
  BY <1>2, OrderKept DEF IInv, StateOK
<1> QED
  BY <1>1, <1>3, <1>4, DequeueStep DEF IInv

LEMMA AddQueuePairStep ==
  ASSUME IInv, AddQueuePair
  PROVE  IInv'
<1>1. PICK i \in DOMAIN Flows :
        /\ qp[Flows[i]].state = "new" /\ nic.control < MaxControl
        /\ DequeueAndTransmit([nic EXCEPT !.group = Append(@, Flows[i]), !.control = @ + 1],
                              [qp EXCEPT ![Flows[i]].state = "added"])
        /\ UNCHANGED stopped
  BY DEF AddQueuePair
<1>2. PICK q \in Qp : q = Flows[i]
  BY DEF Qp, Elements
<1>3. /\ nic \in NicType /\ qp \in [Qp -> QpType] /\ Numbers(qp) /\ Members(nic, qp)
      /\ nic.control + 1 \in 0..MaxControl
  BY <1>1, Constants DEF IInv, StateOK, NicType
<1>4. PICK g, x : g = Append(nic.group, q) /\ x = nic.control + 1
  OBVIOUS
<1>5. nic.group \in Seq(Qp) /\ DOMAIN nic.group = 1..Len(nic.group) /\ Len(nic.group) \in Nat
  BY <1>3, GroupIs
<1>6. /\ g \in Seq(Qp) /\ DOMAIN g = 1..(Len(nic.group) + 1)
      /\ g[Len(nic.group) + 1] = q /\ \A k \in DOMAIN nic.group : g[k] = nic.group[k]
  BY <1>4, <1>5, AppendProperties, LenProperties
<1>7. PICK m : m = [nic EXCEPT !.group = g, !.control = x]
  OBVIOUS
<1>8. m = [nic EXCEPT !.group = Append(@, q), !.control = @ + 1]
  BY <1>3, <1>4, <1>7 DEF NicType
<1>9. /\ m \in NicType /\ m.group = g /\ m.rrlast = nic.rrlast /\ m.turn = nic.turn
  <2>1. PICK G : G = Seq(Qp)
    OBVIOUS
  <2>2. g \in G /\ x \in 0..MaxControl
    BY <1>3, <1>4, <1>6, <2>1
  <2> QED
    BY <1>3, <1>7, <2>1, <2>2 DEF NicType
<1>10. PICK r : r = [qp[q] EXCEPT !.state = "added"]
  OBVIOUS
<1>11. PICK h : h = [qp EXCEPT ![q] = r]
  OBVIOUS
<1>12. h = [qp EXCEPT ![q].state = "added"]
  BY <1>10, <1>11
<1>13. /\ r \in QpType /\ r.state = "added" /\ r.snd_una = qp[q].snd_una
       /\ r.snd_nxt = qp[q].snd_nxt /\ r.sent = qp[q].sent
  BY <1>3, <1>10 DEF QpType
<1>14. /\ h \in [Qp -> QpType] /\ h[q] = r /\ \A c \in Qp \ {q} : h[c] = qp[c]
  BY <1>3, <1>11, <1>13
<1>15. \A c \in Qp : /\ h[c].snd_una = qp[c].snd_una /\ h[c].snd_nxt = qp[c].snd_nxt
                     /\ h[c].sent = qp[c].sent
  BY <1>13, <1>14
<1>16. Numbers(h)
  BY <1>3, <1>15 DEF Numbers
<1>17. \A c \in Qp : IsFinished(h, c) <=> IsFinished(qp, c)
  BY <1>15 DEF IsFinished
<1>18. Elements(g) = Elements(nic.group) \cup {q}
  BY <1>5, <1>6 DEF Elements
<1>19. Members(m, h)
  <2>1. q \notin Elements(nic.group)
    BY <1>1, <1>2, <1>3 DEF Members
  <2>2. Distinct(g)
    <3> SUFFICES ASSUME NEW k \in DOMAIN g, NEW l \in DOMAIN g, g[k] = g[l] PROVE k = l
      BY DEF Distinct
    <3>1. \A o \in DOMAIN nic.group : g[o] # q
      BY <1>6, <2>1 DEF Elements
    <3>2. \A o \in DOMAIN g : o \in DOMAIN nic.group \/ o = Len(nic.group) + 1
      BY <1>5, <1>6
    <3>3. CASE k \in DOMAIN nic.group /\ l \in DOMAIN nic.group
      BY <1>3, <1>6, <3>3 DEF Members, Distinct
    <3> QED
      BY <1>6, <3>1, <3>2, <3>3
  <2>3. ASSUME NEW c \in Qp, h[c].state = "new" PROVE c \notin Elements(g)
    <3>1. c # q /\ qp[c].state = "new"
      BY <1>13, <1>14, <2>3
    <3> QED
      BY <1>3, <1>18, <3>1 DEF Members
  <2>4. ASSUME NEW c \in Qp, h[c].state # "new", ~IsFinished(h, c) PROVE c \in Elements(g)
    <3>1. CASE c = q
      BY <1>18, <3>1
    <3>2. CASE c # q
      <4>1. qp[c].state # "new" /\ ~IsFinished(qp, c)
        BY <1>14, <1>17, <2>4, <3>2
      <4> QED
        BY <1>3, <1>18, <4>1 DEF Members
    <3> QED
      BY <3>1, <3>2
  <2> QED
    BY <1>9, <2>2, <2>3, <2>4 DEF Members
<1>20. StateOK(m, h)
  BY <1>9, <1>14, <1>16, <1>19 DEF StateOK
<1>21. InTurn(m, h)
  <2>1. \E c \in Qp : m.group = Append(nic.group, c) /\ qp[c].state = "new"
    BY <1>1, <1>2, <1>4, <1>9
  <2>2. \A c \in Qp : qp[c].state # "new" => h[c].state # "new"
    BY <1>13, <1>14
  <2> QED
    BY <1>3, <1>9, <2>1, <2>2, OrderKept DEF IInv
<1>22. Strayed(h)
  BY <1>17 DEF IInv, Strayed
<1>23. DequeueAndTransmit(m, h) /\ stopped' = stopped
  BY <1>1, <1>2, <1>8, <1>12
<1> QED
  BY <1>20, <1>21, <1>22, <1>23, DequeueStep DEF IInv

LEMMA NewQpStep ==
  ASSUME IInv, NEW q \in Qp, NewQp(q)
  PROVE  IInv'
<1>1. PICK r : r = [qp[q] EXCEPT !.state = "connected", !.avail = 0]
  OBVIOUS
<1>2. DequeueAndTransmit(nic, [qp EXCEPT ![q] = r]) /\ stopped' = stopped
  BY <1>1 DEF NewQp
<1>3. qp[q] \in QpType /\ Numbers(qp)
  BY DEF IInv, StateOK
<1>4. /\ r \in QpType /\ r.state = "connected" /\ r.snd_una = qp[q].snd_una
      /\ r.snd_nxt = qp[q].snd_nxt /\ r.sent = qp[q].sent
  <2>1. PICK st, t : st = "connected" /\ t = 0
    OBVIOUS
  <2>2. st \in {"new", "added", "connected", "complete"} /\ t \in 0..MaxGap
    BY <2>1, Constants
  <2>3. r = [qp[q] EXCEPT !.state = st, !.avail = t]
    BY <1>1, <2>1
  <2>4. /\ r \in QpType /\ r.state = st /\ r.snd_una = qp[q].snd_una
        /\ r.snd_nxt = qp[q].snd_nxt /\ r.sent = qp[q].sent
    BY <1>3, <2>2, <2>3 DEF QpType
  <2> QED
    BY <2>1, <2>4
<1>5. qp[q].state # "new" /\ qp[q].snd_una <= qp[q].snd_una
  <2>1. qp[q].state = "added"
    BY DEF NewQp
  <2>2. qp[q].snd_una \in Nat
    BY <1>3 DEF QpType
  <2> QED
    BY <2>1, <2>2
<1>6. r.snd_nxt <= r.sent /\ r.snd_una <= r.sent /\ r.sent <= m_size[q]
  BY <1>3, <1>4 DEF Numbers
<1>7. (r.state = "new" <=> qp[q].state = "new") /\ qp[q].snd_una <= r.snd_una
  BY <1>4, <1>5
<1> QED
  BY <1>2, <1>4, <1>6, <1>7, QpCall

LEMMA ReceiveAckStep ==
  ASSUME IInv, NEW q \in Qp, ReceiveAck(q)
  PROVE  IInv'
<1>1. qp \in [Qp -> QpType] /\ qp[q] \in QpType /\ Numbers(qp)
  BY DEF IInv, StateOK
<1>2. PICK una \in qp[q].snd_una..qp[q].sent, nack \in BOOLEAN :
        LET f == [qp EXCEPT ![q].snd_una = una, ![q].snd_nxt = IF nack THEN una ELSE @]
            g == IF IsFinished(f, q) THEN [f EXCEPT ![q].state = "complete"] ELSE f IN
        DequeueAndTransmit(nic, g)
  BY DEF ReceiveAck
<1>3. PICK nxt : nxt = IF nack THEN una ELSE qp[q].snd_nxt
  OBVIOUS
<1>4. PICK a : a = [qp[q] EXCEPT !.snd_una = una, !.snd_nxt = nxt]
  OBVIOUS
<1>5. PICK f : f = [qp EXCEPT ![q] = a]
  OBVIOUS
<1>6. f = [qp EXCEPT ![q].snd_una = una, ![q].snd_nxt = IF nack THEN una ELSE @]
  BY <1>3, <1>4, <1>5
<1>7. PICK r : r = IF IsFinished(f, q) THEN [a EXCEPT !.state = "complete"] ELSE a
  OBVIOUS
<1>8. /\ qp[q].snd_una \in Nat /\ qp[q].sent \in Nat /\ qp[q].snd_nxt \in Nat
      /\ qp[q].snd_nxt <= qp[q].sent /\ qp[q].sent <= m_size[q]
  BY <1>1 DEF QpType, Numbers
<1>9. una \in Nat /\ nxt \in Nat /\ una <= qp[q].sent /\ nxt <= qp[q].sent /\ qp[q].snd_una <= una
  BY <1>2, <1>3, <1>8
<1>10. /\ a \in QpType /\ a.snd_una = una /\ a.snd_nxt = nxt /\ a.sent = qp[q].sent
       /\ a.state = qp[q].state
  BY <1>1, <1>4, <1>9 DEF QpType
<1>11. /\ r \in QpType /\ r.snd_una = una /\ r.snd_nxt = nxt /\ r.sent = qp[q].sent
       /\ r.state \in {"complete", qp[q].state}
  BY <1>7, <1>10 DEF QpType
<1>12. qp[q].state # "new" /\ r.state # "new"
  BY <1>11 DEF ReceiveAck
<1>13. DequeueAndTransmit(nic, [qp EXCEPT ![q] = r])
  <2>1. [f EXCEPT ![q].state = "complete"] = [qp EXCEPT ![q] = [a EXCEPT !.state = "complete"]]
    BY <1>1, <1>5
  <2>2. DequeueAndTransmit(nic, IF IsFinished(f, q) THEN [f EXCEPT ![q].state = "complete"] ELSE f)
    BY <1>2, <1>6
  <2>3. [qp EXCEPT ![q] = r] = IF IsFinished(f, q) THEN [f EXCEPT ![q].state = "complete"] ELSE f
    BY <1>5, <1>7, <2>1
  <2> QED
    BY <2>2, <2>3
<1>14. stopped' = stopped
  BY DEF ReceiveAck
<1> QED
  BY <1>8, <1>9, <1>11, <1>12, <1>13, <1>14, QpCall

LEMMA NicCallsStep ==
  ASSUME IInv,
         \/ EnqueueControl \/ Send \/ TransmitComplete \/ SendTimer
         \/ \E p \in Pausable : Resume(p)
  PROVE  IInv'
<1>1. nic \in NicType
  BY DEF IInv, StateOK
<1>2. CASE EnqueueControl
  <2>1. PICK x : x = nic.control + 1
    OBVIOUS
  <2>2. PICK n : n = [nic EXCEPT !.control = x]
    OBVIOUS
  <2>3. x \in 0..MaxControl
    BY <1>1, <1>2, <2>1, Constants DEF NicType, EnqueueControl
  <2>4. n \in NicType /\ n.group = nic.group /\ n.rrlast = nic.rrlast /\ n.turn = nic.turn
    BY <1>1, <2>2, <2>3 DEF NicType
  <2>5. DequeueAndTransmit(n, qp) /\ stopped' = stopped
    BY <1>2, <2>1, <2>2 DEF EnqueueControl
  <2> QED
    BY <2>4, <2>5, NicCall
<1>3. CASE Send
  <2>1. PICK x : x = nic.tcp + 1
    OBVIOUS
  <2>2. PICK n : n = [nic EXCEPT !.tcp = x]
    OBVIOUS
  <2>3. x \in 0..MaxTcp
    BY <1>1, <1>3, <2>1, Constants DEF NicType, Send
  <2>4. n \in NicType /\ n.group = nic.group /\ n.rrlast = nic.rrlast /\ n.turn = nic.turn
    BY <1>1, <2>2, <2>3 DEF NicType
  <2>5. DequeueAndTransmit(n, qp) /\ stopped' = stopped
    BY <1>3, <2>1, <2>2 DEF Send
  <2> QED
    BY <2>4, <2>5, NicCall
<1>4. CASE TransmitComplete
  <2>1. PICK n : n = [nic EXCEPT !.tx = Off]
    OBVIOUS
  <2>2. n \in NicType /\ n.group = nic.group /\ n.rrlast = nic.rrlast /\ n.turn = nic.turn
    BY <1>1, <2>1 DEF NicType
  <2>3. DequeueAndTransmit(n, qp) /\ stopped' = stopped
    BY <1>4, <2>1 DEF TransmitComplete
  <2> QED
    BY <2>2, <2>3, NicCall
<1>5. CASE SendTimer
  <2>1. PICK n : n = [nic EXCEPT !.nextSend = Off]
    OBVIOUS
  <2>2. n \in NicType /\ n.group = nic.group /\ n.rrlast = nic.rrlast /\ n.turn = nic.turn
    BY <1>1, <2>1 DEF NicType
  <2>3. DequeueAndTransmit(n, qp) /\ stopped' = stopped
    BY <1>5, <2>1 DEF SendTimer
  <2> QED
    BY <2>2, <2>3, NicCall
<1>6. ASSUME NEW p \in Pausable, Resume(p) PROVE IInv'
  <2>1. PICK x : x = nic.paused \ {p}
    OBVIOUS
  <2>2. PICK n : n = [nic EXCEPT !.paused = x]
    OBVIOUS
  <2>3. x \in SUBSET Pausable
    BY <1>1, <2>1 DEF NicType
  <2>4. n \in NicType /\ n.group = nic.group /\ n.rrlast = nic.rrlast /\ n.turn = nic.turn
    BY <1>1, <2>2, <2>3 DEF NicType
  <2>5. DequeueAndTransmit(n, qp) /\ stopped' = stopped
    BY <1>6, <2>1, <2>2 DEF Resume
  <2> QED
    BY <2>4, <2>5, NicCall
<1> QED
  BY <1>2, <1>3, <1>4, <1>5, <1>6

(* Steps without a call: nobody is served, and the turns stay what they were. *)
LEMMA NoCall ==
  ASSUME IInv, NEW m \in NicType, NEW h, nic' = m, qp' = h, Remember(nic, qp, None),
         stopped' = stopped, astray' = astray,
         m.group = nic.group, m.rrlast = nic.rrlast, m.turn = nic.turn,
         h \in [Qp -> QpType], Numbers(h),
         \A c \in Qp : h[c].state = qp[c].state /\ h[c].snd_una = qp[c].snd_una,
         Conserving(m, h)
  PROVE  IInv'
<1>1. nic \in NicType /\ qp \in [Qp -> QpType]
  BY DEF IInv, StateOK
<1>2. \A c \in Qp : qp[c].snd_una <= h[c].snd_una
  BY <1>1 DEF QpType
<1>3. StateOK(nic, h) /\ Strayed(h)
  BY <1>2, QpsChange DEF IInv
<1>4. StateOK(m, h)
  BY <1>3, NicChanges
<1>5. ASSUME NEW p \in passed, NextIs(nic, qp, p) PROVE NextIs(m, h, p)
  BY <1>1, <1>5, NextKept
<1>6. astray' = {} => twice' = {} /\ \A p \in passed' : NextIs(m, h, p)
  BY <1>5, NobodyServed DEF IInv
<1> QED
  BY <1>3, <1>4, <1>6, Landed DEF IInv, Strayed

LEMMA PauseStep ==
  ASSUME IInv, NEW p \in Pausable, Pause(p)
  PROVE  IInv'
<1>1. nic \in NicType /\ qp \in [Qp -> QpType] /\ Numbers(qp)
  BY DEF IInv, StateOK
<1>2. PICK x : x = nic.paused \cup {p}
  OBVIOUS
<1>3. PICK m : m = [nic EXCEPT !.paused = x]
  OBVIOUS
<1>4. x \in SUBSET Pausable
  BY <1>1, <1>2 DEF NicType
<1>5. /\ m \in NicType /\ m.group = nic.group /\ m.rrlast = nic.rrlast /\ m.turn = nic.turn
      /\ m.tx = nic.tx /\ m.control = nic.control /\ m.tcp = nic.tcp
      /\ m.nextSend = nic.nextSend /\ m.paused = x
  BY <1>1, <1>3, <1>4 DEF NicType
<1>6. /\ nic' = m /\ qp' = qp /\ Remember(nic, qp, None)
      /\ stopped' = stopped /\ astray' = astray
  BY <1>2, <1>3 DEF Pause
<1>7. Conserving(m, qp)
  <2>1. \A c : Sendable(m, qp, c) => Sendable(nic, qp, c)
    BY <1>2, <1>5 DEF Sendable
  <2>2. ControlFirst(m) => ControlFirst(nic)
    BY <1>2, <1>5 DEF ControlFirst
  <2> QED
    BY <1>2, <1>5, <2>1, <2>2 DEF IInv, Conserving
<1> QED
  BY <1>1, <1>5, <1>6, <1>7, NoCall

LEMMA ChangeRateStep ==
  ASSUME IInv, NEW q \in Qp, ChangeRate(q)
  PROVE  IInv'
<1>1. nic \in NicType /\ qp \in [Qp -> QpType] /\ Numbers(qp) /\ nic.group \in Seq(Qp)
  BY DEF IInv, StateOK, NicType
<1>2. PICK t \in 0..MaxGap :
        /\ qp' = [qp EXCEPT ![q].avail = t]
        /\ nic' = [nic EXCEPT !.nextSend = IF @ # Off /\ t < @ THEN t ELSE @]
  BY DEF ChangeRate
<1>3. PICK x : x = IF nic.nextSend # Off /\ t < nic.nextSend THEN t ELSE nic.nextSend
  OBVIOUS
<1>4. PICK m : m = [nic EXCEPT !.nextSend = x]
  OBVIOUS
<1>5. nic.nextSend \in {Off} \cup 0..MaxGap
  BY <1>1 DEF NicType
<1>6. /\ x \in {Off} \cup 0..MaxGap
      /\ nic.nextSend # Off => x # Off /\ x <= t /\ x <= nic.nextSend
  BY <1>3, <1>5, Constants DEF Off
<1>7. /\ m \in NicType /\ m.group = nic.group /\ m.rrlast = nic.rrlast /\ m.turn = nic.turn
      /\ m.tx = nic.tx /\ m.control = nic.control /\ m.tcp = nic.tcp
      /\ m.nextSend = x /\ m.paused = nic.paused
  BY <1>1, <1>4, <1>6 DEF NicType
<1>8. PICK r : r = [qp[q] EXCEPT !.avail = t]
  OBVIOUS
<1>9. PICK h : h = [qp EXCEPT ![q] = r]
  OBVIOUS
<1>10. /\ r \in QpType /\ r.avail = t /\ r.state = qp[q].state /\ r.snd_una = qp[q].snd_una
       /\ r.snd_nxt = qp[q].snd_nxt /\ r.sent = qp[q].sent
  BY <1>1, <1>8 DEF QpType
<1>11. h \in [Qp -> QpType] /\ h[q] = r /\ \A c \in Qp \ {q} : h[c] = qp[c]
  BY <1>1, <1>9, <1>10
<1>12. \A c \in Qp : /\ h[c].state = qp[c].state /\ h[c].snd_una = qp[c].snd_una
                     /\ h[c].snd_nxt = qp[c].snd_nxt /\ h[c].sent = qp[c].sent
  BY <1>10, <1>11
<1>13. Numbers(h)
  BY <1>1, <1>12 DEF Numbers
<1>14. nic' = m /\ qp' = h
  BY <1>2, <1>3, <1>4, <1>8, <1>9
<1>15. Conserving(m, h)
  <2>1. Elements(nic.group) \subseteq Qp
    BY <1>1, GroupIs DEF Elements
  <2>2. ASSUME NEW c \in Elements(nic.group), nic.tx = Off, nic.tcp = 0, Sendable(m, h, c)
        PROVE  m.nextSend # Off /\ m.nextSend <= h[c].avail
    <3>1. c \in Qp
      BY <2>1
    <3>2. Sendable(nic, qp, c)
      BY <1>7, <1>12, <2>2, <3>1 DEF Sendable, GetBytesLeft, IsWinBound
    <3>3. nic.nextSend # Off /\ nic.nextSend <= qp[c].avail
      BY <2>2, <3>2 DEF IInv, Conserving
    <3>4. CASE c = q
      BY <1>6, <1>7, <1>10, <1>11, <3>3, <3>4
    <3>5. CASE c # q
      <4>1. h[c].avail = qp[c].avail /\ qp[c].avail \in 0..MaxGap
        BY <1>1, <1>11, <3>1, <3>5 DEF QpType
      <4> QED
        BY <1>5, <1>6, <1>7, <3>3, <4>1, Constants DEF Off
    <3> QED
      BY <3>4, <3>5
  <2> QED
    BY <1>7, <2>2 DEF IInv, Conserving, ControlFirst
<1>16. Remember(nic, qp, None) /\ stopped' = stopped /\ astray' = astray
  BY DEF ChangeRate
<1> QED
  BY <1>7, <1>11, <1>12, <1>13, <1>14, <1>15, <1>16, NoCall

LEMMA TickStep ==
  ASSUME IInv, Tick
  PROVE  IInv'
<1>1. nic \in NicType /\ qp \in [Qp -> QpType] /\ Numbers(qp) /\ nic.group \in Seq(Qp)
  BY DEF IInv, StateOK, NicType
<1>2. PICK x, y : x = Less(nic.tx) /\ y = Less(nic.nextSend)
  OBVIOUS
<1>3. PICK m : m = [nic EXCEPT !.tx = x, !.nextSend = y]
  OBVIOUS
<1>4. nic.tx \in {Off, 0, 1} /\ nic.nextSend \in {Off} \cup 0..MaxGap
  BY <1>1 DEF NicType
<1>5. x \in {Off, 0, 1} /\ y \in {Off} \cup 0..MaxGap /\ (x = Off => nic.tx = Off)
  BY <1>2, <1>4, Constants DEF Less, Off
<1>6. /\ m \in NicType /\ m.group = nic.group /\ m.rrlast = nic.rrlast /\ m.turn = nic.turn
      /\ m.tx = x /\ m.control = nic.control /\ m.tcp = nic.tcp
      /\ m.nextSend = y /\ m.paused = nic.paused
  BY <1>1, <1>3, <1>5 DEF NicType
<1>7. PICK h : h = [q \in Qp |-> [qp[q] EXCEPT !.avail = Less(@)]]
  OBVIOUS
<1>8. \A c \in Qp : /\ h[c] \in QpType /\ h[c].avail = Less(qp[c].avail)
                    /\ h[c].state = qp[c].state /\ h[c].snd_una = qp[c].snd_una
                    /\ h[c].snd_nxt = qp[c].snd_nxt /\ h[c].sent = qp[c].sent
  <2> SUFFICES ASSUME NEW c \in Qp
               PROVE  /\ h[c] \in QpType /\ h[c].avail = Less(qp[c].avail)
                      /\ h[c].state = qp[c].state /\ h[c].snd_una = qp[c].snd_una
                      /\ h[c].snd_nxt = qp[c].snd_nxt /\ h[c].sent = qp[c].sent
    OBVIOUS
  <2>1. PICK t : t = Less(qp[c].avail)
    OBVIOUS
  <2>2. qp[c] \in QpType /\ t \in 0..MaxGap
    BY <1>1, <2>1, Constants DEF QpType, Less
  <2>3. h[c] = [qp[c] EXCEPT !.avail = t]
    BY <1>7, <2>1
  <2> QED
    BY <2>1, <2>2, <2>3 DEF QpType
<1>9. h \in [Qp -> QpType] /\ Numbers(h)
  BY <1>1, <1>7, <1>8 DEF Numbers
<1>10. nic' = m /\ qp' = h
  BY <1>2, <1>3, <1>7 DEF Tick
<1>11. Conserving(m, h)
  <2>1. Elements(nic.group) \subseteq Qp
    BY <1>1, GroupIs DEF Elements
  <2>2. ASSUME NEW c \in Elements(nic.group), nic.tx = Off, nic.tcp = 0, Sendable(m, h, c)
        PROVE  m.nextSend # Off /\ m.nextSend <= h[c].avail
    <3>1. c \in Qp /\ nic.nextSend # 0
      BY <2>1 DEF Tick
    <3>2. Sendable(nic, qp, c)
      BY <1>6, <1>8, <2>2, <3>1 DEF Sendable, GetBytesLeft, IsWinBound
    <3>3. nic.nextSend # Off /\ nic.nextSend <= qp[c].avail
      BY <2>2, <3>2 DEF IInv, Conserving
    <3>4. h[c].avail = Less(qp[c].avail) /\ qp[c].avail \in 0..MaxGap
      BY <1>1, <1>8, <3>1 DEF QpType
    <3> QED
      BY <1>2, <1>4, <1>6, <3>1, <3>3, <3>4, Constants DEF Less, Off
  <2> QED
    BY <1>5, <1>6, <2>2 DEF IInv, Conserving, ControlFirst
<1>12. Remember(nic, qp, None) /\ stopped' = stopped /\ astray' = astray
  BY DEF Tick
<1> QED
  BY <1>6, <1>8, <1>9, <1>10, <1>11, <1>12, NoCall

LEMMA StopTimeStep ==
  ASSUME IInv, NEW q \in Stopping, StopTime(q)
  PROVE  IInv'
<1>1. /\ nic' = nic /\ qp' = qp /\ passed' = passed /\ twice' = twice /\ astray' = astray
      /\ stopped' = stopped \cup {q}
  BY DEF StopTime
<1>2. \A c \in Qp : IsFinished(qp, c) => IsFinished(qp, c)'
  BY <1>1 DEF IsFinished
<1>3. StateOK(nic, qp)'
  <2>1. Members(nic, qp)'
    BY <1>1, <1>2 DEF IInv, StateOK, Members
  <2> QED
    BY <1>1, <2>1 DEF IInv, StateOK
<1>4. Conserving(nic, qp)'
  BY <1>1 DEF IInv
<1>5. InTurn(nic, qp)'
  BY <1>1 DEF IInv, InTurn
<1>6. Strayed(qp)'
  BY <1>1, <1>2 DEF IInv, Strayed
<1> QED
  BY <1>1, <1>3, <1>4, <1>5, <1>6 DEF IInv

-----------------------------------------------------------------------------
(* The theorems *)

LEMMA InitOK ==
  ASSUME Init
  PROVE  IInv
<1>1. /\ nic.group = <<>> /\ nic.tx = Off /\ nic.control = 0 /\ nic.tcp = 0
      /\ nic \in NicType
  <2>1. <<>> \in Seq(Qp)
    BY EmptySeq
  <2>2. PICK g, x : g = <<>> /\ x = Off
    OBVIOUS
  <2>3. PICK G : G = Seq(Qp)
    OBVIOUS
  <2>4. /\ nic = [group |-> g, rrlast |-> 0, turn |-> 0, control |-> 0, tcp |-> 0,
                  paused |-> {}, tx |-> x, nextSend |-> x]
        /\ g \in G
    BY <2>1, <2>2, <2>3 DEF Init
  <2>5. 0 \in 0..MaxControl /\ 0 \in 0..MaxTcp /\ 0 \in 0..1 /\ {} \in SUBSET Pausable
    BY Constants
  <2>6. nic \in NicType
    BY <2>2, <2>3, <2>4, <2>5 DEF NicType
  <2> QED
    BY <2>2, <2>4, <2>6
<1>2. qp \in [Qp -> QpType] /\ \A q \in Qp : qp[q] = NewQueuePair
  BY Constants DEF Init, NewQueuePair, QpType
<1>3. Numbers(qp)
  BY <1>2, Constants DEF Numbers, NewQueuePair
<1>4. Elements(nic.group) = {}
  BY <1>1 DEF Elements
<1>5. Members(nic, qp)
  BY <1>1, <1>2, <1>4 DEF Members, Distinct, NewQueuePair
<1>6. Conserving(nic, qp)
  BY <1>1, <1>4 DEF Conserving, ControlFirst
<1>7. InTurn(nic, qp) /\ Strayed(qp) /\ stopped \subseteq Stopping
  BY DEF Init, InTurn, Strayed
<1> QED
  BY <1>1, <1>2, <1>3, <1>5, <1>6, <1>7 DEF IInv, StateOK

LEMMA NextOK ==
  ASSUME IInv, [Next]_vars
  PROVE  IInv'
<1>1. CASE AddQueuePair
  BY <1>1, AddQueuePairStep
<1>2. CASE EnqueueControl \/ Send \/ TransmitComplete \/ SendTimer
  BY <1>2, NicCallsStep
<1>3. ASSUME NEW q \in Qp, NewQp(q) \/ ReceiveAck(q) \/ ChangeRate(q) PROVE IInv'
  BY <1>3, NewQpStep, ReceiveAckStep, ChangeRateStep
<1>4. ASSUME NEW q \in Stopping, StopTime(q) PROVE IInv'
  BY <1>4, StopTimeStep
<1>5. ASSUME NEW p \in Pausable, Pause(p) \/ Resume(p) PROVE IInv'
  BY <1>5, PauseStep, NicCallsStep
<1>6. CASE Tick
  BY <1>6, TickStep
<1>7. CASE UNCHANGED vars
  BY <1>7 DEF vars, IInv, StateOK, Members, IsFinished, Conserving, InTurn, Strayed, NextIs
<1> QED
  BY <1>1, <1>2, <1>3, <1>4, <1>5, <1>6, <1>7 DEF Next

(* Whatever the queue pairs, the priorities and the bounds, every call of  *)
(* DequeueAndTransmit and every event between two calls keeps the          *)
(* invariant: what is in the group, what a timer is due for, and who of    *)
(* two that wait comes first.                                              *)
THEOREM InvariantHolds == Spec => []IInv
<1>1. Init => IInv
  BY InitOK
<1>2. IInv /\ [Next]_vars => IInv'
  BY NextOK
<1> QED
  BY <1>1, <1>2, PTL DEF Spec

(* Sequence numbers stay below what was sent and that below the flow's     *)
(* size, through go-back-N, completion and stop times.                     *)
THEOREM TypeCorrect == Spec => []TypeOK
<1>1. IInv => TypeOK
  BY Constants DEF IInv, StateOK, Numbers, Strayed, TypeOK
<1> QED
  BY <1>1, InvariantHolds, PTL

(* RdmaEgressQueue::GetNextQindex clears finished queue pairs out of its   *)
(* group while it scans: it loses no other and duplicates none.            *)
THEOREM QpsAlwaysKept == Spec => []QpsKept
<1>1. IInv => QpsKept
  BY DEF IInv, StateOK, Members, Distinct, QpsKept
<1> QED
  BY <1>1, InvariantHolds, PTL

(* QbbNetDevice::DequeueAndTransmit never leaves the device asleep with    *)
(* something to send and no event due for it.                              *)
THEOREM AlwaysWorkConserving == Spec => []WorkConserving
<1>1. IInv => WorkConserving
  BY DEF IInv, Conserving, WorkConserving
<1> QED
  BY <1>1, InvariantHolds, PTL

(* The round robin over queue pairs and the turns of TCP starve nobody,    *)
(* for any number of queue pairs, although the scan removes some of them.  *)
THEOREM AlwaysEverybodyInTurn == Spec => []EverybodyInTurn
<1>1. IInv => EverybodyInTurn
  BY DEF IInv, InTurn, EverybodyInTurn
<1> QED
  BY <1>1, InvariantHolds, PTL

(* "update res to the idx after removing finished qp" is right for every   *)
(* group and every set of finished queue pairs, the one chosen aside.      *)
THEOREM AlwaysChosenIsServed == Spec => []ChosenIsServed
<1>1. IInv => ChosenIsServed
  BY DEF IInv, Strayed, ChosenIsServed
<1> QED
  BY <1>1, InvariantHolds, PTL
=============================================================================
