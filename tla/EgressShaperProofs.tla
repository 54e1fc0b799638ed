------------------------- MODULE EgressShaperProofs -------------------------
(***************************************************************************)
(* Budgets are exact, no wake-up is lost and everybody has a turn, for any *)
(* number of queues and groups, any rates, sizes and bursts.               *)
(***************************************************************************)
EXTENDS EgressShaper, FiniteSetTheorems, SequenceTheorems, WellFoundedInduction, TLAPS

-----------------------------------------------------------------------------
(* Naturals, and sequences *)

(* A set of naturals that is not empty has a least element. *)
LEMMA LeastNatural ==
  ASSUME NEW S \in SUBSET Nat, S # {}
  PROVE  /\ Min(S) \in S
         /\ \A x \in S : Min(S) <= x
<1> DEFINE R == OpToRel(<, Nat)
<1>1. IsWellFoundedOn(R, Nat)
  BY NatLessThanWellFounded
<1>2. \E x \in S : \A y \in S : ~(<<y, x>> \in R)
  <2> HIDE DEF R
  <2> QED BY <1>1, WFMin
<1>3. \A x, y \in Nat : <<y, x>> \in R <=> y < x
  BY DEF OpToRel
<1>4. PICK x \in S : \A y \in S : ~(<<y, x>> \in R)
  BY <1>2
<1>5. ASSUME NEW y \in S PROVE x <= y
  <2>1. ~(y < x)
    BY <1>3, <1>4
  <2> QED
    BY <2>1
<1> QED
  BY <1>5 DEF Min

(* A place in a ring of n, counted from another one *)
LEMMA Mods ==
  ASSUME NEW n \in Nat \ {0}, NEW x \in 0..(n-1), NEW y \in 0..(n-1)
  PROVE  (x - y) % n = IF x >= y THEN x - y ELSE x - y + n
  OBVIOUS

LEMMA Divs ==
  ASSUME NEW x \in Nat \ {0}, NEW y \in Nat \ {0}, NEW t \in Nat
  PROVE  /\ (x + y - 1) \div y \in 1..x
         /\ t <= (x + y - 1) \div y <=> y * t < x + y
  OBVIOUS

LEMMA AtRemoved ==
  ASSUME NEW S, NEW s \in Seq(S), NEW i \in 1..Len(s)
  PROVE  /\ RemoveAt(s, i) \in Seq(S)
         /\ Len(RemoveAt(s, i)) = Len(s) - 1
         /\ \A j \in 1..(Len(s) - 1) : RemoveAt(s, i)[j] = s[IF j < i THEN j ELSE j + 1]
<1>1. Len(s) \in Nat /\ i \in Nat
  BY LenProperties
<1> DEFINE a == SubSeq(s, 1, i - 1)
           b == SubSeq(s, i + 1, Len(s))
<1>2. /\ a \in Seq(S) /\ Len(a) = i - 1
      /\ \A j \in 1..(i - 1) : a[j] = s[j]
  BY <1>1, SubSeqProperties
<1>3. /\ b \in Seq(S) /\ Len(b) = Len(s) - i
      /\ \A j \in 1..(Len(s) - i) : b[j] = s[i + j]
  BY <1>1, SubSeqProperties
<1> HIDE DEF a, b
<1>4. /\ a \o b \in Seq(S) /\ Len(a \o b) = Len(s) - 1
      /\ \A j \in 1..(Len(s) - 1) : (a \o b)[j] = IF j < i THEN a[j] ELSE b[j - (i - 1)]
  <2>1. /\ a \o b \in Seq(S) /\ Len(a \o b) = Len(a) + Len(b)
        /\ \A j \in 1..(Len(a) + Len(b)) :
             (a \o b)[j] = IF j <= Len(a) THEN a[j] ELSE b[j - Len(a)]
    BY <1>2, <1>3, ConcatProperties
  <2>2. Len(a) + Len(b) = Len(s) - 1
    BY <1>1, <1>2, <1>3
  <2>3. \A j \in 1..(Len(s) - 1) : j <= i - 1 <=> j < i
    BY <1>1
  <2> QED
    BY <2>1, <2>2, <2>3, <1>2
<1>5. ASSUME NEW j \in 1..(Len(s) - 1)
      PROVE  (a \o b)[j] = s[IF j < i THEN j ELSE j + 1]
  <2>1. CASE j < i
    BY <2>1, <1>1, <1>2, <1>4
  <2>2. CASE ~(j < i)
    <3>1. (a \o b)[j] = b[j - (i - 1)]
      BY <2>2, <1>4
    <3>2. j - (i - 1) \in 1..(Len(s) - i) /\ i + (j - (i - 1)) = j + 1
      BY <2>2, <1>1
    <3> QED
      BY <2>2, <3>1, <3>2, <1>3
  <2> QED
    BY <2>1, <2>2
<1> QED
  BY <1>4, <1>5 DEF RemoveAt, a, b


-----------------------------------------------------------------------------
(* The constants *)

N == Cardinality(Queue)

LEMMA Constants ==
  /\ N \in Nat /\ Queue = 1..N /\ 0 \notin Queue
  /\ Plain \subseteq Queue /\ Logical \subseteq Queue /\ Plain \cap Logical = {}
  /\ \A q \in Logical : GroupOf[q] \in Group
  /\ Burst \in Nat /\ MaxPackets \in Nat
  /\ \A x \in Sizes : x \in Nat /\ 1 <= x /\ x <= Burst
<1>1. N \in Nat
  BY ShaperConfig, FS_CardinalityType DEF N
<1>2. Queue = 1..N
  BY ShaperConfig DEF N
<1>3. Plain \subseteq Queue /\ Logical \subseteq Queue
  BY DEF Queue
<1>4. 0 \notin 1..N
  BY <1>1
<1>5. Burst \in Nat /\ MaxPackets \in Nat /\ Sizes \subseteq 1..Burst
  BY ShaperConfig
<1> QED
  BY <1>1, <1>2, <1>3, <1>4, <1>5, ShaperConfig

(* The size of the packets whose size does not matter *)
LEMMA MinSize == Min(Sizes) \in Sizes
<1>1. Sizes \in SUBSET Nat /\ Sizes # {}
  BY Constants, ShaperConfig
<1> QED
  BY <1>1, LeastNatural

-----------------------------------------------------------------------------
(* Buckets *)

BucketType ==
  [rate : {0} \cup Rates, tokens : 0..Burst, age : Nat, queues : Seq(Logical), next : Nat]

Distinct(s) == \A i, j \in DOMAIN s : s[i] = s[j] => i = j

BucketOK(b, g) ==
  /\ b \in BucketType
  /\ b.age <= Burst - b.tokens
  /\ b.next = 0 \/ b.next < Len(b.queues)
  /\ Distinct(b.queues)
  /\ \A i \in DOMAIN b.queues : GroupOf[b.queues[i]] = g

LEMMA BucketFields ==
  ASSUME NEW b \in BucketType
  PROVE  /\ b.rate \in Nat /\ b.tokens \in 0..Burst /\ b.tokens \in Nat /\ b.age \in Nat
         /\ b.queues \in Seq(Logical) /\ b.next \in Nat
         /\ b.rate * b.age \in Nat
<1>1. /\ b.rate \in Nat /\ b.tokens \in 0..Burst /\ b.age \in Nat
      /\ b.queues \in Seq(Logical) /\ b.next \in Nat
  <2>1. /\ b.rate \in {0} \cup Rates /\ b.tokens \in 0..Burst /\ b.age \in Nat
        /\ b.queues \in Seq(Logical) /\ b.next \in Nat
    BY DEF BucketType
  <2>2. {0} \cup Rates \subseteq Nat
    BY ShaperConfig
  <2> QED
    BY <2>1, <2>2
<1>2. b.rate * b.age \in Nat
  BY <1>1
<1>3. b.tokens \in Nat
  BY <1>1
<1> QED
  BY <1>1, <1>2, <1>3

LEMMA TokensType ==
  ASSUME NEW b \in BucketType
  PROVE  /\ Tokens(b) = Least(Burst, b.tokens + b.rate * b.age)
         /\ Tokens(b) \in 0..Burst /\ Tokens(b) \in Nat
<1> DEFINE t == Least(Burst, b.tokens + b.rate * b.age)
<1>1. t \in 0..Burst /\ t \in Nat
  BY BucketFields, Constants DEF Least
<1>2. UpdateInjectionTokens(b).tokens = t
  BY DEF UpdateInjectionTokens, BucketType
<1> QED
  BY <1>1, <1>2 DEF Tokens

LEMMA TokensNow ==
  ASSUME NEW b \in BucketType, b.age = 0
  PROVE  Tokens(b) = b.tokens
<1>1. PICK t \in 0..Burst : t = b.tokens
  BY BucketFields
<1>2. b.rate * b.age = 0
  BY BucketFields
<1>3. Tokens(b) = Least(Burst, t + 0)
  BY <1>1, <1>2, TokensType
<1> QED
  BY <1>1, <1>3, Constants DEF Least

(* Bringing a bucket up to date changes nothing that is chosen by. *)
LEMMA UpdateIs ==
  ASSUME NEW b \in BucketType
  PROVE  /\ UpdateInjectionTokens(b) \in BucketType
         /\ UpdateInjectionTokens(b).rate = b.rate
         /\ UpdateInjectionTokens(b).queues = b.queues
         /\ UpdateInjectionTokens(b).next = b.next
         /\ UpdateInjectionTokens(b).tokens = Tokens(b)
         /\ UpdateInjectionTokens(b).age = 0
         /\ Tokens(UpdateInjectionTokens(b)) = Tokens(b)
<1>1. PICK t \in 0..Burst : t = Tokens(b)
  BY TokensType
<1>2. PICK u : u = [b EXCEPT !.tokens = t, !.age = 0]
  OBVIOUS
<1>3. UpdateInjectionTokens(b) = u
  BY <1>1, <1>2, TokensType DEF UpdateInjectionTokens
<1>4. /\ u \in BucketType
      /\ u.rate = b.rate /\ u.queues = b.queues /\ u.next = b.next
      /\ u.tokens = t /\ u.age = 0
  BY <1>2 DEF BucketType
<1>5. Tokens(u) = t
  BY <1>4, TokensNow
<1> QED
  BY <1>1, <1>3, <1>4, <1>5

LEMMA UpdateOK ==
  ASSUME NEW g, NEW b, BucketOK(b, g)
  PROVE  BucketOK(UpdateInjectionTokens(b), g)
<1>1. b \in BucketType
  BY DEF BucketOK
<1>2. UpdateInjectionTokens(b).age <= Burst - UpdateInjectionTokens(b).tokens
  BY <1>1, UpdateIs, TokensType, Constants
<1> QED
  BY <1>1, <1>2, UpdateIs DEF BucketOK

(* A new rate grants what the old one did until now. *)
LEMMA NewRateOK ==
  ASSUME NEW g, NEW b, BucketOK(b, g), NEW r \in Rates
  PROVE  /\ BucketOK(NewRate(b, r), g)
         /\ NewRate(b, r).rate = r
         /\ NewRate(b, r).queues = b.queues /\ NewRate(b, r).next = b.next
         /\ Tokens(NewRate(b, r)) = Tokens(b)
<1>1. b \in BucketType
  BY DEF BucketOK
<1>2. PICK u : u = UpdateInjectionTokens(b)
  OBVIOUS
<1>3. /\ u \in BucketType /\ u.queues = b.queues /\ u.next = b.next
      /\ u.tokens = Tokens(b) /\ u.age = 0
  BY <1>1, <1>2, UpdateIs
<1>4. PICK w : w = [u EXCEPT !.rate = r]
  OBVIOUS
<1>5. /\ w \in BucketType /\ w.rate = r
      /\ w.queues = u.queues /\ w.next = u.next /\ w.tokens = u.tokens /\ w.age = u.age
  BY <1>3, <1>4 DEF BucketType
<1>6. NewRate(b, r) = w
  BY <1>2, <1>4 DEF NewRate
<1>7. Tokens(w) = Tokens(b)
  BY <1>3, <1>5, TokensNow
<1>8. BucketOK(w, g)
  <2>1. w.age <= Burst - w.tokens
    BY <1>1, <1>3, <1>5, TokensType, Constants
  <2> QED
    BY <2>1, <1>3, <1>5 DEF BucketOK
<1> QED
  BY <1>3, <1>5, <1>6, <1>7, <1>8

(* A tick is worth the rate, however long the bucket is not looked at; an  *)
(* age at which the bucket has been filled stands for all later ones.      *)
LEMMA OlderOK ==
  ASSUME NEW g, NEW b, BucketOK(b, g)
  PROVE  /\ BucketOK(Older(b), g)
         /\ Older(b).rate = b.rate
         /\ Older(b).queues = b.queues /\ Older(b).next = b.next
         /\ Tokens(Older(b)) = Least(Burst, Tokens(b) + b.rate)
<1>1. b \in BucketType /\ b.age <= Burst - b.tokens
  BY DEF BucketOK
<1>2. PICK a \in Nat : a = Least(Burst - b.tokens, b.age + 1)
  BY <1>1, BucketFields, Constants DEF Least
<1>3. PICK w : w = [b EXCEPT !.age = a]
  OBVIOUS
<1>4. /\ w \in BucketType /\ w.age = a
      /\ w.rate = b.rate /\ w.queues = b.queues /\ w.next = b.next /\ w.tokens = b.tokens
  BY <1>1, <1>3 DEF BucketType
<1>5. Older(b) = w
  BY <1>2, <1>3 DEF Older
<1>6. BucketOK(w, g)
  <2>1. w.age <= Burst - w.tokens
    BY <1>1, <1>2, <1>4, BucketFields, Constants DEF Least
  <2> QED
    BY <2>1, <1>4 DEF BucketOK
<1>7. Tokens(w) = Least(Burst, Tokens(b) + b.rate)
  <2>1. PICK r \in Nat, x \in Nat, t \in Nat : r = b.rate /\ x = b.age /\ t = b.tokens
    BY <1>1, BucketFields
  <2>2. /\ Tokens(w) = Least(Burst, t + r * a)
        /\ Tokens(b) = Least(Burst, t + r * x)
    BY <2>1, <1>1, <1>4, TokensType
  <2>3. t <= Burst /\ x <= Burst - t /\ a = Least(Burst - t, x + 1)
    BY <2>1, <1>1, <1>2, BucketFields
  <2>4. CASE x + 1 <= Burst - t
    <3>1. a = x + 1
      BY <2>3, <2>4, Constants DEF Least
    <3>2. r * a = r * x + r /\ r * x \in Nat
      BY <3>1
    <3>3. Least(Burst, t + r * a) = Least(Burst, Least(Burst, t + r * x) + r)
      BY <3>2, Constants DEF Least
    <3> QED
      BY <3>3, <2>1, <2>2
  <2>5. CASE ~(x + 1 <= Burst - t)
    <3>1. a = x /\ a = Burst - t
      BY <2>3, <2>5, Constants DEF Least
    <3>2. CASE r = 0
      <4>1. r * a = 0 /\ r * x = 0
        BY <3>2
      <4> QED
        BY <4>1, <3>2, <2>1, <2>2, <2>3, Constants DEF Least
    <3>3. CASE r >= 1
      <4>1. r * a >= a /\ r * a \in Nat
        BY <3>3
      <4>2. PICK y \in Nat : y = r * a /\ y = r * x
        BY <4>1, <3>1
      <4>3. y >= Burst - t
        BY <4>1, <4>2, <3>1
      <4>4. Tokens(w) = Least(Burst, t + y) /\ Tokens(b) = Least(Burst, t + y)
        BY <4>2, <2>2
      <4>5. Tokens(w) = Burst /\ Tokens(b) = Burst
        BY <4>3, <4>4, Constants DEF Least
      <4> QED
        BY <4>5, <3>3, <2>1, Constants DEF Least
    <3> QED
      BY <3>2, <3>3
  <2> QED
    BY <2>4, <2>5
<1> QED
  BY <1>4, <1>5, <1>6, <1>7

(* The bucket pays for what leaves, and the turn goes to the queue after. *)
LEMMA DebitOK ==
  ASSUME NEW g, NEW b, BucketOK(b, g), b.age = 0,
         NEW i \in DOMAIN b.queues, NEW size \in Nat, size <= b.tokens
  PROVE  LET d == Debit(b, b.queues[i], size) IN
         /\ BucketOK(d, g)
         /\ d.rate = b.rate /\ d.queues = b.queues /\ d.next = i % Len(b.queues)
         /\ d.age = 0
         /\ Tokens(b) = b.tokens /\ Tokens(d) = Tokens(b) - size
<1>1. b \in BucketType /\ Distinct(b.queues)
  BY DEF BucketOK
<1>2. Len(b.queues) \in Nat /\ DOMAIN b.queues = 1..Len(b.queues)
  BY <1>1, BucketFields, LenProperties
<1>3. PICK n \in Nat : n = i % Len(b.queues) /\ n < Len(b.queues)
  BY <1>2
<1>4. (CHOOSE j \in DOMAIN b.queues : b.queues[j] = b.queues[i]) = i
  BY <1>1 DEF Distinct
<1>5. PICK t \in 0..Burst : t = b.tokens - size
  BY <1>1, BucketFields, Constants
<1>6. PICK d : d = [b EXCEPT !.tokens = t, !.next = n]
  OBVIOUS
<1>7. /\ d \in BucketType /\ d.tokens = t /\ d.next = n
      /\ d.rate = b.rate /\ d.queues = b.queues /\ d.age = b.age
  BY <1>1, <1>6 DEF BucketType
<1>8. Debit(b, b.queues[i], size) = d
  BY <1>3, <1>4, <1>5, <1>6 DEF Debit, NextTurn
<1>9. d.age <= Burst - d.tokens
  BY <1>7, Constants
<1>10. BucketOK(d, g)
  BY <1>3, <1>7, <1>9 DEF BucketOK
<1>11. Tokens(b) = b.tokens /\ Tokens(d) = t
  BY <1>1, <1>7, TokensNow
<1> QED
  BY <1>3, <1>5, <1>7, <1>8, <1>10, <1>11

Member(b, q) == \E i \in DOMAIN b.queues : b.queues[i] = q

(* A queue that is bound goes to the end of the list; the turn stays.      *)
LEMMA BoundOK ==
  ASSUME NEW q \in Logical, NEW b, BucketOK(b, GroupOf[q]), ~Member(b, q)
  PROVE  /\ BucketOK(With(b, q), GroupOf[q])
         /\ With(b, q).rate = b.rate /\ With(b, q).next = b.next
         /\ Tokens(With(b, q)) = Tokens(b) /\ With(b, q).queues = Append(b.queues, q)
<1>1. b \in BucketType /\ Distinct(b.queues)
  BY DEF BucketOK
<1>2. PICK s \in Seq(Logical) : s = Append(b.queues, q)
  BY <1>1, BucketFields, AppendProperties
<1>3. /\ Len(b.queues) \in Nat /\ DOMAIN b.queues = 1..Len(b.queues)
      /\ Len(s) = Len(b.queues) + 1 /\ DOMAIN s = 1..(Len(b.queues) + 1)
      /\ s[Len(b.queues) + 1] = q /\ \A i \in 1..Len(b.queues) : s[i] = b.queues[i]
  BY <1>1, <1>2, BucketFields, AppendProperties, LenProperties
<1>4. PICK c : c = [b EXCEPT !.queues = s]
  OBVIOUS
<1>5. /\ c \in BucketType /\ c.queues = s
      /\ c.rate = b.rate /\ c.tokens = b.tokens /\ c.age = b.age /\ c.next = b.next
  BY <1>1, <1>4 DEF BucketType
<1>6. Distinct(s)
  <2> SUFFICES ASSUME NEW i \in DOMAIN s, NEW j \in DOMAIN s, s[i] = s[j]
               PROVE  i = j
    BY DEF Distinct
  <2>1. i \in DOMAIN b.queues \/ i = Len(b.queues) + 1
    BY <1>3
  <2>2. j \in DOMAIN b.queues \/ j = Len(b.queues) + 1
    BY <1>3
  <2>3. \A k \in DOMAIN b.queues : s[k] = b.queues[k] /\ b.queues[k] # q
    BY <1>3 DEF Member
  <2> QED
    BY <2>1, <2>2, <2>3, <1>1, <1>3 DEF Distinct
<1>7. \A i \in DOMAIN s : GroupOf[s[i]] = GroupOf[q]
  BY <1>3 DEF BucketOK
<1>8. c.next = 0 \/ c.next < Len(s)
  BY <1>1, <1>3, <1>5, BucketFields DEF BucketOK
<1>9. BucketOK(c, GroupOf[q])
  BY <1>5, <1>6, <1>7, <1>8 DEF BucketOK
<1>10. Tokens(c) = Tokens(b)
  BY <1>1, <1>5, TokensType
<1>11. With(b, q) = c
  BY <1>2, <1>4 DEF With
<1> QED
  BY <1>2, <1>5, <1>9, <1>10, <1>11

(* A queue that is detached leaves the others and the budget as they are.  *)
LEMMA WithoutOK ==
  ASSUME NEW g, NEW b, BucketOK(b, g), NEW i \in DOMAIN b.queues
  PROVE  /\ BucketOK(Without(b, i), g)
         /\ Without(b, i).rate = b.rate /\ Tokens(Without(b, i)) = Tokens(b)
         /\ \A j \in DOMAIN b.queues : j # i => Member(Without(b, i), b.queues[j])
<1>1. b \in BucketType /\ Distinct(b.queues)
  BY DEF BucketOK
<1>2. b.queues \in Seq(Logical) /\ Len(b.queues) \in Nat /\ DOMAIN b.queues = 1..Len(b.queues)
  BY <1>1, BucketFields, LenProperties
<1>3. PICK s \in Seq(Logical) : s = RemoveAt(b.queues, i)
  BY <1>2, AtRemoved
<1>4. /\ DOMAIN s = 1..(Len(b.queues) - 1)
      /\ \A j \in DOMAIN s : s[j] = b.queues[IF j < i THEN j ELSE j + 1]
  <2>1. i \in 1..Len(b.queues)
    BY <1>2
  <2>2. /\ Len(s) = Len(b.queues) - 1
        /\ \A j \in 1..(Len(b.queues) - 1) : s[j] = b.queues[IF j < i THEN j ELSE j + 1]
    BY <2>1, <1>2, <1>3, AtRemoved
  <2>3. DOMAIN s = 1..Len(s)
    BY LenProperties
  <2> QED
    BY <2>2, <2>3
<1>5. PICK u : u = UpdateInjectionTokens(b)
  OBVIOUS
<1>6. /\ u \in BucketType /\ u.queues = b.queues /\ u.rate = b.rate
      /\ u.tokens = Tokens(b) /\ u.age = 0
  BY <1>1, <1>5, UpdateIs
<1>7. PICK w : w = [u EXCEPT !.queues = s, !.next = 0]
  OBVIOUS
<1>8. /\ w \in BucketType /\ w.queues = s /\ w.next = 0
      /\ w.rate = u.rate /\ w.tokens = u.tokens /\ w.age = u.age
  BY <1>6, <1>7 DEF BucketType
<1>9. Without(b, i) = w
  BY <1>3, <1>5, <1>6, <1>7 DEF Without
<1>10. Tokens(w) = Tokens(b)
  BY <1>6, <1>8, TokensNow
<1>11. \A j \in DOMAIN s : (IF j < i THEN j ELSE j + 1) \in DOMAIN b.queues
  BY <1>2, <1>4
<1>12. BucketOK(w, g)
  <2>1. w.age <= Burst - w.tokens
    BY <1>1, <1>6, <1>8, TokensType, Constants
  <2>2. Distinct(s)
    <3> SUFFICES ASSUME NEW j \in DOMAIN s, NEW k \in DOMAIN s, s[j] = s[k]
                 PROVE  j = k
      BY DEF Distinct
    <3>1. (IF j < i THEN j ELSE j + 1) = (IF k < i THEN k ELSE k + 1)
      BY <1>1, <1>4, <1>11 DEF Distinct
    <3> QED
      BY <3>1, <1>2, <1>4
  <2>3. \A j \in DOMAIN s : GroupOf[s[j]] = g
    BY <1>4, <1>11 DEF BucketOK
  <2> QED
    BY <2>1, <2>2, <2>3, <1>8 DEF BucketOK
<1>13. ASSUME NEW j \in DOMAIN b.queues, j # i PROVE Member(w, b.queues[j])
  <2> DEFINE k == IF j < i THEN j ELSE j - 1
  <2>1. k \in DOMAIN s /\ (IF k < i THEN k ELSE k + 1) = j
    BY <1>2, <1>4, <1>13
  <2>2. s[k] = b.queues[j]
    BY <2>1, <1>4
  <2> QED
    BY <2>1, <2>2, <1>8 DEF Member
<1> QED
  BY <1>6, <1>8, <1>9, <1>10, <1>12, <1>13

-----------------------------------------------------------------------------
(* States *)

QueuesOK(qs) ==
  /\ qs \in [{0} \cup Queue -> Seq(Sizes)]
  /\ \A q \in {0} \cup Queue : Len(qs[q]) <= MaxPackets

BucketsOK(bs) == DOMAIN bs = Group /\ \A g \in Group : BucketOK(bs[g], g)

NicType ==
  [rrlast : {0} \cup Queue, tx : {Off, 0, 1}, wake : Off..Burst, paused : SUBSET Pausable]

(* Only queues that are bound hold packets. *)
Homed(qs, bs) == \A q \in Logical : qs[q] # <<>> => Member(bs[GroupOf[q]], q)

StateOK(s) ==
  /\ QueuesOK(s.queues) /\ BucketsOK(s.bucket) /\ s.nic \in NicType
  /\ Homed(s.queues, s.bucket)

LEMMA Fields ==
  ASSUME NEW q, NEW b, NEW n
  PROVE  At(q, b, n).queues = q /\ At(q, b, n).bucket = b /\ At(q, b, n).nic = n
  BY DEF At

(* A queue that is not empty has a head that its bucket could hold. *)
LEMMA HeadIs ==
  ASSUME NEW s, StateOK(s), NEW q \in {0} \cup Queue, Backlogged(s, q)
  PROVE  /\ Head(s.queues[q]) \in Nat /\ 1 <= Head(s.queues[q]) /\ Head(s.queues[q]) <= Burst
         /\ Tail(s.queues[q]) \in Seq(Sizes)
         /\ Len(Tail(s.queues[q])) <= MaxPackets
<1>1. s.queues[q] \in Seq(Sizes) /\ s.queues[q] # <<>> /\ Len(s.queues[q]) <= MaxPackets
  BY DEF StateOK, QueuesOK, Backlogged
<1>2. Head(s.queues[q]) \in Sizes /\ Tail(s.queues[q]) \in Seq(Sizes)
      /\ Len(Tail(s.queues[q])) = Len(s.queues[q]) - 1 /\ Len(s.queues[q]) \in Nat
  BY <1>1, HeadTailProperties, LenProperties
<1> QED
  BY <1>1, <1>2, Constants

(* What the choice looks at is the same in s and t.                        *)
SameQueues(s, t) == \A g \in Group : s.bucket[g].queues = t.bucket[g].queues
SameTurns(s, t) ==
  /\ SameQueues(s, t) /\ \A g \in Group : s.bucket[g].next = t.bucket[g].next
  /\ s.nic.rrlast = t.nic.rrlast
SameView(s, t) ==
  /\ SameTurns(s, t) /\ s.queues = t.queues /\ s.nic.paused = t.nic.paused
  /\ \A g \in Group : /\ s.bucket[g].rate = t.bucket[g].rate
                       /\ Tokens(s.bucket[g]) = Tokens(t.bucket[g])

LEMMA SameNominee ==
  ASSUME NEW s, NEW t, NEW g \in Group, s.queues = t.queues, s.nic.paused = t.nic.paused,
         s.bucket[g].queues = t.bucket[g].queues, s.bucket[g].next = t.bucket[g].next
  PROVE  Nominee(s, g) = Nominee(t, g)
<1>1. Turns(s.bucket[g]) = Turns(t.bucket[g])
  BY DEF Turns
<1>2. \A q : Backlogged(s, q) = Backlogged(t, q) /\ Paused(s, q) = Paused(t, q)
  BY DEF Backlogged, Paused
<1> QED
  BY <1>1, <1>2 DEF Nominee

LEMMA NomineeLogical ==
  ASSUME NEW s, BucketsOK(s.bucket), NEW g \in Group, NEW q \in Nominee(s, g)
  PROVE  /\ q \in Logical /\ GroupOf[q] = g /\ Member(s.bucket[g], q)
         /\ Backlogged(s, q) /\ ~Paused(s, q)
<1> DEFINE b == s.bucket[g]
           turns == Turns(b)
           ready == {i \in DOMAIN turns : Backlogged(s, turns[i]) /\ ~Paused(s, turns[i])}
<1>1. b \in BucketType /\ BucketOK(b, g)
  BY DEF BucketsOK, BucketOK
<1>2. b.queues \in Seq(Logical) /\ Len(b.queues) \in Nat /\ DOMAIN b.queues = 1..Len(b.queues)
      /\ b.next \in Nat
  BY <1>1, BucketFields, LenProperties
<1>3. ready # {} /\ q = turns[Min(ready)]
  BY DEF Nominee
<1>4. DOMAIN turns = 1..Len(b.queues)
  BY <1>2 DEF Turns
<1>5. Min(ready) \in ready
  <2>1. ready \in SUBSET Nat
    BY <1>4, <1>2
  <2> HIDE DEF ready
  <2> QED
    BY <2>1, <1>3, LeastNatural
<1>6. PICK i \in DOMAIN turns : q = turns[i] /\ Backlogged(s, q) /\ ~Paused(s, q)
  BY <1>3, <1>5
<1>7. PICK j : j = ((b.next + i - 1) % Len(b.queues)) + 1
  OBVIOUS
<1>8. turns[i] = b.queues[j]
  BY <1>6, <1>7 DEF Turns
<1>9. j \in DOMAIN b.queues
  <2>1. PICK n \in Nat, L \in Nat : n = b.next /\ L = Len(b.queues)
    BY <1>2
  <2>2. i \in 1..L
    BY <2>1, <1>4
  <2>3. j \in 1..L
    <3>1. n + i - 1 \in Nat /\ L >= 1
      BY <2>2
    <3>2. (n + i - 1) % L \in 0..(L - 1)
      BY <3>1
    <3> QED
      BY <3>2, <2>1, <1>7
  <2> QED
    BY <2>1, <2>3, <1>2
<1>10. q = b.queues[j]
  BY <1>6, <1>8
<1>11. q \in Logical
  BY <1>2, <1>9, <1>10, ElementOfSeq
<1>12. GroupOf[q] = g
  BY <1>1, <1>9, <1>10 DEF BucketOK
<1> QED
  BY <1>6, <1>9, <1>10, <1>11, <1>12 DEF Member

LEMMA SameChoice ==
  ASSUME NEW s, NEW t, SameView(s, t), BucketsOK(s.bucket)
  PROVE  /\ \A g \in Group : Nominee(s, g) = Nominee(t, g)
         /\ \A g \in Group : \A q \in Nominee(s, g) :
              Affordable(s, q) = Affordable(t, q) /\ Wait(s, q) = Wait(t, q)
         /\ Ready(s) = Ready(t)
         /\ \A q : Rank(s, q) = Rank(t, q)
         /\ Awaits(s) = Awaits(t)
<1>1. \A g \in Group : Nominee(s, g) = Nominee(t, g)
  BY SameNominee DEF SameView, SameTurns, SameQueues
<1>2. ASSUME NEW g \in Group, NEW q \in Nominee(s, g)
      PROVE  Affordable(s, q) = Affordable(t, q) /\ Wait(s, q) = Wait(t, q)
  <2>1. GroupOf[q] = g
    BY <1>2, NomineeLogical
  <2> QED
    BY <2>1 DEF Affordable, Wait, SameView
<1>3. \A q : Backlogged(s, q) = Backlogged(t, q) /\ Paused(s, q) = Paused(t, q)
  BY DEF Backlogged, Paused, SameView
<1>4. Ready(s) = Ready(t)
  BY <1>1, <1>2, <1>3 DEF Ready
<1>5. \A q : Rank(s, q) = Rank(t, q)
  BY DEF Rank, SameView, SameTurns
<1>6. Awaits(s) = Awaits(t)
  BY <1>3, <1>4 DEF Awaits
<1> QED
  BY <1>1, <1>2, <1>4, <1>5, <1>6

-----------------------------------------------------------------------------
(* Turns *)

Can(s, q) == Backlogged(s, q) /\ ~Paused(s, q)

(* How many queues of the group have their turn up to the i-th one.        *)
Turn(b, i) == IF i > b.next THEN i - b.next ELSE i - b.next + Len(b.queues)

LEMMA Rotation ==
  ASSUME NEW L \in Nat, NEW n \in Nat, n = 0 \/ n < L, NEW i \in 1..L
  PROVE  /\ ((n + i - 1) % L) + 1 = IF n + i <= L THEN n + i ELSE n + i - L
         /\ ((n + i - 1) % L) + 1 \in 1..L
<1>1. n + i - 1 \in Nat /\ L >= 1 /\ n < L
  OBVIOUS
<1>2. (n + i - 1) % L = IF n + i <= L THEN n + i - 1 ELSE n + i - 1 - L
  BY <1>1
<1> QED
  BY <1>1, <1>2

LEMMA TurnType ==
  ASSUME NEW g, NEW b, BucketOK(b, g), NEW i \in DOMAIN b.queues
  PROVE  Turn(b, i) \in Int
<1>1. b \in BucketType
  BY DEF BucketOK
<1>2. PICK L \in Nat, n \in Nat : L = Len(b.queues) /\ n = b.next
  BY <1>1, BucketFields, LenProperties
<1>3. i \in 1..L
  BY <1>1, <1>2, BucketFields, LenProperties
<1>4. Turn(b, i) = IF i > n THEN i - n ELSE i - n + L
  BY <1>2 DEF Turn
<1> QED
  BY <1>3, <1>4

LEMMA NomineeTurn ==
  ASSUME NEW s, BucketsOK(s.bucket), NEW g \in Group,
         NEW i \in DOMAIN s.bucket[g].queues
  PROVE  s.bucket[g].queues[i] \in Nominee(s, g) <=>
           /\ Can(s, s.bucket[g].queues[i])
           /\ \A j \in DOMAIN s.bucket[g].queues : Can(s, s.bucket[g].queues[j]) =>
                Turn(s.bucket[g], i) <= Turn(s.bucket[g], j)
<1>1. PICK b : b = s.bucket[g]
  OBVIOUS
<1>2. BucketOK(b, g) /\ b \in BucketType /\ Distinct(b.queues)
  BY <1>1 DEF BucketsOK, BucketOK
<1>3. PICK L \in Nat, n \in Nat : L = Len(b.queues) /\ n = b.next
  BY <1>2, BucketFields, LenProperties
<1>4. DOMAIN b.queues = 1..L /\ (n = 0 \/ n < L)
  BY <1>2, <1>3, BucketFields, LenProperties DEF BucketOK
<1> DEFINE at(k) == ((n + k - 1) % L) + 1
           turn(j) == IF j > n THEN j - n ELSE j - n + L
           ready == {k \in 1..L : Can(s, b.queues[at(k)])}
<1>5. \A k \in 1..L : at(k) \in 1..L /\ turn(at(k)) = k
  <2> SUFFICES ASSUME NEW k \in 1..L PROVE at(k) \in 1..L /\ turn(at(k)) = k
    OBVIOUS
  <2>1. PICK m : m = at(k)
    OBVIOUS
  <2>2. m = (IF n + k <= L THEN n + k ELSE n + k - L) /\ m \in 1..L
    BY <2>1, <1>4, Rotation
  <2>3. turn(m) = k
    BY <2>2, <1>4
  <2> QED
    BY <2>1, <2>2, <2>3
<1>6. \A j \in 1..L : turn(j) \in 1..L /\ at(turn(j)) = j
  <2> SUFFICES ASSUME NEW j \in 1..L PROVE turn(j) \in 1..L /\ at(turn(j)) = j
    OBVIOUS
  <2>1. PICK k : k = turn(j)
    OBVIOUS
  <2>2. k \in 1..L
    BY <2>1, <1>4
  <2>3. at(k) = IF n + k <= L THEN n + k ELSE n + k - L
    BY <2>2, <1>4, Rotation
  <2>4. at(k) = j
    BY <2>1, <2>3, <1>4
  <2> QED
    BY <2>1, <2>2, <2>4
<1>7. \A j : turn(j) = Turn(b, j)
  BY <1>3 DEF Turn
<1>8. Nominee(s, g) = IF ready = {} THEN {} ELSE {b.queues[at(Min(ready))]}
  <2>1. DOMAIN Turns(b) = 1..L /\ \A k \in 1..L : Turns(b)[k] = b.queues[at(k)]
    BY <1>3, <1>4 DEF Turns
  <2>2. ready = {k \in DOMAIN Turns(b) : Backlogged(s, Turns(b)[k]) /\ ~Paused(s, Turns(b)[k])}
    BY <2>1 DEF Can
  <2>3. ready # {} => Min(ready) \in 1..L
    <3>1. ready \in SUBSET Nat /\ ready \subseteq 1..L
      OBVIOUS
    <3> HIDE DEF ready
    <3> QED
      BY <3>1, LeastNatural
  <2> HIDE DEF ready, at
  <2> QED
    BY <1>1, <2>1, <2>2, <2>3 DEF Nominee
<1>9. \A k \in 1..L : k \in ready <=> Can(s, b.queues[at(k)])
  OBVIOUS
<1>10. ready # {} => Min(ready) \in ready /\ \A k \in ready : Min(ready) <= k
  <2>1. ready \in SUBSET Nat
    OBVIOUS
  <2> HIDE DEF ready
  <2> QED
    BY <2>1, LeastNatural
<1>11. ready \subseteq 1..L
  OBVIOUS
<1>12. i \in 1..L
  BY <1>1, <1>4
<1> HIDE DEF ready, at, turn
<1>13. ASSUME b.queues[i] \in Nominee(s, g)
       PROVE  Can(s, b.queues[i]) /\ \A j \in 1..L : Can(s, b.queues[j]) => turn(i) <= turn(j)
  <2>1. ready # {} /\ b.queues[i] = b.queues[at(Min(ready))]
    BY <1>13, <1>8
  <2>2. PICK k \in 1..L : k = Min(ready) /\ k \in ready /\ \A m \in ready : k <= m
    BY <2>1, <1>10, <1>11
  <2>3. i = at(k)
    BY <2>1, <2>2, <1>2, <1>4, <1>5, <1>12 DEF Distinct
  <2>4. Can(s, b.queues[i]) /\ turn(i) = k
    BY <2>2, <2>3, <1>5, <1>9
  <2>5. ASSUME NEW j \in 1..L, Can(s, b.queues[j]) PROVE turn(j) \in ready
    BY <2>5, <1>6, <1>9
  <2> QED
    BY <2>2, <2>4, <2>5
<1>14. ASSUME Can(s, b.queues[i]), \A j \in 1..L : Can(s, b.queues[j]) => turn(i) <= turn(j)
       PROVE  b.queues[i] \in Nominee(s, g)
  <2>1. turn(i) \in ready /\ turn(i) \in 1..L
    BY <1>14, <1>6, <1>9, <1>12
  <2>2. PICK k \in 1..L : k = Min(ready) /\ k \in ready /\ k <= turn(i)
    BY <2>1, <1>10, <1>11
  <2>3. Can(s, b.queues[at(k)]) /\ at(k) \in 1..L /\ turn(at(k)) = k
    BY <2>2, <1>5, <1>9
  <2>4. turn(i) <= k
    BY <2>3, <1>14
  <2>5. turn(i) = k
    BY <2>1, <2>2, <2>4
  <2>6. at(k) = i
    BY <2>5, <1>6, <1>12
  <2> QED
    BY <2>1, <2>2, <2>6, <1>8
<1> QED
  BY <1>1, <1>4, <1>7, <1>13, <1>14

LEMMA ReadyIs ==
  ASSUME NEW s, StateOK(s), NEW q \in Ready(s)
  PROVE  /\ q \in Queue /\ Can(s, q)
         /\ q \in Plain \/ /\ q \in Logical /\ q \in Nominee(s, GroupOf[q]) /\ Affordable(s, q)
                           /\ Member(s.bucket[GroupOf[q]], q)
<1>1. CASE q \in Plain /\ Backlogged(s, q) /\ ~Paused(s, q)
  BY <1>1, Constants DEF Can
<1>2. CASE \E g \in Group : q \in Nominee(s, g) /\ Affordable(s, q)
  BY <1>2, NomineeLogical, Constants DEF Can, StateOK
<1> QED
  BY <1>1, <1>2 DEF Ready

(* The places of the scan after queue r, which queue r is the last of.     *)
LEMMA Ranks ==
  ASSUME NEW s, s.nic.rrlast \in {0} \cup Queue, NEW q \in Queue
  PROVE  /\ Rank(s, q) = IF q > s.nic.rrlast THEN q - s.nic.rrlast - 1 ELSE q - s.nic.rrlast + N
         /\ Rank(s, q) \in Nat
<1>1. PICK r \in 0..N : r = s.nic.rrlast
  BY Constants
<1>2. PICK k \in 1..N : k = q
  BY Constants
<1>3. Rank(s, q) = (k - r - 1) % (N + 1)
  BY <1>1, <1>2 DEF Rank, N
<1>4. k - r - 1 = (k - 1) - r
  OBVIOUS
<1>5. ((k - 1) - r) % (N + 1) = IF k - 1 >= r THEN k - 1 - r ELSE k - 1 - r + (N + 1)
  <2>1. N + 1 \in Nat \ {0} /\ k - 1 \in 0..((N + 1) - 1) /\ r \in 0..((N + 1) - 1)
    BY Constants
  <2> QED
    BY <2>1, Mods
<1>6. Rank(s, q) = IF k > r THEN k - r - 1 ELSE k - r + N
  BY <1>3, <1>4, <1>5, Constants
<1>7. Rank(s, q) \in Nat
  BY <1>6, Constants
<1> QED
  BY <1>1, <1>2, <1>6, <1>7

LEMMA FirstIs ==
  ASSUME NEW s, StateOK(s), Ready(s) # {}
  PROVE  /\ FirstInTurn(s) \in Ready(s)
         /\ \A r \in Ready(s) : Rank(s, FirstInTurn(s)) <= Rank(s, r)
<1> DEFINE R == {Rank(s, q) : q \in Ready(s)}
<1>1. \A q \in Ready(s) : Rank(s, q) \in Nat
  BY ReadyIs, Ranks DEF StateOK, NicType
<1>2. R \in SUBSET Nat /\ R # {}
  BY <1>1
<1>3. Min(R) \in R /\ \A x \in R : Min(R) <= x
  <2> HIDE DEF R
  <2> QED
    BY <1>2, LeastNatural
<1>4. \E q \in Ready(s) : \A r \in Ready(s) : Rank(s, q) <= Rank(s, r)
  BY <1>3
<1> QED
  BY <1>4 DEF FirstInTurn

-----------------------------------------------------------------------------
(* What a dequeue does to a state *)

LEMMA UpdatedOK ==
  ASSUME NEW s, StateOK(s)
  PROVE  /\ StateOK(Updated(s)) /\ SameView(s, Updated(s))
         /\ Updated(s).nic = s.nic
         /\ \A g \in Group : Updated(s).bucket[g].age = 0
<1>1. PICK b : b = [g \in Group |-> UpdateInjectionTokens(s.bucket[g])]
  OBVIOUS
<1>2. PICK t : t = At(s.queues, b, s.nic)
  OBVIOUS
<1>3. t.queues = s.queues /\ t.bucket = b /\ t.nic = s.nic /\ t = Updated(s)
  BY <1>1, <1>2 DEF At, Updated
<1>4. \A g \in Group : BucketOK(s.bucket[g], g) /\ s.bucket[g] \in BucketType
  BY DEF StateOK, BucketsOK, BucketOK
<1>5. \A g \in Group :
        /\ BucketOK(b[g], g)
        /\ b[g].rate = s.bucket[g].rate /\ b[g].queues = s.bucket[g].queues
        /\ b[g].next = s.bucket[g].next /\ b[g].age = 0
        /\ Tokens(b[g]) = Tokens(s.bucket[g])
  BY <1>1, <1>4, UpdateOK, UpdateIs
<1>6. BucketsOK(b)
  BY <1>1, <1>5 DEF BucketsOK
<1>7. Homed(s.queues, b)
  BY <1>5, Constants DEF StateOK, Homed, Member
<1>8. StateOK(t)
  BY <1>3, <1>6, <1>7 DEF StateOK
<1>9. SameView(s, t)
  BY <1>3, <1>5 DEF SameView, SameTurns, SameQueues
<1> QED
  BY <1>3, <1>5, <1>8, <1>9

(* The wait w of queue q of group g, which lacks tokens: the least number  *)
(* of ticks that make up for them.                                         *)
LacksTokens(s, g, q) ==
  \E h \in Nat, t \in Nat, r \in Nat \ {0} :
    /\ h = Head(s.queues[q]) /\ t = Tokens(s.bucket[g]) /\ r = s.bucket[g].rate
    /\ t < h /\ h <= Burst
    /\ Wait(s, q) \in 1..(h - t)
    /\ \A w \in Nat : w <= Wait(s, q) <=> r * w < (h - t) + r

LEMMA WaitIs ==
  ASSUME NEW s, StateOK(s), NEW g \in Group, NEW q \in Nominee(s, g),
         s.bucket[g].rate > 0, ~Affordable(s, q)
  PROVE  LacksTokens(s, g, q)
<1>1. q \in Logical /\ q \in Queue /\ GroupOf[q] = g /\ Backlogged(s, q)
  BY NomineeLogical, Constants DEF StateOK
<1>2. PICK b : b = s.bucket[g]
  OBVIOUS
<1>3. b \in BucketType
  BY <1>2 DEF StateOK, BucketsOK, BucketOK
<1>4. PICK t \in Nat, r \in Nat : t = Tokens(b) /\ r = b.rate
  BY <1>3, BucketFields, TokensType
<1>5. PICK h \in Nat : h = Head(s.queues[q]) /\ h <= Burst
  BY <1>1, HeadIs
<1>6. r # 0 /\ r > 0 /\ t < h
  BY <1>1, <1>2, <1>4, <1>5 DEF Affordable
<1>7. PICK x \in Nat \ {0} : x = h - t
  BY <1>6
<1>8. Wait(s, q) = (x + r - 1) \div r
  BY <1>1, <1>2, <1>4, <1>5, <1>7 DEF Wait, CeilDiv
<1>9. /\ (x + r - 1) \div r \in 1..x
      /\ \A w \in Nat : w <= (x + r - 1) \div r <=> r * w < x + r
  <2>1. r \in Nat \ {0}
    BY <1>6
  <2> QED
    BY <2>1, Divs
<1>10. Wait(s, q) \in 1..(h - t)
  BY <1>7, <1>8, <1>9
<1>11. \A w \in Nat : w <= Wait(s, q) <=> r * w < (h - t) + r
  BY <1>7, <1>8, <1>9
<1>12. r \in Nat \ {0}
  BY <1>6
<1>13. \E h1 \in Nat, t1 \in Nat, r1 \in Nat \ {0} :
         /\ h1 = Head(s.queues[q]) /\ t1 = Tokens(s.bucket[g]) /\ r1 = s.bucket[g].rate
         /\ t1 < h1 /\ h1 <= Burst
         /\ Wait(s, q) \in 1..(h1 - t1)
         /\ \A w \in Nat : w <= Wait(s, q) <=> r1 * w < (h1 - t1) + r1
  <2> WITNESS h \in Nat, t \in Nat, r \in Nat \ {0}
  <2> QED
    BY <1>2, <1>4, <1>5, <1>6, <1>10, <1>11
<1> QED
  BY <1>13 DEF LacksTokens

LEMMA WaitsNat ==
  ASSUME NEW s, StateOK(s)
  PROVE  /\ \A w \in Waits(s) : w \in Nat /\ 1 <= w /\ w <= Burst
         /\ Waits(s) \in SUBSET Nat
<1>1. ASSUME NEW w \in Waits(s) PROVE w \in Nat /\ 1 <= w /\ w <= Burst
  <2>1. PICK g \in Group : \E q \in Nominee(s, g) :
          w = Wait(s, q) /\ s.bucket[GroupOf[q]].rate > 0 /\ ~Affordable(s, q)
    BY DEF Waits
  <2> PICK q \in Nominee(s, g) :
          w = Wait(s, q) /\ s.bucket[GroupOf[q]].rate > 0 /\ ~Affordable(s, q)
    BY <2>1
  <2>2. GroupOf[q] = g
    BY NomineeLogical DEF StateOK
  <2>3. LacksTokens(s, g, q)
    BY <2>2, WaitIs
  <2>4. PICK h \in Nat, t \in Nat : h <= Burst /\ w \in 1..(h - t)
    BY <2>3 DEF LacksTokens
  <2> QED
    BY <2>4, Constants
<1> QED
  BY <1>1

(* The device wakes up no later than any group that waits for tokens.      *)
LEMMA WakeSetOK ==
  ASSUME NEW s, StateOK(s)
  PROVE  /\ StateOK(WakeSet(s)) /\ SameView(s, WakeSet(s))
         /\ WakeSet(s).bucket = s.bucket /\ WakeSet(s).nic.tx = s.nic.tx
         /\ \A w \in Waits(s) : WakeSet(s).nic.wake # Off /\ WakeSet(s).nic.wake <= w
<1>1. s.nic \in NicType /\ s.nic.wake \in Off..Burst
  BY DEF StateOK, NicType
<1>2. SameView(s, s)
  BY DEF SameView, SameTurns, SameQueues
<1>3. CASE Waits(s) = {}
  BY <1>2, <1>3 DEF WakeSet
<1>4. CASE Waits(s) # {}
  <2>1. Min(Waits(s)) \in Waits(s) /\ \A w \in Waits(s) : Min(Waits(s)) <= w
    BY <1>4, WaitsNat, LeastNatural
  <2>2. PICK t \in Nat : t = Min(Waits(s)) /\ 1 <= t /\ t <= Burst /\ \A w \in Waits(s) : t <= w
    BY <2>1, WaitsNat
  <2>3. CASE WakeMoves(s, t)
    <3>1. PICK n : n = [s.nic EXCEPT !.wake = t]
      OBVIOUS
    <3>2. t \in Off..Burst
      BY <2>2, Constants DEF Off
    <3>3. /\ n \in NicType /\ n.wake = t /\ n.tx = s.nic.tx /\ n.rrlast = s.nic.rrlast
          /\ n.paused = s.nic.paused
      BY <1>1, <3>1, <3>2 DEF NicType
    <3>4. PICK u : u = At(s.queues, s.bucket, n)
      OBVIOUS
    <3>5. u = WakeSet(s)
      BY <1>4, <2>2, <2>3, <3>1, <3>4 DEF WakeSet
    <3>6. u.queues = s.queues /\ u.bucket = s.bucket /\ u.nic = n
      BY <3>4, Fields
    <3>7. StateOK(u) /\ SameView(s, u)
      BY <3>3, <3>6, <1>2 DEF StateOK, SameView, SameTurns, SameQueues
    <3>8. t # Off
      BY <2>2 DEF Off
    <3> QED
      BY <2>2, <3>3, <3>5, <3>6, <3>7, <3>8
  <2>4. CASE ~WakeMoves(s, t)
    <3>1. WakeSet(s) = s
      BY <2>2, <2>4 DEF WakeSet
    <3>2. PICK w \in Int : w = s.nic.wake
      BY <1>1 DEF Off
    <3>3. w # Off /\ w <= t
      BY <2>4, <3>2 DEF WakeMoves
    <3>4. \A v \in Waits(s) : w <= v
      BY <3>2, <3>3, <2>2, WaitsNat
    <3> QED
      BY <1>2, <3>1, <3>2, <3>3, <3>4
  <2> QED
    BY <2>3, <2>4
<1> QED
  BY <1>3, <1>4

(* What may be sent: it can be paid for.                                   *)
Payable(s, q) ==
  q \in Logical => Member(s.bucket[GroupOf[q]], q) /\ Affordable(s, q)

LEMMA SentBuckets ==
  ASSUME NEW s, StateOK(s), \A g \in Group : s.bucket[g].age = 0,
         NEW q \in {0} \cup Queue, Backlogged(s, q), Payable(s, q),
         NEW g \in Group
  PROVE  /\ BucketOK(Sent(s, q).bucket[g], g)
         /\ Sent(s, q).bucket[g].rate = s.bucket[g].rate
         /\ Sent(s, q).bucket[g].queues = s.bucket[g].queues
         /\ ~Debited(g, q) => Sent(s, q).bucket[g] = s.bucket[g]
         /\ Debited(g, q) =>
              /\ Tokens(Sent(s, q).bucket[g]) = Tokens(s.bucket[g]) - Head(s.queues[q])
              /\ \E i \in DOMAIN s.bucket[g].queues :
                   /\ s.bucket[g].queues[i] = q
                   /\ Sent(s, q).bucket[g].next = i % Len(s.bucket[g].queues)
<1>1. PICK b : b = s.bucket[g]
  OBVIOUS
<1>2. BucketOK(b, g) /\ b \in BucketType /\ b.age = 0
  BY <1>1 DEF StateOK, BucketsOK, BucketOK
<1>3. Sent(s, q).bucket[g] = IF Debited(g, q) THEN Debit(b, q, Head(s.queues[q])) ELSE b
  BY <1>1, Fields DEF Sent
<1>4. CASE ~Debited(g, q)
  BY <1>1, <1>2, <1>3, <1>4
<1>5. CASE Debited(g, q)
  <2>1. PICK i \in DOMAIN b.queues : b.queues[i] = q
    BY <1>1, <1>5 DEF Payable, Debited, Member
  <2>2. PICK size \in Nat : size = Head(s.queues[q])
    BY HeadIs
  <2>3. Tokens(b) = b.tokens
    BY <1>2, TokensNow
  <2>4. size <= b.tokens
    <3>1. Tokens(b) >= size
      BY <1>1, <1>5, <2>2 DEF Payable, Debited, Affordable
    <3> QED
      BY <3>1, <2>3, <1>2, BucketFields
  <2>5. PICK d : d = Debit(b, b.queues[i], size)
    OBVIOUS
  <2>6. /\ BucketOK(d, g) /\ d.rate = b.rate /\ d.queues = b.queues
        /\ d.next = i % Len(b.queues) /\ Tokens(d) = Tokens(b) - size
    BY <1>2, <2>4, <2>5, DebitOK
  <2>7. Sent(s, q).bucket[g] = d
    BY <1>3, <1>5, <2>1, <2>2, <2>5
  <2> QED
    BY <1>1, <1>5, <2>1, <2>2, <2>6, <2>7
<1> QED
  BY <1>4, <1>5

LEMMA SentOK ==
  ASSUME NEW s, StateOK(s), \A g \in Group : s.bucket[g].age = 0,
         NEW q \in {0} \cup Queue, Backlogged(s, q), Payable(s, q)
  PROVE  /\ StateOK(Sent(s, q))
         /\ Sent(s, q).queues = [s.queues EXCEPT ![q] = Tail(@)]
         /\ Sent(s, q).nic.tx = 1 /\ Sent(s, q).nic.paused = s.nic.paused
         /\ Sent(s, q).nic.rrlast = IF q = 0 THEN s.nic.rrlast ELSE q
<1>1. PICK t : t = Sent(s, q)
  OBVIOUS
<1>2. PICK qs : qs = [s.queues EXCEPT ![q] = Tail(@)]
  OBVIOUS
<1>3. PICK r \in {0} \cup Queue : r = IF q = 0 THEN s.nic.rrlast ELSE q
  BY DEF StateOK, NicType
<1>4. PICK n : n = [s.nic EXCEPT !.tx = 1, !.rrlast = r]
  OBVIOUS
<1>5. s.nic \in NicType
  BY DEF StateOK
<1>6. /\ n \in NicType /\ n.tx = 1 /\ n.paused = s.nic.paused /\ n.rrlast = r
  BY <1>4, <1>5 DEF NicType
<1>7. t.queues = qs /\ t.nic = n
  <2>1. n = [s.nic EXCEPT !.tx = 1, !.rrlast = IF q = 0 THEN @ ELSE q]
    BY <1>3, <1>4, <1>5 DEF NicType
  <2> QED
    BY <1>1, <1>2, <2>1, Fields DEF Sent
<1>8. QueuesOK(qs)
  <2>1. Tail(s.queues[q]) \in Seq(Sizes) /\ Len(Tail(s.queues[q])) <= MaxPackets
    BY HeadIs
  <2> QED
    BY <1>2, <2>1 DEF StateOK, QueuesOK
<1>9. BucketsOK(t.bucket)
  <2>1. DOMAIN t.bucket = Group
    BY <1>1, Fields DEF Sent
  <2>2. \A g \in Group : BucketOK(t.bucket[g], g)
    BY <1>1, SentBuckets
  <2> QED
    BY <2>1, <2>2 DEF BucketsOK
<1>10. Homed(qs, t.bucket)
  <2> SUFFICES ASSUME NEW c \in Logical, qs[c] # <<>>
               PROVE  Member(t.bucket[GroupOf[c]], c)
    BY DEF Homed
  <2>1. c \in Queue /\ GroupOf[c] \in Group
    BY Constants
  <2>2. s.queues[c] # <<>>
    <3>1. c # q => qs[c] = s.queues[c]
      BY <1>2, <2>1 DEF StateOK, QueuesOK
    <3> QED
      BY <3>1 DEF Backlogged
  <2>3. Member(s.bucket[GroupOf[c]], c)
    BY <2>2 DEF StateOK, Homed
  <2>4. t.bucket[GroupOf[c]].queues = s.bucket[GroupOf[c]].queues
    BY <1>1, <2>1, SentBuckets
  <2> QED
    BY <2>3, <2>4 DEF Member
<1> QED
  BY <1>1, <1>2, <1>3, <1>6, <1>7, <1>8, <1>9, <1>10 DEF StateOK

-----------------------------------------------------------------------------
(* The invariant of a state s of the device                                *)

Exact(s, c) == \A g \in Group : Tokens(s.bucket[g]) = c[g]

Conserving(s, lost) ==
  s.nic.tx = Off /\ s.nic.wake # 0 =>
    /\ s.queues[0] = <<>>
    /\ \A q \in Plain : Backlogged(s, q) => Paused(s, q)
    /\ \A g \in Group \ lost : \A q \in Nominee(s, g) : s.bucket[g].rate > 0 =>
         ~Affordable(s, q) /\ s.nic.wake # Off /\ s.nic.wake <= Wait(s, q)

(* Who waits has his turn before who was served meanwhile: in the group of *)
(* both, or in the scan.                                                   *)
InTurn(b, c, d) ==
  \E i, j \in DOMAIN b.queues : b.queues[i] = c /\ b.queues[j] = d /\ Turn(b, i) < Turn(b, j)

Mates(p) == p[1] \in Logical /\ p[2] \in Logical /\ GroupOf[p[1]] = GroupOf[p[2]]

Ahead(s, p) ==
  IF Mates(p) THEN InTurn(s.bucket[GroupOf[p[1]]], p[1], p[2])
  ELSE Rank(s, p[1]) < Rank(s, p[2])

(* Those who wait for the scan can be served, so nobody does when the      *)
(* device is idle.                                                         *)
Waiting(s, p) == Mates(p) \/ p[1] \in Ready(s)

Ordered(s, P) ==
  \A p \in P : p \in Queue \X Queue /\ p[1] # p[2] /\ Ahead(s, p)

IInv ==
  /\ StateOK(State)
  /\ Exact(State, credit)
  /\ Conserving(State, detached)
  /\ Ordered(State, passed)
  /\ \A p \in passed : Waiting(State, p)
  /\ nic.tx = Off => \A p \in passed : Mates(p)
  /\ ~unfair
  /\ detached \subseteq Group

-----------------------------------------------------------------------------
(* Serving in turn *)

LEMMA AwaitsIs ==
  ASSUME NEW s, StateOK(s), NEW p \in Awaits(s)
  PROVE  /\ p \in Queue \X Queue /\ p[1] # p[2]
         /\ Waiting(s, p) /\ Backlogged(s, p[1])
<1>1. CASE p \in Ready(s) \X Queue /\ p[1] # p[2]
  <2>1. p[1] \in Ready(s) /\ p[2] \in Queue /\ p = <<p[1], p[2]>>
    BY <1>1
  <2>2. p[1] \in Queue /\ Backlogged(s, p[1])
    BY <2>1, ReadyIs DEF Can
  <2> QED
    BY <1>1, <2>1, <2>2 DEF Waiting
<1>2. CASE \E g \in Group : p \in Rivals(g) /\ p[1] # p[2] /\ Backlogged(s, p[1])
  BY <1>2, Constants DEF Rivals, Members, Waiting, Mates
<1> QED
  BY <1>1, <1>2 DEF Awaits, Rivalry

(* In the scan, who is served comes last next time; the order of the       *)
(* others who came after him is kept.                                      *)
LEMMA RankAfter ==
  ASSUME NEW s, s.nic.rrlast \in {0} \cup Queue, NEW q \in Queue,
         NEW t, t.nic.rrlast = q
  PROVE  /\ \A c \in Queue \ {q} : Rank(t, c) < Rank(t, q)
         /\ \A c, d \in Queue \ {q} :
              Rank(s, q) <= Rank(s, c) /\ Rank(s, c) < Rank(s, d) => Rank(t, c) < Rank(t, d)
<1>1. PICK r \in 0..N : r = s.nic.rrlast
  BY Constants
<1>2. \A c \in Queue : Rank(s, c) = IF c > r THEN c - r - 1 ELSE c - r + N
  BY <1>1, Ranks
<1>3. \A c \in Queue : Rank(t, c) = IF c > q THEN c - q - 1 ELSE c - q + N
  BY Ranks
<1>4. q \in 1..N /\ N \in Nat /\ \A c \in Queue : c \in 1..N
  BY Constants
<1>5. \A c \in Queue \ {q} : Rank(t, c) < Rank(t, q)
  BY <1>3, <1>4
<1>6. ASSUME NEW c \in Queue \ {q}, NEW d \in Queue \ {q},
             Rank(s, q) <= Rank(s, c), Rank(s, c) < Rank(s, d)
      PROVE  Rank(t, c) < Rank(t, d)
  <2>1. PICK i \in 1..N, j \in 1..N, k \in 1..N : i = q /\ j = c /\ k = d /\ j # i /\ k # i
    BY <1>4
  <2>2. /\ (IF i > r THEN i - r - 1 ELSE i - r + N) <= (IF j > r THEN j - r - 1 ELSE j - r + N)
        /\ (IF j > r THEN j - r - 1 ELSE j - r + N) < (IF k > r THEN k - r - 1 ELSE k - r + N)
    BY <2>1, <1>2, <1>6
  <2>3. (IF j > i THEN j - i - 1 ELSE j - i + N) < (IF k > i THEN k - i - 1 ELSE k - i + N)
    BY <2>1, <2>2, <1>4
  <2> QED
    BY <2>1, <2>3, <1>3
<1> QED
  BY <1>5, <1>6

(* Likewise in a group.                                                    *)
LEMMA TurnAfter ==
  ASSUME NEW g, NEW b, BucketOK(b, g), NEW d, d.queues = b.queues,
         NEW i \in DOMAIN b.queues, d.next = i % Len(b.queues)
  PROVE  /\ \A j \in DOMAIN b.queues : j # i => Turn(d, j) < Turn(d, i)
         /\ \A j, k \in DOMAIN b.queues :
              j # i /\ Turn(b, i) <= Turn(b, j) /\ k # i /\ Turn(b, j) < Turn(b, k)
                => Turn(d, j) < Turn(d, k)
<1>1. b \in BucketType
  BY DEF BucketOK
<1>2. PICK L \in Nat, n \in Nat : L = Len(b.queues) /\ n = b.next
  BY <1>1, BucketFields, LenProperties
<1>3. DOMAIN b.queues = 1..L /\ (n = 0 \/ n < L)
  BY <1>1, <1>2, BucketFields, LenProperties DEF BucketOK
<1>4. i \in 1..L /\ d.next = IF i = L THEN 0 ELSE i
  BY <1>2, <1>3
<1>5. \A j : Turn(b, j) = IF j > n THEN j - n ELSE j - n + L
  BY <1>2 DEF Turn
<1>6. \A j \in 1..L : Turn(d, j) = IF j > i THEN j - i ELSE j - i + L
  <2> SUFFICES ASSUME NEW j \in 1..L
               PROVE  Turn(d, j) = IF j > i THEN j - i ELSE j - i + L
    OBVIOUS
  <2>1. PICK m \in Nat : m = d.next /\ m = IF i = L THEN 0 ELSE i
    BY <1>4
  <2>2. Turn(d, j) = IF j > m THEN j - m ELSE j - m + L
    BY <2>1, <1>2 DEF Turn
  <2> QED
    BY <2>1, <2>2, <1>4
<1>7. \A j \in 1..L : j # i => Turn(d, j) < Turn(d, i)
  BY <1>4, <1>6
<1>8. ASSUME NEW j \in 1..L, NEW k \in 1..L, j # i, k # i,
             Turn(b, i) <= Turn(b, j), Turn(b, j) < Turn(b, k)
      PROVE  Turn(d, j) < Turn(d, k)
  <2>1. /\ (IF i > n THEN i - n ELSE i - n + L) <= (IF j > n THEN j - n ELSE j - n + L)
        /\ (IF j > n THEN j - n ELSE j - n + L) < (IF k > n THEN k - n ELSE k - n + L)
    BY <1>5, <1>8
  <2>2. i \in 1..L /\ j # i /\ k # i /\ (n = 0 \/ n < L)
    BY <1>3, <1>4, <1>8
  <2>3. (IF j > i THEN j - i ELSE j - i + L) < (IF k > i THEN k - i ELSE k - i + L)
    BY <2>1, <2>2
  <2> QED
    BY <2>3, <1>6
<1> QED
  BY <1>3, <1>7, <1>8

(* Who waits while q is served *)
Taken(s, q) == {p \in Awaits(s) : p[2] = q}

(* Nobody who waits has let q pass before, and q is the last of all when   *)
(* it has been served.                                                     *)
LEMMA ServedInTurn ==
  ASSUME NEW s, StateOK(s), \A g \in Group : s.bucket[g].age = 0,
         NEW P, Ordered(s, P), \A p \in P : Waiting(s, p),
         NEW q \in Ready(s), \A r \in Ready(s) : Rank(s, q) <= Rank(s, r),
         NEW t, t = Sent(s, q)
  PROVE  /\ P \cap Taken(s, q) = {}
         /\ Ordered(t, {p \in (P \cup Taken(s, q)) \cap Awaits(t) : p[1] # q})
<1>1. q \in Queue /\ Can(s, q) /\ q # 0 /\ q \in {0} \cup Queue
  BY ReadyIs, Constants
<1>2. Backlogged(s, q) /\ Payable(s, q)
  <2>1. q \in Logical => q \notin Plain
    BY Constants
  <2> QED
    BY <1>1, <2>1, ReadyIs DEF Can, Payable
<1>3. /\ StateOK(t) /\ t.queues = [s.queues EXCEPT ![q] = Tail(@)] /\ t.nic.rrlast = q
  <2>1. /\ StateOK(Sent(s, q)) /\ Sent(s, q).queues = [s.queues EXCEPT ![q] = Tail(@)]
        /\ Sent(s, q).nic.rrlast = IF q = 0 THEN s.nic.rrlast ELSE q
    BY <1>1, <1>2, SentOK
  <2> QED
    BY <2>1, <1>1
<1>4. s.nic.rrlast \in {0} \cup Queue
  BY DEF StateOK, NicType
(* The queues of the group of q: who is backlogged can be chosen, too. *)
<1>5. ASSUME NEW c \in Logical, c # q, Backlogged(s, c), q \in Logical, GroupOf[c] = GroupOf[q]
      PROVE  \E i, j \in DOMAIN s.bucket[GroupOf[q]].queues :
               /\ s.bucket[GroupOf[q]].queues[i] = q /\ s.bucket[GroupOf[q]].queues[j] = c
               /\ i # j /\ Turn(s.bucket[GroupOf[q]], i) <= Turn(s.bucket[GroupOf[q]], j)
  <2>1. q \in Nominee(s, GroupOf[q]) /\ GroupOf[q] \in Group
    BY <1>5, ReadyIs, Constants
  <2>2. Can(s, c)
    <3>1. Priority[c] = Priority[q]
      BY <1>5, ShaperConfig
    <3> QED
      BY <3>1, <1>1, <1>5 DEF Can, Paused
  <2>3. PICK i \in DOMAIN s.bucket[GroupOf[q]].queues : s.bucket[GroupOf[q]].queues[i] = q
    BY <2>1, NomineeLogical DEF StateOK, Member
  <2>4. PICK j \in DOMAIN s.bucket[GroupOf[q]].queues : s.bucket[GroupOf[q]].queues[j] = c
    BY <1>5 DEF StateOK, Homed, Backlogged, Member
  <2>5. BucketsOK(s.bucket)
    BY DEF StateOK
  <2>6. Turn(s.bucket[GroupOf[q]], i) <= Turn(s.bucket[GroupOf[q]], j)
    BY <2>1, <2>2, <2>3, <2>4, <2>5, NomineeTurn
  <2> QED
    BY <2>3, <2>4, <2>6, <1>5
(* A place in a group is one queue's, and the other way round.              *)
<1>6. ASSUME NEW g \in Group, NEW i \in DOMAIN s.bucket[g].queues, NEW j \in DOMAIN s.bucket[g].queues,
             s.bucket[g].queues[i] = s.bucket[g].queues[j]
      PROVE  i = j
  BY <1>6 DEF StateOK, BucketsOK, BucketOK, Distinct
<1>7. ASSUME NEW g \in Group, NEW i \in DOMAIN s.bucket[g].queues
      PROVE  Turn(s.bucket[g], i) \in Int
  <2>1. BucketOK(s.bucket[g], g)
    BY DEF StateOK, BucketsOK
  <2> QED
    BY <2>1, TurnType
<1>8. ASSUME NEW p \in P, p \in Taken(s, q) PROVE FALSE
  <2>1. /\ p \in Queue \X Queue /\ p[1] # q /\ p[2] = q /\ Ahead(s, p)
        /\ Waiting(s, p) /\ Backlogged(s, p[1])
    BY <1>8, AwaitsIs DEF Ordered, Taken
  <2>2. CASE Mates(p)
    <3>1. /\ p[1] \in Logical /\ q \in Logical /\ GroupOf[p[1]] = GroupOf[q]
          /\ GroupOf[q] \in Group
      BY <2>1, <2>2, Constants DEF Mates
    <3>2. PICK i \in DOMAIN s.bucket[GroupOf[q]].queues : \E j \in DOMAIN s.bucket[GroupOf[q]].queues :
               /\ s.bucket[GroupOf[q]].queues[i] = q /\ s.bucket[GroupOf[q]].queues[j] = p[1]
               /\ Turn(s.bucket[GroupOf[q]], i) <= Turn(s.bucket[GroupOf[q]], j)
      BY <3>1, <2>1, <1>5
    <3>3. PICK j \in DOMAIN s.bucket[GroupOf[q]].queues :
               /\ s.bucket[GroupOf[q]].queues[i] = q /\ s.bucket[GroupOf[q]].queues[j] = p[1]
               /\ Turn(s.bucket[GroupOf[q]], i) <= Turn(s.bucket[GroupOf[q]], j)
      BY <3>2
    <3>4. InTurn(s.bucket[GroupOf[q]], p[1], q)
      BY <2>1, <2>2, <3>1 DEF Ahead
    <3>5. PICK m \in DOMAIN s.bucket[GroupOf[q]].queues : \E n \in DOMAIN s.bucket[GroupOf[q]].queues :
               /\ s.bucket[GroupOf[q]].queues[m] = p[1] /\ s.bucket[GroupOf[q]].queues[n] = q
               /\ Turn(s.bucket[GroupOf[q]], m) < Turn(s.bucket[GroupOf[q]], n)
      BY <3>4 DEF InTurn
    <3>6. Turn(s.bucket[GroupOf[q]], j) < Turn(s.bucket[GroupOf[q]], i)
      BY <3>1, <3>3, <3>5, <1>6
    <3> QED
      BY <3>1, <3>3, <3>6, <1>7
  <2>3. CASE ~Mates(p)
    <3>1. p[1] \in Ready(s) /\ Rank(s, p[1]) < Rank(s, q)
      BY <2>1, <2>3 DEF Waiting, Ahead
    <3>2. Rank(s, q) <= Rank(s, p[1]) /\ Rank(s, q) \in Nat /\ Rank(s, p[1]) \in Nat
      BY <3>1, <2>1, <1>1, <1>4, Ranks
    <3> QED
      BY <3>1, <3>2
  <2> QED
    BY <2>2, <2>3
<1>9. ASSUME NEW p \in (P \cup Taken(s, q)) \cap Awaits(t), p[1] # q
      PROVE  p \in Queue \X Queue /\ p[1] # p[2] /\ Ahead(t, p)
  <2>1. p \in Queue \X Queue /\ p[1] # p[2] /\ Backlogged(t, p[1])
    BY <1>3, <1>9, AwaitsIs
  <2>2. Backlogged(s, p[1])
    <3>1. t.queues[p[1]] = s.queues[p[1]]
      BY <1>3, <1>9, <2>1 DEF StateOK, QueuesOK
    <3> QED
      BY <2>1, <3>1 DEF Backlogged
  <2>3. p \in Taken(s, q) => p[2] = q /\ Waiting(s, p)
    BY AwaitsIs DEF Taken
  <2>4. p \in P => Ahead(s, p) /\ Waiting(s, p)
    BY DEF Ordered
  <2>5. CASE Mates(p)
    <3>1. PICK g \in Group : g = GroupOf[p[1]] /\ g = GroupOf[p[2]]
      BY <2>5, Constants DEF Mates
    <3>2. p[1] \in Logical /\ p[2] \in Logical
      BY <2>5 DEF Mates
    <3>3. t.bucket[g].queues = s.bucket[g].queues
      BY <1>1, <1>2, SentBuckets
    <3>4. CASE ~Debited(g, q)
      <4>1. p[2] # q
        BY <3>1, <3>2, <3>4 DEF Debited
      <4>2. Ahead(s, p)
        BY <4>1, <2>3, <2>4
      <4>3. t.bucket[g] = s.bucket[g]
        BY <1>1, <1>2, <3>4, SentBuckets
      <4> QED
        BY <4>2, <4>3, <2>1, <2>5, <3>1 DEF Ahead
    <3>5. CASE Debited(g, q)
      <4>1. q \in Logical /\ g = GroupOf[q]
        BY <3>5 DEF Debited
      <4>2. PICK i \in DOMAIN s.bucket[g].queues : s.bucket[g].queues[i] = q
              /\ t.bucket[g].next = i % Len(s.bucket[g].queues)
        BY <1>1, <1>2, <3>5, SentBuckets
      <4>3. PICK j \in DOMAIN s.bucket[g].queues : s.bucket[g].queues[j] = p[1] /\ j # i
              /\ Turn(s.bucket[g], i) <= Turn(s.bucket[g], j)
        <5>1. PICK m \in DOMAIN s.bucket[g].queues : \E j \in DOMAIN s.bucket[g].queues :
                /\ s.bucket[g].queues[m] = q /\ s.bucket[g].queues[j] = p[1]
                /\ m # j /\ Turn(s.bucket[g], m) <= Turn(s.bucket[g], j)
          BY <4>1, <1>5, <1>9, <2>2, <3>1, <3>2
        <5>2. m = i
          BY <5>1, <4>2, <1>6
        <5> QED
          BY <5>1, <5>2
      <4>4. BucketOK(s.bucket[g], g)
        BY DEF StateOK, BucketsOK
      <4>5. CASE p[2] = q
        <5>1. Turn(t.bucket[g], j) < Turn(t.bucket[g], i)
          BY <4>2, <4>3, <4>4, <3>3, TurnAfter
        <5>2. InTurn(t.bucket[g], p[1], p[2])
          BY <5>1, <4>2, <4>3, <4>5, <3>3 DEF InTurn
        <5> QED
          BY <5>2, <2>1, <2>5, <3>1 DEF Ahead
      <4>6. CASE p[2] # q
        <5>1. InTurn(s.bucket[g], p[1], p[2])
          BY <4>6, <2>3, <2>4, <2>5, <3>1 DEF Ahead
        <5>2. PICK m \in DOMAIN s.bucket[g].queues : \E n \in DOMAIN s.bucket[g].queues :
                /\ s.bucket[g].queues[m] = p[1] /\ s.bucket[g].queues[n] = p[2]
                /\ Turn(s.bucket[g], m) < Turn(s.bucket[g], n)
          BY <5>1 DEF InTurn
        <5>3. PICK n \in DOMAIN s.bucket[g].queues :
                /\ s.bucket[g].queues[m] = p[1] /\ s.bucket[g].queues[n] = p[2]
                /\ Turn(s.bucket[g], m) < Turn(s.bucket[g], n)
          BY <5>2
        <5>4. m = j /\ n # i
          BY <5>3, <4>2, <4>3, <4>6, <1>6
        <5>5. Turn(t.bucket[g], j) < Turn(t.bucket[g], n)
          BY <5>3, <5>4, <4>2, <4>3, <4>4, <3>3, TurnAfter
        <5>6. InTurn(t.bucket[g], p[1], p[2])
          BY <5>3, <5>4, <5>5, <3>3 DEF InTurn
        <5> QED
          BY <5>6, <2>1, <2>5, <3>1 DEF Ahead
      <4> QED
        BY <4>5, <4>6
    <3> QED
      BY <3>4, <3>5
  <2>6. CASE ~Mates(p)
    <3>1. p[1] \in Queue \ {q} /\ p[2] \in Queue
      BY <2>1, <1>9
    <3>2. CASE p[2] = q
      <4>1. Rank(t, p[1]) < Rank(t, p[2])
        BY <1>1, <1>3, <1>4, <3>1, <3>2, RankAfter
      <4> QED
        BY <4>1, <2>1, <2>6 DEF Ahead
    <3>3. CASE p[2] # q
      <4>1. Rank(s, p[1]) < Rank(s, p[2]) /\ p[1] \in Ready(s)
        BY <3>3, <2>3, <2>4, <2>6 DEF Ahead, Waiting
      <4>2. Rank(s, q) <= Rank(s, p[1])
        BY <4>1
      <4>3. Rank(t, p[1]) < Rank(t, p[2])
        BY <4>1, <4>2, <1>1, <1>3, <1>4, <3>1, <3>3, RankAfter
      <4> QED
        BY <4>3, <2>1, <2>6 DEF Ahead
    <3> QED
      BY <3>2, <3>3
  <2> QED
    BY <2>5, <2>6
<1> QED
  BY <1>8, <1>9 DEF Ordered

-----------------------------------------------------------------------------
(* Steps to a state s of the device *)

IsState(s) == s = At(s.queues, s.bucket, s.nic)

LEMMA Becomes ==
  ASSUME NEW s, IsState(s), Become(s)
  PROVE  State' = s
  BY DEF IsState, State, Become

LEMMA AtIsState ==
  ASSUME NEW q, NEW b, NEW n
  PROVE  IsState(At(q, b, n))
  BY DEF IsState, At

(* What holds when nobody is served. *)
LEMMA NobodyInTurn ==
  ASSUME NEW s, IsState(s), StateOK(s), Ordered(s, passed), Become(s), NobodyServed(s), ~unfair
  PROVE  /\ State' = s /\ passed' \subseteq passed
         /\ Ordered(State, passed)' /\ (\A p \in passed : Waiting(State, p))' /\ ~unfair'
<1>1. State' = s
  BY Becomes
<1>2. passed' \subseteq passed /\ passed' \subseteq Awaits(s) /\ ~unfair'
  BY DEF NobodyServed
<1>3. Ordered(s, passed')
  BY <1>2 DEF Ordered
<1>4. \A p \in passed' : Waiting(s, p)
  BY <1>2, AwaitsIs
<1> QED
  BY <1>1, <1>2, <1>3, <1>4

LEMMA SameOrder ==
  ASSUME NEW s, NEW t, SameTurns(s, t), NEW P, Ordered(s, P)
  PROVE  Ordered(t, P)
<1> SUFFICES ASSUME NEW p \in P
             PROVE  p \in Queue \X Queue /\ p[1] # p[2] /\ Ahead(t, p)
  BY DEF Ordered
<1>1. p \in Queue \X Queue /\ p[1] # p[2] /\ Ahead(s, p)
  BY DEF Ordered
<1>2. CASE Mates(p)
  <2>1. PICK g \in Group : g = GroupOf[p[1]]
    BY <1>2, Constants DEF Mates
  <2>2. s.bucket[g].queues = t.bucket[g].queues /\ s.bucket[g].next = t.bucket[g].next
    BY DEF SameTurns, SameQueues
  <2>3. \A i : Turn(s.bucket[g], i) = Turn(t.bucket[g], i)
    BY <2>2 DEF Turn
  <2>4. InTurn(s.bucket[g], p[1], p[2])
    BY <1>1, <1>2, <2>1 DEF Ahead
  <2>5. InTurn(t.bucket[g], p[1], p[2])
    BY <2>2, <2>3, <2>4 DEF InTurn
  <2> QED
    BY <1>1, <1>2, <2>1, <2>5 DEF Ahead
<1>3. CASE ~Mates(p)
  <2>1. \A q : Rank(s, q) = Rank(t, q)
    BY DEF SameTurns, Rank
  <2> QED
    BY <1>1, <1>3, <2>1 DEF Ahead
<1> QED
  BY <1>2, <1>3

(* A device with nothing to send wakes when it can send again. *)
LEMMA NothingConserves ==
  ASSUME NEW s, StateOK(s), Ready(WakeSet(s)) = {}, ~Backlogged(WakeSet(s), 0)
  PROVE  Conserving(WakeSet(s), {})
<1>1. PICK u : u = WakeSet(s)
  OBVIOUS
<1>2. /\ StateOK(u) /\ SameView(s, u) /\ u.bucket = s.bucket
      /\ \A w \in Waits(s) : u.nic.wake # Off /\ u.nic.wake <= w
  BY <1>1, WakeSetOK
<1>3. \A q \in Plain : Backlogged(u, q) => Paused(u, q)
  BY <1>1 DEF Ready
<1>4. ASSUME NEW g \in Group, NEW q \in Nominee(u, g), u.bucket[g].rate > 0
      PROVE  ~Affordable(u, q) /\ u.nic.wake # Off /\ u.nic.wake <= Wait(u, q)
  <2>1. ~Affordable(u, q)
    BY <1>1 DEF Ready
  <2>2. BucketsOK(s.bucket)
    BY DEF StateOK
  <2>3. q \in Nominee(s, g)
    BY <1>2, <2>2, SameChoice
  <2>4. Affordable(s, q) = Affordable(u, q) /\ Wait(s, q) = Wait(u, q)
    BY <1>2, <2>2, <2>3, SameChoice
  <2>5. GroupOf[q] = g
    BY <2>2, <2>3, NomineeLogical
  <2>6. Wait(s, q) \in Waits(s)
    BY <1>2, <1>4, <2>1, <2>3, <2>4, <2>5 DEF Waits
  <2> QED
    BY <1>2, <2>1, <2>4, <2>6
<1>5. u.queues[0] = <<>>
  BY <1>1 DEF Backlogged
<1> QED
  BY <1>1, <1>3, <1>4, <1>5 DEF Conserving

LEMMA SentExact ==
  ASSUME NEW s, StateOK(s), \A g \in Group : s.bucket[g].age = 0, Exact(s, credit),
         NEW q \in {0} \cup Queue, Backlogged(s, q), Payable(s, q), Transmit(s, q)
  PROVE  Exact(Sent(s, q), credit')
<1> SUFFICES ASSUME NEW g \in Group
             PROVE  Tokens(Sent(s, q).bucket[g]) = credit'[g]
  BY DEF Exact
<1>1. credit'[g] = IF Debited(g, q) THEN credit[g] - Head(s.queues[q]) ELSE credit[g]
  BY DEF Transmit
<1>2. Tokens(s.bucket[g]) = credit[g]
  BY DEF Exact
<1> QED
  BY <1>1, <1>2, SentBuckets

LEMMA Transmitted ==
  ASSUME NEW s, StateOK(s), \A g \in Group : s.bucket[g].age = 0, Exact(s, credit),
         Ordered(s, passed), \A p \in passed : Waiting(s, p), ~unfair,
         NEW q, Backlogged(s, q), Transmit(s, q),
         q = 0 \/ (q \in Ready(s) /\ \A r \in Ready(s) : Rank(s, q) <= Rank(s, r))
  PROVE  /\ State' = Sent(s, q) /\ StateOK(State)' /\ Exact(State, credit)'
         /\ Ordered(State, passed)' /\ (\A p \in passed : Waiting(State, p))'
         /\ ~unfair' /\ nic'.tx = 1
<1>1. q \in {0} \cup Queue /\ Payable(s, q)
  <2>1. q \in Ready(s) => q \in Queue /\ (q \in Logical => q \notin Plain)
    BY ReadyIs, Constants
  <2>2. 0 \notin Logical
    BY Constants
  <2> QED
    BY <2>1, <2>2, ReadyIs DEF Payable
<1>2. PICK t : t = Sent(s, q)
  OBVIOUS
<1>3. StateOK(t) /\ t.nic.tx = 1 /\ t.nic.rrlast = IF q = 0 THEN s.nic.rrlast ELSE q
  <2>1. /\ StateOK(Sent(s, q)) /\ Sent(s, q).nic.tx = 1
        /\ Sent(s, q).nic.rrlast = IF q = 0 THEN s.nic.rrlast ELSE q
    BY <1>1, SentOK
  <2> QED
    BY <2>1, <1>2
<1>4. IsState(t) /\ Become(t)
  BY <1>2, AtIsState DEF Sent, Transmit
<1>5. State' = t
  BY <1>4, Becomes
<1>6. Exact(t, credit')
  BY <1>1, <1>2, SentExact
<1>7. nic' = t.nic
  BY <1>4 DEF Become
<1>8. CASE q = 0
  <2>1. SameTurns(s, t)
    <3>1. \A g \in Group : t.bucket[g] = s.bucket[g]
      BY <1>1, <1>2, <1>8, SentBuckets, Constants DEF Debited
    <3> QED
      BY <3>1, <1>3, <1>8 DEF SameTurns, SameQueues
  <2>2. Ordered(t, passed)
    BY <2>1, SameOrder
  <2>3. NobodyServed(t)
    BY <1>2, <1>8 DEF Transmit
  <2> QED
    BY <2>2, <2>3, <1>2, <1>3, <1>4, <1>5, <1>6, <1>7, NobodyInTurn
<1>9. CASE q # 0
  <2>1. Served(s, q, t)
    BY <1>2, <1>9 DEF Transmit
  <2>2. q \in Ready(s) /\ \A r \in Ready(s) : Rank(s, q) <= Rank(s, r)
    BY <1>9
  <2>3. /\ passed \cap Taken(s, q) = {}
        /\ Ordered(t, {p \in (passed \cup Taken(s, q)) \cap Awaits(t) : p[1] # q})
    BY <2>2, <1>2, ServedInTurn
  <2>4. /\ passed' = {p \in (passed \cup Taken(s, q)) \cap Awaits(t) : p[1] # q}
        /\ ~unfair'
    BY <2>1, <2>3 DEF Served, Taken
  <2>5. \A p \in passed' : Waiting(t, p)
    BY <2>4, <1>3, AwaitsIs
  <2>6. Ordered(t, passed')
    BY <2>3, <2>4
  <2> QED
    BY <2>4, <2>5, <2>6, <1>2, <1>3, <1>5, <1>6, <1>7
<1> QED
  BY <1>8, <1>9

(* The scheduler may be asked in state s. *)
Askable(s) ==
  /\ StateOK(s) /\ Exact(s, credit) /\ Ordered(s, passed)
  /\ s.nic.tx = Off => \A p \in passed : Waiting(s, p)
  /\ ~unfair /\ detached \subseteq Group

LEMMA Dequeued ==
  ASSUME NEW s, IsState(s), Askable(s), DequeueAndTransmit(s)
  PROVE  IInv'
<1>1. CASE s.nic.tx # Off
  <2>1. Nothing(s) /\ detached' = detached
    BY <1>1 DEF DequeueAndTransmit
  <2>2. /\ State' = s /\ Ordered(State, passed)' /\ (\A p \in passed : Waiting(State, p))'
        /\ ~unfair'
    BY <2>1, NobodyInTurn DEF Nothing, Askable
  <2>3. nic' = s.nic /\ credit' = credit
    BY <2>1 DEF Nothing, Become
  <2>4. Conserving(s, detached)
    BY <1>1 DEF Conserving
  <2> QED
    BY <1>1, <2>1, <2>2, <2>3, <2>4 DEF IInv, Askable
<1>2. CASE s.nic.tx = Off
  <2>1. PICK t : t = Updated(s)
    OBVIOUS
  <2>2. PICK u : u = WakeSet(t)
    OBVIOUS
  <2>3. Choose(u) /\ detached' = {}
    BY <1>2, <2>1, <2>2 DEF DequeueAndTransmit
  <2>4. StateOK(t) /\ SameView(s, t) /\ \A g \in Group : t.bucket[g].age = 0
    BY <2>1, UpdatedOK DEF Askable
  <2>5. StateOK(u) /\ SameView(t, u) /\ u.bucket = t.bucket
    BY <2>2, <2>4, WakeSetOK
  <2>6. SameView(s, u)
    BY <2>4, <2>5 DEF SameView, SameTurns, SameQueues
  <2>7. IsState(u)
    BY <2>1, <2>2, AtIsState DEF Updated, WakeSet
  <2>8. Exact(u, credit)
    BY <2>6 DEF Askable, Exact, SameView
  <2>9. Ordered(u, passed)
    BY <2>6, SameOrder DEF Askable, SameView
  <2>10. \A p \in passed : Waiting(u, p)
    <3>1. Ready(s) = Ready(u)
      BY <2>6, SameChoice DEF Askable, StateOK
    <3> QED
      BY <3>1, <1>2 DEF Askable, Waiting
  <2>11. ~unfair
    BY DEF Askable
  <2>12. \A g \in Group : u.bucket[g].age = 0
    BY <2>4, <2>5
  <2>13. ASSUME NEW q, Backlogged(u, q), Transmit(u, q),
                q = 0 \/ (q \in Ready(u) /\ \A r \in Ready(u) : Rank(u, q) <= Rank(u, r))
         PROVE  IInv'
    <3>1. /\ StateOK(State)' /\ Exact(State, credit)'
          /\ Ordered(State, passed)' /\ (\A p \in passed : Waiting(State, p))'
          /\ ~unfair' /\ nic'.tx = 1
      BY <2>5, <2>8, <2>9, <2>10, <2>11, <2>12, <2>13, Transmitted
    <3>2. nic'.tx # Off
      BY <3>1 DEF Off
    <3>3. Conserving(State, detached)'
      BY <3>2, Fields DEF Conserving, State
    <3> QED
      BY <2>3, <3>1, <3>2, <3>3 DEF IInv
  <2>14. CASE Backlogged(u, 0)
    <3>1. PICK q : q = 0
      OBVIOUS
    <3>2. /\ Backlogged(u, q) /\ Transmit(u, q)
          /\ q = 0 \/ (q \in Ready(u) /\ \A r \in Ready(u) : Rank(u, q) <= Rank(u, r))
      BY <2>3, <2>14, <3>1 DEF Choose
    <3> QED
      BY <2>13, <3>2
  <2>15. CASE ~Backlogged(u, 0) /\ Ready(u) # {}
    <3>1. PICK q : q = FirstInTurn(u)
      OBVIOUS
    <3>2. Transmit(u, q)
      BY <2>3, <2>15, <3>1 DEF Choose
    <3>3. q \in Ready(u) /\ \A r \in Ready(u) : Rank(u, q) <= Rank(u, r)
      BY <2>5, <2>15, <3>1, FirstIs
    <3>4. Backlogged(u, q)
      BY <2>5, <3>3, ReadyIs DEF Can
    <3> QED
      BY <2>13, <3>2, <3>3, <3>4
  <2>16. CASE ~Backlogged(u, 0) /\ Ready(u) = {}
    <3>1. Nothing(u)
      BY <2>3, <2>16 DEF Choose
    <3>2. /\ State' = u /\ Ordered(State, passed)' /\ (\A p \in passed : Waiting(State, p))'
          /\ ~unfair'
      BY <2>5, <2>7, <2>9, <2>11, <3>1, NobodyInTurn DEF Nothing
    <3>3. credit' = credit
      BY <3>1 DEF Nothing
    <3>4. Conserving(u, {})
      BY <2>2, <2>4, <2>16, NothingConserves
    <3>5. \A p \in passed' : Mates(p)
      BY <2>16, <3>2 DEF Waiting
    <3> QED
      BY <2>3, <2>5, <2>8, <3>2, <3>3, <3>4, <3>5 DEF IInv
  <2> QED
    BY <2>14, <2>15, <2>16
<1> QED
  BY <1>1, <1>2

-----------------------------------------------------------------------------
(* The steps *)

LEMMA StateIs ==
  /\ State.queues = m_queues /\ State.bucket = bucket /\ State.nic = nic
  BY Fields DEF State

LEMMA Asked ==
  ASSUME IInv, NEW s, StateOK(s), Exact(s, credit), SameTurns(State, s),
         s.nic.tx = Off /\ nic.tx # Off => Ready(s) = Ready(State)
  PROVE  Askable(s)
<1>1. Ordered(s, passed)
  BY SameOrder DEF IInv
<1>2. ASSUME s.nic.tx = Off, NEW p \in passed PROVE Waiting(s, p)
  BY <1>2 DEF IInv, Waiting
<1> QED
  BY <1>1, <1>2 DEF IInv, Askable

LEMMA Quieted ==
  ASSUME IInv, NEW s, IsState(s), StateOK(s), Exact(s, credit'), Ordered(s, passed),
         Conserving(s, detached), s.nic.tx = Off => nic.tx = Off,
         Become(s), NobodyServed(s), detached' = detached
  PROVE  IInv'
<1>1. /\ State' = s /\ passed' \subseteq passed
      /\ Ordered(State, passed)' /\ (\A p \in passed : Waiting(State, p))' /\ ~unfair'
  BY NobodyInTurn DEF IInv
<1>2. nic' = s.nic
  BY DEF Become
<1> QED
  BY <1>1, <1>2 DEF IInv

LEMMA SwitchSendStep ==
  ASSUME IInv, NEW q \in {0} \cup Queue, SwitchSend(q)
  PROVE  IInv'
<1>1. PICK size \in Sizes :
        DequeueAndTransmit(At([m_queues EXCEPT ![q] = Append(@, size)], bucket, nic))
  BY MinSize DEF SwitchSend
<1>2. PICK qs : qs = [m_queues EXCEPT ![q] = Append(@, size)]
  OBVIOUS
<1>3. PICK s : s = At(qs, bucket, nic)
  OBVIOUS
<1>4. s.queues = qs /\ s.bucket = bucket /\ s.nic = nic /\ IsState(s)
  BY <1>3, Fields, AtIsState
<1>5. QueuesOK(m_queues) /\ BucketsOK(bucket) /\ nic \in NicType /\ Homed(m_queues, bucket)
  BY StateIs DEF IInv, StateOK
<1>6. QueuesOK(qs)
  <2>1. m_queues[q] \in Seq(Sizes) /\ Len(m_queues[q]) < MaxPackets
    BY <1>5 DEF QueuesOK, SwitchSend
  <2>2. Append(m_queues[q], size) \in Seq(Sizes)
        /\ Len(Append(m_queues[q], size)) = Len(m_queues[q]) + 1 /\ Len(m_queues[q]) \in Nat
    BY <2>1, AppendProperties, LenProperties
  <2>3. Len(Append(m_queues[q], size)) <= MaxPackets
    BY <2>1, <2>2, Constants
  <2> QED
    BY <1>2, <1>5, <2>2, <2>3 DEF QueuesOK
<1>7. Homed(qs, bucket)
  <2> SUFFICES ASSUME NEW c \in Logical, qs[c] # <<>> PROVE Member(bucket[GroupOf[c]], c)
    BY DEF Homed
  <2>1. CASE c = q
    BY <2>1 DEF SwitchSend, Bound, Member
  <2>2. CASE c # q
    <3>1. qs[c] = m_queues[c]
      BY <1>2, <1>5, <2>2, Constants DEF QueuesOK
    <3> QED
      BY <3>1, <1>5 DEF Homed
  <2> QED
    BY <2>1, <2>2
<1>8. StateOK(s)
  BY <1>4, <1>5, <1>6, <1>7 DEF StateOK
<1>9. Exact(s, credit) /\ SameTurns(State, s)
  BY <1>4, StateIs DEF IInv, Exact, SameTurns, SameQueues
<1>10. Askable(s)
  BY <1>4, <1>8, <1>9, Asked
<1> QED
  BY <1>1, <1>2, <1>3, <1>4, <1>10, Dequeued

LEMMA ControlStep ==
  ASSUME IInv, ApplyInjectionControls
  PROVE  IInv'
<1>1. PICK r \in Batches :
    DequeueAndTransmit(At(m_queues, [g \in Group |-> NewRate(bucket[g], r[g])],
                          [nic EXCEPT !.wake = Off]))
  BY DEF ApplyInjectionControls
<1>2. PICK bs : bs = [g \in Group |-> NewRate(bucket[g], r[g])]
  OBVIOUS
<1>3. PICK n : n = [nic EXCEPT !.wake = Off]
  OBVIOUS
<1>4. PICK s : s = At(m_queues, bs, n)
  OBVIOUS
<1>5. s.queues = m_queues /\ s.bucket = bs /\ s.nic = n /\ IsState(s)
  BY <1>4, Fields, AtIsState
<1>6. QueuesOK(m_queues) /\ BucketsOK(bucket) /\ nic \in NicType /\ Homed(m_queues, bucket)
  BY StateIs DEF IInv, StateOK
<1>7. n \in NicType /\ n.tx = nic.tx /\ n.rrlast = nic.rrlast
  <2>1. Off \in Off..Burst
    BY Constants DEF Off
  <2> QED
    BY <1>3, <1>6, <2>1 DEF NicType
<1>8. \A g \in Group :
        /\ BucketOK(bs[g], g) /\ bs[g].queues = bucket[g].queues /\ bs[g].next = bucket[g].next
        /\ Tokens(bs[g]) = Tokens(bucket[g])
  <2> SUFFICES ASSUME NEW g \in Group
               PROVE  /\ BucketOK(NewRate(bucket[g], r[g]), g)
                      /\ NewRate(bucket[g], r[g]).queues = bucket[g].queues
                      /\ NewRate(bucket[g], r[g]).next = bucket[g].next
                      /\ Tokens(NewRate(bucket[g], r[g])) = Tokens(bucket[g])
    BY <1>2
  <2>1. BucketOK(bucket[g], g)
    BY <1>6 DEF BucketsOK
  <2>2. r[g] \in Rates
    BY DEF Batches
  <2> QED
    BY <2>1, <2>2, NewRateOK
<1>9. BucketsOK(bs)
  BY <1>2, <1>8 DEF BucketsOK
<1>10. Homed(m_queues, bs)
  BY <1>6, <1>8, Constants DEF Homed, Member
<1>11. StateOK(s)
  BY <1>5, <1>6, <1>7, <1>9, <1>10 DEF StateOK
<1>12. Exact(s, credit) /\ SameTurns(State, s)
  BY <1>5, <1>7, <1>8, StateIs DEF IInv, Exact, SameTurns, SameQueues
<1>13. Askable(s)
  BY <1>5, <1>7, <1>11, <1>12, Asked
<1> QED
  BY <1>1, <1>2, <1>3, <1>4, <1>5, <1>13, Dequeued

(* Only the state of the device changes, and it is asked. *)
LEMMA NicAsked ==
  ASSUME IInv, NEW n \in NicType, n.rrlast = nic.rrlast,
         n.tx = nic.tx \/ n.paused = nic.paused,
         DequeueAndTransmit(At(m_queues, bucket, n))
  PROVE  IInv'
<1>1. PICK s : s = At(m_queues, bucket, n)
  OBVIOUS
<1>2. s.queues = m_queues /\ s.bucket = bucket /\ s.nic = n /\ IsState(s)
  BY <1>1, Fields, AtIsState
<1>3. QueuesOK(m_queues) /\ BucketsOK(bucket) /\ Homed(m_queues, bucket)
  BY StateIs DEF IInv, StateOK
<1>4. StateOK(s)
  BY <1>2, <1>3 DEF StateOK
<1>5. Exact(s, credit) /\ SameTurns(State, s)
  BY <1>2, StateIs DEF IInv, Exact, SameTurns, SameQueues
<1>6. n.tx # nic.tx => Ready(s) = Ready(State)
  <2> SUFFICES ASSUME n.paused = nic.paused PROVE Ready(s) = Ready(State)
    OBVIOUS
  <2>1. SameView(State, s)
    BY <1>2, <1>5, StateIs DEF SameView
  <2>2. BucketsOK(State.bucket)
    BY <1>3, StateIs
  <2> QED
    BY <2>1, <2>2, SameChoice
<1>7. Askable(s)
  BY <1>2, <1>4, <1>5, <1>6, Asked
<1> QED
  BY <1>1, <1>2, <1>7, Dequeued

LEMMA NicSteps ==
  ASSUME IInv, (\E p \in Pausable : Resume(p)) \/ TransmitComplete \/ ShapeWake
  PROVE  IInv'
<1>1. nic \in NicType
  BY StateIs DEF IInv, StateOK
<1>2. ASSUME NEW p \in Pausable, Resume(p) PROVE IInv'
  <2>1. PICK n : n = [nic EXCEPT !.paused = @ \ {p}]
    OBVIOUS
  <2>2. n \in NicType /\ n.rrlast = nic.rrlast /\ n.tx = nic.tx
    BY <1>1, <2>1 DEF NicType
  <2> QED
    BY <1>2, <2>1, <2>2, NicAsked DEF Resume
<1>3. CASE TransmitComplete
  <2>1. PICK n : n = [nic EXCEPT !.tx = Off]
    OBVIOUS
  <2>2. n \in NicType /\ n.rrlast = nic.rrlast /\ n.paused = nic.paused
    BY <1>1, <2>1 DEF NicType
  <2> QED
    BY <1>3, <2>1, <2>2, NicAsked DEF TransmitComplete
<1>4. CASE ShapeWake
  <2>1. PICK n : n = [nic EXCEPT !.wake = Off]
    OBVIOUS
  <2>2. Off \in Off..Burst
    BY Constants DEF Off
  <2>3. n \in NicType /\ n.rrlast = nic.rrlast /\ n.paused = nic.paused
    BY <1>1, <2>1, <2>2 DEF NicType
  <2> QED
    BY <1>4, <2>1, <2>3, NicAsked DEF ShapeWake
<1> QED
  BY <1>2, <1>3, <1>4

(* An idle device stays right when its queues have no more to be chosen.   *)
LEMMA StillConserving ==
  ASSUME NEW s, NEW t, NEW lost, Conserving(s, lost), BucketsOK(s.bucket),
         t.nic.tx = s.nic.tx, t.nic.wake = s.nic.wake,
         t.queues = s.queues, s.nic.paused \subseteq t.nic.paused,
         \A g \in Group \ lost : /\ Nominee(t, g) \subseteq Nominee(s, g)
                                  /\ t.bucket[g].rate = s.bucket[g].rate
                                  /\ Tokens(t.bucket[g]) = Tokens(s.bucket[g])
  PROVE  Conserving(t, lost)
<1> SUFFICES ASSUME t.nic.tx = Off, t.nic.wake # 0
             PROVE  /\ t.queues[0] = <<>>
                    /\ \A q \in Plain : Backlogged(t, q) => Paused(t, q)
                    /\ \A g \in Group \ lost : \A q \in Nominee(t, g) : t.bucket[g].rate > 0 =>
                         ~Affordable(t, q) /\ t.nic.wake # Off /\ t.nic.wake <= Wait(t, q)
  BY DEF Conserving
<1>1. /\ s.queues[0] = <<>>
      /\ \A q \in Plain : Backlogged(s, q) => Paused(s, q)
      /\ \A g \in Group \ lost : \A q \in Nominee(s, g) : s.bucket[g].rate > 0 =>
           ~Affordable(s, q) /\ s.nic.wake # Off /\ s.nic.wake <= Wait(s, q)
  BY DEF Conserving
<1>2. \A q \in Plain : Backlogged(t, q) => Paused(t, q)
  BY <1>1 DEF Backlogged, Paused
<1>3. ASSUME NEW g \in Group \ lost, NEW q \in Nominee(t, g), t.bucket[g].rate > 0
      PROVE  ~Affordable(t, q) /\ t.nic.wake # Off /\ t.nic.wake <= Wait(t, q)
  <2>1. q \in Nominee(s, g) /\ s.bucket[g].rate > 0
    BY <1>3
  <2>2. ~Affordable(s, q) /\ s.nic.wake # Off /\ s.nic.wake <= Wait(s, q)
    BY <2>1, <1>1
  <2>3. GroupOf[q] = g
    BY <2>1, NomineeLogical
  <2>4. Affordable(t, q) = Affordable(s, q) /\ Wait(t, q) = Wait(s, q)
    BY <2>3 DEF Affordable, Wait
  <2> QED
    BY <2>2, <2>4
<1> QED
  BY <1>1, <1>2, <1>3

LEMMA PauseStep ==
  ASSUME IInv, NEW p \in Pausable, Pause(p)
  PROVE  IInv'
<1>1. PICK n : n = [nic EXCEPT !.paused = @ \cup {p}]
  OBVIOUS
<1>2. PICK s : s = At(m_queues, bucket, n)
  OBVIOUS
<1>3. s.queues = m_queues /\ s.bucket = bucket /\ s.nic = n /\ IsState(s)
  BY <1>2, Fields, AtIsState
<1>4. QueuesOK(m_queues) /\ BucketsOK(bucket) /\ nic \in NicType /\ Homed(m_queues, bucket)
  BY StateIs DEF IInv, StateOK
<1>5. /\ n \in NicType /\ n.rrlast = nic.rrlast /\ n.tx = nic.tx /\ n.wake = nic.wake
      /\ n.paused = nic.paused \cup {p}
  BY <1>1, <1>4 DEF NicType
<1>6. StateOK(s)
  BY <1>3, <1>4, <1>5 DEF StateOK
<1>7. Exact(s, credit) /\ SameTurns(State, s)
  BY <1>3, <1>5, StateIs DEF IInv, Exact, SameTurns, SameQueues
<1>8. \A g \in Group : Nominee(s, g) \subseteq Nominee(State, g)
  <2> SUFFICES ASSUME NEW g \in Group, NEW q \in Nominee(s, g)
               PROVE  q \in Nominee(State, g)
    OBVIOUS
  <2>1. q \in Logical /\ GroupOf[q] = g /\ Member(bucket[g], q) /\ Can(s, q)
    BY <1>3, <1>4, NomineeLogical DEF Can
  <2>2. PICK i \in DOMAIN bucket[g].queues : bucket[g].queues[i] = q
    BY <2>1 DEF Member
  <2>3. ASSUME NEW j \in DOMAIN bucket[g].queues
        PROVE  Can(s, bucket[g].queues[j]) <=> Can(State, bucket[g].queues[j])
    <3>1. PICK c : c = bucket[g].queues[j]
      OBVIOUS
    <3>2. GroupOf[c] = g /\ bucket[g].queues \in Seq(Logical)
      BY <1>4, <3>1 DEF BucketsOK, BucketOK, BucketType
    <3>3. c \in Logical
      BY <3>1, <3>2, ElementOfSeq, LenProperties
    <3>4. Priority[c] = Priority[q]
      BY <2>1, <3>2, <3>3, ShaperConfig
    <3>5. Priority[q] # p
      BY <2>1, <1>3, <1>5 DEF Can, Paused
    <3> QED
      BY <3>1, <3>4, <3>5, <1>3, <1>5, StateIs DEF Can, Backlogged, Paused
  <2>4. Turn(s.bucket[g], i) = Turn(State.bucket[g], i)
        /\ \A j : Turn(s.bucket[g], j) = Turn(State.bucket[g], j)
    BY <1>3, StateIs
  <2>5. \A j \in DOMAIN bucket[g].queues : Can(s, bucket[g].queues[j]) =>
           Turn(bucket[g], i) <= Turn(bucket[g], j)
    BY <1>3, <1>4, <2>2, NomineeTurn
  <2> QED
    BY <1>4, <2>1, <2>2, <2>3, <2>5, StateIs, NomineeTurn
<1>9. Conserving(s, detached)
  <2>1. Conserving(State, detached)
    BY DEF IInv
  <2> QED
    BY <2>1, <1>3, <1>4, <1>5, <1>8, StateIs, StillConserving
<1>10. Become(s) /\ NobodyServed(s) /\ credit' = credit /\ detached' = detached
  BY <1>1, <1>2 DEF Pause, Quietly, Nothing
<1>11. Ordered(s, passed)
  BY <1>7, SameOrder DEF IInv
<1> QED
  BY <1>3, <1>5, <1>6, <1>7, <1>9, <1>10, <1>11, Quieted

LEMMA SnapshotStep ==
  ASSUME IInv, NEW g \in Group, ReadInjectionSnapshot(g)
  PROVE  IInv'
<1>1. PICK bs : bs = [bucket EXCEPT ![g] = UpdateInjectionTokens(@)]
  OBVIOUS
<1>2. PICK s : s = At(m_queues, bs, nic)
  OBVIOUS
<1>3. s.queues = m_queues /\ s.bucket = bs /\ s.nic = nic /\ IsState(s)
  BY <1>2, Fields, AtIsState
<1>4. QueuesOK(m_queues) /\ BucketsOK(bucket) /\ nic \in NicType /\ Homed(m_queues, bucket)
  BY StateIs DEF IInv, StateOK
<1>5. \A h \in Group :
        /\ BucketOK(bs[h], h) /\ bs[h].rate = bucket[h].rate
        /\ bs[h].queues = bucket[h].queues /\ bs[h].next = bucket[h].next
        /\ Tokens(bs[h]) = Tokens(bucket[h])
  <2> SUFFICES ASSUME NEW h \in Group
               PROVE  /\ BucketOK(bs[h], h) /\ bs[h].rate = bucket[h].rate
                      /\ bs[h].queues = bucket[h].queues /\ bs[h].next = bucket[h].next
                      /\ Tokens(bs[h]) = Tokens(bucket[h])
    OBVIOUS
  <2>1. BucketOK(bucket[h], h) /\ bucket[h] \in BucketType
    BY <1>4 DEF BucketsOK, BucketOK
  <2>2. bs[h] = IF h = g THEN UpdateInjectionTokens(bucket[h]) ELSE bucket[h]
    BY <1>1, <1>4 DEF BucketsOK
  <2> QED
    BY <2>1, <2>2, UpdateOK, UpdateIs
<1>6. BucketsOK(bs) /\ Homed(m_queues, bs)
  <2>1. DOMAIN bs = Group
    BY <1>1, <1>4 DEF BucketsOK
  <2> QED
    BY <2>1, <1>4, <1>5, Constants DEF BucketsOK, Homed, Member
<1>7. StateOK(s)
  BY <1>3, <1>4, <1>6 DEF StateOK
<1>8. Exact(s, credit) /\ SameTurns(State, s)
  BY <1>3, <1>5, StateIs DEF IInv, Exact, SameTurns, SameQueues
<1>9. \A h \in Group : Nominee(s, h) = Nominee(State, h)
  BY <1>3, <1>5, StateIs, SameNominee
<1>10. Conserving(s, detached)
  <2>1. Conserving(State, detached)
    BY DEF IInv
  <2> QED
    BY <2>1, <1>3, <1>4, <1>5, <1>9, StateIs, StillConserving
<1>11. Become(s) /\ NobodyServed(s) /\ credit' = credit /\ detached' = detached
  BY <1>1, <1>2 DEF ReadInjectionSnapshot, Quietly, Nothing
<1>12. Ordered(s, passed)
  BY <1>8, SameOrder DEF IInv
<1> QED
  BY <1>3, <1>7, <1>8, <1>10, <1>11, <1>12, Quieted

(* A queue that is bound has its turn after the others.                    *)
LEMMA TurnBound ==
  ASSUME NEW g, NEW b, BucketOK(b, g), NEW q, NEW c,
         c.queues = Append(b.queues, q), c.next = b.next,
         NEW i \in DOMAIN b.queues, NEW j \in DOMAIN b.queues
  PROVE  /\ Turn(c, i) < Turn(c, j) <=> Turn(b, i) < Turn(b, j)
         /\ Turn(c, i) <= Turn(c, j) <=> Turn(b, i) <= Turn(b, j)
<1>1. b \in BucketType
  BY DEF BucketOK
<1>2. PICK L \in Nat, n \in Nat : L = Len(b.queues) /\ n = b.next
  BY <1>1, BucketFields, LenProperties
<1>3. i \in 1..L /\ j \in 1..L
  BY <1>1, <1>2, BucketFields, LenProperties
<1>4. b.queues \in Seq(Logical \cup {q}) /\ Len(c.queues) = L + 1
  <2>1. b.queues \in Seq(Logical)
    BY <1>1, BucketFields
  <2>2. b.queues \in Seq(Logical \cup {q})
    BY <2>1
  <2> QED
    BY <2>2, <1>2, AppendProperties
<1>5. /\ Turn(b, i) = IF i > n THEN i - n ELSE i - n + L
      /\ Turn(b, j) = IF j > n THEN j - n ELSE j - n + L
  BY <1>2 DEF Turn
<1>6. /\ Turn(c, i) = IF i > n THEN i - n ELSE i - n + (L + 1)
      /\ Turn(c, j) = IF j > n THEN j - n ELSE j - n + (L + 1)
  BY <1>2, <1>4 DEF Turn
<1> QED
  BY <1>3, <1>5, <1>6

LEMMA BindStep ==
  ASSUME IInv, NEW q \in Logical, Bind(q)
  PROVE  IInv'
<1>1. PICK k \in Group : k = GroupOf[q]
  BY Constants
<1>2. PICK bs : bs = [bucket EXCEPT ![k] = With(@, q)]
  OBVIOUS
<1>3. PICK s : s = At(m_queues, bs, nic)
  OBVIOUS
<1>4. s.queues = m_queues /\ s.bucket = bs /\ s.nic = nic /\ IsState(s)
  BY <1>3, Fields, AtIsState
<1>5. QueuesOK(m_queues) /\ BucketsOK(bucket) /\ nic \in NicType /\ Homed(m_queues, bucket)
  BY StateIs DEF IInv, StateOK
<1>6. ~Member(bucket[k], q)
  BY <1>1 DEF Bind, Bound, Member
<1>7. m_queues[q] = <<>>
  BY <1>1, <1>5, <1>6 DEF Homed
<1>8. \A g \in Group \ {k} : bs[g] = bucket[g]
  BY <1>2, <1>5 DEF BucketsOK
<1>9. /\ BucketOK(bs[k], k) /\ bs[k].rate = bucket[k].rate /\ bs[k].next = bucket[k].next
      /\ Tokens(bs[k]) = Tokens(bucket[k]) /\ bs[k].queues = Append(bucket[k].queues, q)
  <2>1. PICK b : b = bucket[k]
    OBVIOUS
  <2>2. BucketOK(b, GroupOf[q])
    BY <2>1, <1>1, <1>5 DEF BucketsOK
  <2>3. PICK c : c = With(b, q)
    OBVIOUS
  <2>4. /\ BucketOK(c, GroupOf[q]) /\ c.rate = b.rate /\ c.next = b.next
        /\ Tokens(c) = Tokens(b) /\ c.queues = Append(b.queues, q)
    BY <2>1, <2>2, <2>3, <1>6, BoundOK
  <2>5. bs[k] = c
    BY <2>1, <2>3, <1>2, <1>5 DEF BucketsOK
  <2> QED
    BY <2>1, <2>4, <2>5, <1>1
<1>10. BucketsOK(bs)
  BY <1>2, <1>5, <1>8, <1>9 DEF BucketsOK
(* The list of the group grows at its end. *)
<1>11. PICK L \in Nat :
         /\ DOMAIN bucket[k].queues = 1..L /\ DOMAIN bs[k].queues = 1..(L + 1)
         /\ \A i \in 1..L : bs[k].queues[i] = bucket[k].queues[i]
         /\ bs[k].queues[L + 1] = q
  <2>1. PICK u \in Seq(Logical) : u = bucket[k].queues
    BY <1>5 DEF BucketsOK, BucketOK, BucketType
  <2>2. bs[k].queues = Append(u, q)
    BY <2>1, <1>9
  <2>3. Len(u) \in Nat /\ DOMAIN u = 1..Len(u)
    BY LenProperties
  <2>4. /\ DOMAIN Append(u, q) = 1..(Len(u) + 1)
        /\ \A i \in 1..Len(u) : Append(u, q)[i] = u[i]
        /\ Append(u, q)[Len(u) + 1] = q
    <3>1. Len(Append(u, q)) = Len(u) + 1 /\ Append(u, q) \in Seq(Logical)
          /\ (\A i \in 1..Len(u) : Append(u, q)[i] = u[i])
          /\ Append(u, q)[Len(u) + 1] = q
      BY AppendProperties
    <3> QED
      BY <3>1, LenProperties
  <2> QED
    BY <2>1, <2>2, <2>3, <2>4
<1>12. \A c \in Logical : Member(bucket[GroupOf[c]], c) => Member(bs[GroupOf[c]], c)
  <2> SUFFICES ASSUME NEW c \in Logical, Member(bucket[GroupOf[c]], c)
               PROVE  Member(bs[GroupOf[c]], c)
    OBVIOUS
  <2>1. CASE GroupOf[c] = k
    <3>1. PICK i \in 1..L : bucket[k].queues[i] = c
      BY <2>1, <1>11 DEF Member
    <3>2. i \in 1..(L + 1)
      OBVIOUS
    <3> QED
      BY <2>1, <3>1, <3>2, <1>11 DEF Member
  <2>2. CASE GroupOf[c] # k
    BY <2>2, <1>8, Constants
  <2> QED
    BY <2>1, <2>2
<1>13. StateOK(s)
  <2>1. Homed(m_queues, bs)
    BY <1>5, <1>12 DEF Homed
  <2> QED
    BY <2>1, <1>4, <1>5, <1>10 DEF StateOK
<1>14. Exact(s, credit)
  BY <1>4, <1>8, <1>9, StateIs DEF IInv, Exact
<1>15. \A i, j \in 1..L :
         /\ Turn(bs[k], i) < Turn(bs[k], j) <=> Turn(bucket[k], i) < Turn(bucket[k], j)
         /\ Turn(bs[k], i) <= Turn(bs[k], j) <=> Turn(bucket[k], i) <= Turn(bucket[k], j)
  <2> SUFFICES ASSUME NEW i \in 1..L, NEW j \in 1..L
               PROVE  /\ Turn(bs[k], i) < Turn(bs[k], j)
                          <=> Turn(bucket[k], i) < Turn(bucket[k], j)
                      /\ Turn(bs[k], i) <= Turn(bs[k], j)
                          <=> Turn(bucket[k], i) <= Turn(bucket[k], j)
    OBVIOUS
  <2>1. PICK b : b = bucket[k]
    OBVIOUS
  <2>2. PICK c : c = bs[k]
    OBVIOUS
  <2>3. /\ BucketOK(b, k) /\ c.queues = Append(b.queues, q) /\ c.next = b.next
        /\ i \in DOMAIN b.queues /\ j \in DOMAIN b.queues
    BY <2>1, <2>2, <1>5, <1>9, <1>11 DEF BucketsOK
  <2>4. /\ Turn(c, i) < Turn(c, j) <=> Turn(b, i) < Turn(b, j)
        /\ Turn(c, i) <= Turn(c, j) <=> Turn(b, i) <= Turn(b, j)
    BY <2>3, TurnBound
  <2> QED
    BY <2>1, <2>2, <2>4
<1>16. \A g \in Group : Nominee(s, g) \subseteq Nominee(State, g)
  <2> SUFFICES ASSUME NEW g \in Group, NEW c \in Nominee(s, g)
               PROVE  c \in Nominee(State, g)
    OBVIOUS
  <2>1. CASE g # k
    BY <2>1, <1>4, <1>8, StateIs, SameNominee
  <2>2. CASE g = k
    <3>1. Member(bs[k], c) /\ Can(s, c)
      BY <2>2, <1>4, <1>10, NomineeLogical DEF Can
    <3>2. PICK i \in 1..(L + 1) : bs[k].queues[i] = c
      BY <3>1, <1>11 DEF Member
    <3>3. c # q
      BY <3>1, <1>4, <1>7 DEF Can, Backlogged
    <3>4. i \in 1..L /\ bucket[k].queues[i] = c
      BY <3>2, <3>3, <1>11
    <3>5. \A d : Can(s, d) <=> Can(State, d)
      BY <1>4, StateIs DEF Can, Backlogged, Paused
    <3>6. \A j \in 1..(L + 1) : Can(s, bs[k].queues[j]) => Turn(bs[k], i) <= Turn(bs[k], j)
      BY <2>2, <3>2, <1>4, <1>10, <1>11, NomineeTurn
    <3>7. ASSUME NEW j \in 1..L, Can(State, bucket[k].queues[j])
          PROVE  Turn(bucket[k], i) <= Turn(bucket[k], j)
      <4>1. j \in 1..(L + 1) /\ Can(s, bs[k].queues[j])
        BY <3>5, <3>7, <1>11
      <4> QED
        BY <4>1, <3>4, <3>6, <1>15
    <3> QED
      BY <2>2, <3>1, <3>4, <3>5, <3>7, <1>5, <1>11, StateIs, NomineeTurn
  <2> QED
    BY <2>1, <2>2
<1>17. Conserving(s, detached)
  <2>1. Conserving(State, detached)
    BY DEF IInv
  <2>2. \A g \in Group : bs[g].rate = bucket[g].rate /\ Tokens(bs[g]) = Tokens(bucket[g])
    BY <1>8, <1>9
  <2> QED
    BY <2>1, <2>2, <1>4, <1>5, <1>16, StateIs, StillConserving
<1>18. Ordered(s, passed)
  <2> SUFFICES ASSUME NEW p \in passed PROVE p \in Queue \X Queue /\ p[1] # p[2] /\ Ahead(s, p)
    BY DEF Ordered
  <2>1. p \in Queue \X Queue /\ p[1] # p[2] /\ Ahead(State, p)
    BY DEF IInv, Ordered
  <2>2. CASE Mates(p) /\ GroupOf[p[1]] = k
    <3>1. InTurn(bucket[k], p[1], p[2])
      BY <2>1, <2>2, StateIs DEF Ahead
    <3>2. PICK i \in 1..L : \E j \in 1..L :
            /\ bucket[k].queues[i] = p[1] /\ bucket[k].queues[j] = p[2]
            /\ Turn(bucket[k], i) < Turn(bucket[k], j)
      BY <3>1, <1>11 DEF InTurn
    <3>3. PICK j \in 1..L :
            /\ bucket[k].queues[i] = p[1] /\ bucket[k].queues[j] = p[2]
            /\ Turn(bucket[k], i) < Turn(bucket[k], j)
      BY <3>2
    <3>4. i \in 1..(L + 1) /\ j \in 1..(L + 1)
      OBVIOUS
    <3>5. Turn(bs[k], i) < Turn(bs[k], j)
      BY <3>3, <1>15
    <3>6. InTurn(bs[k], p[1], p[2])
      BY <3>3, <3>4, <3>5, <1>11 DEF InTurn
    <3> QED
      BY <2>1, <2>2, <3>6, <1>4 DEF Ahead
  <2>3. CASE Mates(p) /\ GroupOf[p[1]] # k
    <3>1. bs[GroupOf[p[1]]] = bucket[GroupOf[p[1]]]
      BY <2>3, <1>8, Constants DEF Mates
    <3> QED
      BY <2>1, <2>3, <3>1, <1>4, StateIs DEF Ahead
  <2>4. CASE ~Mates(p)
    BY <2>1, <2>4, <1>4, StateIs DEF Ahead, Rank
  <2> QED
    BY <2>1, <2>2, <2>3, <2>4
<1>19. Become(s) /\ NobodyServed(s) /\ credit' = credit /\ detached' = detached
  BY <1>1, <1>2, <1>3 DEF Bind, Quietly, Nothing
<1> QED
  BY <1>4, <1>13, <1>14, <1>17, <1>18, <1>19, Quieted

LEMMA DetachStep ==
  ASSUME IInv, NEW q \in Logical, Detach(q)
  PROVE  IInv'
<1>1. PICK k \in Group : k = GroupOf[q]
  BY Constants
<1>2. PICK i \in DOMAIN bucket[k].queues :
        LET after == At(m_queues, [bucket EXCEPT ![k] = Without(@, i)], nic) IN
        /\ bucket[k].queues[i] = q
        /\ Become(after)
        /\ passed' = (passed \ Rivals(k)) \cap Awaits(after)
  BY <1>1 DEF Detach
<1>3. PICK bs : bs = [bucket EXCEPT ![k] = Without(@, i)]
  OBVIOUS
<1>4. PICK s : s = At(m_queues, bs, nic)
  OBVIOUS
<1>5. s.queues = m_queues /\ s.bucket = bs /\ s.nic = nic /\ IsState(s)
  BY <1>4, Fields, AtIsState
<1>6. Become(s) /\ bucket[k].queues[i] = q /\ passed' = (passed \ Rivals(k)) \cap Awaits(s)
  BY <1>2, <1>3, <1>4
<1>7. QueuesOK(m_queues) /\ BucketsOK(bucket) /\ nic \in NicType /\ Homed(m_queues, bucket)
  BY StateIs DEF IInv, StateOK
<1>8. \A g \in Group \ {k} : bs[g] = bucket[g]
  BY <1>3, <1>7 DEF BucketsOK
<1>9. /\ BucketOK(bs[k], k) /\ Tokens(bs[k]) = Tokens(bucket[k])
      /\ \A j \in DOMAIN bucket[k].queues : j # i => Member(bs[k], bucket[k].queues[j])
  <2>1. bs[k] = Without(bucket[k], i) /\ BucketOK(bucket[k], k)
    BY <1>3, <1>7 DEF BucketsOK
  <2> QED
    BY <2>1, WithoutOK
<1>10. StateOK(s)
  <2>1. BucketsOK(bs)
    BY <1>3, <1>7, <1>8, <1>9 DEF BucketsOK
  <2>2. ASSUME NEW c \in Logical, m_queues[c] # <<>> PROVE Member(bs[GroupOf[c]], c)
    <3>1. Member(bucket[GroupOf[c]], c) /\ c # q
      BY <2>2, <1>7 DEF Homed, Detach
    <3>2. CASE GroupOf[c] = k
      BY <3>1, <3>2, <1>6, <1>9 DEF Member
    <3>3. CASE GroupOf[c] # k
      BY <3>1, <3>3, <1>8, Constants
    <3> QED
      BY <3>2, <3>3
  <2> QED
    BY <2>1, <2>2, <1>5, <1>7 DEF StateOK, Homed
<1>11. Exact(s, credit) /\ credit' = credit
  BY <1>5, <1>8, <1>9, StateIs DEF IInv, Exact, Detach
<1>12. detached' = detached \cup {k}
  BY <1>1 DEF Detach
<1>13. Conserving(s, detached')
  <2>1. Conserving(State, detached')
    BY <1>12 DEF IInv, Conserving
  <2>2. \A g \in Group \ detached' : bs[g] = bucket[g]
    BY <1>8, <1>12
  <2>3. \A g \in Group \ detached' : Nominee(s, g) = Nominee(State, g)
    BY <2>2, <1>5, StateIs, SameNominee
  <2> QED
    BY <2>1, <2>2, <2>3, <1>5, <1>7, StateIs, StillConserving
<1>14. Ordered(s, passed')
  <2> SUFFICES ASSUME NEW p \in passed' PROVE p \in Queue \X Queue /\ p[1] # p[2] /\ Ahead(s, p)
    BY DEF Ordered
  <2>1. p \in passed /\ p \notin Rivals(k)
    BY <1>6
  <2>2. p \in Queue \X Queue /\ p[1] # p[2] /\ Ahead(State, p)
    BY <2>1 DEF IInv, Ordered
  <2>3. CASE Mates(p)
    <3>1. GroupOf[p[1]] \in Group \ {k}
      BY <2>1, <2>2, <2>3, Constants DEF Mates, Rivals, Members
    <3> QED
      BY <2>2, <2>3, <3>1, <1>5, <1>8, StateIs DEF Ahead
  <2>4. CASE ~Mates(p)
    BY <2>2, <2>4, <1>5, StateIs DEF Ahead, Rank
  <2> QED
    BY <2>2, <2>3, <2>4
<1>15. \A p \in passed' : p \in passed /\ Waiting(s, p)
  BY <1>6, <1>10, AwaitsIs
<1>16. State' = s /\ nic' = nic /\ unfair' = unfair
  BY <1>5, <1>6, Becomes DEF Become, Detach
<1> QED
  BY <1>1, <1>10, <1>11, <1>12, <1>13, <1>14, <1>15, <1>16 DEF IInv

(* What is out of tokens before a tick and waits longer than one is out of *)
(* tokens after it, and waits one tick less.                               *)
LEMMA WaitPasses ==
  ASSUME NEW s, StateOK(s), NEW t, StateOK(t), NEW g \in Group,
         NEW q \in Nominee(s, g), q \in Nominee(t, g), s.queues = t.queues,
         t.bucket[g].rate = s.bucket[g].rate, s.bucket[g].rate > 0, ~Affordable(s, q),
         Tokens(t.bucket[g]) = Least(Burst, Tokens(s.bucket[g]) + s.bucket[g].rate),
         NEW w \in Nat \ {0}, w + 1 <= Wait(s, q)
  PROVE  ~Affordable(t, q) /\ w <= Wait(t, q)
<1>0. LacksTokens(s, g, q)
  BY WaitIs
<1>1. PICK head \in Nat : \E x \in Nat, r \in Nat \ {0} :
         /\ head = Head(s.queues[q]) /\ x = Tokens(s.bucket[g]) /\ r = s.bucket[g].rate
         /\ x < head /\ head <= Burst
         /\ Wait(s, q) \in 1..(head - x)
         /\ \A v \in Nat : v <= Wait(s, q) <=> r * v < (head - x) + r
  BY <1>0 DEF LacksTokens
<1>2. PICK x \in Nat, r \in Nat \ {0} :
         /\ head = Head(s.queues[q]) /\ x = Tokens(s.bucket[g]) /\ r = s.bucket[g].rate
         /\ x < head /\ head <= Burst
         /\ \A v \in Nat : v <= Wait(s, q) <=> r * v < (head - x) + r
  BY <1>1
<1>3. r * (w + 1) < (head - x) + r
  BY <1>2
<1>4. PICK y \in Nat : y = r * w /\ y + r = r * (w + 1) /\ r <= y
  <2>1. r * w \in Nat /\ r * (w + 1) = r * w + r
    OBVIOUS
  <2>2. r <= r * w
    OBVIOUS
  <2> QED
    BY <2>1, <2>2
<1>5. y < head - x /\ x + r < head
  BY <1>3, <1>4
<1>6. Tokens(t.bucket[g]) = x + r
  <2>1. Tokens(t.bucket[g]) = Least(Burst, x + r)
    BY <1>2
  <2>2. head <= Burst /\ x + r < head
    BY <1>2, <1>5
  <2>3. x + r <= Burst
    BY <2>2, Constants
  <2> QED
    BY <2>1, <2>3, Constants DEF Least
<1>7. GroupOf[q] = g
  BY NomineeLogical DEF StateOK
<1>8. ~Affordable(t, q)
  BY <1>2, <1>5, <1>6, <1>7 DEF Affordable
<1>9. \A v \in Nat : v <= Wait(t, q) <=> r * v < (head - (x + r)) + r
  <2>1. t.bucket[g].rate > 0 /\ t.bucket[g].rate = r /\ Head(t.queues[q]) = head
    BY <1>2
  <2>2. LacksTokens(t, g, q)
    <3>1. t.bucket[g].rate > 0
      BY <2>1
    <3> QED
      BY <1>8, <3>1, WaitIs
  <2>3. PICK h2 \in Nat, x2 \in Nat, r2 \in Nat \ {0} :
           /\ h2 = Head(t.queues[q]) /\ x2 = Tokens(t.bucket[g]) /\ r2 = t.bucket[g].rate
           /\ x2 < h2 /\ h2 <= Burst
           /\ Wait(t, q) \in 1..(h2 - x2)
           /\ \A v \in Nat : v <= Wait(t, q) <=> r2 * v < (h2 - x2) + r2
    BY <2>2 DEF LacksTokens
  <2>4. h2 = head /\ x2 = x + r /\ r2 = r
    BY <2>1, <2>3, <1>6
  <2> QED
    BY <2>3, <2>4
<1>10. r * w < (head - (x + r)) + r
  BY <1>4, <1>5
<1> QED
  BY <1>8, <1>9, <1>10

LEMMA TickStep ==
  ASSUME IInv, Tick
  PROVE  IInv'
<1>1. PICK bs : bs = [g \in Group |-> Older(bucket[g])]
  OBVIOUS
<1>2. PICK n : n = [nic EXCEPT !.tx = Less(@), !.wake = Less(@)]
  OBVIOUS
<1>3. PICK s : s = At(m_queues, bs, n)
  OBVIOUS
<1>4. s.queues = m_queues /\ s.bucket = bs /\ s.nic = n /\ IsState(s)
  BY <1>3, Fields, AtIsState
<1>5. /\ QueuesOK(m_queues) /\ BucketsOK(bucket) /\ nic \in NicType /\ Homed(m_queues, bucket)
      /\ StateOK(State)
  BY StateIs DEF IInv, StateOK
<1>6. /\ Become(s) /\ NobodyServed(s) /\ detached' = detached
      /\ credit' = [g \in Group |-> Least(Burst, credit[g] + bucket[g].rate)]
      /\ nic.tx # 0 /\ nic.wake # 0
  BY <1>1, <1>2, <1>3 DEF Tick
<1>7. PICK x \in {Off, 1}, w \in Off..Burst : x = nic.tx /\ w = nic.wake /\ w # 0
  BY <1>5, <1>6 DEF NicType
<1>8. n = [nic EXCEPT !.tx = Less(x), !.wake = Less(w)]
  BY <1>2, <1>5, <1>7 DEF NicType
<1>9. /\ Less(x) \in {Off, 0} /\ (Less(x) = Off => x = Off)
      /\ Less(w) \in Off..Burst /\ (w = Off => Less(w) = Off) /\ (w # Off => Less(w) = w - 1)
  BY <1>7, Constants DEF Less, Off
<1>10. /\ n \in NicType /\ n.tx = Less(x) /\ n.wake = Less(w)
       /\ n.rrlast = nic.rrlast /\ n.paused = nic.paused
  <2>1. Less(x) \in {Off, 0, 1} /\ Less(w) \in Off..Burst
    BY <1>9
  <2> QED
    BY <2>1, <1>5, <1>8 DEF NicType
<1>11. \A g \in Group :
        /\ BucketOK(bs[g], g) /\ bs[g].rate = bucket[g].rate
        /\ bs[g].queues = bucket[g].queues /\ bs[g].next = bucket[g].next
        /\ Tokens(bs[g]) = Least(Burst, Tokens(bucket[g]) + bucket[g].rate)
  <2> SUFFICES ASSUME NEW g \in Group
               PROVE  /\ BucketOK(Older(bucket[g]), g) /\ Older(bucket[g]).rate = bucket[g].rate
                      /\ Older(bucket[g]).queues = bucket[g].queues
                      /\ Older(bucket[g]).next = bucket[g].next
                      /\ Tokens(Older(bucket[g])) =
                           Least(Burst, Tokens(bucket[g]) + bucket[g].rate)
    BY <1>1
  <2>1. BucketOK(bucket[g], g)
    BY <1>5 DEF BucketsOK
  <2> QED
    BY <2>1, OlderOK
<1>12. StateOK(s)
  <2>1. BucketsOK(bs)
    BY <1>1, <1>11 DEF BucketsOK
  <2>2. Homed(m_queues, bs)
    BY <1>5, <1>11, Constants DEF Homed, Member
  <2> QED
    BY <2>1, <2>2, <1>4, <1>5, <1>10 DEF StateOK
<1>13. Exact(s, credit')
  <2> SUFFICES ASSUME NEW g \in Group PROVE Tokens(bs[g]) = credit'[g]
    BY <1>4 DEF Exact
  <2>1. Tokens(bucket[g]) = credit[g]
    BY StateIs DEF IInv, Exact
  <2> QED
    BY <2>1, <1>6, <1>11
<1>14. SameTurns(State, s)
  BY <1>4, <1>10, <1>11, StateIs DEF SameTurns, SameQueues
<1>15. Ordered(s, passed)
  BY <1>14, SameOrder DEF IInv
<1>16. \A g \in Group : Nominee(s, g) = Nominee(State, g)
  BY <1>4, <1>10, <1>11, StateIs, SameNominee
<1>17. Conserving(s, detached)
  <2> SUFFICES ASSUME n.tx = Off, n.wake # 0
               PROVE  /\ s.queues[0] = <<>>
                      /\ \A q \in Plain : Backlogged(s, q) => Paused(s, q)
                      /\ \A g \in Group \ detached : \A q \in Nominee(s, g) :
                           s.bucket[g].rate > 0 =>
                             ~Affordable(s, q) /\ n.wake # Off /\ n.wake <= Wait(s, q)
    BY <1>4 DEF Conserving
  <2>1. nic.tx = Off
    BY <1>7, <1>9, <1>10
  <2>2. /\ m_queues[0] = <<>>
        /\ \A q \in Plain : Backlogged(State, q) => Paused(State, q)
        /\ \A g \in Group \ detached : \A q \in Nominee(State, g) : bucket[g].rate > 0 =>
             ~Affordable(State, q) /\ w # Off /\ w <= Wait(State, q)
    <3>1. Conserving(State, detached)
      BY DEF IInv
    <3> QED
      BY <3>1, <2>1, <1>6, <1>7, StateIs DEF Conserving
  <2>3. \A q \in Plain : Backlogged(s, q) => Paused(s, q)
    BY <2>2, <1>4, <1>10, StateIs DEF Backlogged, Paused
  <2>4. ASSUME NEW g \in Group \ detached, NEW q \in Nominee(s, g), s.bucket[g].rate > 0
        PROVE  ~Affordable(s, q) /\ n.wake # Off /\ n.wake <= Wait(s, q)
    <3>1. q \in Nominee(State, g) /\ bucket[g].rate > 0
      BY <2>4, <1>4, <1>11, <1>16
    <3>2. ~Affordable(State, q) /\ w # Off /\ w <= Wait(State, q)
      BY <3>1, <2>2
    <3>3. PICK v \in Nat \ {0} : v = n.wake /\ v + 1 = w
      BY <3>2, <1>7, <1>9, <1>10, Constants DEF Off
    <3>4. v + 1 <= Wait(State, q)
      BY <3>2, <3>3
    <3>5. ~Affordable(s, q) /\ v <= Wait(s, q)
      BY <3>1, <3>2, <3>4, <1>4, <1>5, <1>11, <1>12, StateIs, WaitPasses
    <3>6. v # Off
      BY DEF Off
    <3> QED
      BY <3>3, <3>5, <3>6
  <2> QED
    BY <2>2, <2>3, <2>4, <1>4
<1>18. s.nic.tx = Off => nic.tx = Off
  BY <1>4, <1>7, <1>9, <1>10
<1> QED
  BY <1>4, <1>6, <1>12, <1>13, <1>15, <1>17, <1>18, Quieted

LEMMA InitHolds == Init => IInv
<1> SUFFICES ASSUME Init PROVE IInv
  OBVIOUS
<1>1. /\ m_queues = [q \in {0} \cup Queue |-> <<>>]
      /\ bucket = [g \in Group |->
            [rate |-> 0, tokens |-> Burst, age |-> 0, queues |-> <<>>, next |-> 0]]
      /\ nic = [rrlast |-> 0, tx |-> Off, wake |-> Off, paused |-> {}]
      /\ credit = [g \in Group |-> Burst]
      /\ passed = {} /\ unfair = FALSE /\ detached = {}
  BY DEF Init
<1>2. QueuesOK(m_queues)
  <2>1. <<>> \in Seq(Sizes) /\ Len(<<>>) = 0
    BY EmptySeq
  <2> QED
    BY <2>1, <1>1, Constants DEF QueuesOK
<1>3. PICK b : b = [rate |-> 0, tokens |-> Burst, age |-> 0, queues |-> <<>>, next |-> 0]
  OBVIOUS
<1>4. \A g \in Group : bucket[g] = b
  BY <1>1, <1>3
<1>5. /\ b \in BucketType /\ b.age = 0 /\ b.tokens = Burst /\ b.next = 0 /\ b.queues = <<>>
  <2>1. <<>> \in Seq(Logical) /\ Burst \in 0..Burst
    BY EmptySeq, Constants
  <2> QED
    BY <2>1, <1>3 DEF BucketType
<1>6. DOMAIN <<>> = {}
  OBVIOUS
<1>7. \A g : BucketOK(b, g)
  BY <1>5, <1>6, Constants DEF BucketOK, Distinct
<1>8. BucketsOK(bucket)
  BY <1>1, <1>4, <1>7 DEF BucketsOK
<1>9. nic \in NicType
  <2>1. Off \in Off..Burst
    BY Constants DEF Off
  <2> QED
    BY <2>1, <1>1 DEF NicType
<1>10. \A q \in {0} \cup Queue : m_queues[q] = <<>>
  BY <1>1
<1>11. StateOK(State)
  BY <1>2, <1>8, <1>9, <1>10, StateIs, Constants DEF StateOK, Homed
<1>12. Exact(State, credit)
  BY <1>1, <1>4, <1>5, StateIs, TokensNow DEF Exact
<1>13. Conserving(State, detached)
  <2>1. ASSUME NEW g \in Group, NEW q \in Nominee(State, g) PROVE FALSE
    <3>1. q \in Queue /\ Backlogged(State, q)
      BY <1>8, StateIs, NomineeLogical, Constants
    <3> QED
      BY <3>1, <1>10, StateIs DEF Backlogged
  <2>2. \A q \in Plain : ~Backlogged(State, q)
    BY <1>10, StateIs, Constants DEF Backlogged
  <2> QED
    BY <2>1, <2>2, <1>10, StateIs DEF Conserving
<1> QED
  BY <1>1, <1>11, <1>12, <1>13 DEF IInv, Ordered

LEMMA StutterStep ==
  ASSUME IInv, UNCHANGED vars
  PROVE  IInv'
<1>1. State' = State
  BY DEF vars, State
<1> QED
  BY <1>1 DEF vars, IInv

LEMMA NextHolds == IInv /\ [Next]_vars => IInv'
<1> SUFFICES ASSUME IInv, [Next]_vars PROVE IInv'
  OBVIOUS
<1>1. ASSUME NEW q \in {0} \cup Queue, SwitchSend(q) PROVE IInv'
  BY <1>1, SwitchSendStep
<1>2. ASSUME NEW q \in Logical, Bind(q) PROVE IInv'
  BY <1>2, BindStep
<1>3. ASSUME NEW q \in Leaving, Detach(q) PROVE IInv'
  <2>1. q \in Logical
    BY ShaperConfig
  <2> QED
    BY <1>3, <2>1, DetachStep
<1>4. ASSUME NEW g \in Group, ReadInjectionSnapshot(g) PROVE IInv'
  BY <1>4, SnapshotStep
<1>5. ASSUME NEW p \in Pausable, Pause(p) PROVE IInv'
  BY <1>5, PauseStep
<1>6. CASE (\E p \in Pausable : Resume(p)) \/ TransmitComplete \/ ShapeWake
  BY <1>6, NicSteps
<1>7. CASE ApplyInjectionControls
  BY <1>7, ControlStep
<1>8. CASE Tick
  BY <1>8, TickStep
<1>9. CASE UNCHANGED vars
  BY <1>9, StutterStep
<1> QED
  BY <1>1, <1>2, <1>3, <1>4, <1>5, <1>6, <1>7, <1>8, <1>9 DEF Next

-----------------------------------------------------------------------------
(* Theorems *)

(* The strengthening of all four properties below is inductive: queues     *)
(* that hold packets are bound, no bucket is overdrawn or ages beyond what *)
(* fills it, who waits has his turn before who was served meanwhile.       *)
THEOREM InvariantHolds == Spec => []IInv
  BY InitHolds, NextHolds, PTL DEF Spec

(* Queues, buckets and timers stay in their ranges; a queue is in the list *)
(* of its group once.                                                      *)
THEOREM TypeCorrect == Spec => []TypeOK
<1>1. IInv => TypeOK
  <2> SUFFICES ASSUME IInv PROVE TypeOK
    OBVIOUS
  <2>1. QueuesOK(m_queues) /\ BucketsOK(bucket) /\ nic \in NicType
    BY StateIs DEF IInv, StateOK
  <2>2. ASSUME NEW g \in Group
        PROVE  /\ bucket[g].rate \in {0} \cup Rates /\ bucket[g].tokens \in 0..Burst
               /\ bucket[g].age \in 0..(Burst - bucket[g].tokens)
               /\ bucket[g].queues \in Seq(Logical)
               /\ bucket[g].next \in {0} \cup 1..(Len(bucket[g].queues) - 1)
               /\ \A i, j \in DOMAIN bucket[g].queues :
                    bucket[g].queues[i] = bucket[g].queues[j] => i = j
    <3>1. PICK b : b = bucket[g]
      OBVIOUS
    <3>2. b \in BucketType /\ BucketOK(b, g)
      BY <2>1, <3>1 DEF BucketsOK, BucketOK
    <3>3. b.rate \in {0} \cup Rates
      BY <3>2 DEF BucketType
    <3>4. /\ b.tokens \in 0..Burst /\ b.age \in Nat /\ b.queues \in Seq(Logical)
          /\ b.next \in Nat /\ Len(b.queues) \in Nat
      BY <3>2, BucketFields, LenProperties
    <3>5. b.age <= Burst - b.tokens /\ (b.next = 0 \/ b.next < Len(b.queues))
      BY <3>2 DEF BucketOK
    <3>6. b.age \in 0..(Burst - b.tokens)
      BY <3>4, <3>5, Constants
    <3>7. b.next \in {0} \cup 1..(Len(b.queues) - 1)
      BY <3>4, <3>5
    <3> QED
      BY <3>1, <3>2, <3>3, <3>4, <3>6, <3>7 DEF BucketOK, Distinct
  <2>3. /\ nic.rrlast \in {0} \cup Queue /\ nic.paused \subseteq Pausable
        /\ nic.tx \in {Off, 0, 1} /\ nic.wake \in Off..Burst
    BY <2>1 DEF NicType
  <2> QED
    BY <2>1, <2>2, <2>3 DEF TypeOK, QueuesOK, IInv
<1> QED
  BY <1>1, InvariantHolds, PTL

(* However seldom a bucket is looked at and whatever happens to its group  *)
(* in between, it grants exactly the rate: BudgetExact.                    *)
THEOREM BudgetAlwaysExact == Spec => []BudgetExact
<1>1. IInv => BudgetExact
  BY StateIs DEF IInv, Exact, BudgetExact
<1> QED
  BY <1>1, InvariantHolds, PTL

(* No wake-up is lost: an idle device has nothing it could send, and wakes *)
(* itself no later than a group can send.                                  *)
THEOREM AlwaysWorkConserving == Spec => []WorkConserving
<1>1. IInv => WorkConserving
  <2> SUFFICES ASSUME IInv PROVE WorkConserving
    OBVIOUS
  <2>1. Conserving(State, detached)
    BY DEF IInv
  <2> QED
    BY <2>1, StateIs DEF Conserving, WorkConserving
<1> QED
  BY <1>1, InvariantHolds, PTL

(* Between queues and within a group nobody is served twice while another  *)
(* one waits.                                                              *)
THEOREM AlwaysRoundRobin == Spec => []RoundRobin
<1>1. IInv => RoundRobin
  BY DEF IInv, RoundRobin
<1> QED
  BY <1>1, InvariantHolds, PTL

=============================================================================
