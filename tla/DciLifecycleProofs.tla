------------------------- MODULE DciLifecycleProofs -------------------------
(***************************************************************************)
(* Proofs about DciLifecycle, for any number of packets, attempts, drops,  *)
(* losses and copies.                                                      *)
(***************************************************************************)
EXTENDS DciLifecycle, FiniteSetTheorems, SequenceTheorems, TLAPS

-----------------------------------------------------------------------------
(* Channels, sequences of messages: what appending to one and removing     *)
(* from it do to the messages on it and to their order.                    *)

LEMMA OnAppend ==
  ASSUME NEW S, NEW s \in Seq(S), NEW x \in S
  PROVE  /\ Append(s, x) \in Seq(S)
         /\ Range(Append(s, x)) = Range(s) \cup {x}
<1>1. /\ Append(s, x) \in Seq(S) /\ Len(Append(s, x)) = Len(s) + 1 /\ Len(s) \in Nat
      /\ \A i \in 1..Len(s) : Append(s, x)[i] = s[i]
      /\ Append(s, x)[Len(s) + 1] = x
  BY AppendProperties, LenProperties
<1>2. DOMAIN s = 1..Len(s) /\ DOMAIN Append(s, x) = 1..(Len(s) + 1)
  BY <1>1, LenProperties
<1>3. 1..(Len(s) + 1) = (1..Len(s)) \cup {Len(s) + 1}
  BY <1>1
<1> QED
  BY <1>1, <1>2, <1>3 DEF Range

LEMMA AtRemoved ==
  ASSUME NEW S, NEW s \in Seq(S), NEW i \in 1..Len(s)
  PROVE  /\ RemoveAt(s, i) \in Seq(S)
         /\ Len(RemoveAt(s, i)) = Len(s) - 1
         /\ \A j \in 1..(Len(s) - 1) : RemoveAt(s, i)[j] = s[IF j < i THEN j ELSE j + 1]
<1>1. Len(s) \in Nat /\ i \in Nat
  BY LenProperties
<1> DEFINE a == SubSeq(s, 1, i - 1)
           b == SubSeq(s, i + 1, Len(s))
<1>2. /\ a \in Seq(S) /\ Len(a) = i - 1
      /\ \A j \in 1..(i - 1) : a[j] = s[j]
  BY <1>1, SubSeqProperties
<1>3. /\ b \in Seq(S) /\ Len(b) = Len(s) - i
      /\ \A j \in 1..(Len(s) - i) : b[j] = s[i + j]
  BY <1>1, SubSeqProperties
<1> HIDE DEF a, b
<1>4. /\ a \o b \in Seq(S) /\ Len(a \o b) = Len(s) - 1
      /\ \A j \in 1..(Len(s) - 1) : (a \o b)[j] = IF j < i THEN a[j] ELSE b[j - (i - 1)]
  <2>1. /\ a \o b \in Seq(S) /\ Len(a \o b) = Len(a) + Len(b)
        /\ \A j \in 1..(Len(a) + Len(b)) :
             (a \o b)[j] = IF j <= Len(a) THEN a[j] ELSE b[j - Len(a)]
    BY <1>2, <1>3, ConcatProperties
  <2>2. Len(a) + Len(b) = Len(s) - 1
    BY <1>1, <1>2, <1>3
  <2>3. \A j \in 1..(Len(s) - 1) : j <= i - 1 <=> j < i
    BY <1>1
  <2> QED
    BY <2>1, <2>2, <2>3, <1>2
<1>5. ASSUME NEW j \in 1..(Len(s) - 1)
      PROVE  (a \o b)[j] = s[IF j < i THEN j ELSE j + 1]
  <2>1. CASE j < i
    BY <2>1, <1>1, <1>2, <1>4
  <2>2. CASE ~(j < i)
    <3>1. (a \o b)[j] = b[j - (i - 1)]
      BY <2>2, <1>4
    <3>2. j - (i - 1) \in 1..(Len(s) - i) /\ i + (j - (i - 1)) = j + 1
      BY <2>2, <1>1
    <3> QED
      BY <2>2, <3>1, <3>2, <1>3
  <2> QED
    BY <2>1, <2>2
<1> QED
  BY <1>4, <1>5 DEF RemoveAt, a, b

LEMMA TailRemoves ==
  ASSUME NEW S, NEW s \in Seq(S), s # <<>>
  PROVE  /\ Tail(s) = RemoveAt(s, 1)
         /\ 1 \in 1..Len(s) /\ Head(s) = s[1] /\ Head(s) \in S /\ Head(s) \in Range(s)
<1>1. /\ Len(s) \in Nat /\ Len(s) > 0 /\ DOMAIN s = 1..Len(s)
      /\ Head(s) = s[1] /\ Head(s) \in S
      /\ Tail(s) \in Seq(S) /\ Len(Tail(s)) = Len(s) - 1
      /\ \A j \in 1..(Len(s) - 1) : Tail(s)[j] = s[j + 1]
  BY HeadTailProperties, LenProperties, EmptySeq
<1>2. 1 \in 1..Len(s)
  BY <1>1
<1>3. /\ RemoveAt(s, 1) \in Seq(S) /\ Len(RemoveAt(s, 1)) = Len(s) - 1
      /\ \A j \in 1..(Len(s) - 1) : RemoveAt(s, 1)[j] = s[IF j < 1 THEN j ELSE j + 1]
  BY <1>2, AtRemoved
<1>4. \A j \in 1..(Len(s) - 1) : Tail(s)[j] = RemoveAt(s, 1)[j]
  BY <1>1, <1>3
<1>5. Tail(s) = RemoveAt(s, 1)
  BY <1>1, <1>3, <1>4, SeqEqual
<1> QED
  BY <1>1, <1>2, <1>5 DEF Range

LEMMA OnRemove ==
  ASSUME NEW S, NEW s \in Seq(S), NEW i \in 1..Len(s)
  PROVE  /\ RemoveAt(s, i) \in Seq(S)
         /\ Range(RemoveAt(s, i)) \subseteq Range(s)
<1>1. Len(s) \in Nat /\ DOMAIN s = 1..Len(s)
  BY LenProperties
<1>2. /\ RemoveAt(s, i) \in Seq(S) /\ Len(RemoveAt(s, i)) = Len(s) - 1
      /\ \A j \in 1..(Len(s) - 1) : RemoveAt(s, i)[j] = s[IF j < i THEN j ELSE j + 1]
  BY AtRemoved
<1>3. DOMAIN RemoveAt(s, i) = 1..(Len(s) - 1)
  BY <1>2, LenProperties
<1>4. ASSUME NEW j \in DOMAIN RemoveAt(s, i) PROVE RemoveAt(s, i)[j] \in Range(s)
  <2>1. (IF j < i THEN j ELSE j + 1) \in DOMAIN s
    BY <1>1, <1>3
  <2> QED
    BY <2>1, <1>2, <1>3 DEF Range
<1> QED
  BY <1>2, <1>4 DEF Range

LEMMA OnTail ==
  ASSUME NEW S, NEW s \in Seq(S), s # <<>>
  PROVE  /\ Tail(s) \in Seq(S) /\ Head(s) \in S
         /\ Head(s) \in Range(s) /\ Range(Tail(s)) \subseteq Range(s)
  BY TailRemoves, OnRemove


-----------------------------------------------------------------------------
(* How many messages of a type are on a channel *)

At(s, t) == {i \in DOMAIN s : s[i].type = t}

LEMMA AtFinite ==
  ASSUME NEW S, NEW s \in Seq(S), NEW t
  PROVE  IsFiniteSet(At(s, t)) /\ Count(s, t) = Cardinality(At(s, t)) /\ Count(s, t) \in Nat
<1>1. Len(s) \in Nat /\ DOMAIN s = 1..Len(s)
  BY LenProperties
<1>2. IsFiniteSet(1..Len(s))
  BY <1>1, FS_Interval
<1>3. IsFiniteSet(At(s, t))
  BY <1>1, <1>2, FS_Subset DEF At
<1> QED
  BY <1>3, FS_CardinalityType DEF At, Count

LEMMA CountNone ==
  ASSUME NEW S, NEW s \in Seq(S), NEW t
  PROVE  Count(s, t) = 0 <=> \A m \in Range(s) : m.type # t
<1>1. Count(s, t) = 0 <=> At(s, t) = {}
  BY AtFinite, FS_EmptySet
<1> QED
  BY <1>1 DEF At, Range

LEMMA CountAppend ==
  ASSUME NEW S, NEW s \in Seq(S), NEW x \in S, NEW t
  PROVE  Count(Append(s, x), t) = IF x.type = t THEN Count(s, t) + 1 ELSE Count(s, t)
<1>1. /\ Append(s, x) \in Seq(S) /\ Len(s) \in Nat
      /\ DOMAIN s = 1..Len(s) /\ DOMAIN Append(s, x) = 1..(Len(s) + 1)
      /\ \A i \in 1..Len(s) : Append(s, x)[i] = s[i]
      /\ Append(s, x)[Len(s) + 1] = x
  BY AppendProperties, LenProperties
<1>2. At(Append(s, x), t) = IF x.type = t THEN At(s, t) \cup {Len(s) + 1} ELSE At(s, t)
  BY <1>1 DEF At
<1>3. Len(s) + 1 \notin At(s, t)
  BY <1>1 DEF At
<1> QED
  <2>1. /\ IsFiniteSet(At(s, t))
        /\ Count(s, t) = Cardinality(At(s, t))
        /\ Count(Append(s, x), t) = Cardinality(At(Append(s, x), t))
    BY <1>1, AtFinite
  <2>2. Cardinality(At(s, t) \cup {Len(s) + 1}) = Cardinality(At(s, t)) + 1
    BY <2>1, <1>3, FS_AddElement
  <2> QED
    BY <2>1, <2>2, <1>2

LEMMA CountRemove ==
  ASSUME NEW S, NEW s \in Seq(S), NEW i \in 1..Len(s), NEW t
  PROVE  Count(RemoveAt(s, i), t) = IF s[i].type = t THEN Count(s, t) - 1 ELSE Count(s, t)
<1>1. Len(s) \in Nat /\ DOMAIN s = 1..Len(s)
  BY LenProperties
<1>2. /\ RemoveAt(s, i) \in Seq(S) /\ Len(RemoveAt(s, i)) = Len(s) - 1
      /\ \A j \in 1..(Len(s) - 1) : RemoveAt(s, i)[j] = s[IF j < i THEN j ELSE j + 1]
  BY AtRemoved
<1>3. DOMAIN RemoveAt(s, i) = 1..(Len(s) - 1)
  BY <1>2, LenProperties
<1> DEFINE from == At(RemoveAt(s, i), t)
           to == At(s, t) \ {i}
           f == [j \in from |-> IF j < i THEN j ELSE j + 1]
<1>4. f \in [from -> to]
  BY <1>1, <1>2, <1>3 DEF At
<1>5. \A j, k \in from : f[j] = f[k] => j = k
  BY <1>1, <1>3 DEF At
<1>6. ASSUME NEW k \in to PROVE \E j \in from : f[j] = k
  <2>1. k \in 1..Len(s) /\ k # i /\ s[k].type = t
    BY <1>1 DEF At
  <2>2. CASE k < i
    <3>1. k \in 1..(Len(s) - 1)
      BY <1>1, <2>1, <2>2
    <3>2. k \in from
      BY <3>1, <2>1, <2>2, <1>2, <1>3 DEF At
    <3> QED
      BY <3>2, <2>2
  <2>3. CASE k > i
    <3>1. k - 1 \in 1..(Len(s) - 1) /\ ~(k - 1 < i) /\ (k - 1) + 1 = k
      BY <1>1, <2>1, <2>3
    <3>2. k - 1 \in from
      BY <3>1, <2>1, <1>2, <1>3 DEF At
    <3> QED
      BY <3>1, <3>2
  <2> QED
    BY <1>1, <2>1, <2>2, <2>3
<1> HIDE DEF from, to, f
<1>7. ExistsBijection(from, to)
  <2>1. f \in Bijection(from, to)
    BY <1>4, <1>5, <1>6 DEF Bijection, Injection, Surjection, IsInjective
  <2> QED
    BY <2>1 DEF ExistsBijection
<1>8. Cardinality(to) = Count(RemoveAt(s, i), t)
  BY <1>2, <1>7, AtFinite, FS_Bijection DEF from
<1>9. i \in At(s, t) <=> s[i].type = t
  BY <1>1 DEF At
<1> QED
  <2>1. IsFiniteSet(At(s, t)) /\ Count(s, t) = Cardinality(At(s, t))
    BY AtFinite
  <2>2. Cardinality(to) = IF i \in At(s, t) THEN Cardinality(At(s, t)) - 1
                                           ELSE Cardinality(At(s, t))
    BY <2>1, FS_RemoveElement DEF to
  <2> QED
    BY <2>1, <2>2, <1>8, <1>9

LEMMA CountTail ==
  ASSUME NEW S, NEW s \in Seq(S), s # <<>>, NEW t
  PROVE  Count(Tail(s), t) = IF Head(s).type = t THEN Count(s, t) - 1 ELSE Count(s, t)
<1>1. 1 \in 1..Len(s) /\ Tail(s) = RemoveAt(s, 1) /\ Head(s) = s[1]
  BY TailRemoves
<1>2. Count(RemoveAt(s, 1), t) = IF s[1].type = t THEN Count(s, t) - 1 ELSE Count(s, t)
  BY <1>1, CountRemove
<1> QED
  BY <1>1, <1>2
-----------------------------------------------------------------------------
(* The invariant of the long-haul link *)

RecordA ==
  [gen : Nat, in : Nat, tx : Nat, completed : BOOLEAN, final : Nat, have : BOOLEAN,
   remote : Nat, arrived : Nat, departed : Nat, settled : BOOLEAN,
   retireSent : BOOLEAN, retireAck : BOOLEAN]
RecordB == [gen : Nat, in : Nat, tx : Nat, owners : SUBSET Nat]

ToB == [type : {"DATA"}, gen : Nat]
         \cup [type : {"RETIRE"}, gen : Nat, peer : Nat, arrived : Nat]
FromB == [type : {"FLOW_STATE"}, gen : Nat, sampledIn : Nat, arrived : Nat, departed : Nat]
           \cup [type : {"RETIRE_ACK"}, gen : Nat, peer : Nat, arrived : Nat]
FromHost ==
  [type : {"REGISTER", "REGISTER_CONFIRM", "COMPLETE"}, query : Nat, arrived : Nat]

LinkTypes ==
  /\ tx_wire \in Nat /\ toA \in Nat
  /\ flowA \in RecordA /\ flowB \in RecordB
  /\ nextA \in Nat \ {0} /\ nextB \in Nat \ {0}
  /\ A2B \in Seq(ToB) /\ B2A \in Seq(FromB)

OnTheLink == Count(A2B, "DATA")

(* Packets are dropped, never made. *)
Counters ==
  /\ flowA.in + toA <= tx_wire
  /\ flowA.tx <= flowA.in
  /\ flowB.tx <= flowB.in
  /\ flowB.in + OnTheLink <= flowA.tx

Pair(gen, peer) == [gen |-> gen, peer |-> peer]

(* A report of B's record gen, on its way or taken.  It is not ahead of    *)
(* that record; once the record is erased, A's record is marked as its     *)
(* peer, and whatever came after it at B is beyond what was reported.      *)
Told(gen, arrived, departed) ==
  /\ gen \in 1..(nextB - 1)
  /\ departed <= arrived
  /\ gen = flowB.gen => arrived <= flowB.in /\ departed <= flowB.tx
  /\ gen # flowB.gen =>
       /\ arrived + flowB.in + OnTheLink <= flowA.tx
       /\ Live(flowB) => arrived < flowA.tx
       /\ Pair(gen, flowA.gen) \in retiredB

View == flowA.have => Told(flowA.remote, flowA.arrived, flowA.departed)

GoodToB(m) ==
  IF m.type = "DATA" THEN m.gen = flowA.gen
  ELSE /\ m.gen \in 1..(nextB - 1)
       /\ m.gen = flowB.gen => m.peer = flowA.gen
       /\ m.gen # flowB.gen => Pair(m.gen, m.peer) \in retiredB

GoodFromB(m) ==
  /\ m.gen \in 1..(nextB - 1)
  /\ IF m.type = "FLOW_STATE"
       THEN /\ m.sampledIn \in 1..(nextA - 1)
            /\ m.sampledIn = flowA.gen => Told(m.gen, m.arrived, m.departed)
            /\ m.gen = flowB.gen => m.sampledIn = flowA.gen
       ELSE m.gen # flowB.gen /\ Pair(m.gen, m.peer) \in retiredB

Messages ==
  /\ \A m \in Range(A2B) : GoodToB(m)
  /\ \A m \in Range(B2A) : GoodFromB(m)

(* An acknowledged retirement means that B has erased its record. *)
Records ==
  /\ flowA.gen < nextA /\ flowB.gen < nextB
  /\ Live(flowB) => Live(flowA) /\ flowB.owners = {flowA.gen}
  /\ ~Live(flowA) => flowA = NoFlowA
  /\ ~Live(flowB) => flowB = NoFlowB
  /\ flowA.retireSent => flowA.have
  /\ flowA.retireAck => /\ flowA.have /\ flowA.remote # flowB.gen
                        /\ Pair(flowA.remote, flowA.gen) \in retiredB

LinkInv == LinkTypes /\ Counters /\ View /\ Messages /\ Records /\ RetiredInPairs

LEMMA LinkCount ==
  ASSUME LinkInv
  PROVE  OnTheLink \in Nat /\ (OnTheLink = 0 <=> \A m \in Range(A2B) : m.type # "DATA")
  BY AtFinite, CountNone DEF LinkInv, LinkTypes, OnTheLink

LEMMA InitLink == Init => LinkInv
<1> SUFFICES ASSUME Init PROVE LinkInv
  OBVIOUS
<1>1. LinkTypes
  BY DEF Init, LinkTypes, RecordA, RecordB, NoFlowA, NoFlowB
<1>2. A2B = <<>> /\ B2A = <<>> /\ Range(A2B) = {} /\ Range(B2A) = {}
  BY DEF Init, Range
<1>3. OnTheLink = 0
  <2>1. OnTheLink = 0 <=> \A m \in Range(A2B) : m.type # "DATA"
    BY <1>1, CountNone DEF LinkTypes, OnTheLink
  <2> QED
    BY <2>1, <1>2
<1> QED
  BY <1>1, <1>2, <1>3
     DEF Init, LinkInv, Counters, View, Messages, Records, RetiredInPairs, NoFlowA, NoFlowB, Live

(* What B, the link and the other fields of A's record do not show. *)
LEMMA LinkUnseen ==
  ASSUME LinkInv, flowA' \in RecordA, tx_wire' \in Nat, toA' \in Nat,
         UNCHANGED <<flowB, nextA, nextB, A2B, B2A, retiredA, retiredB>>,
         flowA'.gen = flowA.gen, flowA'.tx = flowA.tx, flowA'.have = flowA.have,
         flowA'.remote = flowA.remote, flowA'.arrived = flowA.arrived,
         flowA'.departed = flowA.departed, flowA'.retireSent = flowA.retireSent,
         flowA'.retireAck = flowA.retireAck, ~Live(flowA') => flowA' = NoFlowA,
         flowA'.in + toA' <= tx_wire', flowA'.tx <= flowA'.in
  PROVE  LinkInv'
<1>1. LinkTypes' /\ OnTheLink' = OnTheLink
  BY DEF LinkInv, LinkTypes, OnTheLink
<1>2. \A g, a, d : Told(g, a, d) => Told(g, a, d)'
  BY <1>1 DEF Told
<1>3. Counters' /\ Records' /\ RetiredInPairs'
  BY <1>1 DEF LinkInv, Counters, Records, RetiredInPairs, Live
<1>4. View'
  BY <1>2 DEF LinkInv, View
<1>5. Messages'
  BY <1>2 DEF LinkInv, Messages, GoodToB, GoodFromB
<1> QED
  BY <1>1, <1>3, <1>4, <1>5 DEF LinkInv

(* A key without a record has nothing on the link or at B. *)
LEMMA NothingBeyond ==
  ASSUME LinkInv, ~Live(flowA)
  PROVE  /\ flowA = NoFlowA /\ flowB = NoFlowB /\ OnTheLink = 0
         /\ \A m \in Range(A2B) : m.type # "DATA" /\ m.gen # 0
<1>1. flowA = NoFlowA /\ flowB = NoFlowB
  BY DEF LinkInv, Records
<1>2. OnTheLink = 0
  BY <1>1, LinkCount DEF LinkInv, Counters, NoFlowA, NoFlowB
<1>3. \A m \in Range(A2B) : m.type # "DATA"
  BY <1>2, LinkCount
<1> QED
  BY <1>1, <1>2, <1>3 DEF LinkInv, LinkTypes, Messages, GoodToB

LEMMA CreatedA ==
  ASSUME LinkInv, ~Live(flowA), toA' \in Nat, nextA' = nextA + 1,
         UNCHANGED <<tx_wire, flowB, nextB, A2B, B2A, retiredA, retiredB>>,
         flowA' \in RecordA, flowA'.gen = nextA, flowA'.tx = 0, ~flowA'.have,
         ~flowA'.retireSent, ~flowA'.retireAck, flowA'.in + toA' <= tx_wire
  PROVE  LinkInv'
<1>1. /\ flowB = NoFlowB /\ OnTheLink = 0 /\ nextA \in Nat \ {0} /\ nextB \in Nat \ {0}
      /\ \A m \in Range(A2B) : m.type # "DATA"
  BY NothingBeyond DEF LinkInv, LinkTypes
<1>2. LinkTypes' /\ OnTheLink' = OnTheLink
  BY DEF LinkInv, LinkTypes, OnTheLink
<1>3. Counters' /\ Records' /\ RetiredInPairs' /\ View'
  <2>1. flowA'.in \in Nat /\ flowB.gen = 0 /\ flowB.in = 0 /\ flowB.tx = 0
    BY <1>1 DEF RecordA, NoFlowB
  <2> QED
    BY <1>1, <1>2, <2>1 DEF LinkInv, Counters, Records, RetiredInPairs, View, Live
<1>4. ASSUME NEW m \in Range(A2B) PROVE GoodToB(m)'
  <2>1. m.gen \in 1..(nextB - 1) /\ m.gen # 0 /\ flowB.gen = 0 /\ m.type # "DATA" /\ GoodToB(m)
    BY <1>1 DEF LinkInv, Messages, GoodToB, NoFlowB
  <2> QED
    BY <2>1 DEF GoodToB
<1>5. ASSUME NEW m \in Range(B2A) PROVE GoodFromB(m)'
  <2>1. GoodFromB(m) /\ flowB.gen = 0
    BY <1>1 DEF LinkInv, Messages, NoFlowB
  <2>2. m.gen \in 1..(nextB - 1) /\ m.gen # 0
    BY <2>1, <1>1 DEF GoodFromB
  <2>3. CASE m.type = "FLOW_STATE"
    <3>1. m.sampledIn \in 1..(nextA - 1) /\ m.sampledIn \in 1..nextA /\ m.sampledIn # nextA
      BY <1>1, <2>1, <2>3 DEF GoodFromB
    <3>2. m.sampledIn \in 1..(nextA' - 1) /\ m.sampledIn # flowA'.gen
      BY <1>1, <3>1
    <3> QED
      BY <2>1, <2>2, <2>3, <3>2 DEF GoodFromB
  <2>4. CASE m.type # "FLOW_STATE"
    BY <2>1, <2>4 DEF GoodFromB
  <2> QED
    BY <2>3, <2>4
<1> QED
  BY <1>2, <1>3, <1>4, <1>5 DEF LinkInv, Messages
-----------------------------------------------------------------------------
(* The steps of the source and of gateway A *)

LEMMA HostLink ==
  LinkInv /\ (SendData \/ Finish \/ Retry \/ HostReceives) => LinkInv'
<1> SUFFICES ASSUME LinkInv, SendData \/ Finish \/ Retry \/ HostReceives PROVE LinkInv'
  OBVIOUS
<1>1. /\ UNCHANGED <<flowA, flowB, nextA, nextB, A2B, B2A, retiredA, retiredB>>
      /\ \/ tx_wire' = tx_wire + 1 /\ toA' = toA + 1
         \/ UNCHANGED <<tx_wire, toA>>
  BY DEF SendData, Finish, Retry, HostReceives, AcceptReply, IgnoreReply, source, gatewayA, gatewayB
<1>2. /\ tx_wire \in Nat /\ toA \in Nat /\ flowA \in RecordA
      /\ flowA.in + toA <= tx_wire /\ flowA.tx <= flowA.in /\ flowA.in \in Nat
      /\ ~Live(flowA) => flowA = NoFlowA
  BY DEF LinkInv, LinkTypes, Counters, Records, RecordA
<1>3. tx_wire' \in Nat /\ toA' \in Nat /\ flowA.in + toA' <= tx_wire'
  BY <1>1, <1>2
<1> QED
  BY <1>1, <1>2, <1>3, LinkUnseen

LEMMA ControlLink ==
  LinkInv /\ S2A \in Seq(FromHost) /\ (AReceivesHost \/ ReceiveResourceState) => LinkInv'
<1> SUFFICES ASSUME LinkInv, S2A \in Seq(FromHost), AReceivesHost \/ ReceiveResourceState PROVE LinkInv'
  OBVIOUS
<1>1. /\ tx_wire \in Nat /\ toA \in Nat /\ flowA \in RecordA
      /\ flowA.in + toA <= tx_wire /\ flowA.tx <= flowA.in
      /\ ~Live(flowA) => flowA = NoFlowA
  BY DEF LinkInv, LinkTypes, Counters, Records
<1>2. UNCHANGED <<tx_wire, toA, flowB, nextA, nextB, A2B, B2A, retiredA, retiredB>>
  BY DEF AReceivesHost, ReceiveRegister, ReceiveConfirm, ReceiveComplete, ReceiveResourceState,
         source, gatewayB
<1>3. CASE flowA' = flowA
  BY <1>1, <1>2, <1>3, LinkUnseen
<1>4. CASE Live(flowA) /\ flowA' = [flowA EXCEPT !.settled = TRUE]
  <2>1. flowA' \in RecordA /\ Live(flowA')
    BY <1>1, <1>4 DEF RecordA, Live
  <2> QED
    BY <1>1, <1>2, <1>4, <2>1, LinkUnseen DEF RecordA
<1>5. ASSUME NEW final \in Nat, Live(flowA),
             flowA' = [flowA EXCEPT !.completed = TRUE, !.final = final]
      PROVE  LinkInv'
  <2>1. /\ flowA' \in RecordA /\ Live(flowA')
        /\ flowA'.gen = flowA.gen /\ flowA'.in = flowA.in /\ flowA'.tx = flowA.tx
        /\ flowA'.have = flowA.have /\ flowA'.remote = flowA.remote
        /\ flowA'.arrived = flowA.arrived /\ flowA'.departed = flowA.departed
        /\ flowA'.retireSent = flowA.retireSent /\ flowA'.retireAck = flowA.retireAck
    BY <1>1, <1>5 DEF RecordA, Live
  <2> QED
    BY <1>1, <1>2, <2>1, LinkUnseen
<1>6. CASE ReceiveComplete
  <2>1. S2A # <<>>
    BY <1>6 DEF ReceiveComplete
  <2>2. Head(S2A).arrived \in Nat
    <3>1. Head(S2A) \in FromHost
      BY <2>1, OnTail
    <3> QED
      BY <3>1 DEF FromHost
  <2> QED
    BY <1>3, <1>5, <1>6, <2>2 DEF ReceiveComplete
<1> QED
  BY <1>3, <1>4, <1>6
     DEF AReceivesHost, ReceiveRegister, ReceiveConfirm, ReceiveResourceState
LEMMA FreshA ==
  ASSUME nextA \in Nat
  PROVE  /\ NewFlowA \in RecordA /\ NewFlowA.gen = nextA /\ NewFlowA.in = 0 /\ NewFlowA.tx = 0
         /\ ~NewFlowA.have /\ ~NewFlowA.retireSent /\ ~NewFlowA.retireAck
  BY DEF RecordA, NewFlowA, NoFlowA

LEMMA ArriveAtALink == LinkInv /\ ArriveAtA => LinkInv'
<1> SUFFICES ASSUME LinkInv, ArriveAtA PROVE LinkInv'
  OBVIOUS
<1>1. /\ tx_wire \in Nat /\ toA \in Nat /\ flowA \in RecordA /\ nextA \in Nat \ {0}
      /\ flowA.in + toA <= tx_wire /\ flowA.tx <= flowA.in /\ flowA.in \in Nat /\ flowA.tx \in Nat
      /\ ~Live(flowA) => flowA = NoFlowA
  BY DEF LinkInv, LinkTypes, Counters, Records, RecordA
<1>2. /\ UNCHANGED <<tx_wire, flowB, nextB, A2B, B2A, retiredA, retiredB>>
      /\ toA' = toA - 1 /\ toA' \in Nat
  BY <1>1 DEF ArriveAtA, source, gatewayB
<1>3. CASE Live(flowA)
  <2>1. flowA' = [flowA EXCEPT !.in = @ + 1] /\ nextA' = nextA
    BY <1>3 DEF ArriveAtA
  <2>2. /\ flowA' \in RecordA /\ Live(flowA') /\ flowA'.in = flowA.in + 1
        /\ flowA'.gen = flowA.gen /\ flowA'.tx = flowA.tx
        /\ flowA'.have = flowA.have /\ flowA'.remote = flowA.remote
        /\ flowA'.arrived = flowA.arrived /\ flowA'.departed = flowA.departed
        /\ flowA'.retireSent = flowA.retireSent /\ flowA'.retireAck = flowA.retireAck
    BY <1>1, <1>3, <2>1 DEF RecordA, Live
  <2>3. flowA'.in + toA' <= tx_wire' /\ flowA'.tx <= flowA'.in
    BY <1>1, <1>2, <2>2
  <2> QED
    BY <1>1, <1>2, <2>1, <2>2, <2>3, LinkUnseen
<1>4. CASE ~Live(flowA)
  <2>1. flowA' = [NewFlowA EXCEPT !.in = @ + 1] /\ nextA' = nextA + 1
    BY <1>4 DEF ArriveAtA
  <2>2. /\ flowA' \in RecordA /\ flowA'.gen = nextA /\ flowA'.in = 1 /\ flowA'.tx = 0
        /\ ~flowA'.have /\ ~flowA'.retireSent /\ ~flowA'.retireAck
    <3> DEFINE f == NewFlowA
    <3>1. /\ f \in RecordA /\ f.gen = nextA /\ f.in = 0 /\ f.tx = 0
          /\ ~f.have /\ ~f.retireSent /\ ~f.retireAck
      BY <1>1, FreshA
    <3> HIDE DEF f
    <3>2. flowA' = [f EXCEPT !.in = @ + 1]
      BY <2>1 DEF f
    <3> QED
      BY <3>1, <3>2 DEF RecordA
  <2>3. flowA'.in + toA' <= tx_wire
    BY <1>1, <1>2, <1>4, <2>2 DEF NoFlowA
  <2> QED
    BY <1>1, <1>2, <1>4, <2>1, <2>2, <2>3, CreatedA
<1> QED
  BY <1>3, <1>4

LEMMA DropAtALink == LinkInv /\ DropAtA => LinkInv'
<1> SUFFICES ASSUME LinkInv, DropAtA PROVE LinkInv'
  OBVIOUS
<1>1. /\ tx_wire \in Nat /\ toA \in Nat /\ flowA \in RecordA /\ nextA \in Nat \ {0}
      /\ flowA.in + toA <= tx_wire /\ flowA.tx <= flowA.in /\ flowA.in \in Nat
      /\ ~Live(flowA) => flowA = NoFlowA
  BY DEF LinkInv, LinkTypes, Counters, Records, RecordA
<1>2. /\ UNCHANGED <<tx_wire, flowB, nextB, A2B, B2A, retiredA, retiredB>>
      /\ toA' = toA - 1 /\ toA' \in Nat
  BY <1>1 DEF DropAtA, source, gatewayB
<1>3. CASE UNCHANGED <<flowA, nextA>>
  <2>1. flowA'.in + toA' <= tx_wire'
    BY <1>1, <1>2, <1>3
  <2> QED
    BY <1>1, <1>2, <1>3, <2>1, LinkUnseen
<1>4. CASE ~Live(flowA) /\ flowA' = NewFlowA /\ nextA' = nextA + 1
  <2>1. /\ flowA' \in RecordA /\ flowA'.gen = nextA /\ flowA'.in = 0 /\ flowA'.tx = 0
        /\ ~flowA'.have /\ ~flowA'.retireSent /\ ~flowA'.retireAck
    BY <1>1, <1>4, FreshA
  <2>2. flowA'.in + toA' <= tx_wire
    BY <1>1, <1>2, <1>4, <2>1 DEF NoFlowA
  <2> QED
    BY <1>1, <1>2, <1>4, <2>1, <2>2, CreatedA
<1> QED
  BY <1>3, <1>4 DEF DropAtA

LEMMA WithTx ==
  ASSUME NEW t \in Nat, flowA \in RecordA
  PROVE  LET f == [flowA EXCEPT !.tx = t] IN
         /\ f \in RecordA /\ f.tx = t
         /\ f.gen = flowA.gen /\ f.in = flowA.in
         /\ f.have = flowA.have /\ f.remote = flowA.remote
         /\ f.arrived = flowA.arrived /\ f.departed = flowA.departed
         /\ f.retireSent = flowA.retireSent /\ f.retireAck = flowA.retireAck
  BY DEF RecordA

LEMMA ForwardLink == LinkInv /\ Forward => LinkInv'
<1> SUFFICES ASSUME LinkInv, Forward PROVE LinkInv'
  OBVIOUS
<1>1. /\ flowA \in RecordA /\ flowB \in RecordB /\ flowA.tx \in Nat /\ flowA.in \in Nat
      /\ flowA.gen \in Nat /\ flowB.in \in Nat /\ OnTheLink \in Nat
      /\ flowA.tx <= flowA.in /\ flowB.in + OnTheLink <= flowA.tx
      /\ A2B \in Seq(ToB)
  BY LinkCount DEF LinkInv, LinkTypes, Counters, RecordA, RecordB
<1>2. flowA.tx < flowA.in /\ Live(flowA)
  BY <1>1 DEF Forward, Queue, LinkInv, Records, NoFlowA
<1>3. /\ UNCHANGED <<tx_wire, toA, flowB, nextA, nextB, B2A, retiredA, retiredB>>
      /\ flowA' = [flowA EXCEPT !.tx = @ + 1, !.settled = FALSE]
  BY DEF Forward, source, gatewayB
<1>4. /\ flowA' \in RecordA /\ Live(flowA') /\ flowA'.tx = flowA.tx + 1
      /\ flowA'.gen = flowA.gen /\ flowA'.in = flowA.in
      /\ flowA'.have = flowA.have /\ flowA'.remote = flowA.remote
      /\ flowA'.arrived = flowA.arrived /\ flowA'.departed = flowA.departed
      /\ flowA'.retireSent = flowA.retireSent /\ flowA'.retireAck = flowA.retireAck
  <2> DEFINE f == [flowA EXCEPT !.tx = @ + 1]
  <2>1. /\ f \in RecordA /\ f.tx = flowA.tx + 1
        /\ f.gen = flowA.gen /\ f.in = flowA.in
        /\ f.have = flowA.have /\ f.remote = flowA.remote
        /\ f.arrived = flowA.arrived /\ f.departed = flowA.departed
        /\ f.retireSent = flowA.retireSent /\ f.retireAck = flowA.retireAck
    <3>1. flowA.tx + 1 \in Nat /\ flowA \in RecordA
      BY <1>1
    <3> QED
      BY <3>1, WithTx
  <2>2. flowA' = [f EXCEPT !.settled = FALSE]
    BY <1>3
  <2> HIDE DEF f
  <2> QED
    BY <1>2, <2>1, <2>2 DEF RecordA, Live
<1> DEFINE p == [type |-> "DATA", gen |-> flowA.gen]
<1>5. p \in ToB /\ p.type = "DATA" /\ p.gen = flowA.gen
  BY <1>1 DEF ToB
<1>6. A2B' = Append(A2B, p)
  BY DEF Forward
<1> HIDE DEF p
<1>7. /\ A2B' \in Seq(ToB) /\ Range(A2B') = Range(A2B) \cup {p}
      /\ OnTheLink' = OnTheLink + 1
  <2>1. A2B' \in Seq(ToB) /\ Range(A2B') = Range(A2B) \cup {p}
    BY <1>1, <1>5, <1>6, OnAppend
  <2>2. Count(Append(A2B, p), "DATA") = Count(A2B, "DATA") + 1
    BY <1>1, <1>5, CountAppend
  <2> QED
    BY <2>1, <2>2, <1>6 DEF OnTheLink
<1>8. LinkTypes' /\ Records' /\ RetiredInPairs'
  BY <1>2, <1>3, <1>4, <1>7 DEF LinkInv, LinkTypes, Records, RetiredInPairs, Live
<1>9. Counters'
  BY <1>1, <1>2, <1>3, <1>4, <1>7 DEF LinkInv, Counters
<1>10. ASSUME NEW g, NEW a \in Nat, NEW d, Told(g, a, d) PROVE Told(g, a, d)'
  <2>1. a + flowB.in + OnTheLink <= flowA.tx => a + flowB'.in + OnTheLink' <= flowA'.tx
    BY <1>1, <1>3, <1>4, <1>7
  <2>2. a < flowA.tx => a < flowA'.tx
    BY <1>1, <1>4
  <2> QED
    BY <1>3, <1>4, <1>10, <2>1, <2>2 DEF Told
<1>11. View'
  BY <1>1, <1>4, <1>10 DEF LinkInv, View, RecordA
<1>12. \A m \in Range(A2B') : GoodToB(m)'
  BY <1>3, <1>4, <1>5, <1>7 DEF LinkInv, Messages, GoodToB
<1>13. ASSUME NEW m \in Range(B2A') PROVE GoodFromB(m)'
  <2>1. GoodFromB(m) /\ (m.type = "FLOW_STATE" => m.arrived \in Nat)
    <3>1. m \in FromB
      BY <1>3, RangeOfSeq DEF LinkInv, LinkTypes
    <3> QED
      BY <1>3, <3>1 DEF LinkInv, Messages, FromB
  <2> QED
    BY <1>3, <1>4, <1>10, <2>1 DEF GoodFromB
<1> QED
  BY <1>8, <1>9, <1>11, <1>12, <1>13 DEF LinkInv, Messages
LEMMA SendRetireLink == LinkInv /\ SendRetire => LinkInv'
<1> SUFFICES ASSUME LinkInv, SendRetire PROVE LinkInv'
  OBVIOUS
<1>1. /\ flowA \in RecordA /\ A2B \in Seq(ToB)
      /\ flowA.tx \in Nat /\ flowA.gen \in Nat /\ flowA.remote \in Nat
  BY DEF LinkInv, LinkTypes, RecordA
<1>2. Live(flowA) /\ flowA.have /\ Told(flowA.remote, flowA.arrived, flowA.departed)
  BY DEF SendRetire, CanRetire, LinkInv, View
<1>3. /\ UNCHANGED <<tx_wire, toA, flowB, nextA, nextB, B2A, retiredA, retiredB>>
      /\ flowA' = [flowA EXCEPT !.retireSent = TRUE]
  BY DEF SendRetire, source, gatewayB
<1>4. /\ flowA' \in RecordA /\ flowA'.tx = flowA.tx
      /\ flowA'.gen = flowA.gen /\ flowA'.in = flowA.in
      /\ flowA'.have = flowA.have /\ flowA'.remote = flowA.remote
      /\ flowA'.arrived = flowA.arrived /\ flowA'.departed = flowA.departed
      /\ flowA'.retireAck = flowA.retireAck
  BY <1>1, <1>3 DEF RecordA
<1> DEFINE p == [type |-> "RETIRE", gen |-> flowA.remote, peer |-> flowA.gen,
                 arrived |-> flowA.tx]
<1>5. p \in ToB /\ p.type = "RETIRE" /\ p.gen = flowA.remote /\ p.peer = flowA.gen
  BY <1>1 DEF ToB
<1>6. A2B' = Append(A2B, p)
  BY DEF SendRetire
<1> HIDE DEF p
<1>7. /\ A2B' \in Seq(ToB) /\ Range(A2B') = Range(A2B) \cup {p}
      /\ OnTheLink' = OnTheLink
  <2>1. A2B' \in Seq(ToB) /\ Range(A2B') = Range(A2B) \cup {p}
    BY <1>1, <1>5, <1>6, OnAppend
  <2>2. Count(Append(A2B, p), "DATA") = Count(A2B, "DATA")
    BY <1>1, <1>5, CountAppend
  <2> QED
    BY <2>1, <2>2, <1>6 DEF OnTheLink
<1>8. LinkTypes' /\ Records' /\ RetiredInPairs' /\ Counters'
  BY <1>2, <1>3, <1>4, <1>7 DEF LinkInv, LinkTypes, Records, RetiredInPairs, Live, Counters
<1>9. \A g, a, d : Told(g, a, d) => Told(g, a, d)'
  BY <1>3, <1>4, <1>7 DEF Told
<1>10. View' /\ \A m \in Range(B2A') : GoodFromB(m)'
  BY <1>3, <1>4, <1>9 DEF LinkInv, View, Messages, GoodFromB
<1>11. GoodToB(p)
  BY <1>2, <1>5 DEF GoodToB, Told
<1>12. \A m \in Range(A2B') : GoodToB(m)'
  BY <1>3, <1>4, <1>7, <1>11 DEF LinkInv, Messages, GoodToB
<1> QED
  BY <1>8, <1>10, <1>12 DEF LinkInv, Messages

(* When A may retire a flow that B has erased, nothing is left of it. *)
LEMMA RetirableBeyond ==
  ASSUME LinkInv, CanRetire(flowA)
  PROVE  /\ OnTheLink = 0
         /\ Live(flowB) => flowB.gen = flowA.remote /\ flowB.in = flowA.tx /\ flowB.tx = flowB.in
<1>1. /\ flowA.tx \in Nat /\ flowB.in \in Nat /\ flowB.tx \in Nat /\ OnTheLink \in Nat
      /\ flowB.tx <= flowB.in /\ flowB.in + OnTheLink <= flowA.tx
      /\ flowB.gen \in Nat
  BY LinkCount DEF LinkInv, LinkTypes, Counters, RecordA, RecordB
<1>2. Told(flowA.remote, flowA.tx, flowA.tx)
  BY DEF LinkInv, View, CanRetire
<1>3. CASE flowA.remote = flowB.gen
  BY <1>1, <1>2, <1>3 DEF Told
<1>4. CASE flowA.remote # flowB.gen
  BY <1>1, <1>2, <1>4 DEF Told
<1> QED
  BY <1>3, <1>4

LEMMA EraseFlowLink == LinkInv /\ EraseFlow => LinkInv'
<1> SUFFICES ASSUME LinkInv, EraseFlow PROVE LinkInv'
  OBVIOUS
<1>1. CanRetire(flowA) /\ flowA.retireAck
  BY DEF EraseFlow, Reclaims
<1>2. /\ UNCHANGED <<tx_wire, toA, flowB, nextA, nextB, A2B, B2A, retiredB>>
      /\ flowA' = NoFlowA /\ retiredA' = retiredA \cup {Pair(flowA.gen, flowA.remote)}
  BY DEF EraseFlow, source, gatewayB, Pair
<1>3. /\ flowB = NoFlowB /\ OnTheLink = 0 /\ \A m \in Range(A2B) : m.type # "DATA"
      /\ Pair(flowA.remote, flowA.gen) \in retiredB
  BY <1>1, RetirableBeyond, LinkCount DEF LinkInv, Records
<1>4. LinkTypes' /\ OnTheLink' = OnTheLink
  BY <1>2 DEF LinkInv, LinkTypes, OnTheLink, RecordA, NoFlowA
<1>5. Counters'
  <2>1. toA \in Nat /\ tx_wire \in Nat /\ flowA.in \in Nat /\ flowA.in + toA <= tx_wire
    BY DEF LinkInv, LinkTypes, Counters, RecordA
  <2> QED
    BY <2>1, <1>2, <1>3, <1>4 DEF Counters, NoFlowA, NoFlowB
<1>6. View' /\ Records'
  BY <1>2, <1>3 DEF LinkInv, LinkTypes, View, Records, NoFlowA, NoFlowB, Live
<1>7. RetiredInPairs'
  <2>1. ASSUME NEW r \in retiredA' PROVE Pair(r.peer, r.gen) \in retiredB'
    <3>1. CASE r \in retiredA
      BY <3>1, <1>2 DEF LinkInv, RetiredInPairs, Pair
    <3>2. CASE r = Pair(flowA.gen, flowA.remote)
      BY <3>2, <1>2, <1>3 DEF Pair
    <3> QED
      BY <1>2, <3>1, <3>2
  <2> QED
    BY <2>1 DEF RetiredInPairs, Pair
<1>8. ASSUME NEW m \in Range(A2B') PROVE GoodToB(m)'
  <2>1. GoodToB(m) /\ m.type # "DATA" /\ flowB.gen = 0 /\ nextB \in Nat
    BY <1>2, <1>3 DEF LinkInv, LinkTypes, Messages, NoFlowB
  <2> QED
    BY <2>1, <1>2 DEF GoodToB
<1>9. ASSUME NEW m \in Range(B2A') PROVE GoodFromB(m)'
  <2>1. GoodFromB(m) /\ flowB.gen = 0 /\ nextB \in Nat /\ nextA \in Nat
    BY <1>2, <1>3 DEF LinkInv, LinkTypes, Messages, NoFlowB
  <2>2. m.gen # flowB.gen /\ flowA'.gen = 0
    BY <1>2, <2>1 DEF GoodFromB, NoFlowA
  <2> QED
    BY <2>1, <2>2, <1>2 DEF GoodFromB
<1> QED
  BY <1>4, <1>5, <1>6, <1>7, <1>8, <1>9 DEF LinkInv, Messages

LEMMA ReceiveFlowStateLink == LinkInv /\ ReceiveFlowState => LinkInv'
<1> SUFFICES ASSUME LinkInv, ReceiveFlowState PROVE LinkInv'
  OBVIOUS
<1> DEFINE m == Head(B2A)
<1>1. /\ B2A \in Seq(FromB) /\ flowA \in RecordA /\ B2A # <<>> /\ m.type = "FLOW_STATE"
      /\ B2A' = Tail(B2A)
      /\ UNCHANGED <<tx_wire, toA, flowB, nextA, nextB, A2B, retiredA, retiredB>>
  BY DEF LinkInv, LinkTypes, ReceiveFlowState, source, gatewayB
<1>2. /\ B2A' \in Seq(FromB) /\ Range(B2A') \subseteq Range(B2A)
      /\ m \in Range(B2A) /\ m \in FromB
  BY <1>1, OnTail
<1>3. GoodFromB(m) /\ m.gen \in Nat /\ m.arrived \in Nat /\ m.departed \in Nat
  BY <1>1, <1>2 DEF LinkInv, Messages, FromB
<1> HIDE DEF m
<1>4. /\ flowA' \in RecordA /\ flowA'.tx = flowA.tx
      /\ flowA'.gen = flowA.gen /\ flowA'.in = flowA.in
      /\ flowA'.retireAck = flowA.retireAck /\ flowA'.retireSent = flowA.retireSent
      /\ (flowA' = NoFlowA) = (flowA = NoFlowA) \/ Live(flowA)
      /\ \/ /\ flowA'.have = flowA.have /\ flowA'.remote = flowA.remote
            /\ flowA'.arrived = flowA.arrived /\ flowA'.departed = flowA.departed
         \/ /\ Acceptable(m) /\ flowA'.have /\ flowA'.remote = m.gen
            /\ flowA'.arrived = m.arrived /\ flowA'.departed = m.departed
  <2>1. CASE Live(flowA) /\ Acceptable(m)
    <3> DEFINE f == [flowA EXCEPT !.have = TRUE]
               g == [f EXCEPT !.remote = m.gen]
               h == [g EXCEPT !.arrived = m.arrived]
    <3>1. /\ f \in RecordA /\ f.tx = flowA.tx /\ f.gen = flowA.gen /\ f.in = flowA.in
          /\ f.retireAck = flowA.retireAck /\ f.retireSent = flowA.retireSent /\ f.have
      BY <1>1 DEF RecordA
    <3>2. flowA' = [h EXCEPT !.departed = m.departed]
      BY <2>1 DEF ReceiveFlowState, m
    <3> HIDE DEF f
    <3>3. /\ g \in RecordA /\ g.tx = flowA.tx /\ g.gen = flowA.gen /\ g.in = flowA.in
          /\ g.retireAck = flowA.retireAck /\ g.retireSent = flowA.retireSent /\ g.have
          /\ g.remote = m.gen
      BY <1>3, <3>1 DEF RecordA
    <3> HIDE DEF g
    <3>4. /\ h \in RecordA /\ h.tx = flowA.tx /\ h.gen = flowA.gen /\ h.in = flowA.in
          /\ h.retireAck = flowA.retireAck /\ h.retireSent = flowA.retireSent /\ h.have
          /\ h.remote = m.gen /\ h.arrived = m.arrived
      BY <1>3, <3>3 DEF RecordA
    <3> HIDE DEF h
    <3> QED
      BY <1>3, <2>1, <3>2, <3>4 DEF RecordA
  <2>2. CASE ~(Live(flowA) /\ Acceptable(m))
    BY <1>1, <2>2 DEF ReceiveFlowState, m
  <2> QED
    BY <2>1, <2>2
<1>5. OnTheLink' = OnTheLink
  BY <1>1 DEF OnTheLink
<1>6. LinkTypes' /\ Counters' /\ RetiredInPairs'
  BY <1>1, <1>2, <1>4, <1>5 DEF LinkInv, LinkTypes, Counters, RetiredInPairs
<1>7. flowA.have => flowA'.remote = flowA.remote /\ flowA'.have
  BY <1>4 DEF Acceptable
<1>8. Records'
  <2>1. /\ flowA'.gen < nextA' /\ flowB'.gen < nextB'
        /\ Live(flowB') => Live(flowA') /\ flowB'.owners = {flowA'.gen}
        /\ ~Live(flowA') => flowA' = NoFlowA
        /\ ~Live(flowB') => flowB' = NoFlowB
    BY <1>1, <1>4 DEF LinkInv, Records, Live
  <2>2. /\ flowA'.retireSent => flowA'.have
        /\ flowA'.retireAck => /\ flowA'.have /\ flowA'.remote # flowB'.gen
                               /\ Pair(flowA'.remote, flowA'.gen) \in retiredB'
    BY <1>1, <1>4, <1>7 DEF LinkInv, Records
  <2> QED
    BY <2>1, <2>2 DEF Records
<1>9. \A g, a, d : Told(g, a, d) => Told(g, a, d)'
  BY <1>1, <1>4, <1>5 DEF Told
<1>10. View'
  <2>1. Acceptable(m) => Told(m.gen, m.arrived, m.departed)
    BY <1>1, <1>3 DEF Acceptable, GoodFromB, m
  <2> QED
    BY <1>4, <1>9, <2>1 DEF LinkInv, View
<1>11. Messages'
  BY <1>1, <1>2, <1>4, <1>9 DEF LinkInv, Messages, GoodToB, GoodFromB
<1> QED
  BY <1>6, <1>8, <1>10, <1>11 DEF LinkInv

LEMMA ReceiveRetireAckLink == LinkInv /\ ReceiveRetireAck => LinkInv'
<1> SUFFICES ASSUME LinkInv, ReceiveRetireAck PROVE LinkInv'
  OBVIOUS
<1> DEFINE m == Head(B2A)
<1>1. /\ B2A \in Seq(FromB) /\ flowA \in RecordA /\ B2A # <<>> /\ m.type = "RETIRE_ACK"
      /\ B2A' = Tail(B2A)
      /\ UNCHANGED <<tx_wire, toA, flowB, nextA, nextB, A2B, retiredA, retiredB>>
      /\ \/ flowA' = flowA
         \/ /\ flowA.retireSent /\ flowA.gen = m.peer /\ flowA.remote = m.gen /\ Live(flowA)
            /\ flowA' = [flowA EXCEPT !.retireAck = TRUE]
  BY DEF LinkInv, LinkTypes, ReceiveRetireAck, source, gatewayB
<1>2. /\ B2A' \in Seq(FromB) /\ Range(B2A') \subseteq Range(B2A) /\ m \in Range(B2A)
  BY <1>1, OnTail
<1>3. m.gen # flowB.gen /\ Pair(m.gen, m.peer) \in retiredB
  BY <1>1, <1>2 DEF LinkInv, Messages, GoodFromB
<1> HIDE DEF m
<1>4. /\ flowA' \in RecordA /\ flowA'.tx = flowA.tx
      /\ flowA'.gen = flowA.gen /\ flowA'.in = flowA.in
      /\ flowA'.have = flowA.have /\ flowA'.remote = flowA.remote
      /\ flowA'.arrived = flowA.arrived /\ flowA'.departed = flowA.departed
      /\ flowA'.retireSent = flowA.retireSent
      /\ flowA' = flowA \/ Live(flowA)
  BY <1>1 DEF RecordA
<1>5. OnTheLink' = OnTheLink
  BY <1>1 DEF OnTheLink
<1>6. LinkTypes' /\ Counters' /\ RetiredInPairs'
  BY <1>1, <1>2, <1>4, <1>5 DEF LinkInv, LinkTypes, Counters, RetiredInPairs
<1>7. Records'
  BY <1>1, <1>3, <1>4 DEF LinkInv, Records, Live
<1>8. \A g, a, d : Told(g, a, d) => Told(g, a, d)'
  BY <1>1, <1>4, <1>5 DEF Told
<1>9. View' /\ Messages'
  BY <1>1, <1>2, <1>4, <1>8 DEF LinkInv, View, Messages, GoodToB, GoodFromB
<1> QED
  BY <1>6, <1>7, <1>9 DEF LinkInv
-----------------------------------------------------------------------------
(* The steps of gateway B and of the link *)

(* A packet that reaches B is one less on the link, and of A's record. *)
LEMMA DataReachesB ==
  ASSUME LinkInv, A2B # <<>>, Head(A2B).type = "DATA", A2B' = Tail(A2B)
  PROVE  /\ A2B' \in Seq(ToB) /\ Range(A2B') \subseteq Range(A2B)
         /\ OnTheLink \in Nat /\ OnTheLink' = OnTheLink - 1 /\ OnTheLink >= 1
         /\ Live(flowA) /\ Head(A2B).gen = flowA.gen /\ flowA.gen \in Nat
<1>1. A2B \in Seq(ToB) /\ flowA.gen \in Nat
  BY DEF LinkInv, LinkTypes, RecordA
<1>2. A2B' \in Seq(ToB) /\ Range(A2B') \subseteq Range(A2B) /\ Head(A2B) \in Range(A2B)
  BY <1>1, OnTail
<1>3. Count(Tail(A2B), "DATA") = Count(A2B, "DATA") - 1
  BY <1>1, CountTail
<1>4. OnTheLink \in Nat /\ OnTheLink # 0 /\ OnTheLink' = OnTheLink - 1
  BY <1>2, <1>3, LinkCount DEF OnTheLink
<1>5. Live(flowA)
  BY <1>4, NothingBeyond
<1> QED
  BY <1>1, <1>2, <1>4, <1>5 DEF LinkInv, Messages, GoodToB

LEMMA CreatedB ==
  ASSUME LinkInv, ~Live(flowB), A2B # <<>>, Head(A2B).type = "DATA", A2B' = Tail(A2B),
         nextB' = nextB + 1,
         UNCHANGED <<tx_wire, toA, flowA, nextA, B2A, retiredA, retiredB>>,
         flowB' \in RecordB, flowB'.gen = nextB, flowB'.tx = 0, flowB'.in \in 0..1,
         flowB'.owners = {flowA.gen}
  PROVE  LinkInv'
<1>1. /\ A2B' \in Seq(ToB) /\ Range(A2B') \subseteq Range(A2B)
      /\ OnTheLink \in Nat /\ OnTheLink' = OnTheLink - 1 /\ OnTheLink >= 1
      /\ Live(flowA)
  BY DataReachesB
<1>2. /\ flowB.gen = 0 /\ flowB.in = 0 /\ nextB \in Nat \ {0} /\ flowA.tx \in Nat
      /\ flowB.in + OnTheLink <= flowA.tx
  BY DEF LinkInv, LinkTypes, Records, Counters, NoFlowB, RecordA
<1>3. LinkTypes' /\ RetiredInPairs'
  BY <1>1 DEF LinkInv, LinkTypes, RetiredInPairs
<1>4. Counters'
  <2>1. flowB'.in + OnTheLink' <= flowA.tx /\ flowB'.tx <= flowB'.in
    BY <1>1, <1>2
  <2> QED
    BY <2>1 DEF LinkInv, Counters
<1>5. Records'
  <2>1. flowA.retireAck => flowA.remote # nextB
    BY <1>2 DEF LinkInv, Records, View, Told
  <2> QED
    BY <1>1, <1>2, <2>1 DEF LinkInv, Records, Live
<1>6. ASSUME NEW g, NEW a \in Nat, NEW d, Told(g, a, d) PROVE Told(g, a, d)'
  <2>1. g \in 1..(nextB - 1) /\ g # flowB.gen /\ g # nextB /\ g \in 1..(nextB' - 1)
    BY <1>2, <1>6 DEF Told
  <2>2. /\ d <= a /\ a + flowB.in + OnTheLink <= flowA.tx
        /\ Pair(g, flowA.gen) \in retiredB
    BY <1>6, <2>1 DEF Told
  <2>3. a + flowB'.in + OnTheLink' <= flowA.tx /\ a < flowA.tx
    BY <1>1, <1>2, <2>2
  <2> QED
    BY <2>1, <2>2, <2>3 DEF Told
<1>7. View'
  BY <1>6 DEF LinkInv, LinkTypes, View, RecordA
<1>8. ASSUME NEW m \in Range(A2B') PROVE GoodToB(m)'
  <2>1. GoodToB(m)
    BY <1>1 DEF LinkInv, Messages
  <2>2. CASE m.type = "DATA"
    BY <2>1, <2>2 DEF GoodToB
  <2>3. CASE m.type # "DATA"
    <3>1. m.gen \in 1..(nextB' - 1) /\ m.gen # nextB /\ Pair(m.gen, m.peer) \in retiredB
      BY <1>2, <2>1, <2>3 DEF GoodToB
    <3> QED
      BY <2>3, <3>1 DEF GoodToB
  <2> QED
    BY <2>2, <2>3
<1>9. ASSUME NEW m \in Range(B2A') PROVE GoodFromB(m)'
  <2>1. GoodFromB(m) /\ (m.type = "FLOW_STATE" => m.arrived \in Nat)
    <3>1. m \in FromB
      BY RangeOfSeq DEF LinkInv, LinkTypes
    <3> QED
      BY <3>1 DEF LinkInv, Messages, FromB
  <2>2. m.gen \in 1..(nextB' - 1) /\ m.gen # nextB
    BY <1>2, <2>1 DEF GoodFromB
  <2> QED
    BY <1>6, <2>1, <2>2 DEF GoodFromB
<1> QED
  BY <1>3, <1>4, <1>5, <1>7, <1>8, <1>9 DEF LinkInv, Messages

LEMMA FreshB ==
  ASSUME nextB \in Nat
  PROVE  /\ NewFlowB \in RecordB /\ NewFlowB.gen = nextB /\ NewFlowB.in = 0
         /\ NewFlowB.tx = 0 /\ NewFlowB.owners = {}
  BY DEF RecordB, NewFlowB, NoFlowB

LEMMA ArriveAtBLink == LinkInv /\ ArriveAtB => LinkInv'
<1> SUFFICES ASSUME LinkInv, ArriveAtB PROVE LinkInv'
  OBVIOUS
<1>1. /\ A2B # <<>> /\ Head(A2B).type = "DATA" /\ A2B' = Tail(A2B)
      /\ UNCHANGED <<tx_wire, toA, flowA, nextA, B2A, retiredA, retiredB>>
      /\ flowB \in RecordB /\ nextB \in Nat \ {0}
  BY DEF ArriveAtB, source, gatewayA, LinkInv, LinkTypes
<1>2. /\ A2B' \in Seq(ToB) /\ Range(A2B') \subseteq Range(A2B)
      /\ OnTheLink \in Nat /\ OnTheLink' = OnTheLink - 1 /\ OnTheLink >= 1
      /\ Live(flowA) /\ Head(A2B).gen = flowA.gen /\ flowA.gen \in Nat
  BY <1>1, DataReachesB
<1>3. CASE ~Live(flowB)
  <2>1. flowB' = [NewFlowB EXCEPT !.in = @ + 1, !.owners = @ \cup {flowA.gen}] /\ nextB' = nextB + 1
    BY <1>2, <1>3 DEF ArriveAtB
  <2> DEFINE f == NewFlowB
  <2>2. f \in RecordB /\ f.gen = nextB /\ f.in = 0 /\ f.tx = 0 /\ f.owners = {}
    BY <1>1, FreshB
  <2>3. flowB' = [f EXCEPT !.in = @ + 1, !.owners = @ \cup {flowA.gen}]
    BY <2>1
  <2> HIDE DEF f
  <2>4. /\ flowB' \in RecordB /\ flowB'.gen = nextB /\ flowB'.in \in 0..1 /\ flowB'.tx = 0
        /\ flowB'.owners = {flowA.gen}
    <3>1. /\ flowB' \in RecordB /\ flowB'.gen = f.gen /\ flowB'.in = f.in + 1
          /\ flowB'.tx = f.tx /\ flowB'.owners = f.owners \cup {flowA.gen}
      <4> DEFINE e == [f EXCEPT !.in = @ + 1]
      <4>1. /\ e \in RecordB /\ e.gen = f.gen /\ e.in = f.in + 1
            /\ e.tx = f.tx /\ e.owners = f.owners
        BY <2>2 DEF RecordB
      <4>2. flowB' = [e EXCEPT !.owners = @ \cup {flowA.gen}]
        BY <2>3
      <4> HIDE DEF e
      <4> QED
        BY <1>2, <4>1, <4>2 DEF RecordB
    <3> QED
      BY <2>2, <3>1
  <2> QED
    BY <1>1, <1>3, <2>1, <2>4, CreatedB
<1>4. CASE Live(flowB)
  <2>1. flowB' = [flowB EXCEPT !.in = @ + 1, !.owners = @ \cup {flowA.gen}] /\ nextB' = nextB
    BY <1>2, <1>4 DEF ArriveAtB
  <2>2. /\ flowB.owners = {flowA.gen} /\ flowB.in \in Nat /\ flowB.tx \in Nat /\ flowA.tx \in Nat
        /\ flowB.tx <= flowB.in /\ flowB.in + OnTheLink <= flowA.tx
    BY <1>4 DEF LinkInv, LinkTypes, Records, Counters, RecordA, RecordB
  <2>3. /\ flowB' \in RecordB /\ flowB'.gen = flowB.gen /\ flowB'.in = flowB.in + 1
        /\ flowB'.tx = flowB.tx /\ flowB'.owners = {flowA.gen}
    <3>1. /\ flowB' \in RecordB /\ flowB'.gen = flowB.gen /\ flowB'.in = flowB.in + 1
          /\ flowB'.tx = flowB.tx /\ flowB'.owners = flowB.owners \cup {flowA.gen}
      <4> DEFINE e == [flowB EXCEPT !.in = @ + 1]
      <4>1. /\ e \in RecordB /\ e.gen = flowB.gen /\ e.in = flowB.in + 1
            /\ e.tx = flowB.tx /\ e.owners = flowB.owners
        BY <1>1 DEF RecordB
      <4>2. flowB' = [e EXCEPT !.owners = @ \cup {flowA.gen}]
        BY <2>1
      <4> HIDE DEF e
      <4> QED
        BY <1>2, <4>1, <4>2 DEF RecordB
    <3> QED
      BY <2>2, <3>1
  <2>4. LinkTypes' /\ RetiredInPairs' /\ Records'
    BY <1>1, <1>2, <1>4, <2>1, <2>3 DEF LinkInv, LinkTypes, RetiredInPairs, Records, Live
  <2>5. Counters'
    <3>1. flowB'.in + OnTheLink' <= flowA.tx /\ flowB'.tx <= flowB'.in
      BY <1>2, <2>2, <2>3
    <3> QED
      BY <3>1, <1>1 DEF LinkInv, Counters
  <2>6. ASSUME NEW g, NEW a \in Nat, NEW d \in Nat, Told(g, a, d) PROVE Told(g, a, d)'
    <3>1. /\ a <= flowB.in => a <= flowB'.in
          /\ a + flowB.in + OnTheLink <= flowA.tx => a + flowB'.in + OnTheLink' <= flowA.tx
      BY <1>2, <2>2, <2>3
    <3> QED
      BY <1>1, <1>4, <2>1, <2>3, <2>6, <3>1 DEF Told, Live
  <2>7. View'
    BY <1>1, <2>6 DEF LinkInv, LinkTypes, View, RecordA
  <2>8. \A m \in Range(A2B') : GoodToB(m)'
    BY <1>1, <1>2, <2>1, <2>3 DEF LinkInv, Messages, GoodToB
  <2>9. ASSUME NEW m \in Range(B2A') PROVE GoodFromB(m)'
    <3>1. GoodFromB(m) /\ (m.type = "FLOW_STATE" => m.arrived \in Nat /\ m.departed \in Nat)
      <4>1. m \in FromB
        BY <1>1, RangeOfSeq DEF LinkInv, LinkTypes
      <4> QED
        BY <1>1, <4>1 DEF LinkInv, Messages, FromB
    <3> QED
      BY <1>1, <2>1, <2>3, <2>6, <3>1 DEF GoodFromB
  <2> QED
    BY <2>4, <2>5, <2>7, <2>8, <2>9 DEF LinkInv, Messages
<1> QED
  BY <1>3, <1>4
LEMMA DropAtBLink == LinkInv /\ DropAtB => LinkInv'
<1> SUFFICES ASSUME LinkInv, DropAtB PROVE LinkInv'
  OBVIOUS
<1>1. /\ A2B # <<>> /\ Head(A2B).type = "DATA" /\ A2B' = Tail(A2B)
      /\ UNCHANGED <<tx_wire, toA, flowA, nextA, B2A, retiredA, retiredB>>
      /\ flowB \in RecordB /\ nextB \in Nat \ {0}
  BY DEF DropAtB, source, gatewayA, LinkInv, LinkTypes
<1>2. /\ A2B' \in Seq(ToB) /\ Range(A2B') \subseteq Range(A2B)
      /\ OnTheLink \in Nat /\ OnTheLink' = OnTheLink - 1 /\ OnTheLink >= 1
      /\ Live(flowA) /\ Head(A2B).gen = flowA.gen /\ flowA.gen \in Nat
  BY <1>1, DataReachesB
<1>3. CASE ~Live(flowB) /\ flowB' = [NewFlowB EXCEPT !.owners = {Head(A2B).gen}] /\ nextB' = nextB + 1
  <2> DEFINE f == NewFlowB
  <2>1. f \in RecordB /\ f.gen = nextB /\ f.in = 0 /\ f.tx = 0
    BY <1>1, FreshB
  <2>2. flowB' = [f EXCEPT !.owners = {flowA.gen}]
    BY <1>2, <1>3
  <2> HIDE DEF f
  <2>3. /\ flowB' \in RecordB /\ flowB'.gen = nextB /\ flowB'.in \in 0..1 /\ flowB'.tx = 0
        /\ flowB'.owners = {flowA.gen}
    BY <1>2, <2>1, <2>2 DEF RecordB
  <2> QED
    BY <1>1, <1>3, <2>3, CreatedB
<1>4. CASE UNCHANGED <<flowB, nextB>>
  <2>1. /\ flowB.in \in Nat /\ flowA.tx \in Nat /\ flowB.in + OnTheLink <= flowA.tx
    BY DEF LinkInv, LinkTypes, Counters, RecordA, RecordB
  <2>2. LinkTypes' /\ RetiredInPairs' /\ Records'
    BY <1>1, <1>2, <1>4 DEF LinkInv, LinkTypes, RetiredInPairs, Records, Live
  <2>3. Counters'
    <3>1. flowB.in + OnTheLink' <= flowA.tx
      BY <1>2, <2>1
    <3> QED
      BY <3>1, <1>1, <1>4 DEF LinkInv, Counters
  <2>4. ASSUME NEW g, NEW a \in Nat, NEW d, Told(g, a, d) PROVE Told(g, a, d)'
    <3>1. a + flowB.in + OnTheLink <= flowA.tx => a + flowB.in + OnTheLink' <= flowA.tx
      BY <1>2, <2>1
    <3> QED
      BY <1>1, <1>4, <2>4, <3>1 DEF Told
  <2>5. View'
    BY <1>1, <2>4 DEF LinkInv, LinkTypes, View, RecordA
  <2>6. \A m \in Range(A2B') : GoodToB(m)'
    BY <1>1, <1>2, <1>4 DEF LinkInv, Messages, GoodToB
  <2>7. ASSUME NEW m \in Range(B2A') PROVE GoodFromB(m)'
    <3>1. GoodFromB(m) /\ (m.type = "FLOW_STATE" => m.arrived \in Nat)
      <4>1. m \in FromB
        BY <1>1, RangeOfSeq DEF LinkInv, LinkTypes
      <4> QED
        BY <1>1, <4>1 DEF LinkInv, Messages, FromB
    <3> QED
      BY <1>1, <1>4, <2>4, <3>1 DEF GoodFromB
  <2> QED
    BY <2>2, <2>3, <2>5, <2>6, <2>7 DEF LinkInv, Messages
<1> QED
  BY <1>3, <1>4 DEF DropAtB

LEMMA DeliverLink == LinkInv /\ Deliver => LinkInv'
<1> SUFFICES ASSUME LinkInv, Deliver PROVE LinkInv'
  OBVIOUS
<1>1. /\ UNCHANGED <<tx_wire, toA, flowA, nextA, nextB, A2B, B2A, retiredA, retiredB>>
      /\ flowB \in RecordB /\ flowB.in - flowB.tx > 0
      /\ flowB' = [flowB EXCEPT !.tx = @ + 1]
  BY DEF Deliver, Queue, source, gatewayA, LinkInv, LinkTypes
<1>2. /\ flowB' \in RecordB /\ flowB'.gen = flowB.gen /\ flowB'.in = flowB.in
      /\ flowB'.tx = flowB.tx + 1 /\ flowB'.owners = flowB.owners
  BY <1>1 DEF RecordB
<1>3. flowB.tx \in Nat /\ flowB.in \in Nat /\ flowB'.tx <= flowB.in
  BY <1>1, <1>2 DEF RecordB
<1>4. Live(flowB)
  BY <1>1 DEF LinkInv, Records, NoFlowB
<1>5. OnTheLink' = OnTheLink
  BY <1>1 DEF OnTheLink
<1>6. LinkTypes' /\ RetiredInPairs' /\ Records' /\ Counters'
  BY <1>1, <1>2, <1>3, <1>4, <1>5
     DEF LinkInv, LinkTypes, RetiredInPairs, Records, Counters, Live
<1>7. ASSUME NEW g, NEW a, NEW d \in Nat, Told(g, a, d) PROVE Told(g, a, d)'
  <2>1. d <= flowB.tx => d <= flowB'.tx
    BY <1>2, <1>3
  <2> QED
    BY <1>1, <1>2, <1>5, <1>7, <2>1 DEF Told, Live
<1>8. View'
  BY <1>1, <1>7 DEF LinkInv, LinkTypes, View, RecordA
<1>9. \A m \in Range(A2B') : GoodToB(m)'
  BY <1>1, <1>2 DEF LinkInv, Messages, GoodToB
<1>10. ASSUME NEW m \in Range(B2A') PROVE GoodFromB(m)'
  <2>1. GoodFromB(m) /\ (m.type = "FLOW_STATE" => m.departed \in Nat)
    <3>1. m \in FromB
      BY <1>1, RangeOfSeq DEF LinkInv, LinkTypes
    <3> QED
      BY <1>1, <3>1 DEF LinkInv, Messages, FromB
  <2> QED
    BY <1>1, <1>2, <1>7, <2>1 DEF GoodFromB
<1> QED
  BY <1>6, <1>8, <1>9, <1>10 DEF LinkInv, Messages

LEMMA ReportLink == LinkInv /\ Report => LinkInv'
<1> SUFFICES ASSUME LinkInv, Report PROVE LinkInv'
  OBVIOUS
<1>1. /\ UNCHANGED <<tx_wire, toA, flowA, nextA, flowB, nextB, A2B, retiredA, retiredB>>
      /\ flowA \in RecordA /\ flowB \in RecordB /\ B2A \in Seq(FromB)
      /\ Live(flowA) /\ Live(flowB) /\ flowA.gen < nextA /\ flowB.gen < nextB
      /\ nextA \in Nat /\ nextB \in Nat /\ flowB.tx <= flowB.in
  BY DEF Report, source, gatewayA, gatewayB, LinkInv, LinkTypes, Records, Counters
<1>2. /\ flowA.gen \in Nat /\ flowB.gen \in Nat /\ flowB.in \in Nat /\ flowB.tx \in Nat
  BY <1>1 DEF RecordA, RecordB
<1> DEFINE p == [type |-> "FLOW_STATE", gen |-> flowB.gen, sampledIn |-> flowA.gen,
                 arrived |-> flowB.in, departed |-> flowB.tx]
<1>3. /\ p \in FromB /\ p.type = "FLOW_STATE" /\ p.gen = flowB.gen /\ p.sampledIn = flowA.gen
      /\ p.arrived = flowB.in /\ p.departed = flowB.tx
  BY <1>2 DEF FromB
<1>4. B2A' = Append(B2A, p)
  BY DEF Report
<1> HIDE DEF p
<1>5. B2A' \in Seq(FromB) /\ Range(B2A') = Range(B2A) \cup {p}
  BY <1>1, <1>3, <1>4, OnAppend
<1>6. OnTheLink' = OnTheLink
  BY <1>1 DEF OnTheLink
<1>7. LinkTypes' /\ RetiredInPairs' /\ Records' /\ Counters'
  BY <1>1, <1>5, <1>6 DEF LinkInv, LinkTypes, RetiredInPairs, Records, Counters
<1>8. \A g, a, d : Told(g, a, d) => Told(g, a, d)'
  BY <1>1, <1>6 DEF Told
<1>9. View' /\ \A m \in Range(A2B') : GoodToB(m)'
  BY <1>1, <1>8 DEF LinkInv, View, Messages, GoodToB
<1>10. GoodFromB(p)
  <2>1. flowA.gen \in 1..(nextA - 1) /\ flowB.gen \in 1..(nextB - 1)
    BY <1>1, <1>2 DEF Live
  <2>2. Told(flowB.gen, flowB.in, flowB.tx)
    BY <1>1, <1>2, <2>1 DEF Told
  <2> QED
    BY <1>3, <2>1, <2>2 DEF GoodFromB
<1>11. \A m \in Range(B2A') : GoodFromB(m)'
  BY <1>1, <1>5, <1>8, <1>10 DEF LinkInv, Messages, GoodFromB
<1> QED
  BY <1>7, <1>9, <1>11 DEF LinkInv, Messages
(* A control message leaves the link, whichever way. *)
LEMMA ControlLeaves ==
  ASSUME LinkInv, A2B' \in Seq(ToB), Range(A2B') \subseteq Range(A2B),
         B2A' \in Seq(FromB), Range(B2A') \subseteq Range(B2A), OnTheLink' = OnTheLink,
         UNCHANGED <<tx_wire, toA, flowA, nextA, flowB, nextB, retiredA, retiredB>>
  PROVE  LinkInv'
<1>1. LinkTypes' /\ RetiredInPairs' /\ Records' /\ Counters'
  BY DEF LinkInv, LinkTypes, RetiredInPairs, Records, Counters
<1>2. \A g, a, d : Told(g, a, d) => Told(g, a, d)'
  BY DEF Told
<1>3. View' /\ Messages'
  BY <1>2 DEF LinkInv, View, Messages, GoodToB, GoodFromB
<1> QED
  BY <1>1, <1>3 DEF LinkInv

LEMMA ReceiveRetireLink == LinkInv /\ ReceiveRetire => LinkInv'
<1> SUFFICES ASSUME LinkInv, ReceiveRetire PROVE LinkInv'
  OBVIOUS
<1> DEFINE m == Head(A2B)
<1>1. /\ A2B # <<>> /\ m.type = "RETIRE" /\ A2B' = Tail(A2B)
      /\ UNCHANGED <<tx_wire, toA, flowA, nextA, nextB, retiredA>>
      /\ A2B \in Seq(ToB) /\ B2A \in Seq(FromB)
  BY DEF ReceiveRetire, source, gatewayA, LinkInv, LinkTypes
<1>2. /\ A2B' \in Seq(ToB) /\ Range(A2B') \subseteq Range(A2B)
      /\ m \in Range(A2B) /\ m \in ToB
  BY <1>1, OnTail
<1>3. OnTheLink' = OnTheLink
  <2>1. Count(Tail(A2B), "DATA") = Count(A2B, "DATA")
    BY <1>1, CountTail
  <2> QED
    BY <1>1, <2>1 DEF OnTheLink
<1>4. /\ m.gen \in 1..(nextB - 1) /\ m.gen # 0 /\ nextB \in Nat
      /\ m.gen = flowB.gen => m.peer = flowA.gen
      /\ m.gen # flowB.gen => Pair(m.gen, m.peer) \in retiredB
  BY <1>1, <1>2 DEF LinkInv, LinkTypes, Messages, GoodToB
<1>5. CASE ~Acknowledges(m)
  <2>1. UNCHANGED <<B2A, flowB, retiredB>>
    BY <1>5 DEF ReceiveRetire
  <2> QED
    BY <1>1, <1>2, <1>3, <2>1, ControlLeaves
<1>6. CASE Acknowledges(m)
  <2> DEFINE p == [m EXCEPT !.type = "RETIRE_ACK"]
  <2>1. p \in FromB /\ p.type = "RETIRE_ACK" /\ p.gen = m.gen /\ p.peer = m.peer
    <3>1. m \in [type : {"RETIRE"}, gen : Nat, peer : Nat, arrived : Nat]
      BY <1>1, <1>2 DEF ToB
    <3> HIDE DEF m
    <3> QED
      BY <3>1 DEF FromB
  <2>2. /\ B2A' = Append(B2A, p) /\ flowB' = NoFlowB
        /\ retiredB' = IF Live(flowB) THEN retiredB \cup {Pair(flowB.gen, m.peer)} ELSE retiredB
    BY <1>6 DEF ReceiveRetire, Pair
  <2>3. Live(flowB) => flowB.gen = m.gen
    BY <1>6 DEF Acknowledges, Settled
  <2> HIDE DEF p, m
  <2>4. /\ retiredB \subseteq retiredB' /\ Pair(m.gen, m.peer) \in retiredB'
        /\ Live(flowB) => Pair(flowB.gen, flowA.gen) \in retiredB'
    BY <1>4, <2>2, <2>3 DEF Live
  <2>5. B2A' \in Seq(FromB) /\ Range(B2A') = Range(B2A) \cup {p}
    BY <1>1, <2>1, <2>2, OnAppend
  <2>6. /\ flowB'.gen = 0 /\ flowB'.in = 0 /\ flowB'.tx = 0 /\ flowB' \in RecordB
        /\ flowB' = NoFlowB
    BY <2>2 DEF NoFlowB, RecordB
  <2>7. /\ flowB.in \in Nat /\ flowB.gen \in Nat /\ flowA.tx \in Nat /\ OnTheLink \in Nat
        /\ flowB.in + OnTheLink <= flowA.tx
    BY LinkCount DEF LinkInv, LinkTypes, Counters, RecordA, RecordB
  <2>8. LinkTypes' /\ RetiredInPairs'
    BY <1>1, <1>2, <2>4, <2>5, <2>6 DEF LinkInv, LinkTypes, RetiredInPairs
  <2>9. Counters'
    <3>1. flowB'.in + OnTheLink' <= flowA.tx /\ flowB'.tx <= flowB'.in
      BY <1>3, <2>6, <2>7
    <3> QED
      BY <1>1, <3>1 DEF LinkInv, Counters
  <2>10. Records'
    <3>1. flowA.retireAck => flowA.remote # 0 /\ Pair(flowA.remote, flowA.gen) \in retiredB'
      BY <1>4, <2>4 DEF LinkInv, Records, View, Told
    <3> QED
      BY <1>1, <1>4, <2>6, <3>1 DEF LinkInv, Records, Live
  <2>11. ASSUME NEW g, NEW a \in Nat, NEW d, Told(g, a, d) PROVE Told(g, a, d)'
    <3>1. g \in 1..(nextB - 1) /\ g # flowB'.gen /\ d <= a
      BY <1>4, <2>6, <2>11 DEF Told
    <3>2. CASE g = flowB.gen
      <4>1. Pair(g, flowA.gen) \in retiredB'
        BY <2>4, <3>1, <3>2, <2>6 DEF Live
      <4>2. a + flowB'.in + OnTheLink' <= flowA.tx
        <5>1. a <= flowB.in
          BY <2>11, <3>2 DEF Told
        <5> QED
          BY <5>1, <1>3, <2>6, <2>7
      <4> QED
        BY <1>1, <2>6, <3>1, <4>1, <4>2 DEF Told, Live
    <3>3. CASE g # flowB.gen
      <4>1. Pair(g, flowA.gen) \in retiredB' /\ a + flowB.in + OnTheLink <= flowA.tx
        BY <2>4, <2>11, <3>3 DEF Told
      <4>2. a + flowB'.in + OnTheLink' <= flowA.tx
        BY <4>1, <1>3, <2>6, <2>7
      <4> QED
        BY <1>1, <2>6, <3>1, <4>1, <4>2 DEF Told, Live
    <3> QED
      BY <3>2, <3>3
  <2>12. View'
    BY <1>1, <2>11 DEF LinkInv, LinkTypes, View, RecordA
  <2>13. ASSUME NEW n \in Range(A2B') PROVE GoodToB(n)'
    <3>1. GoodToB(n)
      BY <1>2 DEF LinkInv, Messages
    <3>2. n.type # "DATA" => n.gen # flowB'.gen /\ Pair(n.gen, n.peer) \in retiredB'
      BY <1>4, <2>4, <2>6, <3>1 DEF GoodToB, Live
    <3> QED
      BY <1>1, <3>1, <3>2 DEF GoodToB
  <2>14. ASSUME NEW n \in Range(B2A') PROVE GoodFromB(n)'
    <3>1. CASE n \in Range(B2A)
      <4>1. GoodFromB(n) /\ (n.type = "FLOW_STATE" => n.arrived \in Nat)
        <5>1. n \in FromB
          BY <1>1, <3>1, RangeOfSeq
        <5> QED
          BY <3>1, <5>1 DEF LinkInv, Messages, FromB
      <4>2. n.gen # flowB'.gen
        BY <1>4, <2>6, <4>1 DEF GoodFromB
      <4> QED
        BY <1>1, <2>4, <2>11, <4>1, <4>2 DEF GoodFromB
    <3>2. CASE n = p
      BY <1>1, <1>4, <2>1, <2>4, <2>6, <3>2 DEF GoodFromB
    <3> QED
      BY <2>5, <3>1, <3>2
  <2> QED
    BY <2>8, <2>9, <2>10, <2>12, <2>13, <2>14 DEF LinkInv, Messages
<1> QED
  BY <1>5, <1>6

LEMMA LoseControlLink == LinkInv /\ LoseControl => LinkInv'
<1> SUFFICES ASSUME LinkInv, LoseControl PROVE LinkInv'
  OBVIOUS
<1>1. /\ UNCHANGED <<tx_wire, toA, flowA, nextA, flowB, nextB, retiredA, retiredB>>
      /\ A2B \in Seq(ToB) /\ B2A \in Seq(FromB)
  BY DEF LoseControl, source, gatewayA, gatewayB, LinkInv, LinkTypes
<1>2. CASE UNCHANGED <<A2B, B2A>>
  BY <1>1, <1>2, ControlLeaves DEF OnTheLink
<1>3. ASSUME NEW i \in DOMAIN A2B, A2B[i].type # "DATA", A2B' = RemoveAt(A2B, i), B2A' = B2A
      PROVE  LinkInv'
  <2>1. i \in 1..Len(A2B)
    BY <1>1, LenProperties
  <2>2. A2B' \in Seq(ToB) /\ Range(A2B') \subseteq Range(A2B)
    BY <1>1, <1>3, <2>1, OnRemove
  <2>3. Count(RemoveAt(A2B, i), "DATA") = Count(A2B, "DATA")
    BY <1>1, <1>3, <2>1, CountRemove
  <2> QED
    BY <1>1, <1>3, <2>2, <2>3, ControlLeaves DEF OnTheLink
<1>4. ASSUME NEW i \in DOMAIN B2A, B2A' = RemoveAt(B2A, i), A2B' = A2B
      PROVE  LinkInv'
  <2>1. i \in 1..Len(B2A)
    BY <1>1, LenProperties
  <2>2. B2A' \in Seq(FromB) /\ Range(B2A') \subseteq Range(B2A)
    BY <1>1, <1>4, <2>1, OnRemove
  <2> QED
    BY <1>1, <1>4, <2>2, ControlLeaves DEF OnTheLink
<1> QED
  BY <1>2, <1>3, <1>4 DEF LoseControl
LEMMA StepLink ==
  LinkInv /\ S2A \in Seq(FromHost) /\ [Next]_vars => LinkInv'
<1> SUFFICES ASSUME LinkInv, S2A \in Seq(FromHost), [Next]_vars PROVE LinkInv'
  OBVIOUS
<1>1. CASE SendData \/ Finish \/ Retry \/ HostReceives
  BY <1>1, HostLink
<1>2. CASE AReceivesHost \/ ReceiveResourceState
  BY <1>2, ControlLink
<1>3. CASE ArriveAtA \/ DropAtA \/ Forward
  BY <1>3, ArriveAtALink, DropAtALink, ForwardLink
<1>4. CASE AReceivesPeer \/ SendRetire \/ EraseFlow
  BY <1>4, ReceiveFlowStateLink, ReceiveRetireAckLink, SendRetireLink, EraseFlowLink
     DEF AReceivesPeer
<1>5. CASE BReceives \/ DropAtB \/ Deliver \/ Report
  BY <1>5, ArriveAtBLink, ReceiveRetireLink, DropAtBLink, DeliverLink, ReportLink DEF BReceives
<1>6. CASE LoseControl
  BY <1>6, LoseControlLink
<1>7. CASE UNCHANGED vars
  <2>1. UNCHANGED <<tx_wire, toA, flowA, nextA, flowB, nextB, A2B, B2A, retiredA, retiredB>>
    BY <1>7 DEF vars, source, gatewayA, gatewayB
  <2> QED
    BY <2>1, ControlLeaves DEF LinkInv, LinkTypes, OnTheLink
<1> QED
  BY <1>1, <1>2, <1>3, <1>4, <1>5, <1>6, <1>7 DEF Next

-----------------------------------------------------------------------------
(* The invariant of the source's notifications *)

Attempts == 1..maxRetries
ToHost == [type : {"REGISTER_ACK", "COMPLETE_ACK"}, query : Nat, arrived : Nat]

Pending == [type : {"NONE", "REGISTER", "COMPLETE"}, attempts : 0..maxRetries, query : Nat]

(* No registration is behind a completion. *)
Ordered(s) ==
  \A i, j \in DOMAIN s : i < j /\ s[i].type = "COMPLETE" => s[j].type # "REGISTER"

HostTypes ==
  /\ tx_wire \in 0..SentBound /\ finished \in BOOLEAN
  /\ pending \in Pending
  /\ pending.type # "NONE" => pending.query = pending.attempts /\ pending.query \in Attempts
  /\ S2A \in Seq(FromHost) /\ A2S \in Seq(ToHost)
  /\ \A m \in Range(S2A) : m.query \in Attempts
  /\ registration \in [query : 0..maxRetries, confirmed : BOOLEAN]

(* Once A has taken a completion, and for ever after it has reclaimed the  *)
(* flow, no registration can come.                                         *)
Notified ==
  /\ pending.type = "REGISTER" => ~finished
  /\ pending.type = "COMPLETE" => finished
  /\ Ordered(S2A)
  /\ \A m \in Range(S2A) : m.type = "COMPLETE" => finished
  /\ flowA.completed \/ retiredA # {} =>
       finished /\ \A m \in Range(S2A) : m.type # "REGISTER"
  /\ retiredA # {} => registration = NoRegistration

HostInv == HostTypes /\ Notified

LEMMA OrderedAppend ==
  ASSUME NEW s \in Seq(FromHost), NEW x \in FromHost, Ordered(s),
         x.type = "REGISTER" => \A m \in Range(s) : m.type # "COMPLETE"
  PROVE  Ordered(Append(s, x))
<1>1. /\ Append(s, x) \in Seq(FromHost) /\ Len(Append(s, x)) = Len(s) + 1 /\ Len(s) \in Nat
      /\ \A i \in 1..Len(s) : Append(s, x)[i] = s[i]
      /\ Append(s, x)[Len(s) + 1] = x
  BY AppendProperties, LenProperties
<1>2. DOMAIN s = 1..Len(s) /\ DOMAIN Append(s, x) = 1..(Len(s) + 1)
  BY <1>1, LenProperties
<1> SUFFICES ASSUME NEW i \in 1..(Len(s) + 1), NEW j \in 1..(Len(s) + 1), i < j,
                    Append(s, x)[i].type = "COMPLETE"
             PROVE  Append(s, x)[j].type # "REGISTER"
  BY <1>2 DEF Ordered
<1>3. i \in 1..Len(s) /\ s[i].type = "COMPLETE" /\ s[i] \in Range(s)
  BY <1>1, <1>2 DEF Range
<1>4. CASE j \in 1..Len(s)
  BY <1>1, <1>2, <1>3, <1>4 DEF Ordered
<1>5. CASE j = Len(s) + 1
  BY <1>1, <1>3, <1>5
<1> QED
  BY <1>1, <1>4, <1>5

LEMMA OrderedRemove ==
  ASSUME NEW s \in Seq(FromHost), NEW k \in 1..Len(s), Ordered(s)
  PROVE  Ordered(RemoveAt(s, k))
<1>1. /\ RemoveAt(s, k) \in Seq(FromHost) /\ Len(RemoveAt(s, k)) = Len(s) - 1
      /\ \A j \in 1..(Len(s) - 1) : RemoveAt(s, k)[j] = s[IF j < k THEN j ELSE j + 1]
      /\ Len(s) \in Nat
  BY AtRemoved, LenProperties
<1>2. DOMAIN s = 1..Len(s) /\ DOMAIN RemoveAt(s, k) = 1..(Len(s) - 1)
  BY <1>1, LenProperties
<1> SUFFICES ASSUME NEW i \in 1..(Len(s) - 1), NEW j \in 1..(Len(s) - 1), i < j,
                    RemoveAt(s, k)[i].type = "COMPLETE"
             PROVE  RemoveAt(s, k)[j].type # "REGISTER"
  BY <1>2 DEF Ordered
<1> DEFINE from(n) == IF n < k THEN n ELSE n + 1
<1>3. from(i) \in 1..Len(s) /\ from(j) \in 1..Len(s) /\ from(i) < from(j)
  BY <1>1
<1>4. s[from(i)].type = "COMPLETE" /\ RemoveAt(s, k)[j] = s[from(j)]
  BY <1>1
<1> QED
  BY <1>2, <1>3, <1>4 DEF Ordered

LEMMA InitHost == Init => HostInv
<1> SUFFICES ASSUME Init PROVE HostInv
  OBVIOUS
<1> DEFINE x == [type |-> "REGISTER", query |-> 1, arrived |-> 0]
<1>1. x \in FromHost /\ x.type = "REGISTER" /\ x.query = 1
  BY DEF FromHost
<1>2. S2A = <<x>> /\ A2S = <<>>
  BY DEF Init
<1> HIDE DEF x
<1>3. S2A \in Seq(FromHost) /\ Range(S2A) = {x} /\ Ordered(S2A) /\ A2S \in Seq(ToHost)
  BY <1>1, <1>2 DEF Range, Ordered
<1>4. SentBound \in Nat /\ maxRetries \in Nat /\ maxRetries >= 1 /\ 1 \in Attempts
  BY LifecycleConfig DEF SentBound, Attempts
<1>5. pending.type = "REGISTER"
  BY DEF Init, FirstAttempt
<1>6. HostTypes
  <2>1. tx_wire \in 0..SentBound /\ finished \in BOOLEAN 
    <3>1. tx_wire = 0 /\ finished = FALSE
      BY DEF Init
    <3>2. 0 \in 0..SentBound
      BY <1>4
    <3> QED
      BY <3>1, <3>2
  <2>2. pending.type = "REGISTER" /\ pending.attempts = 1 /\ pending.query = 1
    BY DEF Init, FirstAttempt
  <2>3. \A m \in Range(S2A) : m.query \in Attempts
    BY <1>1, <1>3, <1>4
  <2>4. pending \in Pending /\ registration \in [query : 0..maxRetries, confirmed : BOOLEAN]
    <3>1. 1 \in 0..maxRetries /\ 0 \in 0..maxRetries
      BY <1>4
    <3> QED
      BY <3>1 DEF Init, FirstAttempt, NoRegistration, Pending
  <2> QED
    BY <1>3, <1>4, <2>1, <2>2, <2>3, <2>4 DEF HostTypes
<1>7. Notified
  BY <1>1, <1>3, <1>5 DEF Init, Notified, NoFlowA
<1> QED
  BY <1>6, <1>7 DEF HostInv

LEMMA HostUnseen ==
  ASSUME HostInv, UNCHANGED <<tx_wire, finished, pending, registration, retiredA>>,
         S2A' \in Seq(FromHost), Range(S2A') \subseteq Range(S2A), Ordered(S2A'),
         A2S' \in Seq(ToHost), flowA'.completed => flowA.completed
  PROVE  HostInv'
  BY DEF HostInv, HostTypes, Notified
LEMMA SendDataHost == HostInv /\ SendData => HostInv'
<1> SUFFICES ASSUME HostInv, SendData PROVE HostInv'
  OBVIOUS
<1>1. UNCHANGED <<finished, pending, S2A, A2S, registration, retiredA, flowA>>
  BY DEF SendData, gatewayA
<1>2. tx_wire' \in 0..SentBound
  <2>1. /\ Needed \in Nat /\ MaxExtra \in Nat /\ MaxLate \in Nat
        /\ tx_wire \in 0..SentBound
        /\ tx_wire < Needed + MaxExtra + (IF finished THEN MaxLate ELSE 0)
        /\ tx_wire' = tx_wire + 1
    BY LifecycleConfig DEF HostInv, HostTypes, SendData
  <2>2. (IF finished THEN MaxLate ELSE 0) \in 0..MaxLate
    BY <2>1
  <2> QED
    BY <2>1, <2>2 DEF SentBound
<1> QED
  BY <1>1, <1>2 DEF HostInv, HostTypes, Notified

(* A notification is sent. *)
LEMMA Sends ==
  ASSUME NEW x \in FromHost, HostInv, S2A' = Append(S2A, x), x.query \in Attempts,
         x.type = "REGISTER" => ~finished, x.type = "COMPLETE" => finished',
         finished => finished', finished' \in BOOLEAN,
         UNCHANGED <<tx_wire, registration, retiredA, flowA>>,
         A2S' \in Seq(ToHost),
         pending' \in Pending,
         pending'.type # "NONE" =>
           pending'.query = pending'.attempts /\ pending'.query \in Attempts,
         pending'.type = "REGISTER" => ~finished', pending'.type = "COMPLETE" => finished'
  PROVE  HostInv'
<1>1. S2A' \in Seq(FromHost) /\ Range(S2A') = Range(S2A) \cup {x}
  BY OnAppend DEF HostInv, HostTypes
<1>2. Ordered(S2A')
  <2>1. x.type = "REGISTER" => \A m \in Range(S2A) : m.type # "COMPLETE"
    BY DEF HostInv, Notified
  <2> QED
    BY <2>1, OrderedAppend DEF HostInv, HostTypes, Notified
<1>3. HostTypes'
  BY <1>1 DEF HostInv, HostTypes
<1>4. Notified'
  BY <1>1, <1>2 DEF HostInv, Notified
<1> QED
  BY <1>3, <1>4 DEF HostInv

LEMMA SourceHost == LinkInv /\ HostInv /\ (Finish \/ Retry \/ HostReceives) => HostInv'
<1> SUFFICES ASSUME LinkInv, HostInv, Finish \/ Retry \/ HostReceives PROVE HostInv'
  OBVIOUS
<1>1. /\ UNCHANGED <<tx_wire, registration, retiredA, flowA>> /\ tx_wire \in Nat
      /\ S2A \in Seq(FromHost) /\ A2S \in Seq(ToHost)
      /\ maxRetries \in Nat /\ 1 \in Attempts /\ 0 \in 0..maxRetries /\ 1 \in 0..maxRetries
      /\ finished \in BOOLEAN /\ pending \in Pending
  <2>1. UNCHANGED <<tx_wire, registration, retiredA, flowA>>
    BY DEF Finish, Retry, HostReceives, AcceptReply, IgnoreReply, gatewayA, source
  <2>2. maxRetries \in Nat /\ 1 \in Attempts /\ 0 \in 0..maxRetries /\ 1 \in 0..maxRetries
    BY LifecycleConfig DEF Attempts
  <2>3. tx_wire \in Nat
    BY DEF LinkInv, LinkTypes
  <2> QED
    BY <2>1, <2>2, <2>3 DEF HostInv, HostTypes
<1>2. CASE Finish
  <2> DEFINE x == [type |-> "COMPLETE", query |-> 1, arrived |-> tx_wire]
  <2>1. x \in FromHost /\ x.type = "COMPLETE" /\ x.query \in Attempts
    BY <1>1 DEF FromHost
  <2>2. S2A' = Append(S2A, x) /\ finished' = TRUE /\ A2S' = A2S
    BY <1>2 DEF Finish
  <2>3. /\ pending'.type = "COMPLETE" /\ pending'.attempts = 1 /\ pending'.query = 1
        /\ pending' \in Pending
    BY <1>1, <1>2 DEF Finish, FirstAttempt, Pending
  <2> HIDE DEF x
  <2> QED
    BY <1>1, <2>1, <2>2, <2>3, Sends
<1>3. CASE Retry /\ ~Exhausted
  <2> DEFINE x == [type |-> pending.type, query |-> pending.query + 1, arrived |-> tx_wire]
  <2>1. /\ pending.type \in {"REGISTER", "COMPLETE"} /\ pending.query = pending.attempts
        /\ pending.query \in Attempts /\ pending.attempts < maxRetries
    BY <1>1, <1>3 DEF Retry, Exhausted, HostInv, HostTypes, Pending
  <2>2. pending.query + 1 \in Attempts /\ pending.query + 1 \in 0..maxRetries
    BY <1>1, <2>1 DEF Attempts
  <2>3. x \in FromHost /\ x.type = pending.type /\ x.query \in Attempts
    BY <1>1, <2>1, <2>2 DEF FromHost, Attempts
  <2>4. S2A' = Append(S2A, x) /\ finished' = finished /\ A2S' = A2S
    BY <1>3 DEF Retry
  <2>5. /\ pending'.type = pending.type /\ pending'.attempts = pending.query + 1
        /\ pending'.query = pending.query + 1 /\ pending' \in Pending
    <3> DEFINE n == pending.query + 1
    <3>1. n \in Nat /\ n \in 0..maxRetries
      BY <1>1, <2>2
    <3>2. pending' = [pending EXCEPT !.attempts = n, !.query = n]
      BY <1>3, <2>1 DEF Retry
    <3> HIDE DEF n
    <3>3. pending' = [[pending EXCEPT !.attempts = n] EXCEPT !.query = n]
      BY <3>2
    <3>4. /\ pending'.type = pending.type /\ pending'.attempts = n
          /\ pending'.query = n /\ pending' \in Pending
      BY <1>1, <3>1, <3>3 DEF Pending
    <3> QED
      BY <3>4 DEF n
  <2>6. /\ pending.type = "REGISTER" => ~finished
        /\ pending.type = "COMPLETE" => finished
    BY DEF HostInv, Notified
  <2> HIDE DEF x
  <2> QED
    BY <1>1, <2>1, <2>2, <2>3, <2>4, <2>5, <2>6, Sends
<1>4. /\ Idle \in Pending /\ Idle.type = "NONE"
  BY <1>1 DEF Idle, Pending
<1>5. CASE Retry /\ Exhausted
  <2>1. pending' = Idle /\ UNCHANGED <<finished, S2A, A2S>>
    BY <1>5 DEF Retry
  <2> QED
    BY <1>1, <1>4, <2>1 DEF HostInv, HostTypes, Notified
<1>6. CASE AcceptReply
  <2> DEFINE m == Head(A2S)
             x == [type |-> "REGISTER_CONFIRM", query |-> m.query, arrived |-> m.arrived]
  <2>1. A2S # <<>> /\ A2S' = Tail(A2S) /\ pending' = Idle /\ finished' = finished
    BY <1>6 DEF AcceptReply
  <2>2. A2S' \in Seq(ToHost) /\ m \in ToHost
    BY <1>1, <2>1, OnTail
  <2>3. CASE S2A' = S2A
    BY <1>1, <1>4, <2>1, <2>2, <2>3 DEF HostInv, HostTypes, Notified
  <2>4. CASE pending.type = "REGISTER" /\ S2A' = Append(S2A, x)
    <3>1. m.query \in Attempts
      BY <1>6, <2>4 DEF AcceptReply, HostInv, HostTypes
    <3>2. x \in FromHost /\ x.type = "REGISTER_CONFIRM" /\ x.query \in Attempts
      BY <2>2, <3>1 DEF ToHost, FromHost
    <3> HIDE DEF x
    <3> QED
      BY <1>1, <1>4, <2>1, <2>2, <2>4, <3>2, Sends
  <2> QED
    BY <1>6, <2>3, <2>4 DEF AcceptReply
<1>7. CASE IgnoreReply
  <2>1. A2S # <<>> /\ A2S' = Tail(A2S) /\ UNCHANGED <<pending, finished, S2A>>
    BY <1>7 DEF IgnoreReply, source
  <2>2. A2S' \in Seq(ToHost)
    BY <1>1, <2>1, OnTail
  <2> QED
    BY <1>1, <2>1, <2>2 DEF HostInv, HostTypes, Notified
<1> QED
  BY <1>2, <1>3, <1>5, <1>6, <1>7 DEF HostReceives
LEMMA GatewayHost == LinkInv /\ HostInv /\ AReceivesHost => HostInv'
<1> SUFFICES ASSUME LinkInv, HostInv, AReceivesHost PROVE HostInv'
  OBVIOUS
<1> DEFINE m == Head(S2A)
<1>1. /\ S2A # <<>> /\ S2A' = Tail(S2A) /\ UNCHANGED <<tx_wire, finished, pending, retiredA>>
      /\ S2A \in Seq(FromHost) /\ A2S \in Seq(ToHost)
  BY DEF AReceivesHost, ReceiveRegister, ReceiveConfirm, ReceiveComplete, source,
         HostInv, HostTypes
<1>2. /\ S2A' \in Seq(FromHost) /\ Range(S2A') \subseteq Range(S2A)
      /\ m \in Range(S2A) /\ m \in FromHost
  BY <1>1, OnTail
<1>3. Ordered(S2A')
  <2>1. S2A' = RemoveAt(S2A, 1) /\ 1 \in 1..Len(S2A)
    BY <1>1, TailRemoves
  <2>2. Ordered(S2A)
    BY DEF HostInv, Notified
  <2> QED
    BY <1>1, <2>1, <2>2, OrderedRemove
<1>4. m.query \in Attempts /\ m.query \in 0..maxRetries
  BY <1>2, LifecycleConfig DEF HostInv, HostTypes, Attempts
<1>5. ASSUME NEW t \in {"REGISTER_ACK", "COMPLETE_ACK"}, A2S' = Append(A2S, [m EXCEPT !.type = t])
      PROVE  A2S' \in Seq(ToHost)
  <2>1. [m EXCEPT !.type = t] \in ToHost
    BY <1>2 DEF FromHost, ToHost
  <2> QED
    BY <1>1, <1>5, <2>1, OnAppend
<1>6. CASE ReceiveRegister
  <2>1. /\ m.type = "REGISTER" /\ flowA' = flowA
        /\ \/ UNCHANGED <<registration, A2S>>
           \/ /\ registration' = [registration EXCEPT !.query = m.query]
              /\ A2S' = Append(A2S, [m EXCEPT !.type = "REGISTER_ACK"])
    BY <1>6 DEF ReceiveRegister, Reply
  <2>2. A2S' \in Seq(ToHost)
    BY <1>1, <1>5, <2>1
  <2>3. ~flowA.completed /\ retiredA = {}
    BY <1>2, <2>1 DEF HostInv, Notified
  <2>4. registration' \in [query : 0..maxRetries, confirmed : BOOLEAN]
    BY <1>4, <2>1 DEF HostInv, HostTypes
  <2> HIDE DEF m
  <2> QED
    BY <1>1, <1>2, <1>3, <2>1, <2>2, <2>3, <2>4 DEF HostInv, HostTypes, Notified
<1>7. CASE ReceiveConfirm
  <2>1. /\ UNCHANGED <<flowA, A2S>>
        /\ \/ registration' = registration
           \/ registration.query # 0 /\ registration' = [registration EXCEPT !.confirmed = TRUE]
    BY <1>7 DEF ReceiveConfirm
  <2>2. /\ registration' \in [query : 0..maxRetries, confirmed : BOOLEAN]
        /\ registration = NoRegistration => registration' = registration
    <3>1. registration \in [query : 0..maxRetries, confirmed : BOOLEAN]
      BY DEF HostInv, HostTypes
    <3>2. registration = NoRegistration => registration.query = 0
      BY DEF NoRegistration
    <3> QED
      BY <2>1, <3>1, <3>2
  <2> HIDE DEF m
  <2> QED
    BY <1>1, <1>2, <1>3, <2>1, <2>2 DEF HostInv, HostTypes, Notified
<1>8. CASE ReceiveComplete
  <2>1. /\ m.type = "COMPLETE" /\ registration' = registration
        /\ \/ UNCHANGED A2S
           \/ A2S' = Append(A2S, [m EXCEPT !.type = "COMPLETE_ACK"])
    BY <1>8 DEF ReceiveComplete, Reply
  <2>2. A2S' \in Seq(ToHost)
    BY <1>1, <1>5, <2>1
  <2>3. finished
    BY <1>2, <2>1 DEF HostInv, Notified
  <2>4. \A n \in Range(S2A') : n.type # "REGISTER"
    <3>1. /\ Len(S2A) \in Nat /\ DOMAIN S2A = 1..Len(S2A) /\ 1 \in 1..Len(S2A) /\ m = S2A[1]
          /\ S2A' = RemoveAt(S2A, 1)
      BY <1>1, TailRemoves, LenProperties
    <3>2. /\ DOMAIN S2A' = 1..(Len(S2A) - 1)
          /\ \A j \in 1..(Len(S2A) - 1) : S2A'[j] = S2A[IF j < 1 THEN j ELSE j + 1]
      BY <1>1, <3>1, AtRemoved, LenProperties
    <3>3. ASSUME NEW j \in 1..(Len(S2A) - 1) PROVE S2A'[j].type # "REGISTER"
      <4>1. S2A'[j] = S2A[j + 1] /\ j + 1 \in DOMAIN S2A /\ 1 \in DOMAIN S2A /\ 1 < j + 1
        BY <3>1, <3>2
      <4> QED
        BY <2>1, <3>1, <4>1 DEF HostInv, Notified, Ordered
    <3> QED
      BY <3>2, <3>3 DEF Range
  <2> HIDE DEF m
  <2> QED
    BY <1>1, <1>2, <1>3, <2>1, <2>2, <2>3, <2>4 DEF HostInv, HostTypes, Notified
<1> QED
  BY <1>6, <1>7, <1>8 DEF AReceivesHost

LEMMA EraseFlowHost == HostInv /\ EraseFlow => HostInv'
<1> SUFFICES ASSUME HostInv, EraseFlow PROVE HostInv'
  OBVIOUS
<1>1. /\ UNCHANGED <<tx_wire, finished, pending, S2A, A2S>>
      /\ registration' = NoRegistration /\ flowA.completed
  BY DEF EraseFlow, Reclaims, CanRetire, RegistrationAfterErase, source
<1>2. registration' \in [query : 0..maxRetries, confirmed : BOOLEAN]
  BY <1>1, LifecycleConfig DEF NoRegistration
<1> QED
  BY <1>1, <1>2 DEF HostInv, HostTypes, Notified

LEMMA OtherHost ==
  ASSUME LinkInv, HostInv,
         ArriveAtA \/ DropAtA \/ Forward \/ ReceiveResourceState \/ AReceivesPeer \/ SendRetire
           \/ BReceives \/ DropAtB \/ Deliver \/ Report \/ UNCHANGED vars
  PROVE  HostInv'
<1>1. UNCHANGED <<tx_wire, finished, pending, S2A, A2S, registration, retiredA>>
  BY DEF ArriveAtA, DropAtA, Forward, ReceiveResourceState, AReceivesPeer, ReceiveFlowState,
         ReceiveRetireAck, SendRetire, BReceives, ArriveAtB, ReceiveRetire, DropAtB, Deliver, Report,
         vars, source, gatewayA
<1>2. flowA \in RecordA /\ nextA \in Nat
  BY DEF LinkInv, LinkTypes
<1>3. ~NewFlowA.completed /\ NewFlowA \in RecordA
  BY <1>2, FreshA DEF NewFlowA, NoFlowA
<1>4. flowA'.completed => flowA.completed
  <2>1. CASE ArriveAtA
    <3> DEFINE f == IF Live(flowA) THEN flowA ELSE NewFlowA
    <3>1. f \in RecordA /\ (f.completed => flowA.completed)
      BY <1>2, <1>3
    <3>2. flowA' = [f EXCEPT !.in = @ + 1]
      BY <2>1 DEF ArriveAtA
    <3> HIDE DEF f
    <3> QED
      BY <3>1, <3>2 DEF RecordA
  <2>2. CASE DropAtA
    BY <1>3, <2>2 DEF DropAtA
  <2>3. CASE Forward
    BY <1>2, <2>3 DEF Forward, RecordA
  <2>4. CASE ReceiveResourceState \/ SendRetire
    BY <1>2, <2>4 DEF ReceiveResourceState, SendRetire, RecordA
  <2>5. CASE ReceiveFlowState
    BY <1>2, <2>5 DEF ReceiveFlowState, RecordA
  <2>6. CASE ReceiveRetireAck
    BY <1>2, <2>6 DEF ReceiveRetireAck, RecordA
  <2>7. CASE BReceives \/ DropAtB \/ Deliver \/ Report \/ UNCHANGED vars
    BY <2>7 DEF BReceives, ArriveAtB, ReceiveRetire, DropAtB, Deliver, Report, vars, gatewayA
  <2> QED
    BY <2>1, <2>2, <2>3, <2>4, <2>5, <2>6, <2>7 DEF AReceivesPeer
<1> QED
  BY <1>1, <1>4 DEF HostInv, HostTypes, Notified

LEMMA LoseControlHost == HostInv /\ LoseControl => HostInv'
<1> SUFFICES ASSUME HostInv, LoseControl PROVE HostInv'
  OBVIOUS
<1>1. /\ UNCHANGED <<tx_wire, finished, pending, registration, retiredA, flowA>>
      /\ S2A \in Seq(FromHost) /\ A2S \in Seq(ToHost) /\ Ordered(S2A)
  BY DEF LoseControl, source, gatewayA, HostInv, HostTypes, Notified
<1>2. ASSUME NEW i \in DOMAIN S2A, S2A' = RemoveAt(S2A, i), A2S' = A2S PROVE HostInv'
  <2>1. i \in 1..Len(S2A)
    BY <1>1, LenProperties
  <2>2. S2A' \in Seq(FromHost) /\ Range(S2A') \subseteq Range(S2A) /\ Ordered(S2A')
    BY <1>1, <1>2, <2>1, OnRemove, OrderedRemove
  <2> QED
    BY <1>1, <1>2, <2>2, HostUnseen
<1>3. ASSUME NEW i \in DOMAIN A2S, A2S' = RemoveAt(A2S, i), S2A' = S2A PROVE HostInv'
  <2>1. i \in 1..Len(A2S)
    BY <1>1, LenProperties
  <2>2. A2S' \in Seq(ToHost)
    BY <1>1, <1>3, <2>1, OnRemove
  <2> QED
    BY <1>1, <1>3, <2>2, HostUnseen
<1>4. CASE UNCHANGED <<S2A, A2S>>
  BY <1>1, <1>4, HostUnseen
<1> QED
  BY <1>2, <1>3, <1>4 DEF LoseControl

-----------------------------------------------------------------------------
(* The invariant, and what follows from it *)

IInv == LinkInv /\ HostInv

LEMMA StepInv == IInv /\ [Next]_vars => IInv'
<1> SUFFICES ASSUME LinkInv, HostInv, [Next]_vars PROVE LinkInv' /\ HostInv'
  BY DEF IInv
<1>1. LinkInv'
  BY StepLink DEF HostInv, HostTypes
<1>2. CASE SendData
  BY <1>1, <1>2, SendDataHost
<1>3. CASE Finish \/ Retry \/ HostReceives
  BY <1>1, <1>3, SourceHost
<1>4. CASE AReceivesHost
  BY <1>1, <1>4, GatewayHost
<1>5. CASE EraseFlow
  BY <1>1, <1>5, EraseFlowHost
<1>6. CASE LoseControl
  BY <1>1, <1>6, LoseControlHost
<1>7. CASE ArriveAtA \/ DropAtA \/ Forward \/ ReceiveResourceState \/ AReceivesPeer \/ SendRetire
             \/ BReceives \/ DropAtB \/ Deliver \/ Report \/ UNCHANGED vars
  BY <1>1, <1>7, OtherHost
<1> QED
  BY <1>1, <1>2, <1>3, <1>4, <1>5, <1>6, <1>7 DEF Next

LEMMA AlwaysIInv == Spec => []IInv
<1>1. Init => IInv
  BY InitLink, InitHost DEF IInv
<1> QED
  BY <1>1, StepInv, PTL DEF Spec

(* Records, counters and attempts keep within what was sent.               *)
THEOREM TypeCorrect == Spec => []TypeOK
<1>1. IInv => TypeOK
  <2> SUFFICES ASSUME IInv PROVE TypeOK
    OBVIOUS
  <2>1. /\ tx_wire \in 0..SentBound /\ finished \in BOOLEAN
        /\ pending \in Pending /\ registration \in [query : 0..maxRetries, confirmed : BOOLEAN]
        /\ flowA.gen < nextA /\ flowB.gen < nextB
    BY DEF IInv, HostInv, HostTypes, LinkInv, Records
  <2>2. /\ flowA.in \in Nat /\ flowA.tx \in Nat /\ flowB.in \in Nat /\ flowB.tx \in Nat
        /\ toA \in Nat /\ OnTheLink \in Nat
        /\ flowA.in + toA <= tx_wire /\ flowA.tx <= flowA.in
        /\ flowB.tx <= flowB.in /\ flowB.in + OnTheLink <= flowA.tx
    BY LinkCount DEF IInv, LinkInv, LinkTypes, Counters, RecordA, RecordB
  <2>3. SentBound \in Nat
    BY LifecycleConfig DEF SentBound
  <2>4. /\ flowA.in \in 0..SentBound /\ flowA.tx \in 0..flowA.in
        /\ flowB.in \in 0..SentBound /\ flowB.tx \in 0..flowB.in
    BY <2>1, <2>2, <2>3
  <2>5. /\ pending.type \in {"NONE", "REGISTER", "COMPLETE"}
        /\ pending.attempts \in 0..maxRetries /\ registration.query \in 0..maxRetries
    BY <2>1 DEF Pending
  <2> QED
    BY <2>1, <2>4, <2>5 DEF TypeOK
<1> QED
  BY <1>1, AlwaysIInv, PTL

(* Whatever is on the long-haul link or counted by B is of the record A    *)
(* has now: A never reclaims a flow that has something beyond it.          *)
THEOREM ReceiverAlwaysHasSource == Spec => []ReceiverNeedsSource
<1>1. IInv => ReceiverNeedsSource
  <2> SUFFICES ASSUME IInv PROVE ReceiverNeedsSource
    OBVIOUS
  <2>1. \A i \in DOMAIN A2B : A2B[i] \in Range(A2B)
    BY DEF Range
  <2> QED
    BY <2>1 DEF IInv, LinkInv, Records, Messages, GoodToB, ReceiverNeedsSource
<1> QED
  BY <1>1, AlwaysIInv, PTL

(* What A erased is what B erased on A's request, by generation, whichever *)
(* of their messages were lost, repeated or late.                          *)
THEOREM AlwaysRetiredInPairs == Spec => []RetiredInPairs
<1>1. IInv => RetiredInPairs
  BY DEF IInv, LinkInv
<1> QED
  BY <1>1, AlwaysIInv, PTL

(* A's view of B's counters never runs ahead of what A sent.               *)
THEOREM ViewAlwaysBehind == Spec => []ViewNeverAhead
<1>1. IInv => ViewNeverAhead
  <2> SUFFICES ASSUME IInv, flowA.have
               PROVE  flowA.departed <= flowA.arrived /\ flowA.arrived <= flowA.tx
    BY DEF ViewNeverAhead
  <2>1. Told(flowA.remote, flowA.arrived, flowA.departed)
    BY DEF IInv, LinkInv, View
  <2>2. /\ flowA.arrived \in Nat /\ flowA.tx \in Nat /\ flowB.in \in Nat /\ OnTheLink \in Nat
        /\ flowB.in + OnTheLink <= flowA.tx
    BY LinkCount DEF IInv, LinkInv, LinkTypes, Counters, RecordA, RecordB
  <2> QED
    BY <2>1, <2>2 DEF Told
<1> QED
  BY <1>1, AlwaysIInv, PTL

(* "No timeout is evidence of delivery": when A may retire a flow, none of *)
(* its packets is on the link or at B.                                     *)
THEOREM RetirableAlwaysDelivered == Spec => []RetirableIsDelivered
<1>1. IInv => RetirableIsDelivered
  BY RetirableBeyond DEF IInv, RetirableIsDelivered, OnTheLink
<1> QED
  BY <1>1, AlwaysIInv, PTL

(* Nothing registers a key again once its flow is reclaimed.               *)
THEOREM RegistrationStaysRetired == Spec => []RegistrationRetired
<1>1. IInv => RegistrationRetired
  BY DEF IInv, HostInv, Notified, RegistrationRetired
<1> QED
  BY <1>1, AlwaysIInv, PTL
=============================================================================
