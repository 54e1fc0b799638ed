--------------------------- MODULE PfcLinkProofs ---------------------------
(***************************************************************************)
(* Priority flow control on a link of any length loses no packet, never    *)
(* lets a pause lapse and never leaves one behind.                         *)
(***************************************************************************)
EXTENDS PfcLink, TLAPS

(* "Renew while the MMU still requests it": a renewal that waits longest   *)
(* still arrives before the pause of a frame that did not wait expires.    *)
PausesOverlap == RefreshPeriod + Wait < PauseTime

(* The third propagation delay of the headroom pays for the wait and for   *)
(* the two packets that are already begun at either end.                   *)
HeadroomSuffices == Prop >= Wait + 2

-----------------------------------------------------------------------------
(* A sender that is or will be paused once the frames on the way have      *)
(* arrived has a switch that wants it paused.                              *)
ResumeIsLast ==
  ~paused => IF pfc = <<>> THEN ~m_paused ELSE pfc[Len(pfc)].time = 0

(* What a frame takes at most *)
Delay == Wait + Prop + NicDelay

(* Ticks within which the next frame arrives at a paused sender *)
NextFrame == IF pfc = <<>> THEN m_pfcRefresh + Delay ELSE pfc[1].left

(* Timers run when they should. *)
TimersScheduled ==
  /\ m_paused <=> m_pauseExpiry # Off
  /\ paused <=> m_pfcRefresh # Off

(* The link keeps frames in order. *)
FramesInOrder ==
  \A i, j \in DOMAIN pfc : i <= j => pfc[i].left <= pfc[j].left

(* Every pause is outlasted by the time to the frame after it. *)
PauseOutlasted == m_paused => NextFrame < m_pauseExpiry

FramesClose ==
  \A i \in 1..(Len(pfc) - 1) :
    pfc[i].time > 0 => pfc[i + 1].left < pfc[i].left + PauseTime

LastRenewed ==
  pfc # <<>> /\ pfc[Len(pfc)].time > 0
    => m_pfcRefresh + Delay < pfc[Len(pfc)].left + PauseTime

TimeInv ==
  /\ FramesInOrder
  /\ PauseOutlasted
  /\ FramesClose
  /\ LastRenewed

-----------------------------------------------------------------------------
(* The sender sends a packet per tick, so they arrive one per tick. *)
DataSpaced ==
  /\ \A i, j \in DOMAIN data : i < j => data[i] < data[j]
  /\ \A i \in DOMAIN data : data[i] <= busy + Prop + NicDelay

(* Packets that arrive in this tick *)
Arriving == IF data # <<>> /\ data[1] = 0 THEN 1 ELSE 0

(* From the i-th frame on the way on, no RESUME *)
OnlyPauses(i) == \A j \in DOMAIN pfc : i <= j => pfc[j].time > 0

(* A PAUSE is on its way, and there is room for a packet per tick until it *)
(* has arrived and the last packet before it has crossed the link; or it   *)
(* is in force, and there is room for a packet per tick until the last on  *)
(* the wire is here.                                                       *)
RoomUntilPause ==
  \E i \in DOMAIN pfc :
    /\ OnlyPauses(i)
    /\ hdrm + pfc[i].left + 1 + Prop + NicDelay + Arriving <= Headroom

RoomUnderPause ==
  /\ m_paused /\ OnlyPauses(1)
  /\ data # <<>> => hdrm + data[Len(data)] + Arriving <= Headroom

RoomForFlight == paused => RoomUntilPause \/ RoomUnderPause

HeadroomIsPaused == hdrm > 0 => paused

RoomInv ==
  /\ DataSpaced
  /\ HeadroomIsPaused
  /\ RoomForFlight
  /\ NoLoss

-----------------------------------------------------------------------------
(* The constants *)

LEMMA Constants ==
  /\ Prop \in Nat /\ NicDelay \in Nat /\ Wait \in Nat /\ MaxShared \in Nat
  /\ PauseTime \in Nat /\ PauseTime > 0
  /\ RefreshPeriod \in Nat /\ RefreshPeriod <= PauseTime
  /\ Headroom \in Nat /\ Headroom = 3 * Prop + 2 * NicDelay
  /\ Off \in Int /\ Off < 0 /\ Off = 0 - 1
  /\ {Off, 0, RefreshPeriod} \subseteq Off..RefreshPeriod
  /\ {Off, 0, PauseTime} \subseteq Off..PauseTime
<1>1. PauseTime \div 2 \in Nat /\ PauseTime \div 2 <= PauseTime
  BY LinkConfig
<1> QED
  BY <1>1, LinkConfig DEF RefreshPeriod, Headroom, Off

(* What a tick leaves of a timer *)
LEMMA DownLeft ==
  ASSUME NEW n \in Nat
  PROVE  /\ \A t \in 0..n : Down(t) \in 0..n
         /\ \A t \in Off..n : Down(t) \in Off..n
<1>1. \A t \in 0..n : Down(t) \in 0..n
  BY DEF Down
<1>2. ASSUME NEW t \in Off..n PROVE Down(t) \in Off..n
  <2>1. t \in Int /\ -1 <= t /\ t <= n
    BY <1>2 DEF Off
  <2>2. Down(t) \in Int /\ -1 <= Down(t) /\ Down(t) <= n
    BY <2>1 DEF Down
  <2> QED
    BY <2>2 DEF Off
<1> QED
  BY <1>1, <1>2

(* What sending a frame does, and what it keeps *)
LEMMA FrameSent ==
  ASSUME TypeOK, NEW time \in {0, PauseTime}, SendPfc(time)
  PROVE  /\ pfc' \in Seq([time : {0, PauseTime}, left : 0..Delay])
         /\ Len(pfc') = Len(pfc) + 1
         /\ \A i \in DOMAIN pfc : pfc'[i] = pfc[i] /\ pfc[i].left <= pfc'[Len(pfc')].left
         /\ pfc'[Len(pfc')].time = time
         /\ pfc'[Len(pfc')].left \in (Prop + NicDelay)..Delay
<1>1. PICK w \in 0..Wait :
        /\ \A i \in DOMAIN pfc : pfc[i].left <= w + Prop + NicDelay
        /\ pfc' = Append(pfc, [time |-> time, left |-> w + Prop + NicDelay])
  BY DEF SendPfc
<1> DEFINE f == [time |-> time, left |-> w + Prop + NicDelay]
<1>2. f \in [time : {0, PauseTime}, left : 0..Delay]
  BY Constants DEF Delay
<1>3. pfc \in Seq([time : {0, PauseTime}, left : 0..Delay])
  BY DEF TypeOK, Delay
<1>4. /\ pfc' \in Seq([time : {0, PauseTime}, left : 0..Delay])
      /\ Len(pfc') = Len(pfc) + 1
      /\ \A i \in DOMAIN pfc : pfc'[i] = pfc[i]
      /\ pfc'[Len(pfc')] = f
  BY <1>1, <1>2, <1>3
<1> QED
  BY <1>1, <1>4, Constants DEF Delay

(* The switch's step of PFC, whichever caller, keeps the types. *)
LEMMA PauseTypes ==
  ASSUME TypeOK, CheckAndSendPfc
  PROVE  /\ paused' \in BOOLEAN /\ m_pfcRefresh' \in Off..RefreshPeriod
         /\ pfc' \in Seq([time : {0, PauseTime}, left : 0..Delay])
<1>1. CASE hdrm' > 0 /\ ~paused
  BY <1>1, FrameSent, Constants DEF CheckAndSendPfc
<1>2. CASE ~(hdrm' > 0 /\ ~paused)
  BY <1>2 DEF CheckAndSendPfc, TypeOK, Delay
<1> QED
  BY <1>1, <1>2

LEMMA ResumeTypes ==
  ASSUME TypeOK, CheckAndSendResume
  PROVE  /\ paused' \in BOOLEAN /\ m_pfcRefresh' \in Off..RefreshPeriod
         /\ pfc' \in Seq([time : {0, PauseTime}, left : 0..Delay])
<1>1. CASE SendPfc(0) /\ paused' = FALSE /\ m_pfcRefresh' = RefreshAfterResume
  <2>1. pfc' \in Seq([time : {0, PauseTime}, left : 0..Delay])
    BY <1>1, FrameSent
  <2> QED
    BY <1>1, <2>1, Constants DEF RefreshAfterResume
<1>2. CASE UNCHANGED <<paused, m_pfcRefresh, pfc>>
  BY <1>2 DEF TypeOK, Delay
<1> QED
  BY <1>1, <1>2 DEF CheckAndSendResume

-----------------------------------------------------------------------------
(* Type correctness *)

LEMMA TypeStep == TypeOK /\ [Next]_vars => TypeOK'
<1> SUFFICES ASSUME TypeOK, [Next]_vars PROVE TypeOK'
  OBVIOUS
<1>1. CASE Send
  BY <1>1, Constants DEF Send, TypeOK, switchVars
<1>2. CASE ReceivePfc
  <2>1. pfc' \in Seq([time : {0, PauseTime}, left : 0..Delay])
    BY <1>2 DEF ReceivePfc, TypeOK, Delay
  <2>2. m_paused' \in BOOLEAN /\ m_pauseExpiry' \in Off..PauseTime
    BY <1>2, Constants DEF ReceivePfc, NewExpiry
  <2> QED
    BY <1>2, <2>1, <2>2 DEF ReceivePfc, TypeOK, switchVars, Delay
<1>3. CASE Expire
  BY <1>3, Constants DEF Expire, TypeOK, switchVars
<1>4. CASE Admit
  <2>1. /\ data' \in Seq(0..(1 + Prop + NicDelay))
        /\ shared' \in 0..MaxShared /\ hdrm' \in 0..Headroom
    BY <1>4, Constants DEF Admit, TypeOK
  <2>2. /\ paused' \in BOOLEAN /\ m_pfcRefresh' \in Off..RefreshPeriod
        /\ pfc' \in Seq([time : {0, PauseTime}, left : 0..Delay])
    BY <1>4, PauseTypes DEF Admit
  <2> QED
    BY <1>4, <2>1, <2>2 DEF Admit, TypeOK, senderVars, Delay
<1>5. CASE Refuse
  BY <1>5 DEF Refuse, TypeOK, senderVars
<1>6. CASE RefreshPfc
  <2>1. pfc' \in Seq([time : {0, PauseTime}, left : 0..Delay])
    BY <1>6, FrameSent DEF RefreshPfc
  <2> QED
    BY <1>6, <2>1, Constants DEF RefreshPfc, TypeOK, senderVars, Delay
<1>7. CASE Drain
  <2>1. shared' \in 0..MaxShared /\ hdrm' \in 0..Headroom
    BY <1>7, Constants DEF Drain, TypeOK
  <2>2. /\ paused' \in BOOLEAN /\ m_pfcRefresh' \in Off..RefreshPeriod
        /\ pfc' \in Seq([time : {0, PauseTime}, left : 0..Delay])
    BY <1>7, ResumeTypes DEF Drain
  <2> QED
    BY <1>7, <2>1, <2>2 DEF Drain, TypeOK, senderVars, Delay
<1>8. CASE Tick
  <2>1. data' \in Seq(0..(1 + Prop + NicDelay))
    <3> DEFINE D == 0..(1 + Prop + NicDelay)
    <3>1. \A t \in D : Down(t) \in D
      BY DownLeft, Constants
    <3>2. data \in Seq(D) /\ data' = [i \in DOMAIN data |-> Down(data[i])]
      BY <1>8 DEF TypeOK, Tick
    <3> HIDE DEF D
    <3>3. data' \in Seq(D)
      BY <3>1, <3>2
    <3> QED
      BY <3>3 DEF D
  <2>2. pfc' \in Seq([time : {0, PauseTime}, left : 0..Delay])
    <3> DEFINE F == [time : {0, PauseTime}, left : 0..Delay]
    <3>1. \A f \in F : [f EXCEPT !.left = Down(@)] \in F
      BY Constants DEF Delay, Down
    <3>2. pfc \in Seq(F)
      BY DEF TypeOK, Delay
    <3> HIDE DEF F
    <3>3. pfc' = [i \in DOMAIN pfc |-> [pfc[i] EXCEPT !.left = Down(@)]]
      BY <1>8 DEF Tick
    <3>4. pfc' \in Seq(F)
      BY <3>1, <3>2, <3>3
    <3> QED
      BY <3>4 DEF F
  <2>3. /\ busy' \in 0..1 /\ m_pauseExpiry' \in Off..PauseTime
        /\ m_pfcRefresh' \in Off..RefreshPeriod
    <3>1. /\ Down(busy) \in 0..1 /\ Down(m_pauseExpiry) \in Off..PauseTime
          /\ Down(m_pfcRefresh) \in Off..RefreshPeriod
      BY DownLeft, Constants DEF TypeOK
    <3> QED
      BY <1>8, <3>1 DEF Tick
  <2> QED
    BY <1>8, <2>1, <2>2, <2>3 DEF Tick, TypeOK, Delay
<1>9. CASE UNCHANGED vars
  BY <1>9 DEF vars, senderVars, switchVars, TypeOK
<1> QED
  BY <1>1, <1>2, <1>3, <1>4, <1>5, <1>6, <1>7, <1>8, <1>9 DEF Next, Due

LEMMA TypeInit == Init => TypeOK
<1>1. <<>> \in Seq([time : {0, PauseTime}, left : 0..(Wait + Prop + NicDelay)])
  OBVIOUS
<1>2. <<>> \in Seq(0..(1 + Prop + NicDelay))
  OBVIOUS
<1>3. Init => m_pauseExpiry \in Off..PauseTime /\ m_pfcRefresh \in Off..RefreshPeriod
  BY Constants DEF Init
<1>4. Init => busy \in 0..1 /\ shared \in 0..MaxShared /\ hdrm \in 0..Headroom
  BY Constants DEF Init
<1> QED
  BY <1>1, <1>2, <1>3, <1>4 DEF Init, TypeOK

(* The timers, counters and frames of the link stay within their ranges:   *)
(* in particular the headroom in use within what is configured.            *)
THEOREM TypeCorrect == Spec => []TypeOK
  BY TypeInit, TypeStep, PTL DEF Spec
-----------------------------------------------------------------------------
(* Frames on the way *)

LEMMA Frames ==
  ASSUME TypeOK
  PROVE  /\ Len(pfc) \in Nat /\ DOMAIN pfc = 1..Len(pfc)
         /\ pfc = <<>> <=> Len(pfc) = 0
         /\ \A i \in DOMAIN pfc : pfc[i].time \in Nat /\ pfc[i].left \in Nat
<1> DEFINE F == [time : {0, PauseTime}, left : 0..(Wait + Prop + NicDelay)]
<1>1. \A f \in F : f.time \in Nat /\ f.left \in Nat
  BY Constants
<1>2. pfc \in Seq(F)
  BY DEF TypeOK
<1> HIDE DEF F
<1> QED
  BY <1>1, <1>2

LEMMA FrameReceived ==
  ASSUME TypeOK, ReceivePfc
  PROVE  /\ Len(pfc) > 0 /\ pfc[1].left = 0
         /\ Len(pfc') = Len(pfc) - 1
         /\ DOMAIN pfc' = 1..Len(pfc')
         /\ pfc' = <<>> <=> Len(pfc') = 0
         /\ \A i \in 1..Len(pfc') : pfc'[i] = pfc[i + 1]
         /\ IF pfc[1].time > 0
              THEN m_paused' = TRUE /\ m_pauseExpiry' = PauseTime
              ELSE m_paused' = FALSE /\ m_pauseExpiry' = Off
<1> DEFINE F == [time : {0, PauseTime}, left : 0..(Wait + Prop + NicDelay)]
<1>1. pfc \in Seq(F) /\ pfc # <<>> /\ pfc' = Tail(pfc) /\ Head(pfc) = pfc[1]
  BY DEF TypeOK, ReceivePfc
<1> HIDE DEF F
<1>2. /\ Len(pfc) > 0 /\ Len(pfc') = Len(pfc) - 1 /\ pfc' \in Seq(F)
      /\ \A i \in 1..Len(pfc') : pfc'[i] = pfc[i + 1]
  BY <1>1
<1> QED
  BY <1>1, <1>2 DEF ReceivePfc, NewExpiry

LEMMA FramesAge ==
  ASSUME TypeOK, Tick
  PROVE  /\ Len(pfc') = Len(pfc) /\ DOMAIN pfc' = DOMAIN pfc
         /\ pfc' = <<>> <=> pfc = <<>>
         /\ \A i \in DOMAIN pfc :
              pfc'[i].time = pfc[i].time /\ pfc'[i].left = Down(pfc[i].left)
<1> DEFINE F == [time : {0, PauseTime}, left : 0..(Wait + Prop + NicDelay)]
<1>1. pfc \in Seq(F) /\ pfc' = [i \in DOMAIN pfc |-> [pfc[i] EXCEPT !.left = Down(@)]]
  BY DEF TypeOK, Tick
<1>2. \A f \in F : /\ [f EXCEPT !.left = Down(@)].time = f.time
                   /\ [f EXCEPT !.left = Down(@)].left = Down(f.left)
  OBVIOUS
<1> HIDE DEF F
<1>3. DOMAIN pfc = 1..Len(pfc) /\ Len(pfc) \in Nat /\ \A i \in DOMAIN pfc : pfc[i] \in F
  BY <1>1
<1>4. DOMAIN pfc' = DOMAIN pfc /\ Len(pfc') = Len(pfc)
  BY <1>1, <1>3
<1>5. pfc' = <<>> <=> pfc = <<>>
  BY <1>1, <1>3, <1>4
<1> QED
  BY <1>1, <1>2, <1>3, <1>4, <1>5

-----------------------------------------------------------------------------
(* A pause is asked for *)

LEMMA TimersStep == TypeOK /\ TimersScheduled /\ [Next]_vars => TimersScheduled'
<1> SUFFICES ASSUME TypeOK, TimersScheduled, [Next]_vars PROVE TimersScheduled'
  OBVIOUS
<1>0. PauseTime # Off /\ RefreshPeriod # Off /\ m_paused \in BOOLEAN /\ paused \in BOOLEAN
  BY Constants DEF TypeOK
<1>1. CASE Send
  BY <1>1 DEF Send, switchVars, TimersScheduled
<1>2. CASE ReceivePfc
  BY <1>0, <1>2 DEF ReceivePfc, NewExpiry, switchVars, TimersScheduled
<1>3. CASE Expire
  BY <1>3 DEF Expire, switchVars, TimersScheduled
<1>4. CASE Admit
  BY <1>0, <1>4 DEF Admit, CheckAndSendPfc, senderVars, TimersScheduled
<1>5. CASE Refuse
  BY <1>5 DEF Refuse, senderVars, TimersScheduled
<1>6. CASE RefreshPfc
  BY <1>0, <1>6, Constants DEF RefreshPfc, senderVars, TimersScheduled
<1>7. CASE Drain
  BY <1>0, <1>7 DEF Drain, CheckAndSendResume, RefreshAfterResume, senderVars,
                    TimersScheduled
<1>8. CASE Tick
  <2>1. \A t \in Int : (Down(t) # Off <=> t # Off)
    BY Constants DEF Down
  <2>2. m_pauseExpiry \in Int /\ m_pfcRefresh \in Int
    BY Constants DEF TypeOK
  <2> QED
    BY <1>8, <2>1, <2>2 DEF Tick, TimersScheduled
<1>9. CASE UNCHANGED vars
  BY <1>9 DEF vars, senderVars, switchVars, TimersScheduled
<1> QED
  BY <1>1, <1>2, <1>3, <1>4, <1>5, <1>6, <1>7, <1>8, <1>9 DEF Next, Due

LEMMA FrameKeepsResume ==
  ASSUME TypeOK, NEW time \in {0, PauseTime}, SendPfc(time), paused' <=> time > 0
  PROVE  ResumeIsLast'
<1>1. Len(pfc') = Len(pfc) + 1 /\ pfc'[Len(pfc')].time = time /\ Len(pfc) \in Nat
  BY FrameSent, Frames
<1>2. pfc' # <<>>
  BY <1>1
<1> QED
  BY <1>1, <1>2, Constants DEF ResumeIsLast

LEMMA ResumeStep ==
  TypeOK /\ TimersScheduled /\ ResumeIsLast /\ [Next]_vars => ResumeIsLast'
<1> SUFFICES ASSUME TypeOK, TimersScheduled, ResumeIsLast, [Next]_vars PROVE ResumeIsLast'
  OBVIOUS
<1>1. ASSUME UNCHANGED <<pfc, paused>>, m_paused' => m_paused PROVE ResumeIsLast'
  BY <1>1 DEF ResumeIsLast
<1>2. CASE Send
  BY <1>1, <1>2 DEF Send, switchVars
<1>3. CASE ReceivePfc
  <2>1. paused' = paused
    BY <1>3 DEF ReceivePfc, switchVars
  <2>2. CASE Len(pfc) = 1
    <3>1. pfc' = <<>> /\ pfc # <<>>
      BY <1>3, <2>2, FrameReceived, Frames
    <3>2. ~paused => pfc[1].time = 0
      BY <2>2, <3>1 DEF ResumeIsLast
    <3>3. ~paused => m_paused' = FALSE
      <4>1. IF pfc[1].time > 0 THEN m_paused' = TRUE ELSE m_paused' = FALSE
        BY <1>3, FrameReceived
      <4>2. ~paused => ~(pfc[1].time > 0)
        BY <3>2
      <4> QED
        BY <4>1, <4>2
    <3> QED
      BY <2>1, <3>1, <3>3 DEF ResumeIsLast
  <2>3. CASE Len(pfc) # 1
    BY <1>3, <2>1, <2>3, FrameReceived, Frames DEF ResumeIsLast
  <2> QED
    BY <2>2, <2>3
<1>4. CASE Expire
  BY <1>1, <1>4 DEF Expire, switchVars
<1>5. CASE Admit
  <2>1. CASE hdrm' > 0 /\ ~paused
    BY <1>5, <2>1 DEF Admit, CheckAndSendPfc, ResumeIsLast
  <2>2. CASE ~(hdrm' > 0 /\ ~paused)
    BY <1>1, <1>5, <2>2 DEF Admit, CheckAndSendPfc, senderVars
  <2> QED
    BY <2>1, <2>2
<1>6. CASE Refuse
  BY <1>1, <1>6 DEF Refuse, senderVars
<1>7. CASE RefreshPfc
  BY <1>7, Constants DEF RefreshPfc, ResumeIsLast, TimersScheduled
<1>8. CASE Drain
  <2>1. CASE SendPfc(0) /\ paused' = FALSE
    BY <2>1, FrameKeepsResume
  <2>2. CASE UNCHANGED <<paused, m_pfcRefresh, pfc>>
    BY <1>1, <1>8, <2>2 DEF Drain, senderVars
  <2> QED
    BY <1>8, <2>1, <2>2 DEF Drain, CheckAndSendResume
<1>9. CASE Tick
  <2>1. UNCHANGED <<paused, m_paused>>
    BY <1>9 DEF Tick
  <2> QED
    BY <1>9, <2>1, FramesAge, Frames DEF ResumeIsLast
<1>10. CASE UNCHANGED vars
  BY <1>1, <1>10 DEF vars, senderVars, switchVars
<1> QED
  BY <1>2, <1>3, <1>4, <1>5, <1>6, <1>7, <1>8, <1>9, <1>10 DEF Next, Due
AskInv == TypeOK /\ TimersScheduled /\ ResumeIsLast

LEMMA AskInvariance == Spec => []AskInv
<1>1. Init => AskInv
  BY TypeInit DEF Init, AskInv, TimersScheduled, ResumeIsLast
<1>2. AskInv /\ [Next]_vars => AskInv'
  BY TypeStep, TimersStep, ResumeStep DEF AskInv
<1> QED
  BY <1>1, <1>2, PTL DEF Spec

(* No sender is left paused by a renewal that crosses a resume: each pause *)
(* is asked for, or a RESUME is on its way (RefreshPfc, CheckAndSendResume *)
(* cancelling the renewal, QbbChannel keeping the order).                  *)
THEOREM PauseAlwaysAsked == Spec => []PauseIsAsked
<1>1. AskInv => PauseIsAsked
  BY Frames DEF AskInv, ResumeIsLast, PauseIsAsked
<1> QED
  BY <1>1, AskInvariance, PTL
-----------------------------------------------------------------------------
(* A pause is renewed in time *)

(* Whoever sends a frame, the renewal is started or stopped with it. *)
LEMMA FrameKeepsTime ==
  ASSUME AskInv, TimeInv, PausesOverlap,
         NEW time \in {0, PauseTime}, SendPfc(time), time > 0 => m_pfcRefresh' = RefreshPeriod,
         UNCHANGED <<m_paused, m_pauseExpiry>>
  PROVE  TimeInv'
<1> DEFINE n == Len(pfc)
           f == pfc'[n + 1]
<1>1. /\ n \in Nat /\ DOMAIN pfc = 1..n /\ (pfc = <<>> <=> n = 0)
      /\ \A i \in 1..n : pfc[i].time \in Nat /\ pfc[i].left \in Nat
  BY Frames DEF AskInv
<1>2. /\ Len(pfc') = n + 1 /\ DOMAIN pfc' = 1..(n + 1) /\ pfc' # <<>>
      /\ \A i \in 1..n : pfc'[i] = pfc[i] /\ pfc[i].left <= f.left
      /\ f.time = time /\ f.left \in (Prop + NicDelay)..Delay
  <2>1. /\ Len(pfc') = n + 1
        /\ pfc' \in Seq([time : {0, PauseTime}, left : 0..Delay])
        /\ \A i \in DOMAIN pfc : pfc'[i] = pfc[i] /\ pfc[i].left <= pfc'[Len(pfc')].left
        /\ pfc'[Len(pfc')].time = time
        /\ pfc'[Len(pfc')].left \in (Prop + NicDelay)..Delay
    BY FrameSent DEF AskInv
  <2>2. DOMAIN pfc' = 1..(n + 1) /\ pfc' # <<>>
    <3> DEFINE F == [time : {0, PauseTime}, left : 0..Delay]
    <3>1. pfc' \in Seq(F)
      BY <2>1
    <3> HIDE DEF F
    <3> QED
      BY <3>1, <2>1, <1>1
  <2> QED
    BY <1>1, <2>1, <2>2
<1>3. Delay \in Nat /\ Prop + NicDelay \in Nat /\ Delay = Wait + Prop + NicDelay /\ Wait \in Nat
  BY Constants DEF Delay
<1>4. f.left \in Nat /\ Prop + NicDelay <= f.left /\ f.left <= Delay
  BY <1>2, <1>3
<1>5. paused => m_pfcRefresh \in Nat
  BY Constants DEF AskInv, TypeOK, TimersScheduled
<1> HIDE DEF n, f
<1>6. FramesInOrder'
  <2> SUFFICES ASSUME NEW i \in 1..(n + 1), NEW j \in 1..(n + 1), i <= j
               PROVE  pfc'[i].left <= pfc'[j].left
    BY <1>2 DEF FramesInOrder
  <2>1. CASE j \in 1..n
    <3>1. i \in 1..n /\ pfc'[i] = pfc[i] /\ pfc'[j] = pfc[j]
      BY <2>1, <1>1, <1>2
    <3>2. pfc[i].left <= pfc[j].left
      BY <2>1, <3>1, <1>1 DEF TimeInv, FramesInOrder
    <3> QED
      BY <3>1, <3>2
  <2>2. CASE j = n + 1
    BY <2>2, <1>1, <1>2, <1>4 DEF f
  <2> QED
    BY <1>1, <2>1, <2>2
<1>7. PauseOutlasted'
  <2> SUFFICES ASSUME m_paused PROVE pfc'[1].left < m_pauseExpiry
    BY <1>2 DEF PauseOutlasted, NextFrame
  <2>1. NextFrame < m_pauseExpiry
    BY DEF TimeInv, PauseOutlasted
  <2>2. CASE n = 0
    <3>1. paused /\ NextFrame = m_pfcRefresh + Delay
      BY <2>2, <1>1 DEF AskInv, ResumeIsLast, NextFrame
    <3>2. m_pauseExpiry \in Int
      BY Constants DEF AskInv, TypeOK
    <3> QED
      BY <2>1, <2>2, <3>1, <3>2, <1>3, <1>4, <1>5 DEF f
  <2>3. CASE n > 0
    BY <2>1, <2>3, <1>1, <1>2 DEF NextFrame
  <2> QED
    BY <1>1, <2>2, <2>3
<1>8. FramesClose'
  <2> SUFFICES ASSUME NEW i \in 1..n, pfc'[i].time > 0
               PROVE  pfc'[i + 1].left < pfc'[i].left + PauseTime
    BY <1>1, <1>2 DEF FramesClose
  <2>1. CASE i \in 1..(n - 1)
    BY <2>1, <1>1, <1>2 DEF TimeInv, FramesClose
  <2>2. CASE i = n
    <3>1. pfc[n].time > 0 /\ pfc[n].time # 0
      BY <2>2, <1>1, <1>2
    <3>2. m_pfcRefresh + Delay < pfc[n].left + PauseTime
      BY <2>2, <3>1, <1>1 DEF TimeInv, LastRenewed, n
    <3>3. paused
      BY <2>2, <3>1, <1>1 DEF AskInv, ResumeIsLast, n
    <3> QED
      BY <2>2, <3>2, <3>3, <1>1, <1>2, <1>3, <1>4, <1>5, Constants DEF f
  <2> QED
    BY <1>1, <2>1, <2>2
<1>9. LastRenewed'
  <2> SUFFICES ASSUME time > 0
               PROVE  RefreshPeriod + Delay < f.left + PauseTime
    BY <1>2 DEF LastRenewed, f
  <2> QED
    BY <1>3, <1>4, Constants DEF PausesOverlap
<1> QED
  BY <1>6, <1>7, <1>8, <1>9 DEF TimeInv

(* Frames come in order, so none is due before the first. *)
LEMMA FramesNotDue ==
  ASSUME AskInv, TimeInv, NothingDue, NEW i \in DOMAIN pfc
  PROVE  pfc[i].left > 0
<1>1. pfc # <<>> /\ 1 \in DOMAIN pfc /\ 1 <= i
  BY Frames DEF AskInv
<1>2. Head(pfc) = pfc[1]
  BY <1>1 DEF AskInv, TypeOK
<1>3. pfc[1].left > 0 /\ pfc[1].left <= pfc[i].left
  BY <1>1, <1>2 DEF NothingDue, TimeInv, FramesInOrder
<1> QED
  BY <1>1, <1>3, Frames DEF AskInv

(* The renewal is scheduled when no frame is on its way to a paused sender. *)
LEMMA SomeFrameComes ==
  ASSUME AskInv, m_paused
  PROVE  NextFrame \in Nat
<1>1. CASE pfc = <<>>
  <2>1. paused
    BY <1>1 DEF AskInv, ResumeIsLast
  <2>2. m_pfcRefresh \in Nat
    BY <2>1, Constants DEF AskInv, TypeOK, TimersScheduled
  <2> QED
    BY <1>1, <2>2, Constants DEF NextFrame, Delay
<1>2. CASE pfc # <<>>
  BY <1>2, Frames DEF AskInv, NextFrame
<1> QED
  BY <1>1, <1>2

LEMMA TimeStep == AskInv /\ TimeInv /\ PausesOverlap /\ [Next]_vars => TimeInv'
<1> SUFFICES ASSUME AskInv, TimeInv, PausesOverlap, [Next]_vars PROVE TimeInv'
  OBVIOUS
<1>0. ASSUME UNCHANGED <<m_paused, m_pauseExpiry, m_pfcRefresh, pfc>> PROVE TimeInv'
  BY <1>0 DEF TimeInv, FramesInOrder, PauseOutlasted, NextFrame, FramesClose, LastRenewed
<1>1. CASE Send
  BY <1>0, <1>1 DEF Send, switchVars
<1>2. CASE ReceivePfc
  <2> DEFINE n == Len(pfc')
  <2>1. /\ n \in Nat /\ Len(pfc) = n + 1 /\ DOMAIN pfc = 1..(n + 1)
        /\ \A i \in 1..(n + 1) : pfc[i].time \in Nat /\ pfc[i].left \in Nat
    BY <1>2, FrameReceived, Frames DEF AskInv
  <2>2. /\ DOMAIN pfc' = 1..n /\ (pfc' = <<>> <=> n = 0)
        /\ \A i \in 1..n : pfc'[i] = pfc[i + 1]
        /\ pfc[1].left = 0
    BY <1>2, FrameReceived DEF AskInv
  <2>3. m_pfcRefresh' = m_pfcRefresh
    BY <1>2 DEF ReceivePfc, switchVars
  <2>4. pfc # <<>>
    BY <2>1, Frames DEF AskInv
  <2> HIDE DEF n
  <2>5. FramesInOrder'
    <3> SUFFICES ASSUME NEW i \in 1..n, NEW j \in 1..n, i <= j
                 PROVE  pfc'[i].left <= pfc'[j].left
      BY <2>2 DEF FramesInOrder
    <3>1. pfc'[i] = pfc[i + 1] /\ pfc'[j] = pfc[j + 1]
      BY <2>2
    <3>2. i + 1 \in 1..(n + 1) /\ j + 1 \in 1..(n + 1) /\ i + 1 <= j + 1
      BY <2>1
    <3>3. pfc[i + 1].left <= pfc[j + 1].left
      BY <3>2, <2>1 DEF TimeInv, FramesInOrder
    <3> QED
      BY <3>1, <3>3
  <2>6. PauseOutlasted'
    <3> SUFFICES ASSUME m_paused' PROVE NextFrame' < m_pauseExpiry'
      BY DEF PauseOutlasted
    <3>1. pfc[1].time > 0 /\ m_pauseExpiry' = PauseTime
      BY <1>2, FrameReceived DEF AskInv
    <3>2. CASE n = 0
      <4>1. m_pfcRefresh + Delay < 0 + PauseTime
        BY <3>1, <3>2, <2>1, <2>2, <2>4 DEF TimeInv, LastRenewed
      <4> QED
        BY <3>1, <3>2, <4>1, <2>2, <2>3, Constants DEF NextFrame, Delay
    <3>3. CASE n > 0
      <4>1. pfc[2].left < 0 + PauseTime
        BY <3>1, <3>3, <2>1, <2>2 DEF TimeInv, FramesClose
      <4> QED
        BY <3>1, <3>3, <4>1, <2>1, <2>2, Constants DEF NextFrame
    <3> QED
      BY <2>1, <3>2, <3>3
  <2>7. FramesClose'
    BY <2>1, <2>2 DEF TimeInv, FramesClose, n
  <2>8. LastRenewed'
    BY <2>1, <2>2, <2>3, <2>4 DEF TimeInv, LastRenewed, Delay, n
  <2> QED
    BY <2>5, <2>6, <2>7, <2>8 DEF TimeInv
<1>3. CASE Expire
  <2>1. m_paused /\ NextFrame < 0
    BY <1>3, Constants DEF Expire, AskInv, TimersScheduled, TimeInv, PauseOutlasted
  <2>2. NextFrame \in Nat
    BY <2>1, SomeFrameComes
  <2> QED
    BY <2>1, <2>2
<1>4. CASE Admit
  <2>1. CASE hdrm' > 0 /\ ~paused
    <3>1. PauseTime \in {0, PauseTime} /\ SendPfc(PauseTime)
      BY <1>4, <2>1 DEF Admit, CheckAndSendPfc
    <3> QED
      BY <1>4, <2>1, <3>1, FrameKeepsTime DEF Admit, CheckAndSendPfc, senderVars
  <2>2. CASE ~(hdrm' > 0 /\ ~paused)
    BY <1>0, <1>4, <2>2 DEF Admit, CheckAndSendPfc, senderVars
  <2> QED
    BY <2>1, <2>2
<1>5. CASE Refuse
  BY <1>0, <1>5 DEF Refuse, senderVars
<1>6. CASE RefreshPfc
  <2>1. PauseTime \in {0, PauseTime} /\ SendPfc(PauseTime)
    BY <1>6 DEF RefreshPfc
  <2> QED
    BY <1>6, <2>1, FrameKeepsTime DEF RefreshPfc, senderVars
<1>7. CASE Drain
  <2>1. CASE SendPfc(0)
    <3>1. 0 \in {0, PauseTime} /\ ~(0 > 0)
      OBVIOUS
    <3> QED
      BY <1>7, <2>1, <3>1, FrameKeepsTime DEF Drain, senderVars
  <2>2. CASE UNCHANGED <<paused, m_pfcRefresh, pfc>>
    BY <1>0, <1>7, <2>2 DEF Drain, senderVars
  <2> QED
    BY <1>7, <2>1, <2>2 DEF Drain, CheckAndSendResume
<1>8. CASE Tick
  <2> DEFINE n == Len(pfc)
  <2>1. /\ n \in Nat /\ DOMAIN pfc = 1..n /\ (pfc = <<>> <=> n = 0)
        /\ \A i \in 1..n : pfc[i].time \in Nat /\ pfc[i].left \in Nat
    BY Frames DEF AskInv
  <2>2. \A i \in 1..n : pfc[i].left > 0
    BY <1>8, <2>1, FramesNotDue DEF Tick
  <2>3. /\ Len(pfc') = n /\ DOMAIN pfc' = 1..n /\ (pfc' = <<>> <=> pfc = <<>>)
        /\ \A i \in 1..n :
             pfc'[i].time = pfc[i].time /\ pfc'[i].left = pfc[i].left - 1
    BY <1>8, <2>1, <2>2, FramesAge DEF AskInv, Down
  <2>4. /\ paused => m_pfcRefresh \in Nat /\ m_pfcRefresh' = m_pfcRefresh - 1
        /\ m_paused => m_pauseExpiry \in Nat /\ m_pauseExpiry' = m_pauseExpiry - 1
        /\ paused' = paused /\ m_paused' = m_paused
    <3>1. \A t \in Int : Off <= t /\ t # Off /\ t # 0 => t \in Nat /\ Down(t) = t - 1
      BY Constants DEF Down
    <3>2. /\ m_pfcRefresh \in Int /\ Off <= m_pfcRefresh /\ m_pfcRefresh # 0
          /\ m_pauseExpiry \in Int /\ Off <= m_pauseExpiry /\ m_pauseExpiry # 0
      BY <1>8, Constants DEF Tick, NothingDue, AskInv, TypeOK
    <3> QED
      BY <1>8, <3>1, <3>2 DEF Tick, AskInv, TimersScheduled
  <2>5. FramesInOrder'
    BY <2>1, <2>3 DEF TimeInv, FramesInOrder
  <2>6. PauseOutlasted'
    BY <2>1, <2>3, <2>4, Constants
       DEF TimeInv, PauseOutlasted, NextFrame, AskInv, ResumeIsLast, Delay
  <2>7. FramesClose'
    BY <2>1, <2>3, Constants DEF TimeInv, FramesClose
  <2>8. LastRenewed'
    BY <2>1, <2>3, <2>4, Constants
       DEF TimeInv, LastRenewed, AskInv, ResumeIsLast, Delay
  <2> QED
    BY <2>5, <2>6, <2>7, <2>8 DEF TimeInv
<1>9. CASE UNCHANGED vars
  BY <1>0, <1>9 DEF vars, senderVars, switchVars
<1> QED
  BY <1>1, <1>2, <1>3, <1>4, <1>5, <1>6, <1>7, <1>8, <1>9 DEF Next, Due

LEMMA TimeInit == Init => AskInv /\ TimeInv
<1> SUFFICES ASSUME Init PROVE AskInv /\ TimeInv
  OBVIOUS
<1>1. AskInv
  BY TypeInit DEF Init, AskInv, TimersScheduled, ResumeIsLast
<1>2. pfc = <<>> /\ Len(pfc) = 0 /\ DOMAIN pfc = {} /\ ~m_paused
  BY DEF Init
<1>3. 1..(0 - 1) = {}
  OBVIOUS
<1> QED
  BY <1>1, <1>2, <1>3 DEF TimeInv, FramesInOrder, PauseOutlasted, FramesClose, LastRenewed

(* When half a PauseTime covers what a renewal may wait longer than the    *)
(* PAUSE before it, no pause runs out at the sender (RefreshPfc, m_pauseExpiry). *)
THEOREM PauseAlwaysRenewed ==
  ASSUME PausesOverlap
  PROVE  Spec => []PauseRenewed
<1>1. Init => AskInv /\ TimeInv
  BY TimeInit
<1>2. AskInv /\ TimeInv /\ [Next]_vars => TimeInv'
  BY TimeStep
<1>3. AskInv /\ TimeInv => PauseRenewed
  <2> SUFFICES ASSUME AskInv, TimeInv, m_pauseExpiry = 0 PROVE FALSE
    BY DEF PauseRenewed
  <2>1. m_paused /\ NextFrame < 0
    BY Constants DEF AskInv, TimersScheduled, TimeInv, PauseOutlasted
  <2> QED
    BY <2>1, SomeFrameComes
<1> QED
  BY <1>1, <1>2, <1>3, AskInvariance, PTL DEF Spec

-----------------------------------------------------------------------------
(* Packets on the wire *)

LEMMA Packets ==
  ASSUME TypeOK
  PROVE  /\ Len(data) \in Nat /\ DOMAIN data = 1..Len(data)
         /\ data = <<>> <=> Len(data) = 0
         /\ \A i \in DOMAIN data : data[i] \in Nat
  BY Constants DEF TypeOK

LEMMA PacketSent ==
  ASSUME TypeOK, Send
  PROVE  /\ Len(data') = Len(data) + 1 /\ DOMAIN data' = 1..(Len(data) + 1)
         /\ \A i \in DOMAIN data : data'[i] = data[i]
         /\ data'[Len(data) + 1] = 1 + Prop + NicDelay
  BY Constants DEF TypeOK, Send

LEMMA PacketArrived ==
  ASSUME TypeOK, DataSpaced, data # <<>>, Head(data) = 0, data' = Tail(data)
  PROVE  /\ Len(data') = Len(data) - 1 /\ DOMAIN data' = 1..(Len(data) - 1)
         /\ \A i \in DOMAIN data' : data'[i] = data[i + 1]
         /\ Arriving = 1 /\ Arriving' = 0
         /\ data' # <<>> => data'[Len(data')] = data[Len(data)]
<1>1. /\ Len(data) \in Nat /\ DOMAIN data = 1..Len(data) /\ Len(data) > 0
      /\ \A i \in DOMAIN data : data[i] \in Nat
  BY Packets
<1>2. /\ Len(data') = Len(data) - 1 /\ DOMAIN data' = 1..(Len(data) - 1)
      /\ \A i \in DOMAIN data' : data'[i] = data[i + 1]
      /\ data[1] = 0 /\ (data' = <<>> <=> Len(data') = 0)
  BY <1>1 DEF TypeOK
<1>3. Arriving = 1
  BY <1>2 DEF Arriving
<1>4. data' # <<>> => data'[1] > 0
  BY <1>1, <1>2 DEF DataSpaced
<1>5. Arriving' = 0
  BY <1>4 DEF Arriving
<1> QED
  BY <1>1, <1>2, <1>3, <1>5

LEMMA PacketsAge ==
  ASSUME TypeOK, DataSpaced, Tick
  PROVE  /\ Len(data') = Len(data) /\ DOMAIN data' = DOMAIN data
         /\ data' = <<>> <=> data = <<>>
         /\ \A i \in DOMAIN data : data[i] > 0 /\ data'[i] = data[i] - 1
         /\ Arriving = 0 /\ Arriving' \in {0, 1}
<1>1. /\ Len(data) \in Nat /\ DOMAIN data = 1..Len(data)
      /\ data = <<>> <=> Len(data) = 0
      /\ \A i \in DOMAIN data : data[i] \in Nat
  BY Packets
<1>2. data' = [i \in DOMAIN data |-> Down(data[i])] /\ (data # <<>> => data[1] > 0)
  BY <1>1 DEF Tick, NothingDue, TypeOK
<1>3. \A i \in DOMAIN data : data[i] > 0
  BY <1>1, <1>2 DEF DataSpaced
<1>4. \A i \in DOMAIN data : data'[i] = data[i] - 1
  BY <1>1, <1>2, <1>3 DEF Down
<1>5. Len(data') = Len(data) /\ DOMAIN data' = DOMAIN data /\ (data' = <<>> <=> data = <<>>)
  BY <1>1, <1>2
<1>6. Arriving = 0 /\ Arriving' \in {0, 1}
  BY <1>2 DEF Arriving
<1> QED
  BY <1>3, <1>4, <1>5, <1>6

LEMMA SpacedStep == TypeOK /\ DataSpaced /\ [Next]_vars => DataSpaced'
<1> SUFFICES ASSUME TypeOK, DataSpaced, [Next]_vars PROVE DataSpaced'
  OBVIOUS
<1>0. /\ Len(data) \in Nat /\ DOMAIN data = 1..Len(data)
      /\ \A i \in DOMAIN data : data[i] \in Nat
      /\ Prop \in Nat /\ NicDelay \in Nat /\ busy \in 0..1
  BY Packets, Constants DEF TypeOK
<1>1. ASSUME UNCHANGED <<busy, data>> PROVE DataSpaced'
  BY <1>1 DEF DataSpaced
<1>2. CASE Send
  <2>1. busy = 0 /\ busy' = 1
    BY <1>2 DEF Send
  <2> QED
    BY <1>0, <1>2, <2>1, PacketSent DEF DataSpaced
<1>3. ASSUME data # <<>>, Head(data) = 0, data' = Tail(data), busy' = busy
      PROVE  DataSpaced'
  BY <1>0, <1>3, PacketArrived DEF DataSpaced
<1>4. CASE Tick
  <2>1. busy' = Down(busy) /\ busy' \in Nat /\ busy' >= busy - 1
    BY <1>0, <1>4 DEF Tick, Down
  <2> QED
    <3>1. /\ DOMAIN data' = DOMAIN data
          /\ \A i \in DOMAIN data : data'[i] = data[i] - 1
      BY <1>4, PacketsAge
    <3>2. \A i, j \in DOMAIN data : i < j => data'[i] < data'[j]
      BY <1>0, <3>1 DEF DataSpaced
    <3>3. \A i \in DOMAIN data : data'[i] <= busy' + Prop + NicDelay
      BY <1>0, <2>1, <3>1 DEF DataSpaced
    <3> QED
      BY <3>1, <3>2, <3>3 DEF DataSpaced
<1>5. CASE ReceivePfc \/ Expire \/ RefreshPfc \/ Drain \/ UNCHANGED vars
  BY <1>1, <1>5 DEF ReceivePfc, Expire, RefreshPfc, Drain, vars, senderVars, switchVars
<1>6. CASE Admit \/ Refuse
  BY <1>3, <1>6 DEF Admit, Refuse, senderVars
<1> QED
  BY <1>2, <1>4, <1>5, <1>6 DEF Next, Due

-----------------------------------------------------------------------------
(* The headroom suffices *)

LEMMA PausedStep == TypeOK /\ HeadroomIsPaused /\ [Next]_vars => HeadroomIsPaused'
<1> SUFFICES ASSUME TypeOK, HeadroomIsPaused, [Next]_vars PROVE HeadroomIsPaused'
  OBVIOUS
<1>0. ASSUME UNCHANGED <<hdrm, paused>> PROVE HeadroomIsPaused'
  BY <1>0 DEF HeadroomIsPaused
<1>1. CASE Send \/ ReceivePfc \/ Expire
  BY <1>0, <1>1 DEF Send, ReceivePfc, Expire, switchVars
<1>2. CASE Admit
  BY <1>2 DEF Admit, CheckAndSendPfc, HeadroomIsPaused
<1>3. CASE Refuse \/ RefreshPfc \/ Tick
  BY <1>0, <1>3 DEF Refuse, RefreshPfc, Tick
<1>4. CASE Drain
  <2>1. hdrm' > 0 => hdrm > 0
    BY <1>4, Constants DEF Drain, TypeOK
  <2> QED
    <3>1. CASE hdrm' = 0
      BY <3>1 DEF HeadroomIsPaused
    <3>2. CASE hdrm' # 0
      <4>1. paused' = paused
        BY <1>4, <3>2 DEF Drain, CheckAndSendResume, MayResume
      <4> QED
        BY <2>1, <4>1 DEF HeadroomIsPaused
    <3> QED
      BY <3>1, <3>2
<1>5. CASE UNCHANGED vars
  BY <1>0, <1>5 DEF vars, switchVars
<1> QED
  BY <1>1, <1>2, <1>3, <1>4, <1>5 DEF Next, Due

(* A packet arrives and may be charged, or none does. *)
LEMMA SumKept ==
  ASSUME NEW h \in Int, NEW a \in Int, NEW h2 \in Int, NEW a2 \in Int,
         \/ h2 <= h + 1 /\ a = 1 /\ a2 = 0
         \/ h2 <= h /\ a2 = a
  PROVE  h2 + a2 <= h + a
  OBVIOUS

LEMMA SumWith ==
  ASSUME NEW h \in Int, NEW a \in Int, NEW h2 \in Int, NEW a2 \in Int, NEW l \in Int,
         h2 + a2 <= h + a
  PROVE  h2 + l + a2 <= h + l + a
  OBVIOUS

(* Packets admitted, ticks left and packets arriving add up to less. *)
LEMMA LessRoom ==
  ASSUME NEW h \in Int, NEW l \in Int, NEW a \in Int,
         NEW h2 \in Int, NEW l2 \in Int, NEW a2 \in Int,
         h2 + l2 + a2 <= h + l + a,
         h + l + 1 + Prop + NicDelay + a <= Headroom
  PROVE  h2 + l2 + 1 + Prop + NicDelay + a2 <= Headroom
  BY Constants

LEMMA LessFlight ==
  ASSUME NEW h \in Int, NEW l \in Int, NEW a \in Int, NEW h2 \in Int, NEW a2 \in Int,
         h2 + a2 <= h + a, h + l + a <= Headroom
  PROVE  h2 + l + a2 <= Headroom
  BY Constants

(* Steps that let neither a packet nor a frame in *)
LEMMA RoomKept ==
  ASSUME AskInv, RoomForFlight, UNCHANGED <<paused, m_paused, pfc>>,
         hdrm' \in Nat, hdrm' + Arriving' <= hdrm + Arriving,
         data' # <<>> => /\ data # <<>> /\ data'[Len(data')] = data[Len(data)]
  PROVE  RoomForFlight'
<1>0. hdrm \in Int /\ hdrm' \in Int /\ Arriving \in Int /\ Arriving' \in Int
  BY Constants DEF AskInv, TypeOK, Arriving
<1>1. /\ \A i \in DOMAIN pfc : pfc[i].left \in Nat
      /\ data # <<>> => data[Len(data)] \in Nat
  BY Frames, Packets DEF AskInv
<1>2. ASSUME RoomUntilPause PROVE RoomUntilPause'
  <2> PICK i \in DOMAIN pfc :
        /\ OnlyPauses(i)
        /\ hdrm + pfc[i].left + 1 + Prop + NicDelay + Arriving <= Headroom
    BY <1>2 DEF RoomUntilPause
  <2>1. pfc[i].left \in Nat
    BY <1>1
  <2>2. hdrm' + pfc[i].left + 1 + Prop + NicDelay + Arriving' <= Headroom
    <3>1. pfc[i].left \in Int
      BY <2>1
    <3>2. hdrm' + pfc[i].left + Arriving' <= hdrm + pfc[i].left + Arriving
      BY <1>0, <3>1, SumWith
    <3> QED
      BY <1>0, <3>1, <3>2, LessRoom
  <2>3. \A j \in DOMAIN pfc' : i <= j => pfc'[j].time > 0
    BY DEF OnlyPauses
  <2>4. i \in DOMAIN pfc' /\ pfc'[i].left = pfc[i].left
    OBVIOUS
  <2> QED
    BY <2>2, <2>3, <2>4 DEF RoomUntilPause, OnlyPauses
<1>3. ASSUME RoomUnderPause PROVE RoomUnderPause'
  <2>1. ASSUME data # <<>> PROVE hdrm' + data[Len(data)] + Arriving' <= Headroom
    <3>1. hdrm + data[Len(data)] + Arriving <= Headroom /\ data[Len(data)] \in Int
      BY <1>1, <1>3, <2>1 DEF RoomUnderPause
    <3> QED
      BY <1>0, <3>1, LessFlight, Constants
  <2>2. m_paused /\ \A j \in DOMAIN pfc : 1 <= j => pfc[j].time > 0
    BY <1>3 DEF RoomUnderPause, OnlyPauses
  <2>3. m_paused' /\ \A j \in DOMAIN pfc' : 1 <= j => pfc'[j].time > 0
    BY <2>2
  <2> QED
    BY <2>1, <2>3 DEF RoomUnderPause, OnlyPauses
<1> QED
  BY <1>2, <1>3 DEF RoomForFlight

(* One packet in headroom, those of the PAUSE's way and of the packets' *)
LEMMA PauseCovered ==
  ASSUME HeadroomSuffices, NEW h \in Nat, h <= 1, NEW left \in (Prop + NicDelay)..Delay,
         NEW arriving, arriving = 0
  PROVE  h + left + 1 + Prop + NicDelay + arriving <= Headroom
<1>1. /\ Prop \in Nat /\ NicDelay \in Nat /\ Wait \in Nat
      /\ Headroom = 3 * Prop + 2 * NicDelay
      /\ left \in Int /\ left <= Wait + Prop + NicDelay
  BY Constants DEF Delay
<1>2. Prop >= Wait + 2
  BY DEF HeadroomSuffices
<1> QED
  BY <1>1, <1>2

(* The headroom that is configured covers a PAUSE that is sent now. *)
LEMMA RoomWhenPauseSent ==
  ASSUME AskInv, HeadroomSuffices, SendPfc(PauseTime),
         hdrm' \in {0, 1}, Arriving' = 0
  PROVE  RoomUntilPause'
<1> DEFINE n == Len(pfc')
<1>1. PauseTime \in {0, PauseTime} /\ PauseTime > 0
  BY Constants
<1>2. /\ n = Len(pfc) + 1 /\ pfc'[n].time = PauseTime
      /\ pfc'[n].left \in (Prop + NicDelay)..Delay
      /\ pfc' \in Seq([time : {0, PauseTime}, left : 0..Delay])
  BY <1>1, FrameSent DEF AskInv
<1>3. n \in Nat /\ DOMAIN pfc' = 1..n /\ n > 0
  <2> DEFINE F == [time : {0, PauseTime}, left : 0..Delay]
  <2>1. pfc' \in Seq(F) /\ n = Len(pfc) + 1 /\ Len(pfc) \in Nat
    BY <1>2, Frames DEF AskInv
  <2> HIDE DEF F
  <2> QED
    BY <2>1
<1>4. n \in DOMAIN pfc' /\ \A j \in DOMAIN pfc' : n <= j => pfc'[j].time > 0
  BY <1>1, <1>2, <1>3
<1>5. hdrm' + pfc'[n].left + 1 + Prop + NicDelay + Arriving' <= Headroom
  <2>1. hdrm' \in Nat /\ hdrm' <= 1
    OBVIOUS
  <2>2. pfc'[n].left \in (Prop + NicDelay)..Delay
    BY <1>2
  <2> HIDE DEF n
  <2> QED
    BY <2>1, <2>2, PauseCovered
<1> HIDE DEF n
<1> QED
  BY <1>4, <1>5 DEF RoomUntilPause, OnlyPauses

LEMMA RoomWhenRenewed ==
  ASSUME AskInv, RoomForFlight, paused, SendPfc(PauseTime),
         UNCHANGED <<m_paused, hdrm, data>>
  PROVE  RoomForFlight'
<1> DEFINE n == Len(pfc)
<1>1. PauseTime \in {0, PauseTime} /\ PauseTime > 0
  BY Constants
<1>2. n \in Nat /\ DOMAIN pfc = 1..n
  BY Frames DEF AskInv
<1>3. /\ Len(pfc') = n + 1 /\ pfc'[n + 1].time = PauseTime
      /\ \A i \in DOMAIN pfc : pfc'[i] = pfc[i]
      /\ pfc' \in Seq([time : {0, PauseTime}, left : 0..Delay])
  <2>1. /\ Len(pfc') = Len(pfc) + 1 /\ pfc'[Len(pfc')].time = PauseTime
        /\ \A i \in DOMAIN pfc : pfc'[i] = pfc[i]
        /\ pfc' \in Seq([time : {0, PauseTime}, left : 0..Delay])
    BY <1>1, FrameSent DEF AskInv
  <2> QED
    BY <2>1
<1>4. DOMAIN pfc' = 1..(n + 1)
  <2> DEFINE F == [time : {0, PauseTime}, left : 0..Delay]
  <2>1. pfc' \in Seq(F) /\ Len(pfc') = n + 1
    BY <1>3
  <2> HIDE DEF F
  <2> QED
    BY <1>2, <2>1
<1>5. \A i \in 1..(n + 1) : OnlyPauses(i) => OnlyPauses(i)'
  BY <1>1, <1>2, <1>3, <1>4 DEF OnlyPauses
<1>6. Arriving' = Arriving
  BY DEF Arriving
<1>7. RoomUntilPause => RoomUntilPause'
  BY <1>2, <1>3, <1>4, <1>5, <1>6 DEF RoomUntilPause
<1>8. RoomUnderPause => RoomUnderPause'
  BY <1>2, <1>5, <1>6 DEF RoomUnderPause
<1> QED
  BY <1>7, <1>8 DEF RoomForFlight

(* A PAUSE that arrives: the packets that are behind it have been sent. *)
LEMMA RoomWhenReceived ==
  ASSUME AskInv, DataSpaced, RoomForFlight, ReceivePfc
  PROVE  RoomForFlight'
<1> DEFINE n == Len(pfc')
<1>1. /\ Len(pfc) = n + 1 /\ n \in Nat /\ DOMAIN pfc = 1..(n + 1)
      /\ \A i \in DOMAIN pfc : pfc[i].time \in Nat /\ pfc[i].left \in Nat
  BY FrameReceived, Frames DEF AskInv
<1>2. /\ DOMAIN pfc' = 1..n /\ pfc[1].left = 0
      /\ \A i \in 1..n : pfc'[i] = pfc[i + 1]
      /\ pfc[1].time > 0 => m_paused'
  BY FrameReceived DEF AskInv
<1>3. paused' = paused /\ hdrm' = hdrm /\ data' = data /\ Arriving' = Arriving
  BY DEF ReceivePfc, switchVars, Arriving
<1> HIDE DEF n
<1>4. ASSUME OnlyPauses(1) PROVE OnlyPauses(1)' /\ m_paused'
  <2>1. \A j \in 1..(n + 1) : pfc[j].time > 0
    BY <1>1, <1>4 DEF OnlyPauses
  <2>2. \A j \in 1..n : pfc'[j].time > 0
    BY <1>1, <1>2, <2>1
  <2>3. m_paused'
    BY <1>1, <1>2, <2>1
  <2> QED
    BY <1>2, <2>2, <2>3 DEF OnlyPauses
<1>5. ASSUME RoomUnderPause PROVE RoomUnderPause'
  BY <1>3, <1>4, <1>5 DEF RoomUnderPause
<1>6. ASSUME RoomUntilPause PROVE RoomUntilPause' \/ RoomUnderPause'
  <2> PICK i \in DOMAIN pfc :
        /\ OnlyPauses(i)
        /\ hdrm + pfc[i].left + 1 + Prop + NicDelay + Arriving <= Headroom
    BY <1>6 DEF RoomUntilPause
  <2>1. CASE i = 1
    <3>1. data # <<>> => data[Len(data)] \in Nat /\ data[Len(data)] <= 1 + Prop + NicDelay
      BY Packets, Constants DEF AskInv, TypeOK, DataSpaced
    <3>2. hdrm + 1 + Prop + NicDelay + Arriving <= Headroom
      BY <2>1, <1>2, Constants DEF AskInv, TypeOK
    <3>3. data # <<>> => hdrm + data[Len(data)] + Arriving <= Headroom
      <4>1. hdrm \in Nat /\ Arriving \in {0, 1} /\ Headroom \in Nat
        BY Constants DEF AskInv, TypeOK, Arriving
      <4> QED
        BY <3>1, <3>2, <4>1, Constants
    <3> QED
      BY <2>1, <3>3, <1>3, <1>4 DEF RoomUnderPause
  <2>2. CASE i # 1
    <3>1. i - 1 \in 1..n /\ pfc'[i - 1] = pfc[i]
      BY <2>2, <1>1, <1>2
    <3>2. OnlyPauses(i - 1)'
      BY <3>1, <1>1, <1>2 DEF OnlyPauses
    <3> QED
      BY <3>1, <3>2, <1>2, <1>3 DEF RoomUntilPause
  <2> QED
    BY <2>1, <2>2
<1> QED
  BY <1>3, <1>5, <1>6 DEF RoomForFlight

(* A tick takes as much from what may still arrive as it lets arrive. *)
LEMMA RoomAfterTick ==
  ASSUME AskInv, TimeInv, DataSpaced, RoomForFlight, Tick
  PROVE  RoomForFlight'
<1>1. /\ DOMAIN pfc' = DOMAIN pfc
      /\ \A i \in DOMAIN pfc : /\ pfc[i].left \in Nat /\ pfc'[i].time = pfc[i].time
                                /\ pfc'[i].left = pfc[i].left - 1
  <2>1. \A i \in DOMAIN pfc : pfc[i].left \in Nat /\ pfc[i].left > 0
    BY Frames, FramesNotDue DEF AskInv, Tick
  <2> QED
    BY <2>1, FramesAge DEF AskInv, Down
<1>2. /\ Len(data') = Len(data) /\ (data' = <<>> <=> data = <<>>)
      /\ data # <<>> => /\ data[Len(data)] \in Nat
                        /\ data'[Len(data')] = data[Len(data)] - 1
      /\ Arriving = 0 /\ Arriving' \in {0, 1}
  BY PacketsAge, Packets DEF AskInv
<1>3. UNCHANGED <<paused, m_paused, hdrm>> /\ hdrm \in Nat /\ Headroom \in Nat
  BY Constants DEF Tick, AskInv, TypeOK
<1>4. ASSUME RoomUntilPause PROVE RoomUntilPause'
  <2> PICK i \in DOMAIN pfc :
        /\ OnlyPauses(i)
        /\ hdrm + pfc[i].left + 1 + Prop + NicDelay + Arriving <= Headroom
    BY <1>4 DEF RoomUntilPause
  <2>1. hdrm' + pfc'[i].left + 1 + Prop + NicDelay + Arriving' <= Headroom
    <3>1. /\ pfc[i].left \in Int /\ pfc'[i].left = pfc[i].left - 1
          /\ hdrm' = hdrm /\ hdrm \in Int
          /\ Arriving = 0 /\ Arriving' \in Int /\ Arriving' <= 1
      BY <1>1, <1>2, <1>3
    <3>2. /\ pfc'[i].left \in Int /\ hdrm' \in Int /\ Arriving \in Int
          /\ hdrm' + pfc'[i].left + Arriving' <= hdrm + pfc[i].left + Arriving
      BY <3>1
    <3> QED
      BY <3>1, <3>2, LessRoom, Constants
  <2>2. i \in DOMAIN pfc' /\ \A j \in DOMAIN pfc' : i <= j => pfc'[j].time > 0
    BY <1>1 DEF OnlyPauses
  <2> QED
    BY <2>1, <2>2 DEF RoomUntilPause, OnlyPauses
<1>5. ASSUME RoomUnderPause PROVE RoomUnderPause'
  <2>1. data' # <<>> => hdrm' + data'[Len(data')] + Arriving' <= Headroom
    BY <1>2, <1>3, <1>5 DEF RoomUnderPause
  <2>2. m_paused' /\ \A j \in DOMAIN pfc' : 1 <= j => pfc'[j].time > 0
    BY <1>1, <1>3, <1>5 DEF RoomUnderPause, OnlyPauses
  <2> QED
    BY <2>1, <2>2 DEF RoomUnderPause, OnlyPauses
<1> QED
  BY <1>3, <1>4, <1>5 DEF RoomForFlight

LEMMA RoomWhenAdmitted ==
  ASSUME AskInv, DataSpaced, HeadroomIsPaused, RoomForFlight, HeadroomSuffices, Admit
  PROVE  RoomForFlight'
<1>1. /\ Arriving = 1 /\ Arriving' = 0
      /\ data' # <<>> => data # <<>> /\ data'[Len(data')] = data[Len(data)]
  BY PacketArrived DEF Admit, AskInv
<1>2. hdrm \in Nat /\ hdrm' \in Nat /\ hdrm' <= hdrm + 1
  BY Constants DEF Admit, AskInv, TypeOK
<1>3. CASE hdrm' > 0 /\ ~paused
  <2>1. hdrm' \in {0, 1}
    BY <1>2, <1>3 DEF HeadroomIsPaused
  <2>2. SendPfc(PauseTime)
    BY <1>3 DEF Admit, CheckAndSendPfc
  <2> QED
    BY <1>1, <2>1, <2>2, RoomWhenPauseSent DEF RoomForFlight
<1>4. CASE ~(hdrm' > 0 /\ ~paused)
  <2>1. UNCHANGED <<paused, m_paused, pfc>>
    BY <1>4 DEF Admit, CheckAndSendPfc, senderVars
  <2>2. hdrm' + Arriving' <= hdrm + Arriving
    <3>1. Arriving \in Int /\ Arriving' \in Int /\ Arriving = 1 /\ Arriving' = 0
      BY <1>1
    <3>2. hdrm \in Int /\ hdrm' \in Int /\ hdrm' <= hdrm + 1
      BY <1>2
    <3> QED
      BY <3>1, <3>2, SumKept
  <2> QED
    BY <1>1, <1>2, <2>1, <2>2, RoomKept
<1> QED
  BY <1>3, <1>4

LEMMA NothingRefused ==
  ASSUME AskInv, RoomInv, HeadroomSuffices, Arriving = 1, Refuse
  PROVE  FALSE
<1>1. /\ hdrm \in Nat /\ Headroom \in Nat /\ Headroom > 0 /\ hdrm >= Headroom
      /\ \A i \in DOMAIN pfc : pfc[i].left \in Nat
  BY Constants, Frames DEF AskInv, TypeOK, HeadroomSuffices, Refuse
<1>2. RoomUntilPause \/ RoomUnderPause
  BY <1>1 DEF RoomInv, HeadroomIsPaused, RoomForFlight
<1>3. CASE RoomUntilPause
  BY <1>1, <1>3, Constants DEF RoomUntilPause
<1>4. CASE RoomUnderPause
  <2>1. data # <<>> /\ data[Len(data)] \in Nat
    BY Packets DEF AskInv, Refuse
  <2> QED
    BY <1>1, <1>4, <2>1 DEF RoomUnderPause
<1> QED
  BY <1>2, <1>3, <1>4

LEMMA RoomStep ==
  AskInv /\ TimeInv /\ RoomInv /\ HeadroomSuffices /\ [Next]_vars => RoomForFlight'
<1> SUFFICES ASSUME AskInv, TimeInv, RoomInv, HeadroomSuffices, [Next]_vars
             PROVE  RoomForFlight'
  OBVIOUS
<1>0. /\ DataSpaced /\ HeadroomIsPaused /\ RoomForFlight /\ NoLoss
      /\ hdrm \in Nat /\ Arriving \in {0, 1}
  BY Constants DEF RoomInv, AskInv, TypeOK, Arriving
<1>1. ASSUME UNCHANGED <<paused, m_paused, pfc, data>>, hdrm' \in Nat, hdrm' <= hdrm
      PROVE  RoomForFlight'
  <2>1. Arriving' = Arriving
    BY <1>1 DEF Arriving
  <2>2. hdrm' + Arriving' <= hdrm + Arriving
    <3>1. /\ Arriving \in Int /\ Arriving' \in Int /\ Arriving' = Arriving
          /\ hdrm \in Int /\ hdrm' \in Int /\ hdrm' <= hdrm
      BY <1>0, <1>1, <2>1
    <3> QED
      BY <3>1, SumKept
  <2>3. data' # <<>> => data # <<>> /\ data'[Len(data')] = data[Len(data)]
    BY <1>1
  <2> QED
    BY <1>0, <1>1, <2>2, <2>3, RoomKept
<1>2. CASE Send
  <2>1. UNCHANGED <<paused, m_paused, pfc, hdrm>> /\ ~m_paused
    BY <1>2 DEF Send, switchVars
  <2>2. Arriving' <= Arriving /\ Arriving' \in {0, 1}
    BY <1>2, PacketSent, Packets, Constants DEF AskInv, Arriving
  <2>3. ASSUME paused PROVE RoomUntilPause
    BY <1>0, <2>1, <2>3 DEF RoomForFlight, RoomUnderPause
  <2>4. ASSUME RoomUntilPause PROVE RoomUntilPause'
    <3> PICK i \in DOMAIN pfc :
          /\ OnlyPauses(i)
          /\ hdrm + pfc[i].left + 1 + Prop + NicDelay + Arriving <= Headroom
      BY <2>4 DEF RoomUntilPause
    <3>1. pfc[i].left \in Nat
      BY Frames DEF AskInv
    <3>2. hdrm' + pfc'[i].left + 1 + Prop + NicDelay + Arriving' <= Headroom
      <4>1. /\ hdrm' = hdrm /\ pfc'[i].left = pfc[i].left
            /\ hdrm \in Int /\ pfc[i].left \in Int
        BY <1>0, <2>1, <3>1
      <4>2. /\ Arriving \in Int /\ Arriving' \in Int
            /\ hdrm' + pfc'[i].left + Arriving' <= hdrm + pfc[i].left + Arriving
        BY <1>0, <2>2, <4>1
      <4> QED
        BY <4>1, <4>2, LessRoom, Constants
    <3>3. i \in DOMAIN pfc' /\ \A j \in DOMAIN pfc' : i <= j => pfc'[j].time > 0
      BY <2>1 DEF OnlyPauses
    <3> QED
      BY <3>2, <3>3 DEF RoomUntilPause, OnlyPauses
  <2> QED
    BY <2>1, <2>3, <2>4 DEF RoomForFlight
<1>3. CASE ReceivePfc
  BY <1>0, <1>3, RoomWhenReceived
<1>4. CASE Expire
  <2>1. m_paused /\ NextFrame < 0
    BY <1>4, Constants DEF Expire, AskInv, TimersScheduled, TimeInv, PauseOutlasted
  <2> QED
    BY <2>1, SomeFrameComes
<1>5. CASE Admit
  BY <1>0, <1>5, RoomWhenAdmitted
<1>6. CASE Refuse
  <2>1. Arriving = 1
    BY <1>0, <1>6, PacketArrived DEF Refuse, AskInv
  <2> QED
    BY <1>6, <2>1, NothingRefused
<1>7. CASE RefreshPfc
  <2>1. paused
    BY <1>7, Constants DEF RefreshPfc, AskInv, TimersScheduled
  <2> QED
    BY <1>0, <1>7, <2>1, RoomWhenRenewed DEF RefreshPfc, senderVars
<1>8. CASE Drain
  <2>1. hdrm' \in Nat /\ hdrm' <= hdrm
    BY <1>8, Constants DEF Drain, AskInv, TypeOK
  <2>2. CASE paused' = FALSE
    BY <2>2 DEF RoomForFlight
  <2>3. CASE UNCHANGED <<paused, m_pfcRefresh, pfc>>
    BY <1>1, <1>8, <2>1, <2>3 DEF Drain, senderVars
  <2> QED
    BY <1>8, <2>2, <2>3 DEF Drain, CheckAndSendResume
<1>9. CASE Tick
  BY <1>0, <1>9, RoomAfterTick
<1>10. CASE UNCHANGED vars
  BY <1>0, <1>1, <1>10 DEF vars, senderVars, switchVars
<1> QED
  BY <1>2, <1>3, <1>4, <1>5, <1>6, <1>7, <1>8, <1>9, <1>10 DEF Next, Due

LEMMA RoomInvStep ==
  AskInv /\ TimeInv /\ RoomInv /\ HeadroomSuffices /\ [Next]_vars => RoomInv'
<1> SUFFICES ASSUME AskInv, TimeInv, RoomInv, HeadroomSuffices, [Next]_vars
             PROVE  RoomInv'
  OBVIOUS
<1>1. DataSpaced' /\ HeadroomIsPaused' /\ RoomForFlight'
  BY SpacedStep, PausedStep, RoomStep DEF RoomInv, AskInv
<1>2. NoLoss'
  <2>1. CASE Refuse
    <3>1. Arriving = 1
      BY <2>1, PacketArrived DEF Refuse, AskInv, RoomInv
    <3> QED
      BY <2>1, <3>1, NothingRefused
  <2>2. CASE ~Refuse
    <3>1. dropped' = dropped
      BY <2>2 DEF Next, Due, Send, ReceivePfc, Expire, Admit, RefreshPfc, Drain, Tick,
                  vars, switchVars
    <3> QED
      BY <3>1 DEF RoomInv, NoLoss
  <2> QED
    BY <2>1, <2>2
<1> QED
  BY <1>1, <1>2 DEF RoomInv

(* On a link whose propagation delay is worth at least the longest wait    *)
(* for the transmitter and two packets, and whose pauses overlap, the      *)
(* headroom of three propagation delays loses no packet                    *)
(* (ConfiguredHeadroomBytes).                                              *)
THEOREM NeverLosesPackets ==
  ASSUME PausesOverlap, HeadroomSuffices
  PROVE  Spec => []NoLoss
<1>1. Init => AskInv /\ TimeInv /\ RoomInv
  BY TimeInit DEF Init, RoomInv, DataSpaced, HeadroomIsPaused, RoomForFlight, NoLoss
<1>2. AskInv /\ TimeInv /\ [Next]_vars => TimeInv'
  BY TimeStep
<1>3. AskInv /\ TimeInv /\ RoomInv /\ [Next]_vars => RoomInv'
  BY RoomInvStep
<1>4. RoomInv => NoLoss
  BY DEF RoomInv
<1> QED
  BY <1>1, <1>2, <1>3, <1>4, AskInvariance, PTL DEF Spec
=============================================================================
