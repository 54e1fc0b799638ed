# A verification of the ns-3 data-centre simulator

This directory holds TLA+ models of the parts of this repository that were
written for it: the RDMA/PFC switch and NIC under
`simulator/ns-3.39/src/point-to-point/model` and the long-haul experiments under
`simulator/ns-3.39/examples/LonghaulCC`. The rest of the tree is stock ns-3 3.39,
build tools and plots. Below, paths are relative to those two directories.

What is here: eight specifications and an abstract one, model-checked by ten
passing configurations, two configurations in which TLC finds a comment or a note
on the code to be wrong, and machine-checked proofs of every safety property of the eight. `PROJECT.json` lists every run,
property, mutation, hazard and theorem, and the source lines of each definition.

## 1. The system

A simulation is one thread that executes events in time order. What is
concurrent is the simulated network: hosts, switches and gateways that interact
by packets on links, and by a few direct calls through callbacks.

    application -> RdmaDriver -> RdmaHw -- queue pairs --> RdmaEgressQueue --+
                                                                              | QbbNetDevice
    host link (QbbChannel, FIFO, fixed delay)  <------------------------------+
         |  data, ACK/NACK, CNP, PFC
    QbbNetDevice -> SwitchNode -> SwitchMmu (admission) -> BEgressQueue -> QbbNetDevice ...
                        ^ DciGatewayNode and AtcGateway are switch nodes
                          with work of their own at the two ends of the long-haul link

| Component | State | Operations | What is hard | What makes it correct |
|---|---|---|---|---|
| **SwitchMmu** (`switch-mmu.*`), called by `SwitchNode` | bytes per ingress and egress queue, headroom per queue, `paused`, switch-wide totals and pools, all `uint64_t` | `CheckIngress/EgressAdmission`, `Update...`, `RemoveFrom...`, `CheckShouldPause`, `CheckShouldResume` | redundant counters updated in a fixed order, some with a clip at zero and some with none; thresholds that move with every other queue | counters equal what is buffered; no pool overcommitted; PFC and headroom in step; no lossless packet lost before its queue pauses |
| **RDMA transport** (`rdma-hw.*`, `rdma-queue-pair.*`) | `snd_nxt`, `snd_una`, window; `ReceiverNextExpectedSeq`, NACK timer, milestone | `GetNxtPacket`, `ReceiveUdp`, `ReceiveAck`, `RecoverQueue`, `QpComplete` | losses; late acknowledgements after a rewind; no retransmission timer; receive state deleted at completion | delivery in order and without holes; only delivered bytes acknowledged; completion only then |
| **Connections and queue pairs** (`rdma-hw.*`) | `m_txQpn`, `m_rxQpn`, `m_nextQpn`, attempts, retry, sampling and DCQCN timers per queue pair | `AllocateQpn`, `Connect`, `ReceiveConnection`, `QpComplete`, `cnp_received_mlx` | retries against late replies; a bounded pool; timers started by feedback that races completion | the two tables agree; no QPN leaks; no timer twice or after completion |
| **PFC on a link** (`qbb-net-device.cc`, `switch-node.cc`) | `m_paused`, `m_pauseExpiry`; `paused`, `m_pfcRefresh` | PAUSE, expiry, renewal, RESUME | real time: delays, waits for the transmitter, renewals crossing resumes | headroom is enough; pauses last exactly as long as needed |
| **DCI gateway, flow records** (`dci-gateway-node.*`, `longhaul-r5.h`) | a record per flow key at A and at B with generations and counters; registrations; pending notifications at the source | discovery, REGISTER/COMPLETE, `SampleReceiver`, RETIRE/RETIRE_ACK, `EraseFlow` | three parties, control lost by a budget, retries, keys used again by late duplicates | no record reclaimed while its data is on the way; generations never mixed up; records do not leak |
| **DCI gateway, prediction and allocation** | history of samples, forecasts, rates, backpressure, Fast CNP | `History`, `Replay`, `Forecast`, `Allocate`, `ActivateSources` | pruned history against late samples | allocations within capacity |
| **Schedulers** (`RdmaEgressQueue`, `BEgressQueue`, injection groups) | round-robin positions, group of queue pairs, pauses, logical queues, token buckets, one timer each | `DequeueAndTransmit` and its callers, `GetNextQindex`, `DoDequeueRR`, `ApplyInjectionControls` | compaction of a list that is being scanned; a timer for the earliest of many; lazily updated buckets | no lost wake-up; no starvation; the chosen queue is the one served; budgets exact |
| **NIC congestion control** (in `rdma-hw.cc`) | rates, stages, three timers per queue pair | CNP, ACK and timer handlers of eight algorithms | timers cancelled and re-armed by each other | no timer survives its queue pair; rates within limits |
| **Switch feedback** (FRP, RoCC, `frp-rate-calculator.*`) | ledger of active flows, period timer | `TrackActiveFlow`, `PeriodicFeedbackLoop` | a flow seen between two periods | feedback reaches exactly the flows of the period |
| **Bifrost slot PFC** (`switch-node.cc`) | bytes received and queued, virtual bytes, slots | arrival, departure, the end of a slot with a pause for part of the next | an estimate of what is on its way, corrected by what arrived; pauses that are rounded or late | the queue is bounded; grants keep the outputs busy |
| **ATC gateway** (`atcGateway.*`) | virtual output queues, scheduled transmissions | VOQ allocation, release | a queue released with a transmission scheduled | no packet lost or sent twice |
| **Headers, channels, drivers, experiment programs, stock ns-3** | - | serialisation, set-up, output | - | - |

Interactions modelled: `SwitchNode` with its MMU (SwitchMmu); sender and receiver
through two lossy FIFO paths (RdmaTransport); a device and the switch behind its
link (PfcLink); the source, gateway A and gateway B (DciLifecycle); the RNICs of two
hosts (QpLifecycle); `RdmaHw`, a host's device and its queue (HostScheduler); the gateway's
controls, a switch's device and its queues (EgressShaper); a gateway's port and its peer across the long link (Bifrost).

## 2. The modules

### SwitchMmu (with ByteSum)

The sonic buffer model with Dynamic Thresholds, the constructor's default and
that of the long-haul program. A packet is `[in, out, q, size, class]`; the
buffer is a bag of them (`buffered`), which is the history against which the
counters are judged. Three actions: `Admit` is an arrival that `SendToDev` lets in,
with the check, the four updates and `CheckAndSendPfc`; `Drop` is one it refuses;
`SwitchNotifyDequeue` is a departure with the two releases and
`CheckAndSendResume`. The counters keep the code's names. Helpers translate the
code's formulas (`IngressThreshold`, `TakesHeadroom`, `Rereserved`,
`ReleaseSharedPool`, ...), and subtraction does what the code's does: `Minus` clips
at zero where the code tests first, and where it does not, the difference wraps
modulo `Word`. Alphas are fractions. A packet with the priority tag
of lossy traffic on a lossless queue can occur and does in the configurations.
The order of departures is left open, so the results hold for any egress scheduler.

Not in it: queue 0 (bypasses the MMU), the reverie model, ABM and FAB, ECN marking.

### ReliableStream and RdmaTransport

`ReliableStream` is what a flow promises: bytes arrive in order and without holes,
the sender learns only of bytes that arrived, and is done when it has learnt of all.
`RdmaTransport` is one connected queue pair: `Send` (`GetNextQindex`'s condition and
`GetNxtPacket`), `ReceiveAck` with `QpComplete` (which deletes the receiver's queue
pair), `ReceiveExpected`, `ReceiveGap` and `ReceiveSilently`
(`ReceiverCheckSeq`'s outcomes, with back-to-zero), `NackTimer`, and the losses
of the two paths. `delivered` is a history variable: the bytes taken in order. The
refinement maps it to `received`, `snd_una` to `acked` and `~registered` to `done`.
`GetOnTheFly` is the unsigned difference the code computes. `ReceiveAck`'s branch for a
queue pair that is gone (an error message) has no action: `AckFindsQp` states, and the proof shows, that it is not taken.

`nacks` is another history: whether some sequence number was reported missing twice. `GetWin` is the constant `m_win`: its branches for
`m_var_win` and the power controllers (`rdma-queue-pair.cc:138-159`) make the window follow the rate and are off by default (`VAR_WIN` 0).

Not in it: connections and several flows (QpLifecycle), the stop time and rate pacing
(HostScheduler; here a sender that may send does so at any time), sequence numbers beyond 32 bits.

### QpLifecycle

Queue pairs between a sending and a receiving RNIC: `AddQueuePair` (QPN, first request, sampling),
`ConnectTimer` (`Connect`, again), `ReceiveRequest` and `ReceiveReply` (`ReceiveConnection`),
`Send`, `ReceiveUdp`, `ReceiveAck` with `QpComplete` and the callback that deletes the receiver's queue pair,
`ReceiveCnp` (CNPs of switches and Fast CNPs of the gateway) and `CheckRateDecreaseMlx`. `tx[f]` is a
sender's queue pair; `m_rxQpn` the receiver's table. Control packets (`AtReceiver`, `AtSender`) overtake data, as
queue 0 does at every switch, and `Lose` loses them. A timer is a count of its pending events, because an
`EventId` that is overwritten can no longer be cancelled: `Cancel` takes away the last one only. Alpha
updates and rate increases only schedule themselves again and would be
stuttering steps; they have no action. Retries are not timed: any number of attempts may come before
the first reply. The connection generation is the sender's QPN in the code, so messages carry the QPN only.
There is one path between the hosts: `SendControlPacket` takes the first of
several routes while data is hashed, so with several NICs data could overtake a request.

Not in it: rates; RoCC's recovery timer; loss of data (RdmaTransport); a host that sends and receives, whose
two tables share one pool.

### HostScheduler

A host's device with its `RdmaEgressQueue`: the control queue, TCP's queue and the queue pairs. `Scan` is the odd
turn of `GetNextQindex`: `Ready` and `Finished` are where it breaks off and which finished queue pairs it has met by then, `Kept`, `Compact` and
`UpdateRes` the compaction of the group as it is written, from the positions that are kept and their new places. `Served` is what is at the
position the scan returns, which can be stale (section 4), and `DequeueAndTransmit` the whole handler, with `PktSent` and the timer `m_nextSend`. Every caller is an
action: `AddQueuePair`, `NewQp`, `EnqueueControl`, `Send` (TCP), `ReceiveAck`, `Resume`, `TransmitComplete`, `SendTimer`.
`ChangeRate` moves `nextAvail`, and the timer, without a call; `Pause` and `StopTime` change what is eligible.
What comes back from the network is open: any acknowledgement of what was sent, a NACK
where a gap is possible, any interval up to `MaxGap` for the rate. Time is discrete as in PfcLink; a packet
takes a tick. Histories: `passed` and `twice`, who was served, once and again, while whom waited; `astray`, the queue pairs that were chosen
when another was served.

While TCP has packets and its own priority is paused, its turn ends the call without a timer, and an idle device may leave RDMA without one:
`WorkConserving` says so, and no program pauses that priority. Not in it: a variable window (a rate increase would open it without waking
the device).
`ChangeRate` is bounded to queue pairs that may have to send again.

### EgressShaper

The switch half of `DequeueAndTransmit`: queue 0, then round robin over ordinary and logical queues
(`DoDequeueRR`), where a logical queue belongs to a token bucket (`InjectionBucket`) shared by a group and brought up to date
only when somebody looks. `Nominee` is the group's next backlogged queue, `Affordable` the token test, `WakeMoves` the
timer `m_shapeWake`, `Transmit` the dequeue with debit and turn. The choice is a function of a state record (`State`), so that each caller
says in what state it asks (`DequeueAndTransmit(At(...))`) and the proofs can speak of it. Actions: `SwitchSend`, `Bind`, `Detach`,
`ReadInjectionSnapshot`, `ApplyInjectionControls`, `Pause`, `Resume`, `TransmitComplete`, `ShapeWake`, `Tick`. Histories: `credit`, a bucket
that is always kept up to date; `passed` and `unfair`, who was served while whom waited; `detached`, the groups that lost a queue since the
device last chose. Tokens and sizes are integers (bytes in the code, as doubles with a tolerance).

`DetachInjectionQueue` sets the group's turn to its first queue and does not wake the device. So in a group of three or more, the nominee of an
idle device may become one that could be sent at once, and a queue may be passed over a second time; the two properties say so
(`Group \ detached`, `Rivals`). `DciGatewayNode::BindQueue` (`dci-gateway-node.cc:124-131`) gives each flow a group of its own, where neither can happen.

Not in it: `m_injectionEligible`, which nothing sets; the MMU's release at dequeue (SwitchMmu allows any order of departures).

### PfcLink

One priority of one link in discrete time; a tick is the transmission of one data
packet and the buffer is counted in packets. Timers hold ticks that are left
(`Off` when not scheduled), and `Tick` happens only when no event is due, as the
simulator does. The sender: `Send`, `ReceivePfc`, `Expire`. The switch:
`Admit`/`Refuse` with `CheckAndSendPfc`, `RefreshPfc`, `Drain` with
`CheckAndSendResume`. A PFC frame waits for the transmitter between 0 and `Wait`
ticks. The rest of the switch is abstracted to its effect: a packet may go to
headroom at any filling, and a queue without headroom may or may not meet the
resume condition, unless it is empty, when it must (`CheckShouldResume` compares with xon,
`switch-mmu.cc:1019`, which is positive in every configuration of the repository). So the results hold for
any threshold, alpha and competing traffic. `Headroom` is the formula of
`ConfiguredHeadroomBytes`.

### Bifrost

The port and priority on which `ConfigureBifrost` replaces ordinary PFC. Time is counted in slots; `granted` is what
may still arrive in each slot of the round trip and both receive delays (which the code's bound does not
count), `now` the present slot's place in it. `SendToDev` and `SwitchNotifyDequeue` move
single bytes, in any order and number up to the grant and the line rate; `SendBifrostPfcWithCustomTime` is the whole
slot timer with `CalculateBifrostPauseTime`: `grant`, `corrected` (with the leak slots), the pause
(`Sendable`, rounded to microseconds as the code does) and the virtual bytes. A PAUSE that waits behind a packet
arrives when its predecessor has expired and lets up to a packet pass (`Late`). `leaked` and `forgone` are histories.

Not in it: the MMU behind the port (a packet it refuses counts as received, not as queued); fractions of a byte.

### DciLifecycle

One flow key. The source: `SendData`, `Finish` (completion starts the COMPLETE
notification), `Retry`, `AcceptReply`, `IgnoreReply`. Gateway A: `ArriveAtA`, `DropAtA`,
`Forward`, `ReceiveRegister`, `ReceiveConfirm`, `ReceiveComplete`, `ReceiveResourceState`,
`SendRetire`, `ReceiveFlowState`, `ReceiveRetireAck`, `EraseFlow`. Gateway B: `ArriveAtB`,
`DropAtB`, `Deliver`, `Report`, `ReceiveRetire`. `LoseControl` is a message that the
control budget drops or that is too old. Data is counted in packets; packets and reports carry the
generation and counters the code puts in them. A's and B's link is one FIFO for data
and control, and control from the source may overtake data in A's queue.
`retiredA` and `retiredB` are histories.

`CanRetire` and the RETIRE handler also ask for `f.failures` = 0 (`dci-gateway-node.cc:144`, `470`): a transmission that fails is not
modelled, and would leave `tx` behind `in`, so that neither condition could hold. `settled` may be set by any report of the resource, which allows more than the
code's comparison of times. `R5_IMPLEMENTATION_VALIDATION.md` (section 15) describes this retirement; `examples/LonghaulCC/README.md:151-155`
is older and still calls the aging and reuse of data identities deferred.

Not in it: several keys and their pools, prediction, allocation, backpressure.

### Proof modules

`SwitchMmuProofs`, `RdmaTransportProofs`, `PfcLinkProofs`, `BifrostProofs`, `DciLifecycleProofs`, `QpLifecycleProofs`,
`HostSchedulerProofs`, `EgressShaperProofs`: section 5. Each begins with what it needs to know of the operators its model is built from, so a few lemmas
are in two of them. Sums of functions over finite sets: `ByteSum!Total` is written as the cardinality of a set of cells
(`{<<i, c>> : c < f[i]}`) rather than recursively, and facts about it follow from the library's theorems on finite sets, without induction
over data. What appending to and removing from a sequence of messages do to which messages are on it. The least of a set of numbers, from the
well-foundedness of `<`. Division and remainder, as positions in a ring. The places that positions have among those that are kept.

The modules whose names begin with `MC` give constants to TLC.

Operators whose comment starts with "Mutation:" are wrong versions of the definition
below them; the specifications do not use them. With one substituted, TLC must
find the property it belongs to violated.

## 3. The runs

| Run | Configuration | States | What it shows |
|---|---|---|---|
| `mmu` | MCSwitchMmu.cfg | 21,400 | all safety properties of the MMU, with a reserve and egress pools too small for what the ingress admits |
| `rdma_lossy` | MCRdmaLossy.cfg | 10,708 | go-back-N implements the stream and repairs gaps, with one loss; the window is respected until a NACK is repeated, and without the loss the flow completes |
| `rdma_window` | MCRdmaWindow.cfg | violation | finding 1 |
| `qp_lifecycle` | MCQpLifecycle.cfg | 96,257 | tables of both ends agree, no timer runs twice, flows complete unless turned down |
| `qp_timers` | MCQpTimers.cfg | violation | finding 2 |
| `host_sched` | MCHostScheduler.cfg | 740,804 | no lost wake-up, no queue pair lost, everybody in turn, the chosen queue pair is served |
| `egress_shaper` | MCEgressShaper.cfg | 712,601 | exact budgets, no lost wake-up, round robin between and within groups |
| `bifrost` | MCBifrost.cfg | 191,500 | bound of the queue; every grant keeps the outputs busy, but for rounding |
| `dci_lifecycle` | MCDciLifecycle.cfg | 1,845,707 | no record reclaimed early, alone or for the wrong generation |
| `dci_retire` | MCDciRetire.cfg | 155,026 | a completed flow is reclaimed although control messages are lost, unless they are all its notifications |
| `pfc_headroom` | MCPfcLink.cfg | 517,276 | headroom loses nothing on a link of the required length, and pauses are renewed in time |
| `pfc_renewal` | MCPfcShort.cfg | 73,322 | where renewals are late and pauses expire: every pause is wanted, and ends |

**Bounds, and why they are enough.**

* MMU: two ports, a lossless and a lossy queue, packets of one and two units, a buffer of 16 units, an
  ingress pool of 8, headroom 2, a reserve. Every branch is taken: a packet wholly in headroom, one that
  straddles headroom and the shared pool on its way out, drops for each reason, pause and resume at both
  thresholds. `MaxDrops` = 1 caps the drop statistic, which nothing reads. The proofs
  remove all these bounds. `CountersExact` is the conjunction of the four counter properties.
* Transport: a flow of 13 bytes, MTU 2, window 8, chunk 4, acknowledgement
  interval 3: neither MTU nor chunk nor interval divides the others, so the last
  packet is short and acknowledgements fall between chunk starts. One loss (data or acknowledgement)
  is where both ends rewind and NACKs repeat; the safety properties are
  proved for any number. `AckedIsReceived` and `CompletedMeansReceived` are implied by `StreamSpec` and not checked again.
  Back-to-zero, which every configuration of the repository leaves off, is covered by the proofs,
  which hold for both values of `m_backto0`.
* Queue pairs: two flows of two packets, a receiver with room for one, two attempts each, one lost
  connection message: a request may be repeated, answered twice, turned down after it
  was accepted, or still be on its way when its flow has completed. `MaxQpn` = 4 is never exhausted before the pool.
* Host: three queue pairs of one or two packets, two priorities of which one is paused, one window
  of one packet each, one control and one TCP packet at a time, pacing of one or two ticks. Three queue pairs are the least in which
  compaction moves one past another. The queue pair with the stop time has two packets, so that it can be chosen and removed by
  the same call and another served, the exemption of `ChosenIsServed` and `EverybodyInTurn`. TCP's priority is not paused in the run (with it
  paused too and the stop time at the first queue pair there are 1,252,225 states, and the same properties hold); the proofs include it.
* Shaper: three logical queues in two groups, one of which is paused, packets of one and two units, burst
  two, rates zero and one, one queue that detaches and may return (`Leaving`), one packet per queue. An
  ordinary queue beside them (`Plain` = {4}) makes the instance too large to keep with pauses; without pauses it
  has 1,078,336 states and satisfies the same properties.
* Bifrost: a slot of one microsecond that carries two bytes, a round trip of two slots and receive delays of
  one, H at its minimum, every second slot a leak slot, one late PAUSE of a byte. So a grant can be part of a slot, be
  rounded, negative, doubled or full. The proofs hold for all values.
* DCI: one packet needed, one retransmission, one duplicate after completion, one drop, one
  control loss (two in the retire run, as many as attempts), two attempts: enough to reclaim a key and see it again, with a
  second generation at each gateway. `MaxCopies` bounds the reports and retire
  requests that are unanswered at a time (they are periodic in the code).
* PFC: propagation of 3 (1 in the short run) packet times, a PFC frame waits at
  most 1 (2), pause time 4. With a wait of half the pause time a renewal can come too late and the pause
  expires, so `PauseRenewed` is a property of the first run and expiry a case of the second; `PAUSE_TIME` is
  5 us, and half of it is the time of some 30 frames. Thresholds vary freely up to `MaxShared` = 1, so
  that headroom is entered at once or after a packet. Data and PFC in flight are bounded by
  the link's length.

`CHECK_DEADLOCK FALSE` is said where the system really stops: a completed flow, or one whose last packet
was lost (no timer retransmits), a device whose queues are empty. The MMU and PFC runs check for deadlock.

**Fairness.** Weak fairness, and only of actions the simulator performs by itself: it executes
every scheduled event, delivers every packet on a link and expires every timer.
A queue pair that may send is woken by `TriggerTransmit` or its pacing timer (`Send`); `Tick` and
`PeriodicReport` of the gateways reschedule themselves; at the PFC link, time
advances and the egress behind the queue drains. A queue pair's retry timer expires, it sends what
it can, and messages arrive (QpLifecycle). Losses, duplicates and retransmissions that
nothing requires are never fair.

**Headroom.** `3 * Prop + 2 * NicDelay` allows one propagation more than the round trip; that third
must cover the PAUSE's wait behind a frame being transmitted, the frame the sender
has begun, and rounding. In the model it suffices when the propagation is at least two frame times longer than
the PFC frame's wait: with `Wait` = 1, `Prop` = 3 loses nothing and `Prop` = 2 loses a packet, as `Prop` = 1 does
(the short run checks no `NoLoss`). The shortest links of
the long-haul topology are 1.5 us, about 18 frames at 100 Gb/s, far above.

## 4. Findings

1. **The window wraps after a repeated NACK** (`rdma_window`). The receiver repeats the NACK of a gap when its
   timer runs out; if the second arrives when the repair is on its way, `snd_nxt` is rewound
   again and the repair's acknowledgement puts `snd_una` above it. `GetOnTheFly` wraps,
   `IsWinBound` is true, and a windowed sender stops although bytes are missing. `WindowBoundsUntilRepeat` shows that nothing but the
   repeated NACK does this. Needs a loss, a window, and a repair that takes longer than the NACK interval.
2. **A completed queue pair's timers run for ever** (`qp_timers`). The call-chain notes (`src/docs/LonghaulCC_*.md:793-795`) say that
   `QpComplete` cancels each of DCQCN's timers. `ReceiveAck` completes the flow (`rdma-hw.cc:678`) before it handles the CNP of the same
   acknowledgement (691); if that is the flow's first CNP, `cnp_received_mlx` starts the alpha and the decrease
   timer of the deleted queue pair, and both reschedule themselves. The notes list the order as
   unconfirmed (842). `TimersRunOnce` shows that it is the only way a timer survives.

Observations, not findings of a run:

* `GetNextQindex` corrects the chosen index after removing finished queue
  pairs (`qbb-net-device.cc:140`), but only if the chosen one is kept. One past its stop time with bytes left is
  chosen and removed by the same call: the index then names another queue pair, unasked for its window and
  pacing, or none. Run `host_sched` reaches it (`astray` is not empty), and `ChosenIsServed` shows that nothing else makes the index
  stale. Needs a finite stop time (`powertcp-evaluation-fairness.cc:150`); the long-haul program sets none.
* Bifrost's queue can outgrow H. The Bifrost paper under `docs` argues that L + F <= H, hence L <= H; but F is reduced both by what
  arrived and, through the negative grant, by the queue it made, so a sender that alternates between bursts and idle slots while
  the outputs stand still is granted more than there is room for. `QueueBounded` is what does hold, and TLC reaches
  it (`queued` = H - 1 + Flight * slotBytes). `ConfigureBifrostDciPort` asks for headroom of H and k packets
  (`longhaul-convergence.cc:397`); the configured headroom is 1.5 round trips and the receive delays.
* In a leak slot whose L + F is below H the correction (`switch-node.cc:1007`) adds to a partial grant instead of deducting from it. With
  `bifrost_leak_slots` = 1, as compiled in, every slot is a leak slot.
* `SendBifrostPfcWithCustomTime` rounds the pause up, the virtual bytes keep the unrounded grant. Without `forgone`'s share of the rounding
  `NoThroughputLoss` is violated. As the virtual bytes drift, `forgone` reaches the bound of a round trip and a slot, and
  `NoThroughputLoss` says nothing any more; `GrantKeepsUp` does: the clip at the bound keeps the drift from taking more than a microsecond's bytes
  from any slot's grant.

* `GetIngressSharedUsed` (`switch-mmu.cc:335`) subtracts reserve and headroom from a queue's bytes; a byte that is both
  (possible only with a reserve, which no program sets) is subtracted twice and the unsigned difference wraps.
* `L2AckInterval` is described as "Disable ack if equals to 0" (`rdma-hw.cc:68`); with 0 every packet is acknowledged (733).
* A windowless flow whose late NACK left `snd_nxt` below `snd_una` is completed and still eligible, another way to a finished queue pair being chosen.
* After a stop time the queue pair completes at its next acknowledgement while the device goes on sending it.

## 5. The proofs

Checked by TLAPS to the last leaf, with Z3, Zenon and LS4.

**SwitchMmu** (`SwitchMmuProofs`): every property of run `mmu`, and each part of `CountersExact`, holds for every topology, packet set,
pool sizes, reserves, headroom and alphas that satisfy

* `MmuConfig`: the shapes of the constants;
* `ReserveFits`: reserves are carved out of the ingress pool;
* for two of the theorems the provisioning: `HeadroomRespected` under `HeadroomConfig` (headroom
  covers a packet and the reserve), `LosslessUntilPaused` under `Provisioned`
  (what `longhaul-convergence.cc` sets: buffer at least pool plus headroom, a lossless egress
  pool as large, a sky-high egress alpha).

None of the counter properties is inductive alone: a release could clip or wrap in a state where another
counter is off. The invariant is
`IInv == TypeOK /\ Exact /\ PoolsRespected /\ HeadroomPauses /\ PausedHoldsBytes` (the last two with `HeadroomBacked` are `PfcInStep`), where `Exact` includes
the bytes of each queue by class, `ByQueueAndClass` (headroom is released only by lossless packets). With it,
`AdmitEffect` and `DequeueEffect` show that no clip and no wrap ever takes
effect, so the next state is described by plain arithmetic; `AdmitExact`/`DequeueExact`
carry the counters, `AdmitPools`/`DequeuePools` the pools, `AdmitPause`/`DequeuePause` the
pause. That the ingress pool is not overcommitted, though a lossless packet is never checked
against it, is `ThresholdMeansRoom`: a queue at or below its threshold leaves room
for what it takes, and above it all goes to headroom.

**RdmaTransport** (`RdmaTransportProofs`): all its safety properties and the refinement
`ImplementsStream == Spec => StreamSpec`, for every size, MTU, window, chunk, acknowledgement interval, with or
without back-to-zero, and any number of losses, under `TransportConfig` (sizes below `Word`). Its
invariant adds to `NeverExpectsAcked` that every acknowledgement on the way is at most what the
receiver expects after rounding (`AcksUpTo`), that the bytes delivered are a prefix which includes those expected
(`PrefixDelivered`), that the sender's position is chunk-aligned with back-to-zero (`Aligned`, without which
going back to the chunk start could pass below `snd_una`), and that the two ends are
registered together until `snd_una` reaches the size. `AckFindsQp` rests on a second invariant, `FinalIsLast`: only the
last acknowledgement on its way can be worth the whole flow. `WindowBoundsUntilRepeat` rests on a third, `InStep`: until a
NACK is repeated, the packets on the way are some that were sent before the sender last went back, none of which the receiver waits for, and then
those sent since, in order up to `snd_nxt` (`WentBackAfter`); and a NACK on its way is the last reply, names what the receiver waits for, and nothing on the way is that
(`NackIsLast`, `Reported`). So going back puts `snd_nxt` where the receiver is, and `snd_una` never passes it. With
`m_ack_interval` = 0 the sender takes nothing as acknowledged, and only `WithinWindow` is needed.

**Bifrost** (`BifrostProofs`): the three properties of run `bifrost` and `NoThroughputLoss`, which no run checks, for every slot, rate, link, buffer, leak period and packet, under
`BifrostConfig` (`ConfigureBifrost`'s own conditions). Two invariants carry `NoThroughputLoss`: the virtual bytes
count nothing that is not granted, arrived in this slot or forgone (`VirtualBacked`, because the signed grant never
exceeds the one that is sent), and with the queue they make up a round trip and a slot (`VirtualEnough`, the lower half of
the paper's Theorem 1, because at most a slot arrives or leaves in a slot and H exceeds the bound by one). `QueueBounded`
rests on `GrantBounds`: a grant is positive only while the queue is below H.

**PfcLink** (`PfcLinkProofs`): all its safety properties, for every delay, pause time, bound on the threshold, and any drain.
`TypeOK` and `PauseIsAsked` need nothing more: the last frame on its way says what the switch wants (`ResumeIsLast`).
The other two need what the run's constants satisfy, stated as hypotheses:

* `PausesOverlap` (`RefreshPeriod + Wait < PauseTime`): then each frame arrives before the pause of the one before it ends (`FramesClose`,
  `LastRenewed`, `PauseOutlasted`), which gives `PauseRenewed` and more: no pause expires at all. `pfc_renewal` runs where it fails.
* `HeadroomSuffices` (`Prop >= Wait + 2`), with the first: `NoLoss`. Packets arrive one per tick (`DataSpaced`), so while headroom is
  in use what is free of it covers a packet for each tick until the PAUSE has arrived and the last packet before it has
  crossed the link (`RoomUntilPause`), then until the last packet on the wire (`RoomUnderPause`). The third propagation delay is what pays for the
  wait and the packets begun at either end; on a shorter link the inequality, and with it the claim of `ConfiguredHeadroomBytes`, fails.

**DciLifecycle** (`DciLifecycleProofs`): all its safety properties, for any number of packets, attempts, drops, losses and
copies (`LifecycleConfig`). The invariant has two halves.

* The long-haul link. Packets are dropped, never made: what B's record counts and what is on the link is at most what A sent
  (`Counters`). `Told` is what a report of one of B's records guarantees, on its way or taken: it is not ahead of that
  record while it lives; once it is erased, everything after it is beyond what was reported and its erasure is recorded for A's generation.
  So counters that equal what A sent (`CanRetire`) leave nothing on the link and no later record at B (`RetirableBeyond`), and an
  acknowledged retirement, by whichever copy, is of a record B has erased (`Records`, `GoodFromB`). Sequences of messages enter only by
  which messages are on them and how many are data (`CountAppend`, `CountRemove`).
* The notifications (`Notified`): no registration is behind a completion in the source's queue (`Ordered`), so none is left when A takes one.

**QpLifecycle** (`QpLifecycleProofs`): all its safety properties, for any number of flows, packets, attempts, losses and any
pools and QPN space (`LifecycleConfig`). `TimersRunOnce` is a matter of one queue pair (`GoodEvents`: before its first CNP none of
DCQCN's timers is pending). `StatePaired` needs what is on the way. An acceptance names a queue pair the receiver still has (`Replies`); a request
on its way is of a flow that is still registered (`Requests`). The second holds because a connected flow sends no request and
data never overtake one: no request of a flow is behind its data (`Data`), so none is on the way when its acknowledgements are (`Acks`), and so none
when it completes. Could data overtake a request, it would leave a queue pair at the receiver for ever.

**EgressShaper** (`EgressShaperProofs`): all its safety properties, for any number of queues and groups, any membership, rates, sizes, burst and
capacity, under `ShaperConfig` (queues are numbered, a packet fits a bucket, a group has one priority). Its invariant is four facts about the state
record, and what the histories may hold.

* `Exact`: what an update would put into each bucket is `credit`. The age of a bucket stops where the bucket is full, so updating twice, or late, is
  updating once (`OlderOK`), and a debit never needs the clip at zero since only an affordable nominee is taken.
* `Conserving`: the conjuncts of `WorkConserving`. The wait of a nominee, a division rounded up, is the first time its bucket suffices and falls by one with
  each tick (`WaitIs`, `WaitPasses`); the wake-up is set for the least of the waits (`WakeSetOK`), and an arrival at an idle device or a pause
  leaves the nominees of the other groups alone.
* `Ordered`: if d was served while c waits, c comes before d in the scan that starts at the queue served last, or, inside a group, in the turns that start
  at `next`. The queue chosen is the least in the first order (`FirstIs`), and the nominee the least of those that can be sent in the second (`NomineeTurn`); serving it moves the
  origin of both to just behind it (`RankAfter`, `TurnAfter`). So nobody is served twice past c. Both orders are remainders modulo a length, of which the lemmas
  `Mods` say what one step of the origin does.

**HostScheduler** (`HostSchedulerProofs`): all its properties, for any number of queue pairs, sizes, windows, priorities, pausable priorities and stop
times, under `SchedulerConfig` (the shapes of the constants). A call of `DequeueAndTransmit` is five kinds of step (`BusyStep`, `ControlStep`, `TcpStep`,
`QpStep`, `TimerStep`), and each caller leaves it a state that satisfies the invariant's other parts, so `DequeueStep` serves all eight of them.

* `Members`: the group holds who may have to send, and once. `ScanOrder` meets every position (`ScanTurns`), so a finished queue pair that is met is in
  the group and everything before the least of them is kept (`KeptByOK`). `Place`, a cardinality, is a bijection from the kept positions that
  keeps their order (`PlaceOf`), hence the group keeps its order (`Follows`), and an updated index is that of the same queue pair (`CompactOK`, `ScanOK`). If
  the index is stale the one chosen was removed, and so had finished (`Strayed`).
* `Conserving`: the conjuncts of `WorkConserving`, of the state an action leaves. It is re-established by every call rather than kept: only a pause, a
  change of rate and time itself must keep it.
* `InTurn`: if d was served while c waits, c comes before d in a round that starts after `rrlast` (`Ahead`). Serving the first that waits makes it the
  last of the round; the group shrinks in the same step, `rrlast` is a position in the new group, and the order of the others is kept (`StaysAhead`, from `RoundOn`: the
  order round a ring does not depend on where it starts). Compaction in a step that serves no queue pair may disturb the order, but then none waits.
  Between TCP and the queue pairs the parity of `hostDequeueIndex` says whose turn it is.

The attempt to prove EgressShaper's `WorkConserving` and `RoundRobin` without `detached` and `Rivals` failed for a good reason, the detachment of section 2: TLC then found the
counterexample with three queues in a group, which the run's constants do not have.

**With TLC only**: `GapRepaired`, `FinishesUnlessLoss`, `Retires`, `PauseEnds`, `CompletesUnlessRejected` (liveness under fairness is out of the
prover's reach, as is ENABLED). No module with a theorem uses a RECURSIVE operator or induction over data.

## 6. Plan

Done: SwitchMmu, RdmaTransport with ReliableStream, PfcLink, DciLifecycle, QpLifecycle, HostScheduler,
EgressShaper, Bifrost, and the proofs of all their safety properties.

Next, in order:

1. Proofs: what a detachment and a stale index cost at most (an idle device with a detached group wakes at its next event; a stray service is at most
   one turn), in place of the exemptions of `WorkConserving`, `RoundRobin` and `EverybodyInTurn`.
2. **DciPools**: several keys, the identity, queue and notification pools at their limits; **DciAllocation** in integers.
3. Reverie, ABM and FAB variants of SwitchMmu's thresholds, sharing its counters; TakeDown against its charges.
4. RoCC's recovery timer as control; switch feedback (which flows, when the ledger is cleared).
5. ATC virtual output queues.

## 7. What is not modelled, and why

* Real-valued control: rates of the congestion-control algorithms, ABM's and RoCC's arithmetic,
  forecasts. TLC has integers; the control around them is in the plan.
* Routing and ECMP, topology, workload, statistics, traces and plots: set-up and output.
* Serialisation of headers, PINT encoding: pure functions with no state of their own.
* Link failures (`TakeDown`): no long-haul program takes a link down; listed as a hazard.
* Stock ns-3: assumed to run events in time order, each to its end.

`PROJECT.json` lists under `hazards` what is hard to test in this code, each with
the property that covers it or the reason why none does yet.
