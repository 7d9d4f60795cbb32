# A TLA+ project for embassy-nrf-esb

This directory specifies `embassy-nrf-esb`, an async Rust implementation of
Nordic's Enhanced ShockBurst (ESB) for nRF52 chips, and the split keyboard
(`boards/elytra`) that is its main user, and checks them with TLC and TLAPS.
Paths below are those of the repository; files named without a directory are in
`src/src`, the crate's own source.

ESB is a small link protocol. A *PTX* sends a packet, turns its radio round and
waits for an ACK; it retransmits until the ACK comes or a maximum of attempts
is reached. A *PRX* listens on up to eight pipes, acknowledges what it receives
(the ACK may carry data) and filters repetitions by a 2-bit packet identifier
(PID) and the CRC of the last packet of the pipe. The crate runs them in two
ways: *exclusive*, from the RADIO and TIMER interrupts, and in *timeslots* that
Nordic's MPSL scheduler grants between the radio events of a BLE stack. The
keyboard's right half is a PTX in timeslots, its left half a PRX in timeslots
that is a BLE peripheral too.

## 1. The system and what is hard in it

| Component | State it keeps | Operations | What must hold |
|---|---|---|---|
| Packet pool (`payload.rs`) | an atomic ownership state per buffer, a channel of received indices | alloc, enqueue, dequeue (by pipe), to DMA, complete, receive, release | one owner per buffer; none lost; no reception dropped |
| PTX state machine (`state_machine.rs`) | state, attempts, PID, the buffer sent, the ACK's buffer | RADIO and TIMER events, send next, retransmit, suspend, restore, `ts_*` | every packet completes; PID advances once per packet; an ACK is a real one |
| PTX driver (`isr.rs`) | `timer_flag`, `max_attempts_flag`, `suspend_requested`, a waker | two interrupt handlers, send, receive, `set_pipe`, suspend, restore | suspend waits for the packet, returns, and leaves silence |
| PRX state machine (`state_machine.rs`) | state, the buffer received into, the one acknowledged, the ACK's payload, last PID and CRC per pipe | RADIO events, start, stop, suspend, restore, `ts_*` | in-order delivery, once; ACK means delivered; ACK to the right pipe |
| PRX driver (`isr.rs`) | `suspend_requested`, a waker | handler, `start_listening`, receive, `send_ack_payload`, stop, suspend, restore | stopped stays stopped; suspend waits for the ACK |
| RADIO, TIMER, NVIC (`radio.rs`, `timer.rs`) | shortcuts, PACKETPTR, events, interrupts, two compare channels, pending bits | register sequences | EasyDMA only on buffers that are its own |
| PRX timeslots (`mpsl_timeslot.rs`) | `PrxInnerState` shared with the MPSL callback, a fast budget, an event queue of 32 | requests, the callback's signals, extensions, run, close | the radio is quiet outside a slot; windows keep coming; what an ACK hints at is asked for |
| PTX timeslots (`mpsl_timeslot.rs`) | `PtxInnerState`: request, result, retries, the schedule gate and its lock | requests, the callback's signals, `send`, reports | an ACK is one of this packet; no send hangs; NORMAL requests on a live hint only |
| Schedule (`mpsl_schedule.rs`) | `LinkTiming`: last hint, next window, miss streak | observe a hint, observe a miss, bounded wait | a wait ends at a window, and is bounded |
| Transport (`transport.rs`) | last sequence number per device, static binding | encode, decode, accept, transport ACK | a retried frame is accepted once |
| Right half (`boards/elytra/src/main.rs`) | matrix rows, the snapshot sent, its sequence number | scan, take a snapshot, send, retry, supersede, keepalive | the last state of the keys arrives |
| Left half (`boards/elytra/src/bin/left_central.rs`) | event queue, ACK extensions, tracker, the right half's rows, HID edges, active keys, BLE connection | `prx_task`, `link_loss_task`, scan, `hid_task`, BLE events | no stuck key; a confirmed snapshot is applied |
| Profiles, other boards, examples, tests, xtask | constants, application state | - | evidence of how the drivers are called |

How they interact. In exclusive mode tasks call the drivers and move buffers
through the pool, and trigger the RADIO interrupt by pending it in the NVIC. The
TIMER handler sets a flag and pends RADIO. The RADIO handler runs the state
machine, which writes radio and timer registers, moves buffers and wakes tasks.
Short critical sections mask the RADIO interrupt in the NVIC, where it stays
latched. In timeslots MPSL calls one callback per session with START, RADIO,
TIMER0, EXTEND, BLOCKED, OVERSTAYED, SESSION_IDLE and other signals; the callback
runs an engine written into it (*inline*) or the shared state machine once
`set_prx_driver` or `set_ptx_driver` has registered it (*converged*), and says by
its return value whether the slot is extended, ends, or ends with a request for
the next. The right half asks for a slot per frame; the ACK brings it the
transport ACK and a schedule hint, from which `LinkTiming` computes when to try
next. The left half's callback queues the frame and answers at once; its tasks
turn the frames into HID reports.

What is hard: interrupts and callbacks that fall between any two steps of a
task; latched interrupts; timers and flags that outlive what they were set for;
buffers whose owner is known from indices kept in several places; an async
suspend that must not miss its wake-up; slots that end in any state of the radio
and are refused, blocked or late; repeated and lost packets at three levels (radio,
slot, snapshot); a pool or a queue that runs full; halves that are reset or die.
The list with line numbers is `hazards` in `PROJECT.json`.

## 2. Modules

| Module | Models | State and actions |
|---|---|---|
| `PacketPool` | `payload.rs` | `pool`, `rx_queue`; each pool call is an operator from a pool value to a pool value, since a handler makes several in one run |
| `EsbPtx` | PTX state machine and driver, RADIO, TIMER, NVIC | one action per branch of `handle_radio_event` (`OnIdle`, `OnTx`, `OnAck`, ...) run by `RadioIsr`; `TimerIsr`; `Tick` for time and the peer; one action per step of each driver call |
| `PrxStateMachine` | PRX state machine, RADIO, the packets on the air | one action per branch of the handler, `StartListening`, `StopReceiving`; `Receive`, `Miss`, `AckEnd` for the air. `timeslot_managed` chooses between the automatic and the manual turnaround: `EsbPrx` and `TimeslotPrx` both build on it |
| `EsbPrx` | the exclusive-mode PRX driver around it | `RadioIsr`, the tasks, and a control task |
| `PacketReception` | - | the abstract specification `EsbPrx` implements: each pipe's packets accepted and handed out in order and once, acknowledged only once accepted |
| `TimeslotPrx` | `prx_timeslot_callback` with both engines, the finite, automatic and parked sessions, what `EsbTimeslotPrx` adds | one action per signal (`Start`, `RadioSignal`, `Timer0`, `ExtendSucceeded`, ...), one per task step (`OpenSession`, `RequestWindow`, `DropSession`, ...). The inline engine's phase, duplicate filter and fast budget are variables of their own |
| `TimeslotPtx` | `ptx_timeslot_callback` with both engines, the basic callback, poll, event and finite sessions, the schedule gate | `st` is `PtxInnerState` (the fields that decide something), `sm` the shared machine; one action per signal and per task step |
| `Transport` | `transport.rs` | operators: validation and length of a frame, binding, tracker, transport ACK |
| `RightHalf` | `main.rs`: the matrix scan and the main task | `rpc` is where the main task waits; `RightScan`, `TakeSnapshot`, `Retry`, `Supersede`, `KeepaliveFires`, ... |
| `LeftHalf` | `left_central.rs`: RADIO callback's application side, all tasks, the BLE events that touch keys | `NewPacket`, `EventNew`, `EventDropped`, `LinkLossPoll`, `HidTop...`, `HidWake`, `BleConnect`, `CccdWrite`, `BleDisconnect`, `LeftRestart` |
| `LeftCentral` | `LeftHalf` against any right half and any host | composition; the way from two matrices to the host |
| `SplitLink` | both halves and the radio between them | composition; `Received`, `TransmissionLost`, `SlotEnds`, `SlotRefused`, strangers, resets, a dying battery |
| `SnapshotDelivery` | - | the abstract specification `SplitLink` implements: snapshots in order, at most once, confirmed only if queued |
| `LinkTiming` | `LinkTiming` of `mpsl_schedule.rs` and how the firmware calls it | `observe_hint`, `observe_miss`, `bounded_wait`, time |
| `MC...` | instances for TLC | the definitions a `.cfg` cannot write |
| `PacketPoolProofs`, `EsbPtxProofs`, `EsbPrxProofs`, `TimeslotPtxProofs`, `TimeslotPrxProofs`, `SplitLinkProofs`, `LeftCentralProofs`, `LinkTimingProofs` | lemmas and theorems | section 6 |

`EsbPtx` and `PrxStateMachine` EXTEND `PacketPool`, as do `EsbPrx` and
`TimeslotPrx` through the latter; `RightHalf` EXTENDS `Transport`, `LeftHalf`
EXTENDS `RightHalf` (a frame is made by one and read by the other), and
`LeftCentral` and `SplitLink` EXTEND `LeftHalf`. `SplitLink` instantiates
`SnapshotDelivery` with `queued` mapped to the last snapshot queued, and `EsbPrx`
`PacketReception` with `accepted` mapped to the packet numbers the duplicate filters
hold.

A definition whose comment begins with "Mutant:" is not part of the model. It
is a broken variant of a definition after it, and shows that the property
named with it in `PROJECT.json` depends on that definition.

### How the code's concurrency is modelled

* An interrupt handler is one action: RADIO and TIMER have one priority, so
  they do not nest, and RADIO, the lower number, is taken first when both are
  due. An MPSL signal is one action too: the callbacks share one priority.
* A task step is what the task does between two points where an interrupt may
  matter. The tasks share one executor and switch at awaits only, so a step of
  the Elytra tasks is what they do between two awaits; `hid_task` awaits in its
  select only, and no other task moves while it is between two of them. An
  interrupt that is due runs before the next step of any task.
* A critical section of `isr.rs` is two steps, masking and then the body with
  unmasking, so that events latch in between. `ctl` is the program counter of the
  control task; `suspend` is modelled as the code has it: first attempt, request,
  re-check, register the waker, read, wait or finish, and dropping the future
  while it waits. The critical sections of `mpsl_timeslot.rs` mask the callback
  and are one step.
* The NVIC pending bit is latched. `unpend` clears it unless the line is high.

### Environment assumptions

* Interrupt latency and the masked sections are shorter than one tick in
  `EsbPtx` and shorter than the 40 us ramp-up elsewhere: the radio moves only
  when no interrupt is pending. The code has the same assumption in its "Missed
  RX window" and "Missed TX window" assertions.
* `TXEN` and `RXEN` act on a disabled radio only; PACKETPTR is latched at
  START; CRCSTATUS keeps the last verdict.
* Release build: `debug_assert!` has no effect.
* A peer does not send while the PRX sends its ACK. A PRX peer repeats packets
  as often as it likes, NoAck packets too, and its ACKs may be lost. All payloads
  of one packet number are equal, the worst case for duplicate detection.
* The application calls `start_listening` when it is not listening, and drops
  each packet it receives in the end.
* MPSL is external. It grants, blocks, cancels or refuses a request as it likes,
  ends a slot at any state of the radio, delivers OVERSTAYED and INVALID_RETURN
  where the configuration's faults say so, and delivers SESSION_IDLE after a slot
  without a next request. It gives RADIO signals in a slot only.
* In `SplitLink` every send of the right half is a new packet to the PRX: the
  counter in front of the frame (`tx_count`) is advanced, so its CRC differs.
  Frames of other keyboards may arrive on any pipe, but not with both the right
  half's device id and its pipe.
* A reset of the left half loses all its state, which is in RAM.

### Data left out

Payload bytes, addresses, RSSI, signal counters and register formats. In
`EsbPtx` the pipe of a packet is left out: it only selects addresses. In
`PrxStateMachine` a header is a pipe, a packet number (its PID is the number
modulo 4) and the no_ack bit. In `TimeslotPtx` packets are left out but for the
question whether the peer has the one that is sent, and a distance in the
schedule gate is "near" or "far", whatever the code tells apart. A snapshot is a
set of keys with a number (history). The value of a stopped timer is not kept;
every start clears it.

## 3. Runs

`PROJECT.json` gives each run's properties; each property's comment in the
module says what it means for the code.

| Run | Instance | Distinct states | Question |
|---|---|---|---|
| `ptx_safety` | 3 buffers, 2 attempts, all control calls | 1.3 M | buffer ownership, DMA, suspend |
| `ptx_progress` | 3 buffers, one kept free, ACKed and NoAck packets, suspend | 230 k | completion, retransmission, PID, leaks |
| `prx_safety` | 2 pipes, 2 buffers, ACK payloads for one pipe, stop, suspend | 850 k | buffers, pipes, stop, wake-up |
| `prx_delivery` | 1 pipe, 2 buffers, 4 packets, ACKed and NoAck, try_suspend | 174 k | delivery across loss and suspend, refinement |
| `ts_prx_sessions` | 1 pipe, 2 packets, 2 buffers, all session modes and faults, 2 extensions, both engines | 987 k | silence outside slots, duplicates, hints, liveness |
| `ts_ptx_sessions` | all sessions, gates and faults, runs of 2 slots, 1 retry, drivers that come late | 821 k | false ACKs, silence, the lock, liveness |
| `link_timing` | 12 hints, times up to 14 | 24 k | where a wait ends |
| `left_hid` | one key per half, any frames, HID queue of 2, lost reports | 148 k | stuck keys |
| `split_delivery` | 3 snapshots, 2 transmissions per slot, queue of 2, 2 foreign frames, time, a reset of the left half | 3.1 M | delivery, refinement (safety), sync at rest |
| `split_watchdog` | 3 snapshots, time, queue of 1, a right half that dies | 190 k | refinement with liveness, watchdog |
| `ts_ptx_false_ack` | the converged engine alone | finding | does the callback's ACK mean one? |
| `split_right_restart` | resets of the right half | finding | is what is confirmed applied? |

### Bounds

* Buffers: a PTX transaction uses two (packet and ACK), so three give the
  application one to fill, hold or leave queued meanwhile; a PRX uses two (packet
  and ACK payload or next packet), so two reach the branches without a free
  buffer all the time.
* Attempts and retries: with two, the first failure retransmits and the second
  drops.
* Ticks: TIMER values keep the order of the events of a configuration.
  In `ptx_safety` and `ptx_progress` CC[1] = 2, CC[0] = 3 and a packet takes 2
  ticks, so a reception can end before or at the ACK timeout, and a stale CC[0]
  event meets the next packet.
* Packets per pipe: at most four, so that no PID is used twice; one is enough
  for `prx_safety`, which is about buffers and pipes and can be repeated.
* `ts_prx_sessions` has two packets, since what a new packet does to the hint of the
  one before it takes two; each is repeated at will, after any number of slots and
  sessions. The state constraint `Bound` limits what is combined with what: the second packet
  comes in sessions of the inline engine that have had no fault; a driver registered
  within a slot is combined with its drop only, and its session is the last; at
  most two faults or exceptions stand at a time. Every fair action that is enabled has
  a successor within `Bound` (checked as an invariant, with `ENABLED`), so the
  constraint takes no behaviour out of the liveness check by making fairness
  unsatisfiable. The theorems on `TimeslotPrx` need none of these bounds.
* `Reserve` in `EsbPtx`: the free buffers the application leaves when it sends.
  0 lets it fill the pool. The liveness run uses 1, since a full pool stalls
  (section 5).
* `Calls`: the control calls made. `ptx_progress` leaves out `set_pipe`, which
  may clear a pended timer event (hazard at `isr.rs:398`); `prx_delivery` leaves
  out `stop` and `suspend`, which may drop an acknowledged packet (hazards at
  `state_machine.rs:1204` and `isr.rs:917`).
* `ptx_safety` sends ACKed packets only: with packets of both kinds `DmaOwned`
  fails after a drop (hazard at `state_machine.rs:398`).
* Sessions: counts of two tell the first slot, one in the middle and the last
  apart; two extensions the first and the last; a budget of one a fast window and
  the one that spends it; `MissLimit` 2 a miss that keeps the lock and one that
  loses it.
* `SeqCount`: four numbers wrap after the three snapshots and a retry; two in
  `left_hid`, where only "same as the last" and "another" matter.
* Snapshots: with three, one is applied, one superseded and one on its way.
* `split_watchdog`: `Timeout` 5 ticks of 100 ms, a keepalive after 1, and
  `MaxMute` 2: while it lives, the right half is not without a confirmed frame
  for longer than that. `WatchdogQuiet` needs 2 `MaxMute` + `Keepalive` <=
  `Timeout`: with a worse link the watchdog does release held keys, by design.
  `split_delivery` takes the smallest case, 1 + 1 + 1 = 3, for `InSync`.
* `LinkTiming`: hints whose windows touch, leave gaps, start at once or later
  than `MaxWait`; 14 is past every guard, window and validity.
* Deadlock is checked in all runs but those of `SplitLink`, which may stop: the
  snapshots are bounded, and a right half whose battery is empty does nothing.

### Fairness

* `EsbPtx`, `EsbPrx`: weak fairness of the interrupt handlers (the CPU takes a
  pending, unmasked interrupt), `Tick` or the end of an ACK (hardware), a started
  send, the control task's steps once it has made a call (the executor polls a
  ready task), receiving and dropping received packets, and `restore` after a
  suspend. In `EsbPtx` the application also keeps sending. Nothing is assumed of
  reception: every packet and every ACK may be lost. PRX has no liveness property
  of its control task: a peer that never stops sending can starve a waiting
  `suspend`, whose wake-up is stated as the invariant `NoLostWakeup` instead.
* `TimeslotPrx`, `TimeslotPtx`: weak fairness of the end of a slot (TIMER0),
  SESSION_IDLE, the tasks woken by the callback, and, in the PRX, the task that asks for a
  window after each BLE event and the discard after a radio signal; strong
  fairness of START: MPSL may refuse or block requests over and over but not all
  of them for ever.
* `LeftCentral`: strong fairness of `prx_task`, `link_loss_task` and the passing
  of time, weak fairness of `hid_task`: the executor's queue is FIFO, a woken
  task runs once per round even if `hid_task` is always ready.
* `SplitLink`: weak fairness of the tasks, of slots' ends and of time, and strong
  fairness of a transmission that is received and whose ACK is heard while the queue
  has room: a link that always fails delivers nothing.

## 4. What the passing runs show

* `OneOwner`, `DmaOwned`, `NoLeak`, `NoLostReception`, `BuffersKnown`: the pool's
  discipline. Indices and ownership states agree at every point between two
  steps, whatever path a packet takes, and the channel, whose overflow is ignored,
  never overflows.
* `SuspendNeverForces`, `SuspendReturns`, `NoLostWakeup`,
  `QuietWhileSuspended`, `StaysStopped`: suspend and stop against a handler that may
  run between any two of their steps.
* `PidFresh`, `InFlightCompletes`: the PTX protocol.
* `AckedIsDelivered`, `DeliveredOnce`, `AckToItsPipe`: the PRX protocol, across
  loss, repetition and suspend. `ReceptionSafe`: the driver implements
  `PacketReception`, which relates what is sent, accepted, handed out and heard.
* `QuietOutsideSlot` (both sides), `NoRepeat`, `HintIsKept`, `WindowsKeepComing`,
  `AckOkIsDelivered`, `NormalIsLocked`, `SessionsGoOn`: sessions in timeslots. The
  exceptions a property makes (`lapses`) are what the code really leaves open;
  each is a hazard with its line. `HintIsKept` has one that the code's own protocol
  opens: a new packet without ACK, after an ACK that has hinted at the next connection
  event, refills the budget of fast windows (`mpsl_timeslot.rs:2539`) and tells
  nobody (2553), so the slot asks for a window the right half does not expect
  ("unhinted"). The window is one too many, not one missing: a hint of a fast window is
  kept through such packets. `NoRepeat` leaves out a session that got its driver in a
  slot and was dropped in one (`Torn`): the inline engine then goes on in the
  midst of a packet.
* `DeliverySafe`, `DeliverySpec`: the link implements `SnapshotDelivery`.
  `ConfirmedIsHeld`, `AppliedOnce`, `SnapshotConfirmed` relate the right half's
  knowledge to the left half's state, and `InSync` the two ends: a link at rest
  shows the right half's matrix on the left half.
* `WatchdogQuiet`, `DeadHalfReleased`: the link-loss watchdog neither fires on a
  living half nor misses a dead one.
* `NoStuckKey`, `HostReleased`, `ChangesReachHid`: from the two matrices to the
  host.
* `AimsAtNextWindow`, `WaitIsBounded`: the schedule arithmetic.

## 5. Findings

Two runs end in a counterexample to something the repository says; each is
described in `PROJECT.json` under `findings` with the lines it contradicts.

1. `ts_ptx_false_ack`: the converged PTX callback clears EVENTS_DISABLED before the
   shared state machine looks at it, so that every TX END counts as an ACK and
   one buffer is lost per slot.
2. `split_right_restart`: a right half that was reset starts again with sequence
   0; if that is the number the left half accepted last, its first frame is
   acknowledged end to end and dropped as a duplicate.

The models also show the following, which are hazards with notes and which the
runs' parameters keep out so that the rest can be checked. Each is found within
seconds by changing the parameter named.

* `MCEsbPtx_progress` with `RetransmitCC = 1`, `AckCC = 2`: configurations that
  `validate()` accepts leave PTX waiting for a retransmit timer that has been
  stopped (`config.rs:292`).
* `EsbPtx` with CC[0] later than the ACK timeout by more than the gap to the next
  packet: the retransmit timer of a dropped packet turns the next packet's own
  TX END into an ACK (`state_machine.rs:483`).
* `MCEsbPtx_progress` with `Reserve = 0`: a packet put back for want of an ACK
  buffer waits for a send that can no longer be made (`state_machine.rs:416`); with
  `try_suspend` among the calls a suspend forgets it and its buffer
  (`state_machine.rs:606`).
* `MCEsbPrx_delivery` with `suspend` among the calls: the ACK it promises to wait for
  may be cut (`isr.rs:917`).
* A receiver that found no buffer is not started again (`state_machine.rs:966`).

## 6. Proofs

`EsbPtxProofs` proves every safety property of the `EsbPtx` runs, and what the
liveness ones rest on, for every pool size, timer setting, set of calls and application
parameter allowed by the modules' assumptions; `PtxNoLeak`, `PtxPidFresh`,
`PtxDmaOwned`, `PtxNeverStalls` and `PtxMovesOn` under an assumption of their own:

* `PtxTypeCorrect`: `Spec => []TypeOK`.
* `PtxSuspendNeverForces`: the control task past the point where it saw `Idle`
  (`ready`, `final`) finds it `Idle`: between the two the interrupt is unmasked, but
  `suspend_requested` is set and the handler in `Idle` then sends nothing.
  The strengthening (`SuspendInv`) relates `ctl`, `suspend_requested` and `state`.
* `PtxOneOwner`: `OneOwner` is inductive relative to `TypeOK` once it includes the
  distinctness of the receive queue's entries: a buffer moves only between "free"
  and one of the three owners, and each owner's buffers have a pool state of
  their own.
* `PtxQuietWhileSuspended`: inductive with `TypeOK`: `do_suspend` establishes it
  whatever it finds, and while suspended the RADIO interrupt is masked, a TIMER
  interrupt left pending finds both channels off, time has nothing to move on and
  the tasks only pend.
* `PtxNoLostReception`: by counting, on top of `PtxOneOwner`'s invariant
  (`PacketPoolProofs`, `QueueNotFull`): the channel holds distinct buffers and not
  the one just received, so by the pigeonhole principle fewer than `N`, its
  capacity.
* `PtxNoLeak` and `PtxPidFresh`: under `RoomToSuspend`, the application leaves a
  buffer free when it sends or never suspends. A packet is put back to `Idle` when
  there is no buffer for its ACK, and a suspend that comes then forgets it, its
  buffer and its PID (section 5). `PacketInv` says why that cannot happen under
  the assumption: either a buffer is free whenever the next ACK may need one and
  the machine in `Idle` holds no packet (`RoomInv`), or no suspend is under way
  (`CallInv`). `PidInv` is the protocol's part: with no packet
  named the PID is already that of the next one, and with a packet named it is the
  one on the air.
* `PtxDmaOwned`: under `OneKind`, the application asks for an ACK with every packet
  or with none. The state machine takes a TIMER event in `TxNoAck` for the end of the
  transmission, and the retransmit timer of an ACKed packet that was dropped may
  still run then. The two kinds hold for different reasons: with ACKs
  (`AckedDma`) a buffer is released only where the radio is stopped; without
  (`UnackedDma`) no channel of the timer is ever armed.
* `PtxNoLostWakeup`: a `suspend` that waits is woken once the machine is `Idle`.
* `PtxNeverStalls`: while a packet is in flight an interrupt is pending, a transmission
  ends, or a compare channel is still to match. It needs `TimersInOrder`: the ACK
  timeout before the retransmit timer, which `validate()` does not ask for
  (hazard at `config.rs:292`), and no `set_pipe`, which may clear a latched TIMER
  event (hazard at `isr.rs:398`). With either a packet can wait for ever.
* `PtxMovesOn`: a step that changes the state but not the packet goes down in
  `Phase` or counts an attempt below `MaxAttempts`. It needs a buffer left free
  (`Reserve` >= 1): a packet put back to `Idle` for want of one is sent again uncounted.

`EsbPrxProofs` proves every safety property of the `EsbPrx` runs, for every pool,
set of pipes, set of calls, and number of packets up to the number of PIDs:

* `PrxTypeCorrect` (`Spec => []TypeOK`; the runs of `EsbPrx` and `TimeslotPrx` leave
  their types to the proofs), and `PrxInvariant`: `PrxInv`, with the parts `TypeInv` and
  `IdxInv` (which buffer indices each state holds), `RadioInv` (the radio, its
  shortcuts and its DMA pointer in each state) and `DriverInv` (the pending interrupt
  is the radio's line, a driver that does not listen is `Idle`, the request and the
  waker of a suspend that waits). From it `PrxStaysStopped` and `PrxNoLostWakeup`.
* `PrxOneOwner`: `OwnInv`, each buffer in use has one owner among the state machine,
  the receive queue and the send queue, and its pool state tells which. It gives
  `PrxBuffersKnown` and, with `RadioInv`, `PrxDmaOwned`.
* `PrxKeepsListening`: outside `Idle` the radio works with its interrupt enabled or
  pending (from `RadioInv`), and a receiver falls back to `Idle` by `stop`, by
  `suspend` or because no buffer is free (hazard at `state_machine.rs:966`), never
  otherwise.
* `PrxAckToItsPipe`: an ACK payload loaded for transmission is of the pipe that the
  received packet came in on.
* `PrxDelivery`: `DeliveryInv` follows a packet through the filter: what the
  application got was accepted, what was accepted was sent, a packet on the way is
  the peer's latest, and the one about to be accepted is new. It gives
  `PrxDeliveredOnce`. The number of packets is bounded by the PIDs because the
  filter is no better than that (hazard at `radio.rs:440`).
* `PrxReceptionSafe`: the refinement, for every set of calls: initial states map to
  initial states, and each step to `Send`, `Accept`, `AcceptNoAck`, `HandOver`,
  `HearAck` or a stutter. `HearAck` needs `SendingInv`, that an ACK on the air is for
  the packet its peer sends, which is the one accepted last; `AllInv` collects it with
  the invariants above. It does not promise that what is accepted is handed out:
  with `stop` and `suspend` it may not be.
* `PrxAckedIsDelivered`, which does: needs the theorem's assumption `PatientCalls`, that only
  `try_suspend` is called: `stop` and `suspend` may drop the packet whose ACK is on
  the air.

`TimeslotPtxProofs` proves for every set of sessions, gates and faults, and all
limits:

* `TimeslotPtxTypeCorrect`, and `TimeslotPtxInvariant`: `Spec => []PtxInv`, with
  `PtxInv == TypeOK /\ ModeInv /\ QuietInv /\ AckInv`. `ModeInv` says which fields
  only one kind of session uses, and that a NORMAL request is a locked one;
  `QuietInv` extends `QuietOutsideSlot` to slots in which no engine is at work;
  `AckInv` is the strengthening of `AckOkIsDelivered`.
* `TimeslotPtxAckOk`: why the strengthening is needed: that the result of a send is
  true says nothing by itself about the radio. `AckInv` adds that in an event session
  an engine that waits for an ACK has either no answer or one of the packet of its own
  slot, that a good CRC in that phase is such an answer, and that no send begins
  while a slot of another lasts.
* `TimeslotPtxQuiet`: each way to end a slot either finds the radio disabled or
  disables it, and an interrupt that was due is cleared with its event.
* `TimeslotPtxNormalIsLocked`: `Unlock` runs wherever a request is rebuilt after a
  miss, a blocked, cancelled or overstayed slot, or an idle session.
* `TimeslotPtxNoneStranded`: whoever waits for a session has its result or a slot
  asked for or at work, a poll session perhaps only the SESSION_IDLE that asks for
  one. `StrandInv` adds that a session in use is open and not being closed, and that
  the slot of a send finds its packet pending.

`TimeslotPrxProofs` proves every safety property of `TimeslotPrx`, for every pool,
set of pipes, session mode, engine, fault and limit, and number of packets up to
the number of PIDs:

* `TimeslotPrxHintIsKept`: `HintInv`, in a slot the hint of its last ACK still agrees
  with the budget of fast windows: "fast" with some left, "parked" with none, unless
  a packet without ACK has refilled it since. The property compares what was told
  with what is requested after the slot, and between the two the budget may change;
  the invariant says which changes there are: every branch that sends an ACK
  writes the hint after the refill, and the one refill without an ACK can only make a
  hint of a parked slot untrue.
* `TimeslotPrxQuietInvariant`, and from it `TimeslotPrxQuiet`: `SilentInv` (outside the
  slots the radio is off and no interrupt is due, unless a slot has overstayed)
  and `IdleInv` (the state machine is idle, with no buffer in DMA ownership, but in
  a driver's slot or after a drop). The second is what lets the next slot start.
* `TimeslotPrxDelivery`, and from it `TimeslotPrxNoRepeat`. The filter of the shared
  engine is restored from a copy at each slot, so "handed out implies filtered"
  is not inductive without `SavedInv`: when a driver's slot can be granted, the copy is
  the filter itself. An overstayed slot saves nothing, but is its session's last.
  `Machine` and `Inline` say, for each phase of each engine, how the radio stands
  and that the packet being acknowledged is new. `PhaseInv` ties the inline engine's
  phase to a slot without driver, or to a driver that came late; the invariant
  holds until a session is `Torn`.
* `TimeslotPrxTypeCorrect`: `Spec => []TypeOK`.
* `TimeslotPrxNoneStranded`: a session in use that has no slot and none asked for is
  done, parked with flags that let its next request through, or lost to the
  hazards that `Stranded` names (`mpsl_timeslot.rs:2176`, `:2809`).

`SplitLinkProofs` proves for every queue length, retry bound, set of foreign
frames, faults and number of snapshots:

* `SplitLinkInvariant`: `LinkInv`, with the parts `LinkType`; `Latest` (the frame
  being sent holds the last snapshot taken); `InOrder` (the queue's snapshots are
  ordered between the last applied and the last queued); `Answers` (an answer heard
  that matches the frame means that it has been queued).
* `SplitDeliverySafe`: the refinement: initial states map to initial states, and
  each action to `Take`, `Queue`, `Apply`, `Confirm`, `Crash` or a stutter.
* `SplitAppliedOnce`: needs `SameNumber` besides: one sequence number for each
  snapshot among the applied, queued and sent ones, so that a repeat is
  recognised. It holds for any number of snapshots, wrapped numbers included.
* `SplitConfirmedIsHeld`: needs `Held` (the last snapshot queued has been applied or
  is in the queue) and `Numbered` (a frame's number tells its snapshot), the latter
  under the theorem's assumption `MaxSnapshots <= SeqCount`: after 256
  snapshots of which none is accepted a number is used again and the frame
  confirmed is refused (hazard at `transport.rs:277`).
* `SplitWatchdogQuiet`: under the assumptions `MaxSnapshots <= SeqCount` and
  2 `MaxMute` + `Keepalive` <= `Timeout`, for which `split_watchdog` checks the
  tight case 2 · 2 + 1 = 5. While keys are held, the time since the last accepted
  snapshot is at most the wait for its ACK, the keepalive and the wait for the next
  ACK (`LagInv`, a bound for each place of the right half's main task). That needs
  `RestInv` (the main task rests only on a confirmed snapshot, and the signal of a
  change ends its rest before time passes), `SeenInv` (the rows shown after the
  last snapshot are those of it, or cleared: a repeat of an empty snapshot holds no
  key) and `Held` (once the queue is empty, what is confirmed has been applied).
  Resets of the left half and the death of the right are included.
* `SplitInSync`: under the same assumptions, a link at rest (nothing to send, no
  signal, no queued payload) shows the right matrix on the left half, but for a
  left half that was reset under held keys, until the keepalive. By `RestInv` the last
  snapshot is confirmed and the matrix has not changed since, by `Held` it has
  been applied, and by `SyncInv` its rows are still shown: only the watchdog could
  have cleared them, and it is quiet.

`LeftCentralProofs` proves for every queue length, set of keys and of pipes, any
right half and any host:

* `LeftCentralTypeCorrect`: `Spec => []LeftType`.
* `LeftNoStuckKey` and `LeftHostReleased`: both speak of `hid_task` at rest. `IInv`
  holds at every step: `active` with the queued edges applied holds no key that the
  scan has not seen (`LeftKeysKnown`), `active` holds no right key but those of the
  rows unless the rows are marked dirty (`RightKeysKnown`), and the host's keys are
  among those of `active` unless a report was lost (`HostKnows`). At rest nothing
  is queued or dirty, and the properties follow.
* The loop over the queued edges is the operator `AfterEdges`: for each key its
  last edge decides. The lemmas say what it yields without edges
  (`AfterNoEdges`), with an edge appended (`AfterEdgesAppend`), from fewer keys
  (`AfterEdgesMonotonic`), and that without a change it changes nothing
  (`AfterEdgesSame`), which is why `hid_task` may skip the report. The last edge of a
  key exists as the minimum of a well-founded order.
* `LeftNoLostWakeup`: `hid_task` looks at `RIGHT_DIRTY` and `HID_CLEAR_REQUESTED` only
  at the top of its loop; while it is in its select neither is set without
  `RIGHT_CHANGED`, on which the select returns.
* `LeftHeldIsWatched`: right rows are held only with `RIGHT_LAST_SEEN_MS` set, so
  the watchdog never overlooks them.

`LinkTimingProofs` proves `TimingTypeOK`, and from `TimingInvariant` (the next
window is a window of the last hint with no later one over, a synchronised state
has fewer misses than the limit, no time lies in the future) `TimingAims` and
`TimingIsBounded`, for all valid configurations and sets of hints.

Each proof is an induction on `Next` with one step per action; handlers' branches
share lemmas about the operators they call.

Only model-checked:

* All liveness properties, and the temporal part of `DeliverySpec`: out of reach
  of TLAPS here. What they rest on is proved where it is an invariant or a bound on a
  step: `PtxNeverStalls` and `PtxMovesOn` for `InFlightCompletes`, `PtxNoLostWakeup`
  for `SuspendReturns`, the two `NoneStranded` for `SessionsGoOn` and
  `WindowsKeepComing`, `LeftNoLostWakeup` for `ChangesReachHid`, `LeftHeldIsWatched`
  for `DeadHalfReleased`, `SplitDeliverySafe` for `DeliverySpec`. That fairness then
  makes the step happen is TLC's to check.
* `NoLeak`, `PidFresh` and `DmaOwned` of `EsbPtx` outside the assumptions above:
  there they fail.

## 7. Not modelled, and the plan

Not modelled, and why:

* `left_central.rs` from line 801 on but for the CCCD and the key events: the ATT
  server answers from constant tables; the stages of the SMP pairing are looked at by the
  pairing itself only, and no ATT request waits for them, so `CccdWrite` can come
  at any time while connected; the restart of advertising after a disconnect is
  taken to succeed.
  USB, display, matrix pins, clocks: pure I/O.
* `mpsl_profile.rs`: constants, which the sessions' parameters stand for.
  `config.rs`, `addresses.rs`, `header.rs`: encodings and validation without state.
* `ScheduleTracker` and the signal counters: estimates and statistics for the log.
* `LinkTiming`'s u32 saturation at the ends of the range, `reset_to_scan` (called
  by no firmware).
* The transport's operators the firmware does not call.
* In the PTX callback: an ACK that the shared machine meets in WaitAck with
  DISABLED set, which finding 1 makes unreachable (WaitAck itself is modelled: a
  driver registered within a slot finds the inline engine's ACK timeout armed);
  its attempts, a free choice between retransmission and drop; a driver on an
  event session and `clear_*_driver`, which no board calls; a `send()` cancelled by
  its caller; CC1 left armed after a bad CRC.
* On the left half: the end of its PRX session. After an OVERSTAYED slot the session is
  `done` (`mpsl_timeslot.rs:2793`), and `next_event` looks at `done` before the queue
  (2988): `prx_task` logs the error and comes back (`left_central.rs:377`), asks for
  no window again, and the frames that were confirmed and still queued are never
  applied. `TimeslotPrx` models such a session; `LeftHalf` assumes that
  no slot of the left half overstays, and what `ConfirmedIsHeld` says needs that.
* In the PRX callback: reports and counters, slot profiles, the planned gaps of a
  schedule.
* Examples and hardware tests: demonstrations.

Plan, in this order:

1. Done: `PacketPool`, `EsbPtx`, `PrxStateMachine`, `EsbPrx`; the timeslot sessions;
   transport, both halves, their link and its abstract specification; the
   schedule; eight proof modules, with a theorem for each safety property that a
   passing run checks.
2. The SMP pairing of `left_central.rs` as a state machine of its own.
