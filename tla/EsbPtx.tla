------------------------------- MODULE EsbPtx -------------------------------
(***************************************************************************)
(* The exclusive-mode PTX driver: PtxStateMachine of                       *)
(* src/src/state_machine.rs, its wrapper EsbPtx of src/src/isr.rs, and the *)
(* RADIO, TIMER and NVIC behaviour they rely on (src/src/radio.rs,         *)
(* src/src/timer.rs).                                                      *)
(*                                                                         *)
(* Actors: the RADIO and TIMER interrupt handlers (one priority, so they   *)
(* do not nest and RADIO, the lower interrupt number, is taken first), the *)
(* hardware, a sending task, a receiving task and a control task that      *)
(* calls set_pipe, the state queries, try_suspend, suspend and restore.    *)
(* The tasks share one executor: they interleave at awaits only, while an  *)
(* interrupt may come between any two of their steps.                      *)
(*                                                                         *)
(* Time is counted in ticks of the TIMER.  A tick passes only when no      *)
(* interrupt is pending: interrupt latency and the masked sections of the  *)
(* driver are shorter than a tick.                                         *)
(***************************************************************************)
EXTENDS PacketPool

CONSTANTS
  MaxAttempts,     \* retransmit.count
  RetransmitCC,    \* CC[0]: retransmit.delay_us - RAMP_UP_US, in ticks
  AckCC,           \* CC[1]: ack_timeout_us + RAMP_UP_US, in ticks
  TxTicks,         \* ramp-up and airtime of a packet, in ticks
  RxEndTicks,      \* ticks after TX END at which a reception can end
  NoAckKinds,      \* values of the no_ack bit the application sends
  AckPayloads,     \* whether an ACK may carry a payload, may carry none
  Reserve,         \* free buffers the application leaves when it sends
  Calls            \* control calls the application makes

ASSUME PtxAssumption ==
  /\ MaxAttempts \in 0 .. 15
  /\ RetransmitCC \in Nat \ {0}
  /\ AckCC \in Nat \ {0}
  /\ TxTicks \in Nat \ {0}
  /\ RxEndTicks \subseteq Nat \ {0}
  /\ NoAckKinds \subseteq BOOLEAN
  /\ AckPayloads \subseteq BOOLEAN
  /\ Reserve \in Nat
  /\ Calls \subseteq {"set_pipe", "query", "try_suspend", "suspend"}

VARIABLES
  \* PtxStateMachine
  state, attempts, pid, tx_idx, ack_rx_idx,
  \* EsbPtx: atomics, suspend waker, saved protocol state
  timer_flag, max_attempts_flag, suspend_requested, suspend_signal, saved,
  \* packet headers: the no_ack bit of each buffer
  no_ack,
  \* hardware
  rf, tm, nvic,
  \* tasks: control task, sending task with its buffer, received packets held
  ctl, sender, send_idx, held,
  \* history: PID of the last packet put on air, ACK truly received for it
  air_pid, acked

smVars   == <<state, attempts, pid, tx_idx, ack_rx_idx>>
hwVars   == <<rf, tm, nvic>>
taskVars == <<ctl, sender, send_idx, held>>
vars == <<pool, rx_queue, smVars, timer_flag, max_attempts_flag,
          suspend_requested, suspend_signal, saved, no_ack, hwVars, taskVars,
          air_pid, acked>>

StatePtx == {"Idle", "Tx", "TxNoAck", "WaitAck", "WaitRetransmit"}

Opt == Buf \cup {NoIdx}

-----------------------------------------------------------------------------
(* Hardware: the RADIO as far as PTX uses it.  mode is what the radio      *)
(* does, dma the buffer EasyDMA works on, left the ticks until TX END,     *)
(* rxen the DISABLED->RXEN shortcut, disabled EVENTS_DISABLED, inten the   *)
(* DISABLED interrupt, crcok the CRCSTATUS register, which keeps the       *)
(* verdict of the last reception.                                          *)

RadioReset == [mode |-> "off", dma |-> NoIdx, left |-> 0, rxen |-> FALSE,
               disabled |-> FALSE, inten |-> FALSE, crcok |-> FALSE]

IntOff(r) == [r EXCEPT !.inten = FALSE]

\* Mutant: TASKS_DISABLE is not triggered.
StopNoDisable(r) == [r EXCEPT !.rxen = FALSE, !.disabled = FALSE, !.inten = FALSE]

Stop(r) == [r EXCEPT !.mode = "off", !.dma = NoIdx, !.left = 0, !.rxen = FALSE,
                     !.disabled = FALSE, !.inten = FALSE]

\* Mutant: the DISABLED interrupt is not enabled.
TransmitNoInt(r, i, ack) ==
  IF r.mode = "off"
  THEN [r EXCEPT !.rxen = @ \/ ack, !.disabled = FALSE, !.mode = "tx",
                 !.dma = i, !.left = TxTicks]
  ELSE [r EXCEPT !.rxen = @ \/ ack, !.disabled = FALSE]

\* TXEN starts a transmission only from the disabled radio.
Transmit(r, i, ack) ==
  LET q == [r EXCEPT !.rxen = @ \/ ack, !.inten = TRUE, !.disabled = FALSE]
  IN  IF r.mode = "off"
      THEN [q EXCEPT !.mode = "tx", !.dma = i, !.left = TxTicks]
      ELSE q

\* PACKETPTR takes effect at the next START: too late while transmitting.
PrepareForAck(r, i) ==
  [r EXCEPT !.rxen = FALSE, !.dma = IF r.mode = "rx" THEN i ELSE @]

TxEnd(r) == [r EXCEPT !.mode = IF r.rxen THEN "rx" ELSE "off",
                      !.dma = IF r.rxen THEN @ ELSE NoIdx,
                      !.left = 0, !.disabled = TRUE]

RxEnd(r, ok) == [r EXCEPT !.mode = "off", !.dma = NoIdx,
                          !.disabled = TRUE, !.crcok = ok]

(* The TIMER: a counter and two compare channels, each off, armed or fired *)
(* (EVENTS_COMPARE set with its interrupt enabled).                        *)

TimerReset == [running |-> FALSE, count |-> 0, cc0 |-> "off", cc1 |-> "off"]

\* The counter of a stopped timer is not kept: every start clears it.
StopTimer(t) == [t EXCEPT !.running = FALSE, !.count = 0]

DisarmRetransmit(t) == [StopTimer(t) EXCEPT !.cc0 = "off"]

\* Mutant: disarming the ACK timeout also stops the counter.
DisarmAckTimeoutStops(t) == [StopTimer(t) EXCEPT !.cc1 = "off"]

DisarmAckTimeout(t) == [t EXCEPT !.cc1 = "off"]

\* arm_retransmit clears the counter, then arm_ack_timeout captures it: 0.
ArmBoth(t) == [running |-> TRUE, count |-> 0, cc0 |-> "armed", cc1 |-> "armed"]

\* A compare channel that matches the counter c sets its event.
Match(cc, at, c) == IF cc = "armed" /\ c = at THEN "fired" ELSE cc

Count(t) ==
  IF t.running
  THEN [t EXCEPT !.count = @ + 1,
                 !.cc0 = Match(@, RetransmitCC, t.count + 1),
                 !.cc1 = Match(@, AckCC, t.count + 1)]
  ELSE t

(* The NVIC: pending bits are latched when a line rises and are cleared    *)
(* by taking the interrupt or by unpend, unless the line is still high.    *)
(* Dropping the event first does not clear the pending bit.                *)

Line(r) == r.disabled /\ r.inten

PendRadio(n) == [n EXCEPT !.radio = TRUE]

UnpendRadio(n, r) == [n EXCEPT !.radio = Line(r)]

\* Mutant: the guard of a successful suspend unmasks when it is dropped.
MaskedCtlNotKept == {"set_pipe", "query", "try", "fast", "recheck", "read", "final"}

MaskedCtl == {"set_pipe", "query", "try", "fast", "recheck", "read", "final",
              "suspended"}

RadioMasked == ctl \in MaskedCtl

RadioReady == nvic.radio /\ ~RadioMasked

TimerReady == nvic.timer /\ ~RadioReady

-----------------------------------------------------------------------------
\* PtxStateMachine::new
NewMachine ==
  /\ state = "Idle" /\ attempts = 0 /\ pid = 0
  /\ tx_idx = NoIdx /\ ack_rx_idx = NoIdx

\* EsbPtx::new: the radio and the timer set up, both interrupts unmasked
NewDriver ==
  /\ timer_flag = FALSE /\ max_attempts_flag = FALSE
  /\ suspend_requested = FALSE /\ suspend_signal = "none" /\ saved = "none"
  /\ rf = RadioReset /\ tm = TimerReset
  /\ nvic = [radio |-> FALSE, timer |-> FALSE]

Init ==
  /\ PoolInit /\ NewMachine /\ NewDriver
  /\ no_ack = [i \in Buf |-> FALSE]
  /\ ctl = "idle" /\ sender = "idle" /\ send_idx = NoIdx /\ held = {}
  /\ air_pid = -1 /\ acked = FALSE

-----------------------------------------------------------------------------
(* PtxStateMachine::handle_radio_event                                     *)

\* Mutant: the PID is not wrapped to two bits.
AdvancePidNoWrap == pid + 1

AdvancePid == (pid + 1) % 4

\* send_next for the buffer t of tx_idx, pool p, radio r and PID d
SendNext(t, p, r, d) ==
  \/ /\ t # NoIdx                       \* left over from a failed ACK buffer
     /\ rf' = Transmit(r, t, TRUE) /\ state' = "Tx"
     /\ tx_idx' = t /\ pool' = p
     /\ UNCHANGED <<air_pid, acked>>
  \/ /\ t = NoIdx
     /\ \E i \in DequeueTxChoice(p) :
          /\ pool' = ToDma(p, i) /\ tx_idx' = i
          /\ rf' = Transmit(r, i, ~no_ack[i])
          /\ state' = IF no_ack[i] THEN "TxNoAck" ELSE "Tx"
     /\ air_pid' = d /\ acked' = FALSE
  \/ /\ t = NoIdx /\ DequeueTxChoice(p) = {}
     /\ rf' = IntOff(r) /\ state' = "Idle"
     /\ tx_idx' = NoIdx /\ pool' = p
     /\ UNCHANGED <<air_pid, acked>>

\* Mutant: tx_idx is not reset when its buffer is released.
GoIdleKeepsIdx(p, r) ==
  /\ rf' = IntOff(r) /\ state' = "Idle"
  /\ pool' = p
  /\ UNCHANGED <<tx_idx, air_pid, acked>>

GoIdle(p, r) ==
  /\ rf' = IntOff(r) /\ state' = "Idle"
  /\ tx_idx' = NoIdx /\ pool' = p
  /\ UNCHANGED <<air_pid, acked>>

\* Mutant: with a suspend requested the buffer is not released.
FinishPacketLeaks(p, r) ==
  /\ pid' = AdvancePid
  /\ IF suspend_requested
     THEN GoIdle(p, r)
     ELSE SendNext(NoIdx, Release(p, tx_idx), r, AdvancePid)

\* Mutant: with a suspend requested the PID is not advanced.
FinishPacketKeepsPid(p, r) ==
  /\ pid' = IF suspend_requested THEN pid ELSE AdvancePid
  /\ IF suspend_requested
     THEN GoIdle(Release(p, tx_idx), r)
     ELSE SendNext(NoIdx, Release(p, tx_idx), r, AdvancePid)

\* The common end of a packet: release_tx, advance_pid, then the next packet
\* or, with a suspend requested, nothing.
FinishPacket(p, r) ==
  /\ pid' = AdvancePid
  /\ IF suspend_requested
     THEN GoIdle(Release(p, tx_idx), r)
     ELSE SendNext(NoIdx, Release(p, tx_idx), r, AdvancePid)

\* check_events has cleared the event the handler was entered with.
Seen == [rf EXCEPT !.disabled = FALSE]

UserEvent == ~rf.disabled /\ ~timer_flag

IgnoreUserEvent ==
  /\ UserEvent /\ state # "Idle"
  /\ rf' = Seen
  /\ UNCHANGED <<smVars, pool, rx_queue, tm, max_attempts_flag, air_pid, acked>>

\* Mutant: a suspend request is not looked at in Idle.
OnIdleSends ==
  /\ state = "Idle"
  /\ SendNext(tx_idx, pool, Seen, pid)
  /\ UNCHANGED <<attempts, pid, ack_rx_idx, rx_queue, tm, max_attempts_flag>>

OnIdle ==
  /\ state = "Idle"
  /\ IF suspend_requested
     THEN rf' = Seen /\ UNCHANGED <<state, tx_idx, pool, air_pid, acked>>
     ELSE SendNext(tx_idx, pool, Seen, pid)
  /\ UNCHANGED <<attempts, pid, ack_rx_idx, rx_queue, tm, max_attempts_flag>>

OnTxNoAck ==
  /\ state = "TxNoAck" /\ ~UserEvent
  /\ FinishPacket(pool, IntOff(Seen))
  /\ UNCHANGED <<attempts, ack_rx_idx, rx_queue, tm, max_attempts_flag>>

\* TX END: listen for the ACK, or give up for now when no buffer is free.
OnTx ==
  /\ state = "Tx" /\ ~UserEvent
  /\ \/ /\ \E i \in RxToDmaChoice(pool) :
             /\ pool' = ToDma(pool, i) /\ ack_rx_idx' = i
             /\ rf' = PrepareForAck(Seen, i)
        /\ state' = "WaitAck" /\ tm' = ArmBoth(tm)
     \/ /\ RxToDmaChoice(pool) = {}
        /\ rf' = Stop(Seen) /\ state' = "Idle"
        /\ UNCHANGED <<pool, ack_rx_idx, tm>>
  /\ UNCHANGED <<attempts, pid, tx_idx, rx_queue, max_attempts_flag, air_pid, acked>>

\* A reception ended with a good CRC.  The received length, zero or not, is
\* the peer's choice.  ack_rx_idx keeps its value after rx_complete.
OnAck ==
  /\ state = "WaitAck" /\ rf.disabled /\ rf.crcok
  /\ tm' = DisarmRetransmit(DisarmAckTimeout(tm))
  /\ \E hasPayload \in AckPayloads :
       IF hasPayload /\ ack_rx_idx # NoIdx
       THEN /\ rx_queue' = RxSend(rx_queue, ack_rx_idx)
            /\ FinishPacket(RxComplete(pool, ack_rx_idx), Stop(Seen))
            /\ UNCHANGED ack_rx_idx
       ELSE /\ FinishPacket(Release(pool, ack_rx_idx), Stop(Seen))
            /\ ack_rx_idx' = NoIdx
            /\ UNCHANGED rx_queue
  /\ attempts' = 0
  /\ UNCHANGED max_attempts_flag

\* A bad CRC, or no DISABLED but the timer: retransmit later or drop.  Only
\* the ACK timeout is disarmed, the retransmit timer keeps counting.
OnNoAck ==
  /\ state = "WaitAck" /\ ~UserEvent /\ ~(rf.disabled /\ rf.crcok)
  /\ tm' = DisarmAckTimeout(tm)
  /\ ack_rx_idx' = NoIdx
  /\ LET p == Release(pool, ack_rx_idx)
         r == Stop(Seen)
     IN  IF attempts + 1 >= MaxAttempts
         THEN /\ FinishPacket(p, r)
              /\ attempts' = 0 /\ max_attempts_flag' = TRUE
         ELSE /\ state' = "WaitRetransmit" /\ attempts' = attempts + 1
              /\ rf' = r /\ pool' = p
              /\ UNCHANGED <<pid, tx_idx, max_attempts_flag, air_pid, acked>>
  /\ UNCHANGED rx_queue

OnWaitRetransmit ==
  /\ state = "WaitRetransmit" /\ ~UserEvent
  /\ IF tx_idx # NoIdx
     THEN rf' = Transmit(Seen, tx_idx, TRUE) /\ state' = "Tx"
     ELSE rf' = IntOff(Seen) /\ state' = "Idle"
  /\ UNCHANGED <<attempts, pid, tx_idx, ack_rx_idx, pool, rx_queue, tm,
                 max_attempts_flag, air_pid, acked>>

\* EsbPtx::on_radio_interrupt: load and clear timer_flag, run the state
\* machine, wake a waiting suspend, unpend.
RadioIsr(Handler) ==
  /\ RadioReady
  /\ Handler
  /\ timer_flag' = FALSE
  /\ suspend_signal' = IF /\ suspend_requested /\ state' = "Idle"
                          /\ suspend_signal = "registered"
                       THEN "woken" ELSE suspend_signal
  /\ nvic' = UnpendRadio(nvic, rf')
  /\ UNCHANGED <<suspend_requested, saved, no_ack, taskVars>>

\* EsbPtx::on_timer_interrupt: the flag is set whatever has fired.
TimerIsr ==
  /\ TimerReady
  /\ timer_flag' = TRUE
  /\ LET t == IF tm.cc0 = "fired" THEN DisarmRetransmit(tm) ELSE tm
     IN  tm' = IF t.cc1 = "fired" THEN DisarmAckTimeout(t) ELSE t
  /\ nvic' = [radio |-> TRUE, timer |-> FALSE]
  /\ UNCHANGED <<poolVars, smVars, max_attempts_flag, suspend_requested,
                 suspend_signal, saved, no_ack, rf, taskVars, air_pid, acked>>

-----------------------------------------------------------------------------
(* Time and the peer: a tick counts the TIMER on, may end a transmission   *)
(* and may end a reception, with a good or a bad CRC.                      *)

Tick ==
  /\ ~nvic.radio /\ ~nvic.timer
  /\ tm.running \/ rf.mode = "tx"
  /\ tm' = Count(tm)
  /\ \/ /\ rf.mode # "tx"
        /\ UNCHANGED <<rf, acked>>
     \/ /\ rf.mode = "tx"
        /\ rf' = IF rf.left <= 1 THEN TxEnd(rf) ELSE [rf EXCEPT !.left = @ - 1]
        /\ UNCHANGED acked
     \/ /\ rf.mode = "rx" /\ tm'.count \in RxEndTicks
        /\ \E ok \in BOOLEAN : rf' = RxEnd(rf, ok) /\ acked' = (acked \/ ok)
  /\ nvic' = [radio |-> Line(rf'),
              timer |-> tm'.cc0 = "fired" \/ tm'.cc1 = "fired"]
  /\ UNCHANGED <<poolVars, smVars, timer_flag, max_attempts_flag,
                 suspend_requested, suspend_signal, saved, no_ack, taskVars,
                 air_pid>>

-----------------------------------------------------------------------------
(* Tasks.  A task runs when no interrupt is due.                           *)

ThreadRuns == ~RadioReady /\ ~TimerReady

ControlYields == ctl \in {"idle", "wait", "suspended"}

driverVars == <<timer_flag, max_attempts_flag, suspend_requested,
                suspend_signal, saved>>

\* send_to, send_no_ack_to: allocate and fill a buffer (TxFull when none) ...
SendAlloc ==
  /\ ThreadRuns /\ ControlYields /\ sender = "idle"
  /\ Cardinality(FreeBufs(pool)) > Reserve
  /\ \E i \in AllocTxChoice(pool), na \in NoAckKinds :
       /\ pool' = AllocTx(pool, i) /\ send_idx' = i
       /\ no_ack' = [no_ack EXCEPT ![i] = na]
  /\ sender' = "alloc"
  /\ UNCHANGED <<rx_queue, smVars, driverVars, hwVars, ctl, held, air_pid, acked>>

\* ... enqueue it ...
SendEnqueue ==
  /\ ThreadRuns /\ sender = "alloc"
  /\ pool' = EnqueueTx(pool, send_idx)
  /\ sender' = "queued" /\ send_idx' = NoIdx
  /\ UNCHANGED <<rx_queue, smVars, driverVars, no_ack, hwVars, ctl, held, air_pid, acked>>

\* ... and trigger the RADIO handler.
SendTrigger ==
  /\ ThreadRuns /\ sender = "queued"
  /\ nvic' = PendRadio(nvic)
  /\ sender' = "idle"
  /\ UNCHANGED <<poolVars, smVars, driverVars, no_ack, rf, tm, ctl, send_idx,
                 held, air_pid, acked>>

\* receive, try_receive: take an ACK payload; dropping it frees the buffer.
Receive ==
  /\ ThreadRuns /\ ControlYields /\ sender = "idle" /\ rx_queue # <<>>
  /\ held' = held \cup {Head(rx_queue)} /\ rx_queue' = Tail(rx_queue)
  /\ UNCHANGED <<pool, smVars, driverVars, no_ack, hwVars, ctl, sender,
                 send_idx, air_pid, acked>>

DropReceived ==
  /\ ThreadRuns /\ ControlYields /\ sender = "idle"
  /\ \E i \in held : pool' = Release(pool, i) /\ held' = held \ {i}
  /\ UNCHANGED <<rx_queue, smVars, driverVars, no_ack, hwVars, ctl, sender,
                 send_idx, air_pid, acked>>

\* max_attempts_reached: read and clear
TakeMaxAttempts ==
  /\ ThreadRuns /\ ControlYields /\ sender = "idle" /\ max_attempts_flag
  /\ max_attempts_flag' = FALSE
  /\ UNCHANGED <<poolVars, smVars, timer_flag, suspend_requested,
                 suspend_signal, saved, no_ack, hwVars, taskVars, air_pid, acked>>

-----------------------------------------------------------------------------
(* The control task.  A call that masks the RADIO interrupt is two steps:  *)
(* mask, then body and unmask, so that events can come in between.         *)

ControlRuns == ThreadRuns /\ sender = "idle"

\* A step that only moves the control task
Move(from, to) ==
  /\ ControlRuns /\ ctl = from /\ ctl' = to
  /\ UNCHANGED <<poolVars, smVars, driverVars, no_ack, hwVars, sender,
                 send_idx, held, air_pid, acked>>

BeginCall ==
  \/ "set_pipe" \in Calls /\ Move("idle", "set_pipe")
  \/ "query" \in Calls /\ Move("idle", "query")
  \/ "try_suspend" \in Calls /\ Move("idle", "try")
  \/ "suspend" \in Calls /\ Move("idle", "fast")

\* set_pipe: the pipe itself only matters to later sends; then unpend.
SetPipe ==
  /\ ControlRuns /\ ctl = "set_pipe" /\ ctl' = "idle"
  /\ nvic' = UnpendRadio(nvic, rf)
  /\ UNCHANGED <<poolVars, smVars, driverVars, no_ack, rf, tm, sender,
                 send_idx, held, air_pid, acked>>

Query == Move("query", "idle")

\* PtxStateMachine::do_suspend, then unpend with the interrupt kept masked
DoSuspend ==
  /\ IF state = "Idle"
     THEN saved' = "Idle" /\ UNCHANGED pool
     ELSE saved' = "ForcedIdle" /\ pool' = Release(Release(pool, tx_idx), ack_rx_idx)
  /\ rf' = Stop(rf)
  /\ tm' = DisarmAckTimeout(DisarmRetransmit(StopTimer(tm)))
  /\ state' = "Idle" /\ attempts' = 0
  /\ tx_idx' = NoIdx /\ ack_rx_idx' = NoIdx
  /\ nvic' = UnpendRadio(nvic, rf')

\* The step that ends a suspend call from control state c
Suspend(c) ==
  /\ ControlRuns /\ ctl = c /\ ctl' = "suspended"
  /\ DoSuspend
  /\ suspend_requested' = FALSE      \* SuspendRequestGuard dropped, if any
  /\ UNCHANGED <<rx_queue, pid, timer_flag, max_attempts_flag, suspend_signal,
                 no_ack, sender, send_idx, held, air_pid, acked>>

\* The masked state check of try_suspend, of suspend's first attempt and of
\* its re-check: do_suspend when idle, else go on from control state busy.
SuspendIfIdle(c, busy) ==
  \/ state = "Idle" /\ Suspend(c)
  \/ state # "Idle" /\ Move(c, busy)

TrySuspend == SuspendIfIdle("try", "idle")

SuspendFast == SuspendIfIdle("fast", "busy")

RequestSuspend ==
  /\ ControlRuns /\ ctl = "busy" /\ ctl' = "flagged"
  /\ suspend_requested' = TRUE
  /\ UNCHANGED <<poolVars, smVars, timer_flag, max_attempts_flag,
                 suspend_signal, saved, no_ack, hwVars, sender, send_idx, held,
                 air_pid, acked>>

SuspendRecheck ==
  \/ Move("flagged", "recheck")
  \/ SuspendIfIdle("recheck", "poll")

\* Mutant: the state is not read again once the waker is registered.
PollRegisterOnly ==
  /\ ControlRuns /\ ctl = "poll" /\ ctl' = "wait"
  /\ suspend_signal' = "registered"
  /\ UNCHANGED <<poolVars, smVars, timer_flag, max_attempts_flag,
                 suspend_requested, saved, no_ack, hwVars, sender, send_idx,
                 held, air_pid, acked>>

\* poll_fn: register the waker, then read the state under the mask.
PollRegister ==
  /\ ControlRuns /\ ctl = "poll" /\ ctl' = "registered"
  /\ suspend_signal' = "registered"
  /\ UNCHANGED <<poolVars, smVars, timer_flag, max_attempts_flag,
                 suspend_requested, saved, no_ack, hwVars, sender, send_idx,
                 held, air_pid, acked>>

PollRead ==
  \/ Move("registered", "read")
  \/ state = "Idle" /\ Move("read", "ready")
  \/ state # "Idle" /\ Move("read", "wait")

PollAgain ==
  /\ ControlRuns /\ ctl = "wait" /\ suspend_signal = "woken"
  /\ ctl' = "poll" /\ suspend_signal' = "none"
  /\ UNCHANGED <<poolVars, smVars, timer_flag, max_attempts_flag,
                 suspend_requested, saved, no_ack, hwVars, sender, send_idx,
                 held, air_pid, acked>>

SuspendFinal ==
  \/ Move("ready", "final")
  \/ Suspend("final")

\* The future is dropped while it waits: the guard withdraws the request.
CancelSuspend ==
  /\ ControlRuns /\ ctl = "wait" /\ ctl' = "idle"
  /\ suspend_requested' = FALSE
  /\ UNCHANGED <<poolVars, smVars, timer_flag, max_attempts_flag,
                 suspend_signal, saved, no_ack, hwVars, sender, send_idx, held,
                 air_pid, acked>>

\* do_restore: power cycle and re-initialise
DoRestore == rf' = RadioReset /\ state' = "Idle" /\ saved' = "none"

\* restore: also unpend and unmask; nothing is sent.
Restore ==
  /\ ControlRuns /\ ctl = "suspended" /\ ctl' = "idle"
  /\ DoRestore
  /\ suspend_requested' = FALSE
  /\ nvic' = UnpendRadio(nvic, rf')
  /\ UNCHANGED <<poolVars, attempts, pid, tx_idx, ack_rx_idx, timer_flag,
                 max_attempts_flag, suspend_signal, no_ack, tm, sender,
                 send_idx, held, air_pid, acked>>

-----------------------------------------------------------------------------
Isr ==
  \/ RadioIsr(IgnoreUserEvent) \/ RadioIsr(OnIdle) \/ RadioIsr(OnTxNoAck)
  \/ RadioIsr(OnTx) \/ RadioIsr(OnAck) \/ RadioIsr(OnNoAck)
  \/ RadioIsr(OnWaitRetransmit) \/ TimerIsr

Sending == SendAlloc \/ SendEnqueue \/ SendTrigger

Receiving == Receive \/ DropReceived \/ TakeMaxAttempts

\* What the control task does once it has made a call
Control ==
  \/ SetPipe \/ Query \/ TrySuspend \/ SuspendFast \/ RequestSuspend
  \/ SuspendRecheck \/ PollRegister \/ PollRead \/ PollAgain \/ SuspendFinal

Next ==
  \/ Isr \/ Tick \/ Sending \/ Receiving
  \/ BeginCall \/ Control \/ CancelSuspend \/ Restore

Spec == Init /\ [][Next]_vars

\* Interrupts are taken, time passes, the executor polls its ready tasks, and
\* the application keeps sending, consumes what it receives and restores.
Fairness ==
  /\ WF_vars(Isr) /\ WF_vars(Tick)
  /\ WF_vars(Sending) /\ WF_vars(Receive) /\ WF_vars(DropReceived)
  /\ WF_vars(Control) /\ WF_vars(Restore)

FairSpec == Spec /\ Fairness

-----------------------------------------------------------------------------
(* Properties                                                              *)

RadioType ==
  [mode : {"off", "tx", "rx"}, dma : Opt, left : 0 .. TxTicks,
   rxen : BOOLEAN, disabled : BOOLEAN, inten : BOOLEAN, crcok : BOOLEAN]

CompareState == {"off", "armed", "fired"}

TimerType ==
  [running : BOOLEAN, count : Nat, cc0 : CompareState, cc1 : CompareState]

\* Every variable holds a value of the kind its Rust field or register holds.
TypeOK ==
  /\ pool \in [Buf -> BufState] /\ rx_queue \in Seq(Buf)
  /\ state \in StatePtx /\ attempts \in Nat /\ pid \in 0 .. 3
  /\ tx_idx \in Opt /\ ack_rx_idx \in Opt
  /\ timer_flag \in BOOLEAN /\ max_attempts_flag \in BOOLEAN
  /\ suspend_requested \in BOOLEAN
  /\ suspend_signal \in {"none", "registered", "woken"}
  /\ saved \in {"none", "Idle", "ForcedIdle"}
  /\ no_ack \in [Buf -> BOOLEAN]
  /\ rf \in RadioType /\ tm \in TimerType
  /\ nvic \in [radio : BOOLEAN, timer : BOOLEAN]
  /\ ctl \in MaskedCtl \cup {"idle", "busy", "flagged", "poll", "registered",
                              "wait", "ready"}
  /\ sender \in {"idle", "alloc", "queued"} /\ send_idx \in Opt
  /\ held \subseteq Buf
  /\ air_pid \in -1 .. 3 /\ acked \in BOOLEAN

\* The buffers the state machine works on are in DMA ownership.
MachineOwns ==
  /\ state # "Idle" => tx_idx # NoIdx
  /\ tx_idx # NoIdx => pool[tx_idx] = "in_dma"
  /\ state = "WaitAck" =>
       ack_rx_idx \in Buf \ {tx_idx} /\ pool[ack_rx_idx] = "in_dma"

\* The buffer a send fills is allocated to it.
SenderOwns ==
  /\ sender = "alloc" => send_idx # NoIdx
  /\ send_idx # NoIdx => pool[send_idx] = "tx_allocated"

\* A received buffer is queued once or held by the application, not both.
ReceiverOwns ==
  /\ \A i \in held : pool[i] = "rx_queued"
  /\ \A k \in 1 .. Len(rx_queue) :
       /\ pool[rx_queue[k]] = "rx_queued" /\ rx_queue[k] \notin held
       /\ \A l \in 1 .. Len(rx_queue) : rx_queue[k] = rx_queue[l] => k = l

\* No two owners hold a buffer: the state machine, the sending task, the
\* receive queue and the application each hold buffers in the pool state
\* that is theirs (payload.rs:13, "no data race between the ISR and
\* application context").
OneOwner == MachineOwns /\ SenderOwns /\ ReceiverOwns

\* A received buffer always has someone who will free it: rx_complete's
\* try_send, whose result is ignored, never finds the channel full.
NoLostReception ==
  InState(pool, "rx_queued") = held \cup {rx_queue[k] : k \in 1 .. Len(rx_queue)}

\* EasyDMA never works on a buffer the pool has given to someone else.
DmaOwned == rf.dma # NoIdx => pool[rf.dma] = "in_dma"

\* A buffer in DMA ownership is one the state machine will release.
NoLeak ==
  \A i \in Buf : pool[i] = "in_dma" =>
    i = tx_idx \/ (state = "WaitAck" /\ i = ack_rx_idx)

\* suspend and try_suspend never cut a transaction short: the saved state
\* is never ForcedIdle, however the handler interleaves with the call.
SuspendNeverForces == saved # "ForcedIdle"

\* Between suspend and restore the radio and its timer are silent and no
\* interrupt is left that could start them: another stack may use them.
QuietWhileSuspended ==
  ctl = "suspended" =>
    /\ state = "Idle" /\ rf.mode = "off" /\ ~rf.inten /\ ~rf.disabled
    /\ ~tm.running /\ tm.cc0 = "off" /\ tm.cc1 = "off"

\* A packet never goes on air with the PID of the packet before it, which the
\* receiver would take for a retransmission of that packet.
PidFresh ==
  [][\A i \in Buf : pool[i] = "tx_queued" /\ pool'[i] = "in_dma"
                     => air_pid' # air_pid]_vars

\* The packet in flight is acknowledged or dropped in the end.
InFlightCompletes == \A i \in Buf : tx_idx = i ~> tx_idx # i

\* suspend() returns: no wake-up of the waiting task is lost.
SuspendReturns == ctl = "busy" ~> ctl \in {"suspended", "idle"}
=============================================================================
