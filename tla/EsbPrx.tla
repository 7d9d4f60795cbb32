------------------------------- MODULE EsbPrx -------------------------------
(***************************************************************************)
(* The exclusive-mode PRX driver: the wrapper EsbPrx of src/src/isr.rs     *)
(* around the PRX state machine, with the RADIO interrupt and the tasks.   *)
(*                                                                         *)
(* Actors: the RADIO interrupt handler, the radio and the peers, a task    *)
(* that queues ACK payloads, a receiving task, and a control task that     *)
(* calls start_listening, stop, try_suspend, suspend and restore.  PRX     *)
(* arms no timer, so its TIMER interrupt never comes.  The radio moves on  *)
(* only when no RADIO interrupt is pending: the handler is run within the  *)
(* ramp-up that follows EVENTS_DISABLED ("Missed TX window").              *)
(***************************************************************************)
EXTENDS PrxStateMachine

CONSTANTS
  AckPipes,        \* pipes the application queues ACK payloads for
  Calls            \* control calls the application makes

ASSUME EsbPrxAssumption ==
  /\ AckPipes \subseteq Pipes
  /\ Calls \subseteq {"stop", "try_suspend", "suspend"}

VARIABLES
  \* EsbPrx: atomics, suspend waker, the state handed out by suspend
  suspend_requested, suspend_signal, saved,
  \* RADIO pending in the NVIC
  pending,
  \* control task, whether it has PRX listening, ACK task, packets held
  ctl, listening, sender, send_idx, held

driverVars == <<suspend_requested, suspend_signal, saved>>
vars == <<prxVars, driverVars, pending, ctl, listening, sender, send_idx, held>>

EsbPrxInit ==
  /\ Init /\ timeslot_managed = FALSE
  /\ suspend_requested = FALSE /\ suspend_signal = "none"
  /\ saved = [p \in Pipes |-> NoLast]
  /\ pending = FALSE /\ listening = FALSE
  /\ ctl = "idle" /\ sender = "idle" /\ send_idx = NoIdx /\ held = {}

MaskedCtl == {"listen", "stop", "try", "fast", "recheck", "read", "final",
              "suspended"}

RadioReady == pending /\ ctl \notin MaskedCtl

\* The pending bit is latched; unpend clears it unless the line is high.
Line(r) == r.disabled /\ r.inten

Suspendable == state \in {"Idle", "Receiver"}

-----------------------------------------------------------------------------
\* on_radio_interrupt: run the state machine, wake a waiting suspend, unpend.
RadioIsr ==
  /\ RadioReady
  /\ HandleRadioEvent
  /\ suspend_signal' = IF /\ suspend_requested /\ Suspendable'
                          /\ suspend_signal = "registered"
                       THEN "woken" ELSE suspend_signal
  /\ pending' = Line(rf')
  /\ UNCHANGED <<suspend_requested, saved, ctl, listening, sender, send_idx, held>>

Radio ==
  /\ ~pending
  /\ \/ AckEnd
     \/ \E p \in Pipes : Receive(p) \/ Miss(p)
  /\ pending' = Line(rf')
  /\ UNCHANGED <<driverVars, ctl, listening, sender, send_idx, held>>

-----------------------------------------------------------------------------
(* Tasks.  A task runs when no interrupt is due; the tasks share one       *)
(* executor and interleave at awaits only.                                 *)

ControlYields == ctl \in {"idle", "wait", "suspended"}

\* send_ack_payload: allocate and fill a buffer for a pipe ...
SendAlloc ==
  /\ ~RadioReady /\ ControlYields /\ sender = "idle"
  /\ \E i \in AllocTxChoice(pool), p \in AckPipes :
       /\ pool' = AllocTx(pool, i) /\ send_idx' = i
       /\ hdr' = [hdr EXCEPT ![i].pipe = p, ![i].no_ack = FALSE]
  /\ sender' = "alloc"
  /\ UNCHANGED <<rx_queue, smVars, rf, peerVars, got, driverVars, pending, ctl,
                 listening, held>>

\* ... and enqueue it; the radio is not triggered.
SendEnqueue ==
  /\ ~RadioReady /\ sender = "alloc"
  /\ pool' = EnqueueTx(pool, send_idx)
  /\ sender' = "idle" /\ send_idx' = NoIdx
  /\ UNCHANGED <<rx_queue, smVars, hdr, rf, peerVars, got, driverVars, pending,
                 ctl, listening, held>>

\* receive: take a packet; dropping it frees the buffer.
ReceivePacket ==
  /\ ~RadioReady /\ ControlYields /\ sender = "idle" /\ rx_queue # <<>>
  /\ held' = held \cup {Head(rx_queue)} /\ rx_queue' = Tail(rx_queue)
  /\ UNCHANGED <<pool, smVars, hdr, rf, peerVars, got, driverVars, pending, ctl,
                 listening, sender, send_idx>>

DropReceived ==
  /\ ~RadioReady /\ ControlYields /\ sender = "idle"
  /\ \E i \in held : pool' = Release(pool, i) /\ held' = held \ {i}
  /\ UNCHANGED <<rx_queue, smVars, hdr, rf, peerVars, got, driverVars, pending,
                 ctl, listening, sender, send_idx>>

-----------------------------------------------------------------------------
(* The control task.  A masked section is two steps: mask, then body and   *)
(* unmask.                                                                 *)

ControlRuns == ~RadioReady /\ sender = "idle"

Move(from, to) ==
  /\ ControlRuns /\ ctl = from /\ ctl' = to
  /\ UNCHANGED <<prxVars, driverVars, pending, listening, sender, send_idx, held>>

BeginCall ==
  \/ "stop" \in Calls /\ Move("idle", "stop")
  \/ "try_suspend" \in Calls /\ Move("idle", "try")
  \/ "suspend" \in Calls /\ Move("idle", "fast")

\* The examples call start_listening when they are not listening.
BeginListen == ~listening /\ Move("idle", "listen")

Listen ==
  /\ ControlRuns /\ ctl = "listen" /\ ctl' = "idle"
  /\ StartListening
  /\ pending' = Line(rf')
  /\ listening' = (state' # "Idle")
  /\ UNCHANGED <<rx_queue, pending_rx_idx, ack_tx_idx, timeslot_managed, last, hdr,
                 peerVars, got, driverVars, sender, send_idx, held>>

\* Mutant: the interrupt is not unpended.
StopKeepsPending ==
  /\ ControlRuns /\ ctl = "stop" /\ ctl' = "idle"
  /\ StopReceiving
  /\ listening' = FALSE
  /\ UNCHANGED <<timeslot_managed, driverVars, pending, sender, send_idx, held>>

StopCall ==
  /\ ControlRuns /\ ctl = "stop" /\ ctl' = "idle"
  /\ StopReceiving
  /\ pending' = Line(rf') /\ listening' = FALSE
  /\ UNCHANGED <<timeslot_managed, driverVars, sender, send_idx, held>>

\* The step that ends a suspend call from control state c: do_suspend hands
\* out the duplicate detection state, the interrupt stays masked.
Suspend(c) ==
  /\ ControlRuns /\ ctl = c /\ ctl' = "suspended"
  /\ StopReceiving
  /\ saved' = last
  /\ pending' = Line(rf') /\ listening' = FALSE
  /\ suspend_requested' = FALSE
  /\ UNCHANGED <<timeslot_managed, suspend_signal, sender, send_idx, held>>

SuspendIfSuspendable(c, busy) ==
  \/ Suspendable /\ Suspend(c)
  \/ ~Suspendable /\ Move(c, busy)

TrySuspend == SuspendIfSuspendable("try", "idle")

SuspendFast == SuspendIfSuspendable("fast", "busy")

RequestSuspend ==
  /\ ControlRuns /\ ctl = "busy" /\ ctl' = "flagged"
  /\ suspend_requested' = TRUE
  /\ UNCHANGED <<prxVars, suspend_signal, saved, pending, listening, sender,
                 send_idx, held>>

SuspendRecheck ==
  \/ Move("flagged", "recheck")
  \/ SuspendIfSuspendable("recheck", "poll")

\* Mutant: the state is not read again once the waker is registered.
PollRegisterOnly ==
  /\ ControlRuns /\ ctl = "poll" /\ ctl' = "wait"
  /\ suspend_signal' = "registered"
  /\ UNCHANGED <<prxVars, suspend_requested, saved, pending, listening, sender,
                 send_idx, held>>

\* poll_fn: register the waker, then read the state under the mask.
PollRegister ==
  /\ ControlRuns /\ ctl = "poll" /\ ctl' = "registered"
  /\ suspend_signal' = "registered"
  /\ UNCHANGED <<prxVars, suspend_requested, saved, pending, listening, sender,
                 send_idx, held>>

PollRead ==
  \/ Move("registered", "read")
  \/ Suspendable /\ Move("read", "ready")
  \/ ~Suspendable /\ Move("read", "wait")

PollAgain ==
  /\ ControlRuns /\ ctl = "wait" /\ suspend_signal = "woken"
  /\ ctl' = "poll" /\ suspend_signal' = "none"
  /\ UNCHANGED <<prxVars, suspend_requested, saved, pending, listening, sender,
                 send_idx, held>>

\* The state is not looked at again under the last mask.
SuspendFinal ==
  \/ Move("ready", "final")
  \/ Suspend("final")

CancelSuspend ==
  /\ ControlRuns /\ ctl = "wait" /\ ctl' = "idle"
  /\ suspend_requested' = FALSE
  /\ UNCHANGED <<prxVars, suspend_signal, saved, pending, listening, sender,
                 send_idx, held>>

\* Mutant: the duplicate detection state starts afresh.
RestoredNothing == [p \in Pipes |-> NoLast]

\* restore_pid_state, restore_crc_state, restore_detection_valid_state
Restored == saved

\* do_restore: power cycle and re-initialise
DoRestore == rf' = RadioReset /\ state' = "Idle" /\ last' = Restored

\* restore: start_listening is up to the caller.
Restore ==
  /\ ControlRuns /\ ctl = "suspended" /\ ctl' = "idle"
  /\ DoRestore
  /\ suspend_requested' = FALSE
  /\ pending' = Line(rf')
  /\ UNCHANGED <<poolVars, rx_idx, pending_rx_idx, ack_tx_idx, timeslot_managed,
                 hdr, peerVars, got, suspend_signal, saved, listening, sender,
                 send_idx, held>>

-----------------------------------------------------------------------------
Sending == SendAlloc \/ SendEnqueue

\* What the control task does once it has made a call
Control ==
  \/ Listen \/ StopCall \/ TrySuspend \/ SuspendFast \/ RequestSuspend
  \/ SuspendRecheck \/ PollRegister \/ PollRead \/ PollAgain \/ SuspendFinal

Next ==
  \/ RadioIsr \/ Radio \/ Sending \/ ReceivePacket \/ DropReceived
  \/ BeginCall \/ BeginListen \/ Control \/ CancelSuspend \/ Restore

Spec == EsbPrxInit /\ [][Next]_vars

AckEnds == Radio /\ rf.mode = "tx"

\* Interrupts are taken, an ACK ends, the executor polls its ready tasks and
\* the application consumes what it receives and restores.
Fairness ==
  /\ WF_vars(RadioIsr) /\ WF_vars(AckEnds)
  /\ WF_vars(SendEnqueue) /\ WF_vars(ReceivePacket) /\ WF_vars(DropReceived)
  /\ WF_vars(Control) /\ WF_vars(Restore)

FairSpec == Spec /\ Fairness

-----------------------------------------------------------------------------
(* Properties                                                              *)

RadioType ==
  [mode : {"off", "rx", "tx"}, ptr : Opt, txen : BOOLEAN, rxen : BOOLEAN,
   disabled : BOOLEAN, inten : BOOLEAN, crcok : BOOLEAN, rxmatch : Pipes,
   txaddress : Pipes]

LastType == [valid : BOOLEAN, pid : 0 .. 3, crc : (0 .. 3) \X BOOLEAN]

\* Every variable holds a value of the kind its Rust field or register holds.
TypeOK ==
  /\ pool \in [Buf -> BufState] /\ rx_queue \in Seq(Buf)
  /\ state \in StatePrx
  /\ rx_idx \in Opt /\ pending_rx_idx \in Opt /\ ack_tx_idx \in Opt
  /\ timeslot_managed \in BOOLEAN
  /\ last \in [Pipes -> LastType] /\ saved \in [Pipes -> LastType]
  /\ hdr \in [Buf -> [pipe : Pipes, seq : 0 .. MaxSeq, no_ack : BOOLEAN]]
  /\ rf \in RadioType
  /\ sent \in [Pipes -> -1 .. MaxSeq] /\ heard \in [Pipes -> -1 .. MaxSeq]
  /\ got \in [Pipes -> -1 .. MaxSeq] /\ sent_no_ack \in [Pipes -> BOOLEAN]
  /\ suspend_requested \in BOOLEAN
  /\ suspend_signal \in {"none", "registered", "woken"}
  /\ pending \in BOOLEAN /\ listening \in BOOLEAN
  /\ ctl \in MaskedCtl \cup {"idle", "busy", "flagged", "poll", "registered",
                              "wait", "ready"}
  /\ sender \in {"idle", "alloc"} /\ send_idx \in Opt
  /\ held \subseteq Buf

\* The state machine's indices name distinct buffers in DMA ownership, as its
\* state requires, and name every buffer that is: none is lost, whatever path a
\* packet, an ACK payload or a stop has taken.  Each received buffer is in the
\* queue once or held by the application.
BuffersKnown ==
  /\ state = "Receiver" <=> rx_idx # NoIdx
  /\ state = "TxAck" <=> pending_rx_idx # NoIdx
  /\ state # "TxAck" => ack_tx_idx = NoIdx
  /\ pending_rx_idx # NoIdx => pending_rx_idx # ack_tx_idx
  /\ InState(pool, "in_dma") = {rx_idx, pending_rx_idx, ack_tx_idx} \ {NoIdx}
  /\ InState(pool, "rx_queued") = held \cup {rx_queue[k] : k \in 1 .. Len(rx_queue)}
  /\ \A k, l \in 1 .. Len(rx_queue) : rx_queue[k] = rx_queue[l] => k = l
  /\ \A k \in 1 .. Len(rx_queue) : rx_queue[k] \notin held

\* While the radio works, EasyDMA works on a buffer of the state machine or
\* on the fallback ACK, and it receives into its RX buffer only.
DmaOwned ==
  /\ rf.mode # "off" /\ rf.ptr # Fallback => pool[rf.ptr] = "in_dma"
  /\ rf.mode = "rx" /\ ~pending => state = "Receiver" /\ rf.ptr = rx_idx

\* An ACK goes to the pipe of the packet it acknowledges, and an ACK payload
\* only to the pipe it was queued for (isr.rs:819, "a payload queued for pipe
\* 1 cannot be consumed by a packet received on pipe 0").
AckToItsPipe ==
  state = "TxAck" =>
    /\ rf.txaddress = hdr[pending_rx_idx].pipe
    /\ ack_tx_idx # NoIdx => hdr[ack_tx_idx].pipe = rf.txaddress

\* The application gets the packets of a pipe in order and none twice,
\* across retransmissions, stop, and suspend and restore.
DeliveredOnce ==
  [][Len(rx_queue') > Len(rx_queue) =>
       LET m == hdr'[rx_queue'[Len(rx_queue')]] IN m.seq > got[m.pipe]]_vars

\* The packet of pipe p that the duplicate filter has accepted last
Accepted(p) == IF last[p].valid THEN last[p].pid ELSE -1

\* The driver refines PacketReception with the duplicate filter for what is
\* accepted: through repeats, lost ACKs, stop, and suspend and restore, whose
\* state is handed to the application and back, a packet is accepted once and
\* handed out once, and only what has been accepted is acknowledged.
Reception == INSTANCE PacketReception
             WITH accepted <- [p \in Pipes |-> Accepted(p)]

ReceptionSafe == Reception!Spec

\* A packet whose ACK the peer has heard has been given to the application
\* or will be when the ACK's end is handled.
AckedIsDelivered ==
  \A p \in Pipes : heard[p] > got[p] =>
    /\ state = "TxAck" /\ hdr[pending_rx_idx].pipe = p
    /\ hdr[pending_rx_idx].seq = heard[p]

\* After stop or suspend the radio stays off until start_listening: no
\* interrupt that was latched in the masked section starts it again.
StaysStopped == ~listening /\ ctl # "listen" => state = "Idle" /\ rf.mode = "off"

\* A task waiting in suspend() is woken once the state allows it to go on, at
\* whatever point of its poll the ACK ended: no wake-up is lost.
NoLostWakeup == ctl = "wait" /\ Suspendable => suspend_signal = "woken"
=============================================================================
